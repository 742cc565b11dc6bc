-------------------------- MODULE Onboarding_proofs --------------------------
(***************************************************************************)
(* Theorems about Onboarding, for any number of requests, addresses, names *)
(* and invitations and any mixture of flows.                               *)
(*                                                                         *)
(* The argument is one of rely and guarantee.  Good(f) is what a request   *)
(* may count on; Grows and Respects(g) are what every step promises to the *)
(* requests that do not take it, and they keep Good(g) whatever the step   *)
(* is.  What remains for each action is the request that takes it.         *)
(***************************************************************************)
EXTENDS Onboarding, TLAPS

(* What a row, or a request under way, says of the id a request generates. *)
Mentioned(g) ==
  \/ g \in TenantIds
  \/ \E e \in Email : user[e] # None /\ user[e].id = g
  \/ \E m \in member : m.user = g \/ m.tenant = g
  \/ subscription[g] # "none"
  \/ \E h \in Flow : flow[h].id = g \/ flow[h].tenant = g

(* Founding a workspace, as long as it is not done.                        *)
Unborn(g) == At(g, "idle") \/ (flow[g].base # None /\ ~At(g, "founded"))
LeavesNothing(g) == Unborn(g) => ~Mentioned(g)

Founding == {"slug", "tenant"} \cup HoldsSlug
Inviting == {"create", "profile", "enrol", "grant"}

(* What a request has brought along to where it is.                        *)
Carries(g) ==
  LET x == flow[g] IN
  /\ x.pc = "idle" => x = Idle
  /\ x.pc \in Steps \ {"revoke"} => x.email \in Email
  /\ x.pc \in {"validate", "found"} \cup Founding => x.base \in Base
  /\ x.pc \in {"tenant"} \cup HoldsSlug => x.slug \in Slug
  /\ x.pc \in {"validate", "redeem"} => x.invite \in Invite
  /\ x.pc \in Inviting => x.base = None /\ x.id \in Flow /\ x.tenant \in Flow
  /\ x.pc \in {"session", "profile", "enrol", "grant"} => user[x.email] # None

(* The rows that the transaction of a founder is to write are still free.  *)
Reserved(g) ==
  LET x == flow[g] IN
  /\ x.pc \in HoldsSlug => (x.met <=> tenant[x.slug] # None)
  /\ x.pc \in HoldsEmail => ~x.met /\ user[x.email] = None /\ x.email \notin person

(* The invitation that was read is, up to its end, the one that is stored. *)
ReadsInvitation(g) ==
  LET x == flow[g] IN
  x.pc = "revoke" \/ (x.pc = "commit" /\ x.invite # None) =>
    /\ x.invite \in Invite /\ x.read \in InvitationRow
    /\ invitation[x.invite] # None /\ invitation[x.invite].email = x.read.email
    /\ x.pc = "commit" => x.read.email = x.email

AtHome(f) ==
  At(f, "founded") =>
    /\ flow[f].email \in Email /\ flow[f].slug \in Slug
    /\ user[flow[f].email] # None /\ user[flow[f].email].id = f
    /\ flow[f].email \in person
    /\ tenant[flow[f].slug] = [id |-> f, name |-> f]
    /\ subscription[f] # "none"
    /\ \E m \in member : m.user = f /\ m.tenant = f

Spent(f) ==
  At(f, "founded") /\ flow[f].invite # None =>
    /\ flow[f].invite \in Invite /\ invitation[flow[f].invite] # None
    /\ invitation[flow[f].invite].email = flow[f].email
    /\ invitation[flow[f].invite].status # "pending"

Good(g) ==
  Carries(g) /\ Reserved(g) /\ ReadsInvitation(g) /\ LeavesNothing(g) /\ AtHome(g) /\ Spent(g)

(* Two transactions never hold the same key.                               *)
Apart(f, g) ==
  /\ flow[f].pc \in HoldsSlug /\ flow[g].pc \in HoldsSlug => flow[f].slug # flow[g].slug
  /\ flow[f].pc \in HoldsEmail /\ flow[g].pc \in HoldsEmail => flow[f].email # flow[g].email

(* Who has graduated has a user.                                           *)
GraduatesExist == \A e \in Email : request[e] = "graduated" => user[e] # None

IInv ==
  /\ TypeOK /\ GraduatesExist
  /\ \A f \in Flow : Good(f)
  /\ \A f \in Flow : \A g \in Flow \ {f} : Apart(f, g)

(* No step takes anything away from what is stored.                        *)
Grows ==
  /\ \A e \in Email : user[e] # None => user'[e] # None /\ user'[e].id = user[e].id
  /\ \A e \in Email :
       request'[e] = "graduated" => request[e] = "graduated" \/ user'[e] # None
  /\ person \subseteq person'
  /\ \A s \in Slug : tenant[s] # None => tenant'[s] = tenant[s]
  /\ \A t \in Flow : subscription[t] # "none" => subscription'[t] # "none"
  /\ \A m \in member : \E n \in member' : n.user = m.user /\ n.tenant = m.tenant
  /\ \A i \in Invite : invitation[i] # None =>
       /\ invitation'[i] # None /\ invitation'[i].email = invitation[i].email
       /\ invitation[i].status # "pending" => invitation'[i].status # "pending"

(* What a step leaves to a request that does not take it: the request, the *)
(* rows it has locked, and that nobody speaks of it.                       *)
Respects(g) ==
  /\ flow'[g] = flow[g]
  /\ flow[g].pc \in HoldsSlug => tenant'[flow[g].slug] = tenant[flow[g].slug]
  /\ flow[g].pc \in HoldsEmail =>
       /\ user'[flow[g].email] = user[flow[g].email]
       /\ flow[g].email \in person' => flow[g].email \in person
  /\ Mentioned(g)' => Mentioned(g)

----------------------------------------------------------------------------
(* Who is left alone stays well.                                           *)

LEMMA RespectedStaysGood ==
  ASSUME IInv, Grows, NEW g \in Flow, Respects(g)
  PROVE  Good(g)'
<1> DEFINE x == flow[g]
<1>1. x \in FlowState /\ flow'[g] = x /\ Good(g)
  BY DEF IInv, TypeOK, Respects
<1>2. Carries(g)'
  BY <1>1 DEF Good, Carries, Grows, FlowState, Steps
<1>3. Reserved(g)'
  <2>1. x.pc \in HoldsSlug => tenant'[x.slug] = tenant[x.slug]
    BY DEF Respects
  <2>2. x.pc \in HoldsEmail => user'[x.email] = user[x.email] /\ x.email \notin person'
    BY <1>1 DEF Respects, Good, Reserved
  <2> QED
    BY <1>1, <2>1, <2>2 DEF Good, Reserved
<1>4. ReadsInvitation(g)'
  BY <1>1 DEF Good, ReadsInvitation, Grows
<1>5. LeavesNothing(g)'
  BY <1>1 DEF Good, LeavesNothing, Unborn, Respects, At
<1>6. AtHome(g)'
  <2> SUFFICES ASSUME x.pc = "founded" PROVE AtHome(g)'
    BY <1>1 DEF AtHome, At
  <2>1. /\ x.email \in Email /\ x.slug \in Slug /\ x.email \in person
        /\ user[x.email] # None /\ user[x.email].id = g
        /\ tenant[x.slug] = [id |-> g, name |-> g] /\ subscription[g] # "none"
        /\ \E m \in member : m.user = g /\ m.tenant = g
    BY <1>1 DEF Good, AtHome, At
  <2>2. [id |-> g, name |-> g] # None
    BY RowAssumption DEF TenantRow
  <2>3. user'[x.email] # None /\ user'[x.email].id = g /\ x.email \in person'
    BY <2>1 DEF Grows
  <2>4. tenant'[x.slug] = [id |-> g, name |-> g] /\ subscription'[g] # "none"
    BY <2>1, <2>2 DEF Grows
  <2>5. \E m \in member' : m.user = g /\ m.tenant = g
    BY <2>1 DEF Grows
  <2> QED
    BY <1>1, <2>1, <2>3, <2>4, <2>5 DEF AtHome, At
<1>7. Spent(g)'
  BY <1>1 DEF Good, Spent, At, Grows
<1> QED
  BY <1>2, <1>3, <1>4, <1>5, <1>6, <1>7 DEF Good

(* A step of one request keeps the invariant if it leaves that request and *)
(* its keys in order.                                                      *)
LEMMA OneMoves ==
  ASSUME IInv, TypeOK', Grows, NEW f \in Flow, Good(f)',
         \A g \in Flow \ {f} : Respects(g) /\ Apart(f, g)'
  PROVE  IInv'
<1>1. \A g \in Flow : Good(g)'
  BY RespectedStaysGood
<1>2. ASSUME NEW g \in Flow, NEW h \in Flow \ {g} PROVE Apart(g, h)'
  <2>1. CASE g = f
    BY <2>1
  <2>2. CASE h = f
    BY <2>2 DEF Apart
  <2>3. CASE g # f /\ h # f
    BY <2>3 DEF Apart, Respects, IInv
  <2> QED
    BY <2>1, <2>2, <2>3
<1>3. GraduatesExist'
  BY DEF IInv, GraduatesExist, Grows
<1> QED
  BY <1>1, <1>2, <1>3 DEF IInv

(* A step of nobody keeps it if it leaves everybody alone.                 *)
LEMMA NobodyMoves ==
  ASSUME IInv, TypeOK', Grows, \A g \in Flow : Respects(g)
  PROVE  IInv'
<1>1. \A g \in Flow : Good(g)'
  BY RespectedStaysGood
<1>2. \A g \in Flow : \A h \in Flow \ {g} : Apart(g, h)'
  BY DEF Apart, Respects, IInv
<1>3. GraduatesExist'
  BY DEF IInv, GraduatesExist, Grows
<1> QED
  BY <1>1, <1>2, <1>3 DEF IInv

----------------------------------------------------------------------------
(* Steps that write no row.                                                *)

(* Where a request is does not say what it carries.                        *)
SameBut(f, p) ==
  /\ flow'[f].pc = p
  /\ flow'[f].email = flow[f].email /\ flow'[f].base = flow[f].base
  /\ flow'[f].slug = flow[f].slug /\ flow'[f].met = flow[f].met
  /\ flow'[f].invite = flow[f].invite /\ flow'[f].read = flow[f].read
  /\ flow'[f].id = flow[f].id /\ flow'[f].tenant = flow[f].tenant
  /\ flow'[f].role = flow[f].role /\ flow'[f].held = flow[f].held

OthersStay(f) == \A g \in Flow \ {f} : flow'[g] = flow[g]

LEMMA GotoMoves ==
  ASSUME TypeOK, NEW f \in Flow, NEW p \in Steps \cup Ends, Goto(f, p)
  PROVE  flow' \in [Flow -> FlowState] /\ SameBut(f, p) /\ OthersStay(f)
<1>1. flow \in [Flow -> FlowState]
  BY DEF TypeOK
<1>2. flow' = [flow EXCEPT ![f] = [flow[f] EXCEPT !.pc = p]]
  BY DEF Goto
<1>3. flow'[f] = [flow[f] EXCEPT !.pc = p] /\ OthersStay(f)
  BY <1>1, <1>2 DEF OthersStay
<1>4. [flow[f] EXCEPT !.pc = p] \in FlowState
  BY <1>1 DEF FlowState
<1>5. SameBut(f, p)
  BY <1>1, <1>3 DEF SameBut, FlowState
<1> QED
  BY <1>1, <1>2, <1>3, <1>4, <1>5

(* Who is named by a row, or by a request that has not moved, was before.  *)
LEMMA NobodyNew ==
  ASSUME TypeOK, NEW f \in Flow, UNCHANGED tables, OthersStay(f), NEW g \in Flow,
         Mentioned(g)', ~Mentioned(g)
  PROVE  flow'[f].id = g \/ flow'[f].tenant = g
<1>1. TenantIds' = TenantIds
  BY DEF TenantIds, tables
<1>2. \A h \in Flow \ {f} : flow'[h] = flow[h]
  BY DEF OthersStay
<1> QED
  BY <1>1, <1>2 DEF Mentioned, tables

LEMMA QuietStep ==
  ASSUME IInv, NEW f \in Flow, UNCHANGED <<tables, expired, request, public>>,
         flow' \in [Flow -> FlowState], OthersStay(f),
         \A g \in Flow \ {f} : flow'[f].id = g \/ flow'[f].tenant = g => Mentioned(g),
         flow'[f].pc # "founded", Carries(f)', Reserved(f)', ReadsInvitation(f)',
         LeavesNothing(f)', \A g \in Flow \ {f} : Apart(f, g)'
  PROVE  IInv' /\ Grows
<1>1. TypeOK'
  BY DEF IInv, TypeOK, tables
<1>2. Grows
  BY DEF Grows, tables
<1>3. Good(f)'
  BY DEF Good, AtHome, Spent, At
<1>4. ASSUME NEW g \in Flow \ {f} PROVE Respects(g)
  <2>1. Mentioned(g)' => Mentioned(g)
    BY NobodyNew DEF IInv
  <2> QED
    BY <2>1 DEF Respects, OthersStay, tables
<1> QED
  BY <1>1, <1>2, <1>3, <1>4, OneMoves

(* Such a step that names nobody and brings nobody to life.                *)
LEMMA QuietMove ==
  ASSUME IInv, NEW f \in Flow, UNCHANGED <<tables, expired, request, public>>,
         flow' \in [Flow -> FlowState], OthersStay(f),
         flow'[f].id = flow[f].id, flow'[f].tenant = flow[f].tenant,
         flow'[f].pc \notin {"founded", "idle"},
         At(f, "idle") \/ (flow'[f].base = flow[f].base /\ ~At(f, "founded")),
         Carries(f)', Reserved(f)', ReadsInvitation(f)',
         \A g \in Flow \ {f} : Apart(f, g)'
  PROVE  IInv' /\ Grows
<1>1. \A g \in Flow : flow[f].id = g \/ flow[f].tenant = g => Mentioned(g)
  BY DEF Mentioned
<1>2. LeavesNothing(f)'
  <2> SUFFICES ASSUME Unborn(f)' PROVE ~Mentioned(f)'
    BY DEF LeavesNothing
  <2>1. Unborn(f)
    BY DEF Unborn, At
  <2>2. ~Mentioned(f)
    BY <2>1 DEF IInv, Good, LeavesNothing
  <2> QED
    BY <1>1, <2>2, NobodyNew DEF IInv
<1> QED
  BY <1>1, <1>2, QuietStep

(* A request that holds no key moves on, or gives up.                      *)
LEMMA PlainMove ==
  ASSUME IInv, NEW f \in Flow, UNCHANGED <<tables, expired, request, public>>,
         NEW p \in (Steps \cup Ends) \ ({"founded", "revoke"} \cup HoldsSlug), Goto(f, p),
         ~At(f, "idle"), ~At(f, "founded"), Carries(f)'
  PROVE  IInv' /\ Grows
<1>1. flow' \in [Flow -> FlowState] /\ SameBut(f, p) /\ OthersStay(f)
  BY GotoMoves DEF IInv
<1>2. p \notin {"founded", "idle", "commit", "revoke"} \cup HoldsSlug
  BY DEF Steps, Ends, HoldsSlug, HoldsEmail
<1>3. Reserved(f)' /\ ReadsInvitation(f)'
  BY <1>1, <1>2 DEF SameBut, Reserved, ReadsInvitation, HoldsSlug
<1>4. \A g \in Flow \ {f} : Apart(f, g)'
  BY <1>1, <1>2 DEF SameBut, Apart, HoldsSlug
<1> QED
  BY <1>1, <1>2, <1>3, <1>4, QuietMove DEF SameBut

----------------------------------------------------------------------------
(* Links and invitations up to the transaction.                            *)

LEMMA OpenLinkKeeps ==
  ASSUME IInv, NEW f \in Flow, OpenLink(f)
  PROVE  IInv' /\ Grows
<1> DEFINE p == IF flow[f].base = None THEN "signin" ELSE IF public THEN "found" ELSE "refused"
<1>1. p \in {"signin", "found", "refused"} /\ Goto(f, p) /\ flow[f].pc = "linked"
  BY DEF OpenLink, At
<1>2. p = "found" => flow[f].base # None
  OBVIOUS
<1> HIDE DEF p
<1>3. p \in (Steps \cup Ends) \ ({"founded", "revoke"} \cup HoldsSlug)
  BY <1>1 DEF Steps, Ends, HoldsSlug, HoldsEmail
<1>4. SameBut(f, p)
  BY <1>1, <1>3, GotoMoves DEF IInv
<1>5. flow[f].email \in Email /\ flow[f].base \in Base \cup {None}
  BY <1>1 DEF IInv, Good, Carries, Steps, TypeOK, FlowState
<1>6. Carries(f)'
  BY <1>1, <1>2, <1>4, <1>5 DEF Carries, SameBut, Founding, HoldsSlug, HoldsEmail, Inviting
<1> QED
  BY <1>1, <1>3, <1>6, PlainMove DEF At, OpenLink

LEMMA ValidateKeeps ==
  ASSUME IInv, NEW f \in Flow, Validate(f)
  PROVE  IInv' /\ Grows
<1> DEFINE p == IF Valid(flow[f].invite, flow[f].email) THEN "found" ELSE "refused"
<1>1. p \in {"found", "refused"} /\ Goto(f, p) /\ flow[f].pc = "validate"
  BY DEF Validate, At
<1> HIDE DEF p
<1>3. p \in (Steps \cup Ends) \ ({"founded", "revoke"} \cup HoldsSlug)
  BY <1>1 DEF Steps, Ends, HoldsSlug, HoldsEmail
<1>4. SameBut(f, p)
  BY <1>1, <1>3, GotoMoves DEF IInv
<1>5. flow[f].email \in Email /\ flow[f].base \in Base
  BY <1>1 DEF IInv, Good, Carries, Steps
<1>6. Carries(f)'
  BY <1>1, <1>4, <1>5 DEF Carries, SameBut, Founding, HoldsSlug, HoldsEmail, Inviting
<1> QED
  BY <1>1, <1>3, <1>6, PlainMove DEF At, Validate

LEMMA FindUserKeeps ==
  ASSUME IInv, NEW f \in Flow, FindUser(f)
  PROVE  IInv' /\ Grows
<1> DEFINE p == IF user[flow[f].email] # None THEN Conflict(f) ELSE "slug"
<1>1. p \in {"signin", "refused", "slug"} /\ Goto(f, p) /\ flow[f].pc = "found"
  BY DEF FindUser, At, Conflict
<1> HIDE DEF p
<1>3. p \in (Steps \cup Ends) \ ({"founded", "revoke"} \cup HoldsSlug)
  BY <1>1 DEF Steps, Ends, HoldsSlug, HoldsEmail
<1>4. SameBut(f, p)
  BY <1>1, <1>3, GotoMoves DEF IInv
<1>5. flow[f].email \in Email /\ flow[f].base \in Base
  BY <1>1 DEF IInv, Good, Carries, Steps
<1>6. Carries(f)'
  BY <1>1, <1>4, <1>5 DEF Carries, SameBut, Founding, HoldsSlug, HoldsEmail, Inviting
<1> QED
  BY <1>1, <1>3, <1>6, PlainMove DEF At, FindUser

LEMMA RollbackKeepsInvariant ==
  ASSUME IInv, NEW f \in Flow, Rollback(f)
  PROVE  IInv' /\ Grows
<1>1. Goto(f, "failed") /\ flow[f].pc \in Steps
  BY DEF Rollback
<1>2. "failed" \in (Steps \cup Ends) \ ({"founded", "revoke"} \cup HoldsSlug)
  BY DEF Steps, Ends, HoldsSlug, HoldsEmail
<1>3. SameBut(f, "failed")
  BY <1>1, <1>2, GotoMoves DEF IInv
<1>4. Carries(f)'
  BY <1>3 DEF Carries, SameBut, Founding, Steps, HoldsSlug, HoldsEmail, Inviting
<1>5. ~At(f, "idle") /\ ~At(f, "founded")
  BY <1>1 DEF At, Steps, HoldsSlug, HoldsEmail
<1> QED
  BY <1>1, <1>2, <1>4, <1>5, PlainMove DEF Rollback

LEMMA OpenSessionKeeps ==
  ASSUME IInv, NEW f \in Flow, OpenSession(f)
  PROVE  IInv' /\ Grows
<1> DEFINE p == IF \E m \in member : m.user = user[flow[f].email].id THEN "signedin" ELSE "refused"
<1>1. p \in {"signedin", "refused"} /\ Goto(f, p) /\ flow[f].pc = "session"
  BY DEF OpenSession, At
<1> HIDE DEF p
<1>2. p \in (Steps \cup Ends) \ ({"founded", "revoke"} \cup HoldsSlug)
  BY <1>1 DEF Steps, Ends, HoldsSlug, HoldsEmail
<1>3. SameBut(f, p)
  BY <1>1, <1>2, GotoMoves DEF IInv
<1>4. Carries(f)'
  BY <1>1, <1>3 DEF Carries, SameBut, Founding, Steps, HoldsSlug, HoldsEmail, Inviting
<1> QED
  BY <1>1, <1>2, <1>4, PlainMove DEF At, OpenSession

LEMMA RequestLinkKeeps ==
  ASSUME IInv, NEW f \in Flow, NEW e \in Email, NEW b \in Base, RequestLink(f, e, b)
  PROVE  IInv' /\ Grows
<1> DEFINE c == IF user[e] = None THEN b ELSE None
           y == [flow[f] EXCEPT !.pc = "linked", !.email = e, !.base = c]
<1>1. flow[f].pc = "idle" /\ flow[f] \in FlowState /\ flow \in [Flow -> FlowState]
  BY DEF RequestLink, At, IInv, TypeOK
<1>2. flow' = [flow EXCEPT ![f] = y] /\ c \in Base \cup {None}
  BY DEF RequestLink
<1> HIDE DEF c
<1>3. y \in FlowState
  BY <1>1, <1>2 DEF FlowState, Steps
<1>4. flow' \in [Flow -> FlowState] /\ OthersStay(f) /\ flow'[f] = y
  BY <1>1, <1>2, <1>3 DEF OthersStay
<1>5. flow'[f].pc = "linked" /\ flow'[f].email = e
      /\ flow'[f].id = flow[f].id /\ flow'[f].tenant = flow[f].tenant
  BY <1>1, <1>4 DEF FlowState
<1>6. Carries(f)' /\ Reserved(f)' /\ ReadsInvitation(f)'
  BY <1>5 DEF Carries, Reserved, ReadsInvitation, Founding, HoldsSlug, HoldsEmail, Inviting
<1>7. \A g \in Flow \ {f} : Apart(f, g)'
  BY <1>5 DEF Apart, HoldsSlug, HoldsEmail
<1> QED
  BY <1>1, <1>4, <1>5, <1>6, <1>7, QuietMove DEF RequestLink, At

LEMMA SubmitInvitationKeeps ==
  ASSUME IInv, NEW f \in Flow, NEW e \in Email, NEW b \in Base, NEW i \in Invite,
         SubmitInvitation(f, e, b, i)
  PROVE  IInv' /\ Grows
<1> DEFINE y == [flow[f] EXCEPT !.pc = "validate", !.email = e, !.base = b, !.invite = i]
<1>1. flow[f].pc = "idle" /\ flow[f] \in FlowState /\ flow \in [Flow -> FlowState]
  BY DEF SubmitInvitation, At, IInv, TypeOK
<1>2. flow' = [flow EXCEPT ![f] = y]
  BY DEF SubmitInvitation
<1>3. y \in FlowState
  BY <1>1 DEF FlowState, Steps
<1>4. flow' \in [Flow -> FlowState] /\ OthersStay(f) /\ flow'[f] = y
  BY <1>1, <1>2, <1>3 DEF OthersStay
<1>5. /\ flow'[f].pc = "validate" /\ flow'[f].email = e /\ flow'[f].base = b
      /\ flow'[f].invite = i
      /\ flow'[f].id = flow[f].id /\ flow'[f].tenant = flow[f].tenant
  BY <1>1, <1>4 DEF FlowState
<1>6. Carries(f)' /\ Reserved(f)' /\ ReadsInvitation(f)'
  BY <1>5 DEF Carries, Reserved, ReadsInvitation, Founding, HoldsSlug, HoldsEmail, Inviting
<1>7. \A g \in Flow \ {f} : Apart(f, g)'
  BY <1>5 DEF Apart, HoldsSlug, HoldsEmail
<1> QED
  BY <1>1, <1>4, <1>5, <1>6, <1>7, QuietMove DEF SubmitInvitation, At

LEMMA RevokeReadKeeps ==
  ASSUME IInv, NEW f \in Flow, NEW i \in Invite, RevokeRead(f, i)
  PROVE  IInv' /\ Grows
<1> DEFINE y == [flow[f] EXCEPT !.pc = "revoke", !.invite = i, !.read = invitation[i]]
<1>1. flow[f].pc = "idle" /\ flow[f] \in FlowState /\ flow \in [Flow -> FlowState]
  BY DEF RevokeRead, At, IInv, TypeOK
<1>2. flow' = [flow EXCEPT ![f] = y]
  BY DEF RevokeRead
<1>3. invitation[i] \in InvitationRow /\ invitation[i] # None
  BY DEF RevokeRead, IInv, TypeOK
<1>4. y \in FlowState
  BY <1>1, <1>3 DEF FlowState, Steps
<1>5. flow' \in [Flow -> FlowState] /\ OthersStay(f) /\ flow'[f] = y
  BY <1>1, <1>2, <1>4 DEF OthersStay
<1>6. /\ flow'[f].pc = "revoke" /\ flow'[f].invite = i /\ flow'[f].read = invitation[i]
      /\ flow'[f].id = flow[f].id /\ flow'[f].tenant = flow[f].tenant
  BY <1>1, <1>5 DEF FlowState
<1>7. Carries(f)' /\ Reserved(f)'
  BY <1>6 DEF Carries, Reserved, Founding, HoldsSlug, HoldsEmail, Inviting
<1>8. ReadsInvitation(f)'
  BY <1>3, <1>6 DEF ReadsInvitation, RevokeRead, tables
<1>9. \A g \in Flow \ {f} : Apart(f, g)'
  BY <1>6 DEF Apart, HoldsSlug, HoldsEmail
<1> QED
  BY <1>1, <1>5, <1>6, <1>7, <1>8, <1>9, QuietMove DEF RevokeRead, At

----------------------------------------------------------------------------
(* The transaction of a founder.                                           *)

LEMMA ChooseSlugKeeps ==
  ASSUME IInv, NEW f \in Flow, ChooseSlug(f)
  PROVE  IInv' /\ Grows
<1>1. /\ flow[f].pc = "slug" /\ flow[f] \in FlowState /\ flow \in [Flow -> FlowState]
      /\ flow[f].email \in Email /\ flow[f].base \in Base
      /\ UNCHANGED <<tables, expired, request, public>>
  BY DEF ChooseSlug, At, IInv, TypeOK, Good, Carries, Founding, Steps
<1>2. ASSUME NEW n \in 1 .. Tries,
             flow' = [flow EXCEPT ![f].pc = "tenant", ![f].slug = <<flow[f].base, n>>]
      PROVE  IInv' /\ Grows
  <2> DEFINE s == <<flow[f].base, n>>
             y == [flow[f] EXCEPT !.pc = "tenant", !.slug = s]
  <2>1. s \in Slug
    BY <1>1 DEF Slug
  <2>2. flow' = [flow EXCEPT ![f] = y]
    BY <1>2
  <2> HIDE DEF s
  <2>3. y \in FlowState
    BY <1>1, <2>1 DEF FlowState, Steps
  <2>4. flow' \in [Flow -> FlowState] /\ OthersStay(f) /\ flow'[f] = y
    BY <1>1, <2>2, <2>3 DEF OthersStay
  <2>5. /\ flow'[f].pc = "tenant" /\ flow'[f].slug = s
        /\ flow'[f].email = flow[f].email /\ flow'[f].base = flow[f].base
        /\ flow'[f].id = flow[f].id /\ flow'[f].tenant = flow[f].tenant
    BY <1>1, <2>4 DEF FlowState
  <2>6. Carries(f)' /\ Reserved(f)' /\ ReadsInvitation(f)'
    BY <1>1, <2>1, <2>5
    DEF Carries, Reserved, ReadsInvitation, HoldsSlug, HoldsEmail, Inviting
  <2>7. \A g \in Flow \ {f} : Apart(f, g)'
    BY <2>5 DEF Apart, HoldsSlug, HoldsEmail
  <2> QED
    BY <1>1, <2>4, <2>5, <2>6, <2>7, QuietMove DEF At
<1>3. ASSUME Goto(f, "refused") PROVE IInv' /\ Grows
  <2>1. "refused" \in (Steps \cup Ends) \ ({"founded", "revoke"} \cup HoldsSlug)
    BY DEF Steps, Ends, HoldsSlug, HoldsEmail
  <2>2. SameBut(f, "refused")
    BY <1>3, <2>1, GotoMoves DEF IInv
  <2>3. Carries(f)'
    BY <2>2 DEF Carries, SameBut, Founding, Steps, HoldsSlug, HoldsEmail, Inviting
  <2> QED
    BY <1>1, <1>3, <2>1, <2>3, PlainMove DEF At
<1> QED
  BY <1>2, <1>3 DEF ChooseSlug

LEMMA UpsertTenantKeeps ==
  ASSUME IInv, NEW f \in Flow, UpsertTenant(f)
  PROVE  IInv' /\ Grows
<1> DEFINE met == tenant[flow[f].slug] # None
           y == [flow[f] EXCEPT !.pc = "user", !.met = met]
<1>1. /\ flow[f].pc = "tenant" /\ flow[f] \in FlowState /\ flow \in [Flow -> FlowState]
      /\ flow[f].email \in Email /\ flow[f].base \in Base /\ flow[f].slug \in Slug
      /\ UNCHANGED <<tables, expired, request, public>>
  BY DEF UpsertTenant, At, IInv, TypeOK, Good, Carries, Founding, Steps
<1>2. flow' = [flow EXCEPT ![f] = y] /\ met \in BOOLEAN
  BY DEF UpsertTenant
<1> HIDE DEF met
<1>3. y \in FlowState
  BY <1>1, <1>2 DEF FlowState, Steps, HoldsSlug
<1>4. flow' \in [Flow -> FlowState] /\ OthersStay(f) /\ flow'[f] = y
  BY <1>1, <1>2, <1>3 DEF OthersStay
<1>5. /\ flow'[f].pc = "user" /\ flow'[f].slug = flow[f].slug /\ flow'[f].met = met
      /\ flow'[f].email = flow[f].email /\ flow'[f].base = flow[f].base
      /\ flow'[f].id = flow[f].id /\ flow'[f].tenant = flow[f].tenant
  BY <1>1, <1>4 DEF FlowState
<1>6. Carries(f)' /\ ReadsInvitation(f)'
  BY <1>1, <1>5 DEF Carries, ReadsInvitation, HoldsSlug, HoldsEmail, Inviting
<1>7. Reserved(f)'
  BY <1>1, <1>5 DEF Reserved, HoldsEmail, tables, met
<1>8. \A g \in Flow \ {f} : Apart(f, g)'
  BY <1>1, <1>4, <1>5 DEF Apart, HoldsEmail, UpsertTenant, SlugFree, OthersStay
<1> QED
  BY <1>1, <1>4, <1>5, <1>6, <1>7, <1>8, QuietMove DEF At

(* A founder's step from its tenant on, that writes no row and stays on    *)
(* the way: what is held, and what is free, is told.                       *)
LEMMA UpsertUserKeeps ==
  ASSUME IInv, NEW f \in Flow, UpsertUser(f)
  PROVE  IInv' /\ Grows
<1> DEFINE x == flow[f]
           e == flow[f].email
<1>1. /\ x.pc = "user" /\ x.email \in Email /\ x.base \in Base /\ x.slug \in Slug
      /\ x \in FlowState /\ (x.met <=> tenant[x.slug] # None)
      /\ UNCHANGED <<tables, expired, request, public>> /\ EmailFree(f, e)
  BY DEF UpsertUser, At, IInv, TypeOK, Good, Carries, Reserved, Founding, Steps, HoldsSlug
<1> DEFINE p ==
      IF user[e] # None
      THEN IF user[e].framework /\ x.invite = None THEN "signin" ELSE "failed"
      ELSE IF ~Bindable(e, FALSE) \/ x.met THEN "failed"
      ELSE IF x.invite = None THEN "commit" ELSE "redeem"
<1>2. /\ Goto(f, p) /\ p \in {"signin", "failed", "commit", "redeem"}
      /\ p \in {"commit", "redeem"} => user[e] = None /\ Bindable(e, FALSE) /\ ~x.met
      /\ (p = "commit" => x.invite = None) /\ (p = "redeem" => x.invite # None)
  BY DEF UpsertUser
<1> HIDE DEF p
<1>3. p \in Steps \cup Ends /\ p \notin {"founded", "revoke", "idle", "user", "tenant"}
  BY <1>2 DEF Steps, Ends, HoldsSlug, HoldsEmail
<1>4. flow' \in [Flow -> FlowState] /\ SameBut(f, p) /\ OthersStay(f)
  BY <1>2, <1>3, GotoMoves DEF IInv
<1>5. Carries(f)'
  BY <1>1, <1>2, <1>4 DEF Carries, SameBut, HoldsSlug, HoldsEmail, Inviting, FlowState
<1>6. Reserved(f)'
  BY <1>1, <1>2, <1>3, <1>4 DEF Reserved, SameBut, HoldsSlug, HoldsEmail, tables, Bindable
<1>7. ReadsInvitation(f)'
  BY <1>2, <1>4 DEF ReadsInvitation, SameBut
<1>8. \A g \in Flow \ {f} : Apart(f, g)'
  <2>1. \A g \in Flow \ {f} : flow[g].pc \in HoldsSlug => x.slug # flow[g].slug
    BY <1>1 DEF IInv, Apart, HoldsSlug
  <2> QED
    BY <1>1, <1>4, <2>1 DEF Apart, SameBut, EmailFree, OthersStay
<1> QED
  BY <1>1, <1>2, <1>4, <1>5, <1>6, <1>7, <1>8, QuietMove DEF SameBut, At

LEMMA RedeemKeeps ==
  ASSUME IInv, NEW f \in Flow, Redeem(f)
  PROVE  IInv' /\ Grows
<1> DEFINE x == flow[f]
           i == flow[f].invite
<1>1. /\ x.pc = "redeem" /\ x.email \in Email /\ x.base \in Base /\ x.slug \in Slug
      /\ x \in FlowState /\ flow \in [Flow -> FlowState] /\ i \in Invite
      /\ ~x.met /\ tenant[x.slug] = None /\ user[x.email] = None /\ x.email \notin person
      /\ UNCHANGED <<tables, expired, request, public>>
  BY DEF Redeem, At, IInv, TypeOK, Good, Carries, Reserved, Founding, Steps, HoldsSlug, HoldsEmail
<1>2. CASE Valid(i, x.email)
  <2> DEFINE y == [flow[f] EXCEPT !.pc = "commit", !.read = invitation[i]]
  <2>1. /\ invitation[i] \in InvitationRow /\ invitation[i] # None
        /\ invitation[i].email = x.email /\ flow' = [flow EXCEPT ![f] = y]
    BY <1>1, <1>2 DEF Redeem, Valid, IInv, TypeOK
  <2>2. y \in FlowState
    BY <1>1, <2>1 DEF FlowState, Steps, HoldsSlug, HoldsEmail
  <2>3. flow' \in [Flow -> FlowState] /\ OthersStay(f) /\ flow'[f] = y
    BY <1>1, <2>1, <2>2 DEF OthersStay
  <2>4. /\ flow'[f].pc = "commit" /\ flow'[f].slug = x.slug /\ flow'[f].met = x.met
        /\ flow'[f].email = x.email /\ flow'[f].base = x.base
        /\ flow'[f].invite = i /\ flow'[f].read = invitation[i]
        /\ flow'[f].id = x.id /\ flow'[f].tenant = x.tenant
    BY <1>1, <2>3 DEF FlowState
  <2>5. Carries(f)'
    BY <1>1, <2>4 DEF Carries, HoldsSlug, HoldsEmail, Inviting
  <2>6. Reserved(f)' /\ ReadsInvitation(f)'
    BY <1>1, <2>1, <2>4 DEF Reserved, ReadsInvitation, tables
  <2>7. \A g \in Flow \ {f} : Apart(f, g)'
    BY <1>1, <2>3, <2>4 DEF IInv, Apart, OthersStay, HoldsSlug, HoldsEmail
  <2> QED
    BY <1>1, <2>3, <2>4, <2>5, <2>6, <2>7, QuietMove DEF At
<1>3. CASE ~Valid(i, x.email)
  <2>1. "refused" \in (Steps \cup Ends) \ ({"founded", "revoke"} \cup HoldsSlug)
    BY DEF Steps, Ends, HoldsSlug, HoldsEmail
  <2>2. Goto(f, "refused")
    BY <1>3 DEF Redeem
  <2>3. SameBut(f, "refused")
    BY <2>1, <2>2, GotoMoves DEF IInv
  <2>4. Carries(f)'
    BY <2>3 DEF Carries, SameBut, Founding, Steps, HoldsSlug, HoldsEmail, Inviting
  <2> QED
    BY <1>1, <2>1, <2>2, <2>4, PlainMove DEF At
<1> QED
  BY <1>2, <1>3

----------------------------------------------------------------------------
(* Member invitations, as far as they write no row.                        *)

LEMMA InviteMemberKeeps ==
  ASSUME IInv, NEW f \in Flow, NEW e \in Email, NEW t \in Flow, NEW r \in InviteRole,
         InviteMember(f, e, t, r)
  PROVE  IInv' /\ Grows
<1> DEFINE p == IF user[e] = None THEN "create" ELSE "profile"
           u == IF user[e] = None THEN f ELSE user[e].id
           y == [flow[f] EXCEPT !.pc = p, !.id = u, !.email = e, !.tenant = t, !.role = r]
<1>1. /\ flow[f].pc = "idle" /\ flow[f] \in FlowState /\ flow \in [Flow -> FlowState]
      /\ flow[f].base = None /\ t \in TenantIds
      /\ UNCHANGED <<tables, expired, request, public>>
  BY DEF InviteMember, At, IInv, TypeOK, Good, Carries, Idle
<1>2. flow' = [flow EXCEPT ![f] = y]
  BY DEF InviteMember
<1>3. /\ p \in {"create", "profile"} /\ (p = "profile" => user[e] # None)
      /\ u \in Flow /\ (u # f => Mentioned(u))
  BY DEF IInv, TypeOK, UserRow, Mentioned
<1> HIDE DEF p, u
<1>4. y \in FlowState
  <2>1. p \in {"idle"} \cup Steps \cup Ends /\ r \in Role
    BY <1>3 DEF Steps, Role
  <2> QED
    <3>1. flow[f] \in FlowState /\ t \in Flow \cup {None} /\ u \in Flow \cup {None}
      BY <1>1, <1>3
    <3> QED
      BY <2>1, <3>1 DEF FlowState
<1>5. flow' \in [Flow -> FlowState] /\ OthersStay(f) /\ flow'[f] = y
  BY <1>1, <1>2, <1>4 DEF OthersStay
<1>6. /\ flow'[f].pc = p /\ flow'[f].id = u /\ flow'[f].email = e /\ flow'[f].tenant = t
      /\ flow'[f].base = None
  BY <1>1, <1>5 DEF FlowState
<1>7. Carries(f)' /\ Reserved(f)' /\ ReadsInvitation(f)' /\ LeavesNothing(f)'
  <2>1. Carries(f)'
    BY <1>1, <1>3, <1>6 DEF Carries, Founding, HoldsSlug, HoldsEmail, tables
  <2>2. Reserved(f)' /\ ReadsInvitation(f)' /\ LeavesNothing(f)'
    BY <1>3, <1>6 DEF Reserved, ReadsInvitation, LeavesNothing, Unborn, At, HoldsSlug, HoldsEmail
  <2> QED
    BY <2>1, <2>2
<1>8. \A g \in Flow \ {f} : Apart(f, g)'
  BY <1>3, <1>6 DEF Apart, HoldsSlug, HoldsEmail
<1>9. \A g \in Flow \ {f} : flow'[f].id = g \/ flow'[f].tenant = g => Mentioned(g)
  BY <1>1, <1>3, <1>6 DEF Mentioned
<1> QED
  BY <1>1, <1>3, <1>5, <1>6, <1>7, <1>8, <1>9, QuietStep

LEMMA FindMembershipKeeps ==
  ASSUME IInv, NEW f \in Flow, FindMembership(f)
  PROVE  IInv' /\ Grows
<1> DEFINE held == Enrolled(f) # {}
           y == [flow[f] EXCEPT !.pc = "grant", !.held = held]
<1>1. /\ flow[f].pc = "enrol" /\ flow[f] \in FlowState /\ flow \in [Flow -> FlowState]
      /\ flow[f].email \in Email /\ flow[f].base = None /\ flow[f].id \in Flow
      /\ flow[f].tenant \in Flow /\ user[flow[f].email] # None
      /\ UNCHANGED <<tables, expired, request, public>>
  BY DEF FindMembership, At, IInv, TypeOK, Good, Carries, Inviting, Steps
<1>2. flow' = [flow EXCEPT ![f] = y] /\ held \in BOOLEAN
  BY DEF FindMembership
<1> HIDE DEF held
<1>3. y \in FlowState
  <2>1. "grant" \in {"idle"} \cup Steps \cup Ends
    BY DEF Steps
  <2> QED
    <3>1. flow[f] \in FlowState /\ held \in BOOLEAN
      BY <1>1, <1>2
    <3> QED
      BY <2>1, <3>1 DEF FlowState
<1>4. flow' \in [Flow -> FlowState] /\ OthersStay(f) /\ flow'[f] = y
  BY <1>1, <1>2, <1>3 DEF OthersStay
<1>5. /\ flow'[f].pc = "grant" /\ flow'[f].email = flow[f].email /\ flow'[f].base = None
      /\ flow'[f].id = flow[f].id /\ flow'[f].tenant = flow[f].tenant
  BY <1>1, <1>4 DEF FlowState
<1>6. Carries(f)' /\ Reserved(f)' /\ ReadsInvitation(f)'
  BY <1>1, <1>5 DEF Carries, Reserved, ReadsInvitation, Founding, HoldsSlug, HoldsEmail, tables
<1>7. \A g \in Flow \ {f} : Apart(f, g)'
  BY <1>5 DEF Apart, HoldsSlug, HoldsEmail
<1> QED
  BY <1>1, <1>4, <1>5, <1>6, <1>7, QuietMove DEF At

----------------------------------------------------------------------------
(* Steps around the requests.                                              *)

LEMMA BesideKeeps ==
  ASSUME IInv, TypeOK', UNCHANGED <<user, person, tenant, member, flow>>,
         \A t \in Flow : subscription'[t] = "none" <=> subscription[t] = "none",
         \A i \in Invite : invitation[i] # None => invitation'[i] = invitation[i],
         \A e \in Email : request'[e] = "graduated" => request[e] = "graduated"
  PROVE  IInv' /\ Grows
<1>1. Grows
  BY DEF Grows
<1>2. TenantIds' = TenantIds
  BY DEF TenantIds
<1>3. ASSUME NEW g \in Flow PROVE Respects(g)
  BY <1>2 DEF Respects, Mentioned
<1> QED
  BY <1>1, <1>3, NobodyMoves

LEMMA CreateInvitationKeeps ==
  ASSUME IInv, NEW i \in Invite, NEW e \in Email, CreateInvitation(i, e)
  PROVE  IInv' /\ Grows
<1> DEFINE new == [email |-> e, status |-> "pending", by |-> None]
<1>1. new \in InvitationRow
  BY DEF InvitationRow
<1>2. /\ invitation \in [Invite -> InvitationRow \cup {None}] /\ invitation[i] = None
      /\ invitation' = [invitation EXCEPT ![i] = new]
  BY DEF CreateInvitation, IInv, TypeOK
<1> HIDE DEF new
<1>3. /\ invitation' \in [Invite -> InvitationRow \cup {None}]
      /\ \A k \in Invite : invitation[k] # None => invitation'[k] = invitation[k]
  BY <1>1, <1>2
<1>4. TypeOK'
  BY <1>3 DEF IInv, TypeOK, CreateInvitation
<1> QED
  BY <1>3, <1>4, BesideKeeps DEF CreateInvitation

LEMMA UpgradeKeeps ==
  ASSUME IInv, NEW t \in Flow, Upgrade(t)
  PROVE  IInv' /\ Grows
<1>1. /\ subscription' \in [Flow -> {"none", "starter", "paid"}]
      /\ \A u \in Flow : subscription'[u] = "none" <=> subscription[u] = "none"
  BY DEF Upgrade, IInv, TypeOK
<1>2. TypeOK'
  BY <1>1 DEF IInv, TypeOK, Upgrade
<1> QED
  BY <1>1, <1>2, BesideKeeps DEF Upgrade

LEMMA OthersAroundKeep ==
  ASSUME IInv,
         \/ SetMode \/ \E i \in Invite : Expire(i)
         \/ \E e \in Email : SubmitRequest(e) \/ DeclineRequest(e)
  PROVE  IInv' /\ Grows
<1>1. UNCHANGED <<user, person, tenant, member, subscription, invitation, flow>>
  BY DEF SetMode, Expire, SubmitRequest, DeclineRequest, tables
<1>2. public' \in BOOLEAN /\ expired' \subseteq Invite
  BY DEF SetMode, Expire, SubmitRequest, DeclineRequest, IInv, TypeOK
<1>3. request' \in [Email -> {"none", "open", "declined", "graduated"}]
  BY DEF SetMode, Expire, SubmitRequest, DeclineRequest, IInv, TypeOK
<1>4. TypeOK'
  BY <1>1, <1>2, <1>3 DEF IInv, TypeOK
<1>5. \A e \in Email : request'[e] = "graduated" => request[e] = "graduated"
  BY DEF SetMode, Expire, SubmitRequest, DeclineRequest, IInv, TypeOK
<1> QED
  BY <1>1, <1>4, <1>5, BesideKeeps

----------------------------------------------------------------------------
(* Binding a user to its Person.                                           *)

(* Binding writes the profile of a user, and nothing else of it.           *)
LEMMA BindFacts ==
  ASSUME TypeOK, NEW e \in Email, user[e] # None, Bind(e)
  PROVE  /\ user' \in [Email -> UserRow \cup {None}] /\ person' \subseteq Email
         /\ user'[e] # None /\ user'[e].id = user[e].id
         /\ \A d \in Email \ {e} : user'[d] = user[d]
         /\ person' = person \cup {e}
<1> DEFINE y == [user[e] EXCEPT !.profile = TRUE]
<1>1. user \in [Email -> UserRow \cup {None}] /\ user[e] \in UserRow
  BY DEF TypeOK
<1>2. y \in UserRow /\ y.id = user[e].id
  BY <1>1 DEF UserRow
<1>3. user' = [user EXCEPT ![e] = y] /\ person' = person \cup {e}
  BY DEF Bind
<1> HIDE DEF y
<1>4. user'[e] = y /\ \A d \in Email \ {e} : user'[d] = user[d]
  BY <1>1, <1>3
<1>5. y # None
  BY <1>2, RowAssumption
<1> QED
  BY <1>1, <1>2, <1>3, <1>4, <1>5 DEF TypeOK

(* A request that binds a user whose address is free does nothing to the   *)
(* others.                                                                 *)
LEMMA BindingIsPolite ==
  ASSUME IInv, NEW f \in Flow, NEW e \in Email, user[e] # None, EmailFree(f, e), Bind(e),
         OthersStay(f), flow'[f].id = flow[f].id, flow'[f].tenant = flow[f].tenant,
         UNCHANGED <<tenant, member, invitation, request>>,
         \A t \in Flow : subscription[t] # "none" => subscription'[t] # "none",
         \A t \in Flow : subscription'[t] # "none" => subscription[t] # "none" \/ Mentioned(t)
  PROVE  /\ Grows /\ \A g \in Flow \ {f} : Respects(g)
         /\ Mentioned(f)' => Mentioned(f)
<1>1. /\ user'[e] # None /\ user'[e].id = user[e].id
      /\ \A d \in Email \ {e} : user'[d] = user[d]
      /\ person' = person \cup {e}
  BY BindFacts DEF IInv
<1>2. Grows
  BY <1>1 DEF Grows
<1>3. TenantIds' = TenantIds
  BY DEF TenantIds
<1>4. \A d \in Email : user'[d] # None => user[d] # None /\ user'[d].id = user[d].id
  BY <1>1
<1>5. \A h \in Flow : flow'[h].id = flow[h].id /\ flow'[h].tenant = flow[h].tenant
  BY DEF OthersStay
<1>6. \A g \in Flow : Mentioned(g)' => Mentioned(g)
  BY <1>3, <1>4, <1>5 DEF Mentioned
<1>7. ASSUME NEW g \in Flow \ {f} PROVE Respects(g)
  <2>1. flow[g].pc \in HoldsEmail => flow[g].email \in Email \ {e}
    BY DEF EmailFree, IInv, Good, Carries, Steps, HoldsSlug, HoldsEmail
  <2> QED
    BY <1>1, <1>6, <2>1 DEF Respects, OthersStay
<1> QED
  BY <1>2, <1>6, <1>7

(* The request that binds: it goes on without a key.                       *)
LEMMA BindingKeeps ==
  ASSUME IInv, NEW f \in Flow, NEW e \in Email, user[e] # None, EmailFree(f, e), Bind(e),
         NEW p \in {"session", "enrol", "graduated"}, Goto(f, p), ~At(f, "founded"),
         At(f, "idle") => p = "graduated",
         p # "graduated" => flow[f].email = e,
         p = "enrol" => flow[f].base = None /\ flow[f].id \in Flow /\ flow[f].tenant \in Flow,
         UNCHANGED <<tenant, member, invitation, expired, request, public>>,
         subscription' \in [Flow -> {"none", "starter", "paid"}],
         \A t \in Flow : subscription[t] # "none" => subscription'[t] # "none",
         \A t \in Flow : subscription'[t] # "none" => subscription[t] # "none" \/ Mentioned(t)
  PROVE  IInv' /\ Grows
<1>1. p \in Steps \cup Ends /\ p \notin {"founded", "idle", "revoke", "commit"} \cup HoldsSlug
  BY DEF Steps, Ends, HoldsSlug, HoldsEmail
<1>2. flow' \in [Flow -> FlowState] /\ SameBut(f, p) /\ OthersStay(f)
  BY <1>1, GotoMoves DEF IInv
<1>3. /\ user' \in [Email -> UserRow \cup {None}] /\ person' \subseteq Email
      /\ user'[e] # None
  BY BindFacts DEF IInv
<1>4. TypeOK'
  BY <1>2, <1>3 DEF IInv, TypeOK
<1>5. /\ Grows /\ \A g \in Flow \ {f} : Respects(g)
      /\ Mentioned(f)' => Mentioned(f)
  BY <1>2, BindingIsPolite DEF SameBut
<1>6. Carries(f)'
  BY <1>2, <1>3 DEF Carries, SameBut, Founding, Steps, HoldsSlug, HoldsEmail, Inviting
<1>7. Reserved(f)' /\ ReadsInvitation(f)' /\ AtHome(f)' /\ Spent(f)'
  BY <1>1, <1>2 DEF Reserved, ReadsInvitation, AtHome, Spent, At, SameBut, HoldsSlug
<1>8. LeavesNothing(f)'
  <2> SUFFICES ASSUME Unborn(f)' PROVE ~Mentioned(f)'
    BY DEF LeavesNothing
  <2>1. Unborn(f)
    BY <1>1, <1>2 DEF Unborn, At, SameBut
  <2> QED
    BY <1>5, <2>1 DEF IInv, Good, LeavesNothing
<1>9. \A g \in Flow \ {f} : Apart(f, g)'
  BY <1>1, <1>2 DEF Apart, SameBut, HoldsSlug
<1> QED
  BY <1>4, <1>5, <1>6, <1>7, <1>8, <1>9, OneMoves DEF Good

LEMMA SignInKeeps ==
  ASSUME IInv, NEW f \in Flow, SignIn(f)
  PROVE  IInv' /\ Grows
<1>1. flow[f].pc = "signin" /\ flow[f].email \in Email
  BY DEF SignIn, At, IInv, Good, Carries, Steps
<1>2. CASE user[flow[f].email] = None
  <2>1. Goto(f, "refused") /\ UNCHANGED <<tables, expired, request, public>>
    BY <1>2 DEF SignIn, tables
  <2>2. "refused" \in (Steps \cup Ends) \ ({"founded", "revoke"} \cup HoldsSlug)
    BY DEF Steps, Ends, HoldsSlug, HoldsEmail
  <2>3. SameBut(f, "refused")
    BY <2>1, <2>2, GotoMoves DEF IInv
  <2>4. Carries(f)'
    BY <2>3 DEF Carries, SameBut, Founding, Steps, HoldsSlug, HoldsEmail, Inviting
  <2> QED
    BY <1>1, <2>1, <2>2, <2>4, PlainMove DEF At
<1>3. CASE user[flow[f].email] # None
  <2>1. /\ Bind(flow[f].email) /\ Goto(f, "session") /\ EmailFree(f, flow[f].email)
        /\ UNCHANGED <<tenant, member, subscription, invitation, expired, request, public>>
    BY <1>3 DEF SignIn
  <2>2. subscription' \in [Flow -> {"none", "starter", "paid"}]
    BY <2>1 DEF IInv, TypeOK
  <2> QED
    BY <1>1, <1>3, <2>1, <2>2, BindingKeeps DEF At
<1> QED
  BY <1>2, <1>3

LEMMA BindInvitedKeeps ==
  ASSUME IInv, NEW f \in Flow, BindInvited(f)
  PROVE  IInv' /\ Grows
<1> DEFINE e == flow[f].email
<1>1. /\ flow[f].pc = "profile" /\ e \in Email /\ user[e] # None
      /\ flow[f].base = None /\ flow[f].id \in Flow /\ flow[f].tenant \in Flow
  BY DEF BindInvited, At, IInv, Good, Carries, Steps, Inviting
<1>2. CASE ~(user[e].id = flow[f].id /\ Bindable(e, FALSE))
  <2>1. Goto(f, "failed") /\ UNCHANGED <<tables, expired, request, public>>
    BY <1>2 DEF BindInvited, tables
  <2>2. "failed" \in (Steps \cup Ends) \ ({"founded", "revoke"} \cup HoldsSlug)
    BY DEF Steps, Ends, HoldsSlug, HoldsEmail
  <2>3. SameBut(f, "failed")
    BY <2>1, <2>2, GotoMoves DEF IInv
  <2>4. Carries(f)'
    BY <2>3 DEF Carries, SameBut, Founding, Steps, HoldsSlug, HoldsEmail, Inviting
  <2> QED
    BY <1>1, <2>1, <2>2, <2>4, PlainMove DEF At
<1>3. CASE user[e].id = flow[f].id /\ Bindable(e, FALSE)
  <2>1. /\ Bind(e) /\ Goto(f, "enrol") /\ EmailFree(f, e)
        /\ UNCHANGED <<tenant, member, subscription, invitation, expired, request, public>>
    BY <1>3 DEF BindInvited
  <2>2. subscription' \in [Flow -> {"none", "starter", "paid"}]
    BY <2>1 DEF IInv, TypeOK
  <2> QED
    BY <1>1, <2>1, <2>2, BindingKeeps DEF At
<1> QED
  BY <1>2, <1>3

LEMMA GraduateAgainKeeps ==
  ASSUME IInv, NEW f \in Flow, NEW e \in Email, NEW into, GraduateAgain(f, e, into)
  PROVE  IInv' /\ Grows
<1>1. /\ flow[f].pc = "idle" /\ flow[f] = Idle /\ EmailFree(f, e)
      /\ UNCHANGED <<tenant, member, invitation, expired, request, public>>
  BY DEF GraduateAgain, At, IInv, Good, Carries
<1>2. CASE ~Bindable(e, FALSE)
  <2>1. Goto(f, "failed") /\ UNCHANGED <<tables, expired, request, public>>
    BY <1>2 DEF GraduateAgain, tables
  <2>2. "failed" \in Steps \cup Ends
    BY DEF Ends
  <2>3. flow' \in [Flow -> FlowState] /\ SameBut(f, "failed") /\ OthersStay(f)
    BY <2>1, <2>2, GotoMoves DEF IInv
  <2>4. Carries(f)' /\ Reserved(f)' /\ ReadsInvitation(f)'
    BY <2>3 DEF Carries, Reserved, ReadsInvitation, SameBut, Founding, Steps, HoldsSlug,
                HoldsEmail, Inviting
  <2>5. \A g \in Flow \ {f} : Apart(f, g)'
    BY <2>3 DEF Apart, SameBut, HoldsSlug, HoldsEmail
  <2> QED
    BY <1>1, <2>1, <2>3, <2>4, <2>5, QuietMove DEF At, SameBut
<1>3. CASE Bindable(e, FALSE)
  <2>1. Bind(e) /\ Goto(f, "graduated")
    BY <1>3 DEF GraduateAgain
  <2>2. subscription \in [Flow -> {"none", "starter", "paid"}] /\ member \subseteq Membership
    BY DEF IInv, TypeOK
  <2>3. /\ subscription' \in [Flow -> {"none", "starter", "paid"}]
        /\ \A t \in Flow : subscription[t] # "none" => subscription'[t] # "none"
        /\ \A t \in Flow : subscription'[t] # "none" => subscription[t] # "none" \/ Mentioned(t)
    <3>1. CASE UNCHANGED subscription
      BY <2>2, <3>1
    <3>2. CASE \E m \in member : subscription' = [subscription EXCEPT ![m.tenant] = "starter"]
      <4>1. PICK m \in member : subscription' = [subscription EXCEPT ![m.tenant] = "starter"]
        BY <3>2
      <4>2. m.tenant \in Flow /\ Mentioned(m.tenant)
        BY <2>2 DEF Membership, Mentioned
      <4> QED
        BY <2>2, <4>1, <4>2
    <3> QED
      BY <1>3, <3>1, <3>2 DEF GraduateAgain
  <2>4. user[e] # None
    BY DEF GraduateAgain, IInv, GraduatesExist
  <2> QED
    BY <1>1, <2>1, <2>3, <2>4, BindingKeeps DEF At
<1> QED
  BY <1>2, <1>3

----------------------------------------------------------------------------
(* Steps that write rows of their own.                                     *)

LEMMA RevokeSaveKeeps ==
  ASSUME IInv, NEW f \in Flow, RevokeSave(f)
  PROVE  IInv' /\ Grows
<1> DEFINE i == flow[f].invite
           new == [flow[f].read EXCEPT !.status = "revoked"]
<1>1. /\ flow[f].pc = "revoke" /\ i \in Invite /\ flow[f].read \in InvitationRow
      /\ invitation[i] # None /\ invitation[i].email = flow[f].read.email
      /\ invitation \in [Invite -> InvitationRow \cup {None}]
      /\ invitation' = [invitation EXCEPT ![i] = new] /\ Goto(f, "revoked")
      /\ UNCHANGED <<user, person, tenant, member, subscription, expired, request, public>>
  BY DEF RevokeSave, At, IInv, TypeOK, Good, ReadsInvitation
<1>2. new \in InvitationRow /\ new.email = flow[f].read.email /\ new.status = "revoked"
  BY <1>1 DEF InvitationRow
<1>3. new # None
  BY <1>2, RowAssumption
<1> HIDE DEF new
<1>4. /\ invitation' \in [Invite -> InvitationRow \cup {None}] /\ invitation'[i] = new
      /\ \A k \in Invite \ {i} : invitation'[k] = invitation[k]
  BY <1>1, <1>2
<1>5. "revoked" \in Steps \cup Ends
  BY DEF Ends
<1>6. flow' \in [Flow -> FlowState] /\ SameBut(f, "revoked") /\ OthersStay(f)
  BY <1>1, <1>5, GotoMoves DEF IInv
<1>7. TypeOK'
  BY <1>1, <1>4, <1>6 DEF IInv, TypeOK
<1>8. Grows
  BY <1>1, <1>2, <1>3, <1>4 DEF Grows
<1>9. TenantIds' = TenantIds
  BY <1>1 DEF TenantIds
<1>10. \A g \in Flow : Mentioned(g)' => Mentioned(g)
  <2>1. \A h \in Flow : flow'[h].id = flow[h].id /\ flow'[h].tenant = flow[h].tenant
    BY <1>6 DEF SameBut, OthersStay
  <2> QED
    BY <1>1, <1>9, <2>1 DEF Mentioned
<1>11. \A g \in Flow \ {f} : Respects(g)
  BY <1>1, <1>6, <1>10 DEF Respects, OthersStay
<1>12. Good(f)'
  <2>1. Carries(f)' /\ Reserved(f)' /\ ReadsInvitation(f)' /\ AtHome(f)' /\ Spent(f)'
    BY <1>6 DEF Carries, Reserved, ReadsInvitation, AtHome, Spent, At, SameBut, Founding,
                Steps, HoldsSlug, HoldsEmail, Inviting
  <2>2. LeavesNothing(f)'
    BY <1>1, <1>6, <1>10 DEF LeavesNothing, Unborn, At, SameBut, IInv, Good
  <2> QED
    BY <2>1, <2>2 DEF Good
<1>13. \A g \in Flow \ {f} : Apart(f, g)'
  BY <1>6 DEF Apart, SameBut, HoldsSlug, HoldsEmail
<1> QED
  BY <1>7, <1>8, <1>11, <1>12, <1>13, OneMoves

LEMMA CommitKeeps ==
  ASSUME IInv, NEW f \in Flow, Commit(f)
  PROVE  IInv' /\ Grows
<1> DEFINE x == flow[f]
           home == [id |-> f, name |-> f]
           owner == [id |-> f, profile |-> TRUE, framework |-> FALSE]
           ship == [user |-> f, tenant |-> f, role |-> "owner"]
<1>1. /\ x.pc = "commit" /\ x \in FlowState /\ x.email \in Email /\ x.slug \in Slug
      /\ x.base \in Base /\ ~x.met /\ tenant[x.slug] = None /\ user[x.email] = None
      /\ x.email \notin person
      /\ UNCHANGED <<expired, request, public>> /\ Goto(f, "founded")
  BY DEF Commit, At, IInv, TypeOK, Good, Carries, Reserved, Founding, Steps, HoldsSlug, HoldsEmail
<1>2. /\ user \in [Email -> UserRow \cup {None}] /\ person \subseteq Email
      /\ tenant \in [Slug -> TenantRow \cup {None}] /\ member \subseteq Membership
      /\ subscription \in [Flow -> {"none", "starter", "paid"}]
      /\ invitation \in [Invite -> InvitationRow \cup {None}]
  BY DEF IInv, TypeOK
<1>3. home \in TenantRow /\ owner \in UserRow /\ ship \in Membership
  BY DEF TenantRow, UserRow, Membership, Role
<1>4. home # None /\ owner # None /\ owner.id = f /\ ship.user = f /\ ship.tenant = f /\ home.id = f
  BY <1>3, RowAssumption
<1>5. /\ tenant' = [tenant EXCEPT ![x.slug] = home]
      /\ user' = [user EXCEPT ![x.email] = owner]
      /\ person' = person \cup {x.email} /\ member' = member \cup {ship}
      /\ subscription' = [subscription EXCEPT ![f] = "starter"]
  BY DEF Commit, Founded
<1> HIDE DEF home, owner, ship
<1>6. /\ tenant'[x.slug] = home /\ \A s \in Slug \ {x.slug} : tenant'[s] = tenant[s]
      /\ user'[x.email] = owner /\ \A e \in Email \ {x.email} : user'[e] = user[e]
      /\ subscription'[f] = "starter" /\ \A t \in Flow \ {f} : subscription'[t] = subscription[t]
      /\ tenant' \in [Slug -> TenantRow \cup {None}]
      /\ user' \in [Email -> UserRow \cup {None}]
      /\ subscription' \in [Flow -> {"none", "starter", "paid"}]
      /\ person' \subseteq Email /\ member' \subseteq Membership
  BY <1>1, <1>2, <1>3, <1>5
<1>7. /\ invitation' \in [Invite -> InvitationRow \cup {None}]
      /\ \A i \in Invite : invitation[i] # None =>
           /\ invitation'[i] # None /\ invitation'[i].email = invitation[i].email
           /\ invitation[i].status # "pending" => invitation'[i].status # "pending"
      /\ x.invite # None =>
           /\ x.invite \in Invite /\ invitation'[x.invite] # None
           /\ invitation'[x.invite].email = x.email
           /\ invitation'[x.invite].status # "pending"
  <2>1. CASE x.invite = None
    BY <1>2, <2>1 DEF Commit, Redeemed
  <2>2. CASE x.invite # None
    <3> DEFINE new == [x.read EXCEPT !.status = "accepted", !.by = f]
    <3>1. /\ x.invite \in Invite /\ x.read \in InvitationRow
          /\ invitation[x.invite] # None /\ invitation[x.invite].email = x.read.email
          /\ x.read.email = x.email /\ invitation' = [invitation EXCEPT ![x.invite] = new]
      BY <1>1, <2>2 DEF Commit, Redeemed, IInv, Good, ReadsInvitation
    <3>2. new \in InvitationRow /\ new.email = x.email /\ new.status = "accepted"
      BY <3>1 DEF InvitationRow
    <3>3. new # None
      BY <3>2, RowAssumption
    <3> HIDE DEF new
    <3>4. invitation'[x.invite] = new /\ \A k \in Invite \ {x.invite} : invitation'[k] = invitation[k]
      BY <1>2, <3>1
    <3>5. invitation' \in [Invite -> InvitationRow \cup {None}]
      BY <1>2, <3>1, <3>2
    <3> QED
      BY <3>1, <3>2, <3>3, <3>4, <3>5
  <2> QED
    BY <2>1, <2>2
<1>8. "founded" \in Steps \cup Ends
  BY DEF Ends
<1>9. flow' \in [Flow -> FlowState] /\ SameBut(f, "founded") /\ OthersStay(f)
  BY <1>1, <1>8, GotoMoves DEF IInv
<1>10. TypeOK'
  BY <1>1, <1>6, <1>7, <1>9 DEF IInv, TypeOK
<1>11. Grows
  BY <1>1, <1>4, <1>5, <1>6, <1>7 DEF Grows
<1>12. ASSUME NEW g \in Flow \ {f} PROVE Respects(g)
  <2>1. g \in TenantIds' => g \in TenantIds
    BY <1>4, <1>6 DEF TenantIds
  <2>2. Mentioned(g)' => Mentioned(g)
    <3>1. \A h \in Flow : flow'[h].id = flow[h].id /\ flow'[h].tenant = flow[h].tenant
      BY <1>9 DEF SameBut, OthersStay
    <3>2. (\E e \in Email : user'[e] # None /\ user'[e].id = g)
            => \E e \in Email : user[e] # None /\ user[e].id = g
      BY <1>4, <1>6
    <3>3. (\E m \in member' : m.user = g \/ m.tenant = g)
            => \E m \in member : m.user = g \/ m.tenant = g
      BY <1>4, <1>5
    <3> QED
      BY <1>6, <2>1, <3>1, <3>2, <3>3 DEF Mentioned
  <2>3. Apart(f, g)
    BY DEF IInv
  <2>4. flow[g].pc \in HoldsSlug => flow[g].slug \in Slug \ {x.slug}
    BY <1>1, <2>3 DEF IInv, Good, Carries, Apart, HoldsSlug, HoldsEmail
  <2>5. flow[g].pc \in HoldsEmail => flow[g].email \in Email \ {x.email}
    BY <1>1, <2>3 DEF IInv, Good, Carries, Apart, HoldsSlug, HoldsEmail, Steps
  <2> QED
    BY <1>5, <1>6, <1>9, <2>2, <2>4, <2>5 DEF Respects, OthersStay
<1>13. Good(f)'
  <2>1. Carries(f)' /\ Reserved(f)' /\ ReadsInvitation(f)'
    BY <1>1, <1>9 DEF Carries, Reserved, ReadsInvitation, SameBut, Founding, Steps, HoldsSlug,
                HoldsEmail, Inviting
  <2>2. LeavesNothing(f)'
    BY <1>9 DEF LeavesNothing, Unborn, At, SameBut
  <2>3. AtHome(f)'
    <3>1. ship \in member'
      BY <1>5
    <3> QED
      BY <1>1, <1>4, <1>5, <1>6, <1>9, <3>1 DEF AtHome, SameBut, home
  <2>4. Spent(f)'
    BY <1>7, <1>9 DEF Spent, SameBut
  <2> QED
    BY <2>1, <2>2, <2>3, <2>4 DEF Good
<1>14. \A g \in Flow \ {f} : Apart(f, g)'
  BY <1>9 DEF Apart, SameBut, HoldsSlug, HoldsEmail
<1> QED
  BY <1>10, <1>11, <1>12, <1>13, <1>14, OneMoves

LEMMA CreateInvitedKeeps ==
  ASSUME IInv, NEW f \in Flow, CreateInvited(f)
  PROVE  IInv' /\ Grows
<1> DEFINE x == flow[f]
           e == flow[f].email
<1>1. /\ x.pc = "create" /\ e \in Email /\ x.base = None /\ x.id \in Flow /\ x.tenant \in Flow
      /\ user \in [Email -> UserRow \cup {None}] /\ EmailFree(f, e)
      /\ UNCHANGED <<person, tenant, member, subscription, invitation, expired, request, public>>
  BY DEF CreateInvited, At, IInv, TypeOK, Good, Carries, Inviting, Steps
<1>2. CASE user[e] # None /\ user[e].framework
  <2>1. Goto(f, "failed") /\ UNCHANGED <<tables, expired, request, public>>
    BY <1>1, <1>2 DEF CreateInvited, tables
  <2>2. "failed" \in (Steps \cup Ends) \ ({"founded", "revoke"} \cup HoldsSlug)
    BY DEF Steps, Ends, HoldsSlug, HoldsEmail
  <2>3. SameBut(f, "failed")
    BY <2>1, <2>2, GotoMoves DEF IInv
  <2>4. Carries(f)'
    BY <2>3 DEF Carries, SameBut, Founding, Steps, HoldsSlug, HoldsEmail, Inviting
  <2> QED
    BY <1>1, <2>1, <2>2, <2>4, PlainMove DEF At
<1>3. CASE ~(user[e] # None /\ user[e].framework)
  <2> DEFINE new == IF user[e] = None
                    THEN [id |-> f, profile |-> FALSE, framework |-> FALSE]
                    ELSE [user[e] EXCEPT !.profile = FALSE]
  <2>1. user' = [user EXCEPT ![e] = new] /\ Goto(f, "profile")
    BY <1>3 DEF CreateInvited
  <2>2. new \in UserRow /\ new.id = IF user[e] = None THEN f ELSE user[e].id
    <3>1. CASE user[e] = None
      BY <3>1 DEF UserRow
    <3>2. CASE user[e] # None
      <4>1. user[e] \in UserRow
        BY <1>1, <3>2
      <4> QED
        BY <3>2, <4>1 DEF UserRow
    <3> QED
      BY <3>1, <3>2
  <2>3. new # None
    BY <2>2, RowAssumption
  <2> HIDE DEF new
  <2>4. /\ user' \in [Email -> UserRow \cup {None}] /\ user'[e] = new
        /\ \A d \in Email \ {e} : user'[d] = user[d]
    BY <1>1, <2>1, <2>2
  <2>5. "profile" \in Steps \cup Ends
    BY DEF Steps
  <2>6. flow' \in [Flow -> FlowState] /\ SameBut(f, "profile") /\ OthersStay(f)
    BY <2>1, <2>5, GotoMoves DEF IInv
  <2>7. TypeOK'
    BY <1>1, <2>4, <2>6 DEF IInv, TypeOK
  <2>8. Grows
    BY <1>1, <2>2, <2>3, <2>4 DEF Grows
  <2>9. ASSUME NEW g \in Flow \ {f} PROVE Respects(g)
    <3>1. TenantIds' = TenantIds
      BY <1>1 DEF TenantIds
    <3>2. \A h \in Flow : flow'[h].id = flow[h].id /\ flow'[h].tenant = flow[h].tenant
      BY <2>6 DEF SameBut, OthersStay
    <3>3. (\E d \in Email : user'[d] # None /\ user'[d].id = g)
            => \E d \in Email : user[d] # None /\ user[d].id = g
      BY <2>2, <2>4
    <3>4. Mentioned(g)' => Mentioned(g)
      BY <1>1, <3>1, <3>2, <3>3 DEF Mentioned
    <3>5. flow[g].pc \in HoldsEmail => flow[g].email \in Email \ {e}
      BY <1>1 DEF EmailFree, IInv, Good, Carries, Steps, HoldsSlug, HoldsEmail
    <3> QED
      BY <1>1, <2>4, <2>6, <3>4, <3>5 DEF Respects, OthersStay
  <2>10. Good(f)'
    <3>1. Carries(f)'
      BY <1>1, <2>3, <2>4, <2>6 DEF Carries, SameBut, Founding, HoldsSlug, HoldsEmail
    <3>2. /\ Reserved(f)' /\ ReadsInvitation(f)' /\ AtHome(f)' /\ Spent(f)'
          /\ LeavesNothing(f)'
      BY <1>1, <2>6 DEF Reserved, ReadsInvitation, AtHome, Spent, LeavesNothing, Unborn, At,
                        SameBut, HoldsSlug, HoldsEmail
    <3> QED
      BY <3>1, <3>2 DEF Good
  <2>11. \A g \in Flow \ {f} : Apart(f, g)'
    BY <2>6 DEF Apart, SameBut, HoldsSlug, HoldsEmail
  <2> QED
    BY <2>7, <2>8, <2>9, <2>10, <2>11, OneMoves
<1> QED
  BY <1>2, <1>3

LEMMA GrantKeeps ==
  ASSUME IInv, NEW f \in Flow, Grant(f)
  PROVE  IInv' /\ Grows
<1> DEFINE x == flow[f]
           new == [user |-> x.id, tenant |-> x.tenant, role |-> x.role]
<1>1. /\ x.pc = "grant" /\ x \in FlowState /\ x.base = None /\ x.id \in Flow /\ x.tenant \in Flow
      /\ member \subseteq Membership /\ Goto(f, "enrolled")
      /\ member' = member \cup {new} \/ \E m \in Enrolled(f) : member' = (member \ {m}) \cup {new}
      /\ UNCHANGED <<user, person, tenant, subscription, invitation, expired, request, public>>
  BY DEF Grant, At, IInv, TypeOK, Good, Carries, Inviting
<1>2. new \in Membership /\ new.user = x.id /\ new.tenant = x.tenant
  BY <1>1 DEF Membership, FlowState
<1>3. \A m \in Enrolled(f) : m.user = new.user /\ m.tenant = new.tenant
  BY <1>2 DEF Enrolled
<1> HIDE DEF new
<1>4. "enrolled" \in Steps \cup Ends
  BY DEF Ends
<1>5. flow' \in [Flow -> FlowState] /\ SameBut(f, "enrolled") /\ OthersStay(f)
  BY <1>1, <1>4, GotoMoves DEF IInv
<1>6. member' \subseteq Membership /\ member' \subseteq member \cup {new} /\ new \in member'
  BY <1>1, <1>2
<1>7. TypeOK'
  BY <1>1, <1>5, <1>6 DEF IInv, TypeOK
<1>8. Grows
  <2>1. \A m \in member : \E n \in member' : n.user = m.user /\ n.tenant = m.tenant
    BY <1>1, <1>3, <1>6
  <2> QED
    BY <1>1, <2>1 DEF Grows
<1>9. ASSUME NEW g \in Flow \ {f} PROVE Respects(g)
  <2>1. TenantIds' = TenantIds
    BY <1>1 DEF TenantIds
  <2>2. \A h \in Flow : flow'[h].id = flow[h].id /\ flow'[h].tenant = flow[h].tenant
    BY <1>5 DEF SameBut, OthersStay
  <2>3. Mentioned(g)' => Mentioned(g)
    BY <1>1, <1>2, <1>6, <2>1, <2>2 DEF Mentioned
  <2> QED
    BY <1>1, <1>5, <2>3 DEF Respects, OthersStay
<1>10. Good(f)'
  BY <1>1, <1>5 DEF Good, Carries, Reserved, ReadsInvitation, AtHome, Spent, LeavesNothing,
                    Unborn, At, SameBut, Founding, Steps, HoldsSlug, HoldsEmail, Inviting
<1>11. \A g \in Flow \ {f} : Apart(f, g)'
  BY <1>5 DEF Apart, SameBut, HoldsSlug, HoldsEmail
<1> QED
  BY <1>7, <1>8, <1>9, <1>10, <1>11, OneMoves

LEMMA BackfillKeeps ==
  ASSUME IInv, Backfill
  PROVE  IInv' /\ Grows
<1>1. /\ user \in [Email -> UserRow \cup {None}] /\ person \subseteq Email
      /\ user' = [e \in Email |-> IF e \in Unbound THEN [user[e] EXCEPT !.profile = TRUE]
                                  ELSE user[e]]
      /\ person' = person \cup Unbound
      /\ UNCHANGED <<tenant, member, subscription, invitation, expired, request, public, flow>>
  BY DEF Backfill, IInv, TypeOK
<1>2. ASSUME NEW e \in Email
      PROVE  /\ e \in Unbound => user'[e] \in UserRow /\ user'[e].id = user[e].id /\ user[e] # None
             /\ e \notin Unbound => user'[e] = user[e]
  <2>1. CASE e \in Unbound
    <3>1. user[e] \in UserRow /\ user[e] # None
      BY <1>1, <2>1 DEF Unbound
    <3>2. user'[e] = [user[e] EXCEPT !.profile = TRUE]
      BY <1>1, <2>1
    <3> QED
      BY <2>1, <3>1, <3>2 DEF UserRow
  <2>2. CASE e \notin Unbound
    BY <1>1, <2>2
  <2> QED
    BY <2>1, <2>2
<1>3. /\ user' \in [Email -> UserRow \cup {None}] /\ person' \subseteq Email
      /\ \A e \in Email : user[e] # None => user'[e] # None /\ user'[e].id = user[e].id
      /\ \A e \in Email : user'[e] # None => user[e] # None
  <2>1. \A e \in Email : user'[e] \in UserRow \cup {None}
    BY <1>1, <1>2
  <2>2. user' = [e \in Email |-> user'[e]]
    BY <1>1
  <2> QED
    BY <1>1, <1>2, <2>1, <2>2, RowAssumption DEF Unbound
<1>4. TypeOK'
  BY <1>1, <1>3 DEF IInv, TypeOK
<1>5. Grows
  BY <1>1, <1>3 DEF Grows
<1>6. ASSUME NEW g \in Flow PROVE Respects(g)
  <2>1. TenantIds' = TenantIds
    BY <1>1 DEF TenantIds
  <2>2. Mentioned(g)' => Mentioned(g)
    BY <1>1, <1>3, <2>1 DEF Mentioned
  <2>3. flow[g].pc \in HoldsEmail => flow[g].email \in Email /\ user[flow[g].email] = None
    BY DEF IInv, Good, Carries, Reserved, Steps, HoldsSlug, HoldsEmail
  <2>4. flow[g].pc \in HoldsEmail => flow[g].email \notin Unbound
    BY <2>3 DEF Unbound
  <2> QED
    BY <1>1, <1>2, <2>2, <2>3, <2>4 DEF Respects
<1> QED
  BY <1>4, <1>5, <1>6, NobodyMoves

(* What a graduation does to tenants, memberships and subscriptions: new   *)
(* ones are of the request f, or of the user u in a tenant there is.       *)
Widened(f, u) ==
  /\ tenant' \in [Slug -> TenantRow \cup {None}] /\ member' \subseteq Membership
  /\ subscription' \in [Flow -> {"none", "starter", "paid"}]
  /\ \A s \in Slug : tenant[s] # None => tenant'[s] = tenant[s]
  /\ \A s \in Slug : tenant'[s] # None => tenant'[s] = tenant[s] \/ tenant'[s].id = f
  /\ \A g \in Flow \ {f} : flow[g].pc \in HoldsSlug => tenant'[flow[g].slug] = tenant[flow[g].slug]
  /\ \A t \in Flow \ {f} : subscription'[t] = subscription[t]
  /\ subscription[f] # "none" => subscription'[f] # "none"
  /\ member \subseteq member'
  /\ \A m \in member' \ member : m.user = u /\ m.tenant \in {f} \cup TenantIds

(* A graduation writes what it says, and speaks of nobody else.            *)
LEMMA GraduateKeeps ==
  ASSUME IInv, NEW f \in Flow, NEW e \in Email, NEW into, Graduate(f, e, into)
  PROVE  IInv' /\ Grows
<1> DEFINE u == IF user[e] = None THEN f ELSE user[e].id
           new == [id |-> u, profile |-> TRUE, framework |-> user[e] = None \/ user[e].framework]
<1>1. /\ flow[f].pc = "idle" /\ flow[f] = Idle /\ EmailFree(f, e)
      /\ UNCHANGED <<expired, public>>
      /\ user \in [Email -> UserRow \cup {None}] /\ person \subseteq Email
      /\ tenant \in [Slug -> TenantRow \cup {None}] /\ member \subseteq Membership
      /\ subscription \in [Flow -> {"none", "starter", "paid"}]
      /\ request \in [Email -> {"none", "open", "declined", "graduated"}]
  BY DEF Graduate, At, IInv, Good, Carries, TypeOK
<1>2. CASE ~Bindable(e, FALSE)
  <2>1. Goto(f, "failed") /\ UNCHANGED <<tables, expired, request, public>>
    BY <1>2 DEF Graduate
  <2>2. "failed" \in Steps \cup Ends
    BY DEF Ends
  <2>3. flow' \in [Flow -> FlowState] /\ SameBut(f, "failed") /\ OthersStay(f)
    BY <2>1, <2>2, GotoMoves DEF IInv
  <2>4. Carries(f)' /\ Reserved(f)' /\ ReadsInvitation(f)'
    BY <2>3 DEF Carries, Reserved, ReadsInvitation, SameBut, Founding, Steps, HoldsSlug,
                HoldsEmail, Inviting
  <2>5. \A g \in Flow \ {f} : Apart(f, g)'
    BY <2>3 DEF Apart, SameBut, HoldsSlug, HoldsEmail
  <2> QED
    BY <1>1, <2>1, <2>3, <2>4, <2>5, QuietMove DEF At, SameBut
<1>3. CASE Bindable(e, FALSE)
  <2>1. /\ user' = [user EXCEPT ![e] = new] /\ person' = person \cup {e}
        /\ request' = [request EXCEPT ![e] = "graduated"] /\ Goto(f, "graduated")
        /\ UNCHANGED invitation
    BY <1>3 DEF Graduate
  <2>2. new \in UserRow /\ new.id = u /\ u \in Flow /\ (u # f => Mentioned(u) /\ user[e].id = u /\ user[e] # None)
        /\ (user[e] # None => u = user[e].id)
    <3>1. CASE user[e] = None
      BY <3>1 DEF UserRow
    <3>2. CASE user[e] # None
      <4>1. user[e] \in UserRow
        BY <1>1, <3>2
      <4> QED
        BY <3>2, <4>1 DEF UserRow, Mentioned
    <3> QED
      BY <3>1, <3>2
  <2>3. new # None
    BY <2>2, RowAssumption
  <2> HIDE DEF new, u
  <2>4. /\ user' \in [Email -> UserRow \cup {None}] /\ user'[e] = new
        /\ \A d \in Email \ {e} : user'[d] = user[d] /\ request'[d] = request[d]
        /\ request' \in [Email -> {"none", "open", "declined", "graduated"}]
    BY <1>1, <2>1, <2>2
  (* the tenant, the membership and the subscription, in each of the ways  *)
  <2>5. Widened(f, u)
    <3>1. ASSUME NEW t \in {f} \cup TenantIds, NEW r \in Role
          PROVE  LET m == [user |-> u, tenant |-> t, role |-> r] IN
                 m \in Membership /\ m.user = u /\ m.tenant = t
      <4>1. TenantIds \subseteq Flow
        BY <1>1 DEF TenantIds, TenantRow
      <4>2. t \in Flow
        BY <4>1
      <4> QED
        BY <2>2, <4>2 DEF Membership
    <3>2. ASSUME into \in Base, NEW n \in 1 .. Tries,
                 FirstFree(into, n), SlugFree(f, <<into, n>>),
                 tenant' = [tenant EXCEPT ![<<into, n>>] = [id |-> f, name |-> f]],
                 member' = member \cup {[user |-> u, tenant |-> f, role |-> "owner"]},
                 subscription' = [subscription EXCEPT ![f] = "starter"]
          PROVE  Widened(f, u)
      <4> DEFINE s == <<into, n>>
                 home == [id |-> f, name |-> f]
                 m == [user |-> u, tenant |-> f, role |-> "owner"]
      <4>1. s \in Slug /\ tenant[s] = None
        BY <3>2 DEF Slug, FirstFree, TakenSlug
      <4>2. home \in TenantRow /\ home.id = f
        BY DEF TenantRow
      <4>3. m \in Membership /\ m.user = u /\ m.tenant = f
        BY <3>1 DEF Role
      <4>4. \A g \in Flow \ {f} : flow[g].pc \in HoldsSlug => flow[g].slug \in Slug \ {s}
        BY <3>2 DEF SlugFree, IInv, Good, Carries, HoldsSlug
      <4>5. tenant' = [tenant EXCEPT ![s] = home] /\ member' = member \cup {m}
        BY <3>2
      <4> HIDE DEF s, home, m
      <4>6. /\ tenant' \in [Slug -> TenantRow \cup {None}] /\ tenant'[s] = home
            /\ \A z \in Slug \ {s} : tenant'[z] = tenant[z]
        BY <1>1, <4>1, <4>2, <4>5
      <4>7. /\ member' \subseteq Membership /\ member \subseteq member'
            /\ \A z \in member' \ member : z.user = u /\ z.tenant = f
        BY <1>1, <4>3, <4>5
      <4>8. /\ subscription' \in [Flow -> {"none", "starter", "paid"}]
            /\ \A t \in Flow \ {f} : subscription'[t] = subscription[t]
            /\ subscription'[f] # "none"
        BY <1>1, <3>2
      <4> QED
        BY <4>1, <4>2, <4>4, <4>6, <4>7, <4>8 DEF Widened
    <3>3. ASSUME into \in TenantIds, NEW r \in InviteRole,
                 member' = member \cup {[user |-> u, tenant |-> into, role |-> r]},
                 UNCHANGED <<tenant, subscription>>
          PROVE  Widened(f, u)
      <4> DEFINE m == [user |-> u, tenant |-> into, role |-> r]
      <4>1. m \in Membership /\ m.user = u /\ m.tenant = into
        BY <3>1, <3>3 DEF Role
      <4> HIDE DEF m
      <4>2. /\ member' \subseteq Membership /\ member \subseteq member'
            /\ \A z \in member' \ member : z.user = u /\ z.tenant = into
        BY <1>1, <3>3, <4>1 DEF m
      <4> QED
        BY <1>1, <3>3, <4>2 DEF Widened
    <3>4. ASSUME UNCHANGED <<tenant, member, subscription>>
          PROVE  Widened(f, u)
      BY <1>1, <3>4 DEF Widened
    <3> QED
      BY <1>3, <3>2, <3>3, <3>4 DEF Graduate, u
  <2>6. "graduated" \in Steps \cup Ends
    BY DEF Ends
  <2>7. flow' \in [Flow -> FlowState] /\ SameBut(f, "graduated") /\ OthersStay(f)
    BY <2>1, <2>6, GotoMoves DEF IInv
  <2>8. TypeOK'
    BY <1>1, <2>1, <2>4, <2>5, <2>7 DEF IInv, TypeOK, Widened
  <2>9. Grows
    BY <2>1, <2>2, <2>3, <2>4, <2>5 DEF Grows, Widened
  <2>10. ASSUME NEW g \in Flow \ {f} PROVE Respects(g)
    <3>1. g \in TenantIds' => g \in TenantIds
      BY <2>5 DEF TenantIds, Widened
    <3>2. (\E d \in Email : user'[d] # None /\ user'[d].id = g) => Mentioned(g)
      BY <2>2, <2>4 DEF Mentioned
    <3>3. (\E m \in member' : m.user = g \/ m.tenant = g) => Mentioned(g)
      BY <2>2, <2>5 DEF Mentioned, Widened
    <3>4. \A h \in Flow : flow'[h].id = flow[h].id /\ flow'[h].tenant = flow[h].tenant
      BY <2>7 DEF SameBut, OthersStay
    <3>5. subscription'[g] = subscription[g]
      BY <2>5 DEF Widened
    <3>6. Mentioned(g)' => Mentioned(g)
      BY <3>1, <3>2, <3>3, <3>4, <3>5 DEF Mentioned
    <3>7. flow[g].pc \in HoldsEmail => flow[g].email \in Email \ {e}
      BY <1>1 DEF EmailFree, IInv, Good, Carries, Steps, HoldsSlug, HoldsEmail
    <3> QED
      BY <2>1, <2>4, <2>5, <2>7, <3>6, <3>7 DEF Respects, OthersStay, Widened
  <2>11. Good(f)'
    BY <1>1, <2>7 DEF Good, Carries, Reserved, ReadsInvitation, AtHome, Spent, LeavesNothing,
                      Unborn, At, SameBut, Founding, Steps, HoldsSlug, HoldsEmail, Inviting, Idle
  <2>12. \A g \in Flow \ {f} : Apart(f, g)'
    BY <2>7 DEF Apart, SameBut, HoldsSlug, HoldsEmail
  <2> QED
    BY <2>8, <2>9, <2>10, <2>11, <2>12, OneMoves
<1> QED
  BY <1>2, <1>3

----------------------------------------------------------------------------
(* The invariant.                                                          *)

LEMMA InitInv == Init => IInv
<1> SUFFICES ASSUME Init PROVE IInv
  OBVIOUS
<1>1. Idle \in FlowState
  BY DEF Idle, FlowState, Role
<1>2. TypeOK
  BY <1>1 DEF Init, TypeOK
<1>3. GraduatesExist
  BY DEF Init, GraduatesExist
<1>4. ASSUME NEW f \in Flow PROVE Good(f)
  <2>1. flow[f] = Idle /\ Idle.pc = "idle" /\ Idle.id = None /\ Idle.tenant = None
    BY DEF Init, Idle
  <2>2. \A g \in Flow : flow[g].id = None /\ flow[g].tenant = None
    BY DEF Init, Idle
  <2>3. ~Mentioned(f)
    <3>1. TenantIds = {}
      BY DEF Init, TenantIds
    <3>2. None \notin Flow
      BY OnboardingAssumption
    <3> QED
      BY <2>2, <3>1, <3>2 DEF Init, Mentioned
  <2>4. Carries(f) /\ Reserved(f) /\ ReadsInvitation(f) /\ AtHome(f) /\ Spent(f)
    BY <2>1 DEF Carries, Reserved, ReadsInvitation, AtHome, Spent, At, Founding, Steps,
                HoldsSlug, HoldsEmail, Inviting
  <2> QED
    BY <2>3, <2>4 DEF Good, LeavesNothing
<1>5. ASSUME NEW f \in Flow, NEW g \in Flow \ {f} PROVE Apart(f, g)
  BY DEF Init, Idle, Apart, HoldsSlug, HoldsEmail
<1> QED
  BY <1>2, <1>3, <1>4, <1>5 DEF IInv

LEMMA NextInv == IInv /\ [Next]_vars => IInv' /\ (Grows \/ UNCHANGED vars)
<1> SUFFICES ASSUME IInv, [Next]_vars PROVE IInv' /\ (Grows \/ UNCHANGED vars)
  OBVIOUS
<1>1. ASSUME NEW f \in Flow, Step(f) PROVE IInv' /\ Grows
  BY <1>1, OpenLinkKeeps, ValidateKeeps, RevokeSaveKeeps, FindUserKeeps, ChooseSlugKeeps,
     UpsertTenantKeeps, UpsertUserKeeps, RedeemKeeps, CommitKeeps, SignInKeeps,
     OpenSessionKeeps, CreateInvitedKeeps, BindInvitedKeeps, FindMembershipKeeps, GrantKeeps
  DEF Step
<1>2. ASSUME NEW f \in Flow, Start(f) PROVE IInv' /\ Grows
  BY <1>2, RequestLinkKeeps, SubmitInvitationKeeps, InviteMemberKeeps, GraduateKeeps,
     GraduateAgainKeeps DEF Start
<1>3. ASSUME NEW f \in Flow, Rollback(f) \/ \E i \in Invite : RevokeRead(f, i)
      PROVE  IInv' /\ Grows
  BY <1>3, RollbackKeepsInvariant, RevokeReadKeeps
<1>4. ASSUME Around PROVE IInv' /\ Grows
  BY <1>4, BackfillKeeps, CreateInvitationKeeps, UpgradeKeeps, OthersAroundKeep DEF Around
<1>5. ASSUME UNCHANGED vars PROVE IInv'
  BY <1>5 DEF vars, tables, IInv, TypeOK, GraduatesExist, Good, Carries, Reserved,
              ReadsInvitation, LeavesNothing, Unborn, Mentioned, TenantIds, AtHome, Spent, At, Apart
<1> QED
  BY <1>1, <1>2, <1>3, <1>4, <1>5 DEF Next

LEMMA Invariance == Spec => []IInv
<1>1. IInv /\ [Next]_vars => IInv'
  BY NextInv
<1> QED
  BY <1>1, InitInv, PTL DEF Spec

----------------------------------------------------------------------------
(* What it is good for.                                                    *)

(* Every table and every request keeps its type, for any number of         *)
(* requests and any mixture of flows.                                      *)
THEOREM TypeCorrect == Spec => []TypeOK
<1>1. IInv => TypeOK
  BY DEF IInv
<1> QED
  BY <1>1, Invariance, PTL

(* A founder has what its request was told, whoever else asked for the     *)
(* slug or the address at the same time (onboardTenant).                   *)
THEOREM FoundersHaveTheirHome == Spec => []FoundersAreAtHome
<1>1. IInv => FoundersAreAtHome
  BY DEF IInv, Good, AtHome, FoundersAreAtHome
<1> QED
  BY <1>1, Invariance, PTL

(* A sign-up that is refused, fails or is lost with its process leaves no  *)
(* row and is named by none (withDbTransaction around onboardTenant).      *)
THEOREM FailuresLeaveNothing == Spec => []FailedSignUpLeavesNothing
<1>1. IInv => FailedSignUpLeavesNothing
  BY DEF IInv, Good, LeavesNothing, Unborn, Mentioned, FailedSignUpLeavesNothing, At
<1> QED
  BY <1>1, Invariance, PTL

(* An invitation founds a workspace for the address it was sent to, ends   *)
(* once and stays ended, although redeem and revoke write back what they   *)
(* have read.                                                              *)
THEOREM InvitationsAreSpentOnce == Spec => InvitationsEndOnce
<1>1. IInv => UsedInvitationIsSpent
  BY DEF IInv, Good, Spent, UsedInvitationIsSpent
<1>2. ASSUME IInv, [Next]_vars
      PROVE  [/\ UsedInvitationIsSpent'
              /\ \A i \in Invite :
                   invitation[i] # None /\ invitation[i].status # "pending" =>
                     invitation'[i].status # "pending"]_vars
  <2>1. IInv' /\ (Grows \/ UNCHANGED vars)
    BY <1>2, NextInv
  <2>2. UsedInvitationIsSpent'
    BY <2>1 DEF IInv, Good, Spent, UsedInvitationIsSpent
  <2> QED
    BY <2>1, <2>2 DEF Grows
<1> QED
  BY <1>2, Invariance, PTL DEF Spec, InvitationsEndOnce

----------------------------------------------------------------------------
(* A Person that was there first.                                          *)

Adopts(e) == e \in person /\ HasProfile(e)' /\ ~HasProfile(e)
Verifies(f, e) == At(f, "signin") /\ flow[f].email = e /\ At(f, "session")'

(* Binding without proof of the address adopts nobody.                     *)
LEMMA UnprovenAdoptsNobody ==
  ASSUME TypeOK, NEW e \in Email, Bindable(e, FALSE), NEW d \in Email,
         \A c \in Email \ {e} : user'[c] = user[c]
  PROVE  ~Adopts(d)
BY DEF Bindable, Adopts, HasProfile

LEMMA StepAdopts ==
  ASSUME IInv, NEW f \in Flow, Step(f) \/ Start(f), NEW d \in Email, Adopts(d)
  PROVE  Verifies(f, d)
<1>1. user \in [Email -> UserRow \cup {None}] /\ TypeOK
  BY DEF IInv, TypeOK
<1>2. user' # user
  BY DEF Adopts, HasProfile
<1>3. CASE SignIn(f)
  <2> DEFINE e == flow[f].email
  <2>1. e \in Email /\ flow[f].pc = "signin" /\ flow \in [Flow -> FlowState]
    BY <1>1, <1>3 DEF SignIn, At, IInv, Good, Carries, Steps, TypeOK
  <2>2. Bind(e) /\ Goto(f, "session")
    BY <1>2, <1>3 DEF SignIn
  <2>3. \A c \in Email \ {e} : user'[c] = user[c]
    BY <1>1, <2>1, <2>2 DEF Bind
  <2>4. d = e
    BY <2>1, <2>3 DEF Adopts, HasProfile
  <2>5. At(f, "session")'
    BY <2>1, <2>2 DEF Goto, At
  <2> QED
    BY <2>1, <2>4, <2>5 DEF Verifies, At
<1>4. CASE Commit(f)
  <2>1. flow[f].email \in Email /\ flow[f].email \notin person
    BY <1>4 DEF Commit, At, IInv, Good, Carries, Reserved, Steps, HoldsSlug, HoldsEmail
  <2>2. \A c \in Email \ {flow[f].email} : user'[c] = user[c]
    BY <1>1, <1>4, <2>1 DEF Commit, Founded
  <2> QED
    BY <2>1, <2>2 DEF Adopts, HasProfile
<1>5. CASE CreateInvited(f)
  <2> DEFINE e == flow[f].email
             new == IF user[e] = None
                    THEN [id |-> f, profile |-> FALSE, framework |-> FALSE]
                    ELSE [user[e] EXCEPT !.profile = FALSE]
  <2>1. e \in Email
    BY <1>5 DEF CreateInvited, At, IInv, Good, Carries, Steps
  <2>2. user' = [user EXCEPT ![e] = new]
    BY <1>2, <1>5 DEF CreateInvited
  <2>3. ~new.profile
    <3>1. CASE user[e] = None
      BY <3>1
    <3>2. CASE user[e] # None
      <4>1. user[e] \in UserRow
        BY <1>1, <2>1, <3>2
      <4> QED
        BY <3>2, <4>1 DEF UserRow
    <3> QED
      BY <3>1, <3>2
  <2> HIDE DEF new
  <2>4. user'[e] = new /\ \A c \in Email \ {e} : user'[c] = user[c]
    BY <1>1, <2>1, <2>2
  <2> QED
    BY <2>3, <2>4 DEF Adopts, HasProfile
<1>6. CASE BindInvited(f)
  <2> DEFINE e == flow[f].email
  <2>1. e \in Email /\ user[e] # None
    BY <1>6 DEF BindInvited, At, IInv, Good, Carries, Steps
  <2>2. Bind(e) /\ Bindable(e, FALSE)
    BY <1>2, <1>6 DEF BindInvited
  <2>3. \A c \in Email \ {e} : user'[c] = user[c]
    BY <1>1, <2>1, <2>2 DEF Bind
  <2> QED
    BY <1>1, <2>1, <2>2, <2>3, UnprovenAdoptsNobody
<1>7. ASSUME NEW e \in Email, NEW into, Graduate(f, e, into) \/ GraduateAgain(f, e, into)
      PROVE  FALSE
  <2>1. Bindable(e, FALSE)
    BY <1>2, <1>7 DEF Graduate, GraduateAgain, tables
  <2>2. \A c \in Email \ {e} : user'[c] = user[c]
    BY <1>1, <1>7, <2>1 DEF Graduate, GraduateAgain, Bind
  <2> QED
    BY <1>1, <2>1, <2>2, UnprovenAdoptsNobody
<1>8. CASE \/ OpenLink(f) \/ Validate(f) \/ RevokeSave(f)
           \/ FindUser(f) \/ ChooseSlug(f) \/ UpsertTenant(f) \/ UpsertUser(f)
           \/ Redeem(f) \/ OpenSession(f) \/ FindMembership(f) \/ Grant(f)
  BY <1>2, <1>8 DEF OpenLink, Validate, RevokeSave, FindUser, ChooseSlug, UpsertTenant,
     UpsertUser, Redeem, OpenSession, FindMembership, Grant, tables
<1>9. ASSUME NEW e \in Email, NEW b \in Base,
             RequestLink(f, e, b) \/ \E i \in Invite : SubmitInvitation(f, e, b, i)
      PROVE  FALSE
  BY <1>2, <1>9 DEF RequestLink, SubmitInvitation, tables
<1>10. ASSUME NEW e \in Email, NEW t \in Flow, NEW r \in InviteRole, InviteMember(f, e, t, r)
       PROVE  FALSE
  BY <1>2, <1>10 DEF InviteMember, tables
<1>11. CASE Start(f)
  BY <1>7, <1>9, <1>10, <1>11 DEF Start
<1> QED
  BY <1>3, <1>4, <1>5, <1>6, <1>8, <1>11 DEF Step

(* Nobody is bound to a Person that was there first but by a verified link *)
(* or by the operator's backfill (reuseExistingProfile).                   *)
THEOREM OnlyTheVerifiedAdopt == Spec => OnlyVerifiedAdopts
<1>1. ASSUME IInv, [Next]_vars
      PROVE  [\A e \in person : HasProfile(e)' /\ ~HasProfile(e) =>
                \/ \E f \in Flow : At(f, "signin") /\ flow[f].email = e /\ At(f, "session")'
                \/ UNCHANGED flow]_vars
  <2> SUFFICES ASSUME NEW d \in person, Adopts(d), Next
               PROVE  (\E f \in Flow : Verifies(f, d)) \/ UNCHANGED flow
    BY <1>1 DEF Adopts, Verifies
  <2>1. d \in Email
    BY <1>1 DEF IInv, TypeOK
  <2>2. user' # user
    BY DEF Adopts, HasProfile
  <2>3. ASSUME NEW f \in Flow, Step(f) \/ Start(f) PROVE Verifies(f, d)
    BY <1>1, <2>1, <2>3, StepAdopts
  <2>4. ASSUME NEW f \in Flow, Rollback(f) \/ \E i \in Invite : RevokeRead(f, i) PROVE FALSE
    BY <2>2, <2>4 DEF Rollback, RevokeRead, tables
  <2>5. CASE Around
    BY <2>2, <2>5 DEF Around, SetMode, Backfill, Expire, CreateInvitation, Upgrade,
                      SubmitRequest, DeclineRequest
  <2> QED
    BY <2>3, <2>4, <2>5 DEF Next
<1> QED
  BY <1>1, Invariance, PTL DEF Spec, OnlyVerifiedAdopts
=============================================================================
