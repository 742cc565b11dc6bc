-------------------------- MODULE Authority_proofs --------------------------
(***************************************************************************)
(* Proofs about Authority, for any users, tenants, sessions, clients,      *)
(* requests, deployments and memberships.                                  *)
(*                                                                         *)
(* The properties speak of the moment a request acts; what makes them hold *)
(* has happened long before, at other requests of the same client.  The    *)
(* inductive invariant says that a session is held by one client only      *)
(* (Apart), that a session once gone does not come back (Used, Dead), that *)
(* a browser that was told its tenant is in it (Settled) unless a request  *)
(* that moves it is under way (Crossing), and what each request knows      *)
(* (Sound).  A step of a request touches that request, and of the sessions *)
(* only its own or a new one: StepKeeps.                                   *)
(***************************************************************************)
EXTENDS Authority, FiniteSetTheorems, TLAPS

-----------------------------------------------------------------------------
(* The inductive invariant                                                 *)

\* Client c holds session s, in its cookies or in a request.
Holds(c, s) ==
  \/ c \in Browser /\ jar[c].sid = s
  \/ c \in Device /\ token[c] = s
  \/ \E r \in Request : request[r].from = c /\ request[r].sid = s

Used ==
  /\ \A s \in Session : session[s] # None => s \in used
  /\ \A c \in Browser \cup Device, s \in Session : Holds(c, s) => s \in used

\* No two clients hold the same session.
Apart ==
  \A s \in Session, c1, c2 \in Browser \cup Device : Holds(c1, s) /\ Holds(c2, s) => c1 = c2

Moving(q) == q.pc \notin {"acted", "ended", "unsent"} /\ MovesTenant(q.do)

\* Session s cannot bring another tenant than t.
Brings(s, t) == s # None /\ session[s] # None => session[s].tenant = t

Shaped(q) ==
  /\ q.pc \in {"acted", "ended", "unsent"} =>
       /\ q.from = None /\ q.do = None /\ q.sid = None /\ q.after = None
       /\ ~q.dead /\ ~q.alone
  /\ q.pc \notin {"acted", "ended", "unsent"} =>
       /\ q.from \in Browser \cup Device /\ q.do # None
  /\ q.do \in {"switch", "login", "logout"} => q.from \in Browser
  /\ q.do \in {"complete", "bootstrap", "destroy"} => q.from \in Device
  /\ q.do = "switch" => q.arg \in Tenant
  /\ q.do = "login" => q.arg \in User
  /\ q.do \in {"bootstrap", "destroy"} => q.sid \in Session
  /\ q.pc = "sent" => q.user = None
  /\ q.pc \in {"identified", "hooked"} => q.do \notin {"login", "complete"}
  /\ q.pc = "checked" => q.do \in {"command", "switch", "bootstrap"}
  /\ q.pc = "loaded" => q.do = "bootstrap"
  /\ q.pc \in {"exchanged", "signed", "stored"} => q.do = "complete"
  /\ q.pc = "conflict" => q.do = "switch"
  /\ q.pc = "answer" => q.do # "command"
  /\ q.pc \in {"exchanged", "signed"} => q.user \in User
  /\ q.pc = "signed" => q.tenant \in Tenant

\* A session that was gone when a request was sent stays gone.
Dead(q) ==
  q.dead /\ q.do \notin {"login", "complete"} =>
    /\ q.sid \in Session /\ session[q.sid] = None
    /\ q.pc # "sent" =>
         q.from \in Browser /\ (q.user = None \/ (deployment.fallback /\ q.user = Demo))
    /\ q.pc = "checked" /\ q.do = "command" => q.user # None

\* Without a user the session is gone.
Nobody(q) ==
  q.pc \in {"identified", "hooked", "checked"} /\ q.sid # None /\ q.user = None =>
    session[q.sid] = None

\* A command keeps to the tenant its browser is in.
Keeps(q) ==
  q.after # None =>
    /\ q.do = "command" /\ q.from \in Browser
    /\ q.pc = "sent" => q.cookie = q.after /\ Brings(q.sid, q.after)
    /\ q.pc # "sent" => q.context = q.after
    /\ q.pc \notin {"sent", "identified"} => q.tenant = q.after

\* A move that has crossed no other has the session of its browser, and
\* leaves it in the tenant that the answer tells.
Tells(q) ==
  q.alone =>
    /\ Moving(q)
    /\ q.do = "switch" => q.sid = jar[q.from].sid
    /\ q.do = "switch" /\ q.pc = "answer" => Brings(q.sid, q.arg)
    /\ q.do = "login" /\ q.pc = "answer" => Brings(q.sid, q.tenant)

Vouched(q) ==
  LET said == {q.answers.profile, q.answers.claims} \ {None} IN
  q.pc = "exchanged" =>
    /\ \E a \in said : a.email = q.user /\ a.verified = "yes"
    /\ q.answers.profile # None /\ q.answers.profile.email # None =>
         q.answers.profile.email = q.user /\ q.answers.profile.verified # "no"
    /\ q.via[2] \in deployment.allowed[None] \cup deployment.allowed[q.via[1]]
    /\ Cardinality({i \in DOMAIN deployment.list : deployment.list[i] = q.via[1]}) = 1

Sound(q) == Shaped(q) /\ Dead(q) /\ Nobody(q) /\ Keeps(q) /\ Tells(q) /\ Vouched(q)

\* While a move of a browser is under way nothing is settled, and one that
\* has crossed no other is the only one.
Crossing ==
  \A r \in Request : Moving(request[r]) =>
    /\ settled[request[r].from] = None
    /\ \A o \in Request : request[o].from = request[r].from =>
         /\ request[o].after = None
         /\ o # r /\ Moving(request[o]) => ~request[r].alone

\* A browser that has been told its tenant is in it.
Settled ==
  \A b \in Browser : settled[b] # None =>
    jar[b].tenant = settled[b] /\ Brings(jar[b].sid, settled[b])

IInv ==
  /\ TypeOK /\ Used /\ Apart /\ Crossing /\ Settled
  /\ \A r \in Request : Sound(request[r])

-----------------------------------------------------------------------------
(* Lemmas                                                                  *)

\* None is no user, no tenant, no session, and so on.
LEMMA NoneIsApart ==
  /\ None \notin User /\ None \notin Tenant /\ None \notin Session /\ None \notin Provider
  /\ None \notin Browser /\ None \notin Device /\ None \notin Roles /\ None \notin Permissions
  /\ None \notin Doings /\ None \notin {"yes", "no"} /\ None \notin SessionRow /\ None \notin Statement /\ None \notin Answers
BY AuthorityAssumption

LEMMA MaybeIs ==
  /\ \A S : None \in Maybe(S)
  /\ \A S, x : x \in Maybe(S) <=> x \in S \cup {None}
BY DEF Maybe

LEMMA Fields ==
  ASSUME NEW q \in RequestRow
  PROVE  /\ q.from \in Browser \cup Device \cup {None} /\ q.do \in Doings \cup {None}
         /\ q.sid \in Session \cup {None} /\ q.user \in User \cup {None}
         /\ q.cookie \in Tenant \cup {None} /\ q.header \in Tenant \cup {None}
         /\ q.host \in Tenant \cup {None} /\ q.tenant \in Tenant \cup {None}
         /\ q.context \in Tenant \cup {None} /\ q.after \in Tenant \cup {None}
         /\ q.dead \in BOOLEAN /\ q.alone \in BOOLEAN
<1>1. /\ q.from \in Maybe(Browser \cup Device) /\ q.do \in Maybe(Doings)
      /\ q.sid \in Maybe(Session) /\ q.user \in Maybe(User)
      /\ q.cookie \in Maybe(Tenant) /\ q.header \in Maybe(Tenant)
      /\ q.host \in Maybe(Tenant) /\ q.tenant \in Maybe(Tenant)
      /\ q.context \in Maybe(Tenant) /\ q.after \in Maybe(Tenant)
      /\ q.dead \in BOOLEAN /\ q.alone \in BOOLEAN
  BY DEF RequestRow
<1> QED
  BY <1>1, MaybeIs

\* A request that is not under way holds nothing.
LEMMA BlankIsSound ==
  ASSUME NEW pc \in {"acted", "ended", "unsent"}
  PROVE  /\ [Blank EXCEPT !.pc = pc] \in RequestRow
         /\ Sound([Blank EXCEPT !.pc = pc])
<1>1. [Blank EXCEPT !.pc = pc] \in RequestRow
  BY MaybeIs DEF Blank, RequestRow, Stages
<1>2. None \notin Doings
  BY NoneIsApart
<1>3. None \notin {"switch", "login", "logout", "complete", "bootstrap", "destroy"}
  BY <1>2 DEF Doings
<1>4. Shaped([Blank EXCEPT !.pc = pc])
  BY <1>3 DEF Shaped, Blank
<1>5. Dead([Blank EXCEPT !.pc = pc]) /\ Nobody([Blank EXCEPT !.pc = pc])
      /\ Keeps([Blank EXCEPT !.pc = pc]) /\ Tells([Blank EXCEPT !.pc = pc])
  BY DEF Dead, Nobody, Keeps, Tells, Blank
<1>6. Vouched([Blank EXCEPT !.pc = pc])
  BY DEF Vouched, Blank
<1> QED
  BY <1>1, <1>4, <1>5, <1>6 DEF Sound

\* What StepKeeps asks of a step of request r
Continues(r) ==
  \/ request'[r].pc \in Ended /\ request'[r] = [Blank EXCEPT !.pc = request'[r].pc]
  \/ /\ request'[r].pc \notin {"acted", "ended", "unsent"}
     /\ request'[r].from = request[r].from /\ request'[r].do = request[r].do
     /\ request'[r].after \in {None, request[r].after}
     /\ request'[r].alone = request[r].alone
     /\ \/ request'[r].sid = request[r].sid
        \/ request'[r].sid \notin used /\ request'[r].sid \in used'

\* Sessions that there have been stay or go, except that a request to switch
\* moves its own to another tenant.
Spares(r) ==
  /\ session' \in [Session -> SessionRow \cup {None}]
  /\ used \subseteq used' /\ used' \subseteq Session
  /\ \A s \in Session : session'[s] # None => s \in used'
  /\ \A s \in used :
       \/ session'[s] = session[s] \/ session'[s] = None
       \/ /\ s = request[r].sid /\ request[r].do = "switch"
          /\ session[s] # None /\ session'[s] # None

Moves(r) ==
  /\ request' \in [Request -> RequestRow]
  /\ \A o \in Request : o # r => request'[o] = request[o]
  /\ UNCHANGED <<deployment, role, jar, token, settled, changes>>

\* A step of a request leaves everybody else as they were.
LEMMA StepKeeps ==
  ASSUME IInv, NEW r \in Request, request[r].pc \notin {"acted", "ended", "unsent"},
         Moves(r), Spares(r), Continues(r), Sound(request[r])'
  PROVE  IInv'
<1> USE NoneIsApart
<1> DEFINE me == request[r].from
<1>1. /\ TypeOK /\ Used /\ Apart /\ Crossing /\ Settled
      /\ \A o \in Request : Sound(request[o])
  BY DEF IInv
<1>2. /\ me \in Browser \cup Device
      /\ \A o \in Request \ {r} : request'[o] = request[o]
      /\ deployment' = deployment /\ role' = role /\ jar' = jar /\ token' = token
      /\ settled' = settled /\ changes' = changes
  BY <1>1 DEF Sound, Shaped, Moves
<1>3. TypeOK'
  BY <1>1, <1>2 DEF TypeOK, Moves, Spares
<1>4. Holds(me, request[r].sid)
  BY <1>2 DEF Holds
<1>5. ASSUME NEW c \in Browser \cup Device, NEW s \in Session, Holds(c, s)'
      PROVE  \/ Holds(c, s)
             \/ s \notin used /\ s \in used' /\ c = me /\ s = request'[r].sid
  <2>1. CASE (c \in Browser /\ jar[c].sid = s) \/ (c \in Device /\ token[c] = s)
    BY <2>1 DEF Holds
  <2>2. CASE \E o \in Request : request'[o].from = c /\ request'[o].sid = s
    <3>1. PICK o \in Request : request'[o].from = c /\ request'[o].sid = s
      BY <2>2
    <3>2. CASE o # r
      BY <3>1, <3>2, <1>2 DEF Holds
    <3>3. CASE o = r
      <4>1. request'[r].pc \notin Ended
        BY <3>1, <3>3 DEF Continues, Blank, Ended
      <4>2. request'[r].from = me
        BY <4>1 DEF Continues
      <4>3. request'[r].sid = request[r].sid
            \/ (request'[r].sid \notin used /\ request'[r].sid \in used')
        BY <4>1 DEF Continues
      <4> QED
        BY <4>2, <4>3, <1>4, <3>1, <3>3
    <3> QED
      BY <3>2, <3>3
  <2> QED
    BY <1>5, <2>1, <2>2, <1>2 DEF Holds
<1>6. Used'
  <2>1. \A s \in Session : session'[s] # None => s \in used'
    BY DEF Spares
  <2>2. ASSUME NEW c \in Browser \cup Device, NEW s \in Session, Holds(c, s)' PROVE s \in used'
    BY <1>5, <2>2, <1>1 DEF Used, Spares
  <2> QED
    BY <2>1, <2>2 DEF Used
<1>7. Apart'
  <2> SUFFICES ASSUME NEW s \in Session, NEW c1 \in Browser \cup Device,
                      NEW c2 \in Browser \cup Device, Holds(c1, s)', Holds(c2, s)'
               PROVE  c1 = c2
    BY DEF Apart
  <2>1. Holds(c1, s) \/ (s \notin used /\ c1 = me)
    BY <1>5
  <2>2. Holds(c2, s) \/ (s \notin used /\ c2 = me)
    BY <1>5
  <2> QED
    BY <2>1, <2>2, <1>1 DEF Apart, Used
<1>8. ASSUME NEW o \in Request, Moving(request[o])'
      PROVE  /\ Moving(request[o]) /\ request'[o].from = request[o].from
             /\ request'[o].alone = request[o].alone
  <2>1. CASE o # r
    BY <2>1, <1>2, <1>8 DEF Moving
  <2>2. CASE o = r
    BY <2>2, <1>8 DEF Moving, Continues, Ended, MovesTenant
  <2> QED
    BY <2>1, <2>2
<1>9. ASSUME NEW o \in Request, request'[o].from # None
      PROVE  /\ request'[o].from = request[o].from
             /\ request'[o].after \in {None, request[o].after}
  <2>1. CASE o # r
    BY <2>1, <1>2
  <2>2. CASE o = r
    BY <2>2, <1>9 DEF Continues, Blank
  <2> QED
    BY <2>1, <2>2
<1>10. \A o \in Request : request[o].from \in Browser \cup Device \cup {None}
  BY <1>1, Fields DEF TypeOK
<1>11. Crossing'
  <2> SUFFICES ASSUME NEW a \in Request, Moving(request[a])'
               PROVE  /\ settled'[request'[a].from] = None
                      /\ \A o \in Request : request'[o].from = request'[a].from =>
                           /\ request'[o].after = None
                           /\ o # a /\ Moving(request[o])' => ~request'[a].alone
    BY DEF Crossing
  <2>1. /\ Moving(request[a]) /\ request'[a].from = request[a].from
        /\ request'[a].alone = request[a].alone
    BY <1>8
  <2>2. request'[a].from # None
    BY <2>1, <1>1 DEF Moving, Sound, Shaped
  <2>3. ASSUME NEW o \in Request, request'[o].from = request'[a].from
        PROVE  /\ request'[o].after = None
               /\ o # a /\ Moving(request[o])' => ~request'[a].alone
    <3>1. request[o].from = request[a].from /\ request'[o].after \in {None, request[o].after}
      BY <2>1, <2>2, <2>3, <1>9
    <3>2. request'[o].after = None
      BY <3>1, <2>1, <1>1 DEF Crossing
    <3>3. ASSUME o # a, Moving(request[o])' PROVE ~request'[a].alone
      BY <3>3, <3>1, <2>1, <1>1, <1>8 DEF Crossing
    <3> QED
      BY <3>2, <3>3
  <2> QED
    BY <2>1, <2>3, <1>1, <1>2 DEF Crossing
<1>12. ASSUME NEW s \in used, NEW t, Brings(s, t), ~Brings(s, t)'
       PROVE  s = request[r].sid /\ Moving(request[r])
  BY <1>12 DEF Spares, Brings, Moving, MovesTenant
<1>13. Settled'
  <2> SUFFICES ASSUME NEW b \in Browser, settled[b] # None
               PROVE  jar[b].tenant = settled[b] /\ Brings(jar[b].sid, settled[b])'
    BY <1>2 DEF Settled, Brings
  <2>1. jar[b].tenant = settled[b] /\ Brings(jar[b].sid, settled[b])
    BY <1>1 DEF Settled
  <2>2. CASE jar[b].sid = None
    BY <2>1, <2>2, <1>2 DEF Brings
  <2>3. CASE jar[b].sid # None
    <3>1. jar[b].sid \in Session
      BY <2>3, <1>1 DEF TypeOK
    <3>2. Holds(b, jar[b].sid)
      BY DEF Holds
    <3>3. jar[b].sid \in used
      BY <3>1, <3>2, <1>1 DEF Used
    <3>4. ~(jar[b].sid = request[r].sid /\ Moving(request[r]))
      BY <3>1, <3>2, <1>2, <1>4, <1>1 DEF Apart, Crossing
    <3>5. jar'[b].sid = jar[b].sid /\ settled'[b] = settled[b]
      BY <1>2
    <3>6. \A t : Brings(jar[b].sid, t) => session'[jar[b].sid] = None
                                           \/ session'[jar[b].sid].tenant = t
      BY <3>3, <3>4, <2>3 DEF Spares, Brings, Moving, MovesTenant
    <3> QED
      BY <2>1, <3>5, <3>6 DEF Brings
  <2> QED
    BY <2>1, <2>2, <2>3
<1>14. ASSUME NEW o \in Request, o # r PROVE Sound(request[o])'
  <2> DEFINE q == request[o]
  <2>1. request'[o] = request[o] /\ Sound(request[o]) /\ request[o] \in RequestRow
    BY <1>1, <1>2, <1>14 DEF TypeOK
  <2>2. request[o].sid = None \/ (request[o].sid \in Session /\ request[o].sid \in used
                                  /\ Holds(request[o].from, request[o].sid))
    <3>1. ASSUME request[o].sid # None PROVE request[o].from # None
      BY <3>1, <2>1 DEF Sound, Shaped, Blank
    <3> QED
      BY <3>1, <2>1, <1>1, Fields DEF Holds, Used
  <2>3. Shaped(request[o])'
    BY <2>1 DEF Sound, Shaped
  <2>4. Vouched(request[o])'
    BY <2>1, <1>2 DEF Sound, Vouched
  <2>5. request[o].sid # None /\ session[request[o].sid] = None =>
          session'[request[o].sid] = None
    BY <2>2 DEF Spares
  <2>6. Dead(request[o])'
    BY <2>1, <2>5, <1>2 DEF Sound, Dead
  <2>7. Nobody(request[o])'
    BY <2>1, <2>5 DEF Sound, Nobody
  <2>8. ASSUME NEW t, Brings(request[o].sid, t),
               ~(request[o].sid # None /\ request[o].sid = request[r].sid /\ Moving(request[r]))
        PROVE  request'[o].sid # None /\ session'[request'[o].sid] # None =>
                 session'[request'[o].sid].tenant = t
    BY <2>1, <2>2, <2>8 DEF Spares, Brings, Moving, MovesTenant
  <2>9. ASSUME request[o].sid # None, request[o].sid = request[r].sid, Moving(request[r])
        PROVE  request[o].from = me
    BY <2>9, <2>2, <1>2, <1>4, <2>1, <1>1, Fields DEF Apart, Sound, Shaped, Blank
  <2>10. Keeps(request[o])'
    BY <2>1, <2>8, <2>9, <1>1 DEF Sound, Keeps, Crossing, Brings
  <2>11. Tells(request[o])'
    <3>1. ASSUME request[o].alone
          PROVE  ~(request[o].sid # None /\ request[o].sid = request[r].sid /\ Moving(request[r]))
      BY <3>1, <2>9, <2>1, <1>14, <1>1 DEF Crossing, Sound, Tells
    <3>2. Moving(request[o]) => Moving(request[o])'
      BY <2>1 DEF Moving
    <3> QED
      BY <3>1, <3>2, <2>1, <2>8, <1>2 DEF Sound, Tells, Brings
  <2> QED
    BY <2>3, <2>4, <2>6, <2>7, <2>10, <2>11 DEF Sound
<1> QED
  BY <1>3, <1>6, <1>7, <1>11, <1>13, <1>14 DEF IInv

LEMMA Stepping ==
  ASSUME TypeOK, NEW r \in Request, NEW y \in RequestRow, request' = [request EXCEPT ![r] = y],
         UNCHANGED <<deployment, role, jar, token, settled, changes>>
  PROVE  Moves(r) /\ request'[r] = y
BY DEF TypeOK, Moves

LEMMA SessionsSpared ==
  ASSUME IInv, NEW r \in Request, UNCHANGED <<session, used>>
  PROVE  Spares(r)
BY DEF IInv, TypeOK, Used, Spares

LEMMA BlankRowsAreSound ==
  ASSUME NEW r \in Request, NEW pc \in {"acted", "ended", "unsent"},
         request'[r] = [Blank EXCEPT !.pc = pc]
  PROVE  Sound(request[r])'
<1>1. /\ request'[r].sid = None /\ request'[r].after = None /\ request'[r].dead = FALSE
      /\ request'[r].alone = FALSE /\ request'[r].do = None /\ request'[r].from = None
      /\ request'[r].pc = pc
  BY DEF Blank
<1>2. None \notin {"switch", "login", "logout", "complete", "bootstrap", "destroy"}
  BY NoneIsApart DEF Doings
<1> QED
  BY <1>1, <1>2 DEF Sound, Shaped, Dead, Nobody, Keeps, Tells, Vouched, Blank

\* A request may end at any moment.
LEMMA StepEnds ==
  ASSUME IInv, NEW r \in Request, request[r].pc \notin {"acted", "ended", "unsent"},
         NEW pc \in Ended, request' = [request EXCEPT ![r] = [Blank EXCEPT !.pc = pc]],
         UNCHANGED <<deployment, jar, token, settled, role, session, used, changes>>
  PROVE  IInv'
<1>1. [Blank EXCEPT !.pc = pc] \in RequestRow
  BY BlankIsSound DEF Ended
<1>2. TypeOK
  BY DEF IInv
<1>3. Moves(r) /\ request'[r] = [Blank EXCEPT !.pc = pc]
  BY <1>1, <1>2, Stepping
<1>4. request'[r].pc = pc
  BY <1>3 DEF Blank
<1>5. Continues(r)
  BY <1>3, <1>4 DEF Continues
<1>8. Sound(request[r])'
  BY <1>3, BlankRowsAreSound DEF Ended
<1> QED
  BY <1>3, <1>5, <1>8, SessionsSpared, StepKeeps

\* What a role of anyone is
LEMMA RoleIsARole ==
  ASSUME TypeOK, NEW u \in User \cup {None}, NEW t \in Tenant \cup {None}
  PROVE  RoleOf(u, t) \in Roles \cup {None}
BY AuthorityAssumption DEF TypeOK, RoleOf

LEMMA NobodyIsGranted ==
  /\ Grants(None) = {}
  /\ \A t : RoleOf(None, t) = None
<1>1. None \notin {"owner", "admin", "member", "viewer"}
  BY NoneIsApart DEF Roles
<1> QED
  BY <1>1 DEF Grants, RoleOf

LEMMA IdentityIsSomeone ==
  ASSUME NEW u \in User \cup {None}
  PROVE  /\ Identity(u) \in User \cup {None}
         /\ Identity(u) = None => u = None
         /\ Identity(u) # u => u = None /\ deployment.fallback /\ Identity(u) = Demo
BY AuthorityAssumption, NoneIsApart DEF Identity

\* What the invariant says of one request
LEMMA OfARequest ==
  ASSUME IInv, NEW r \in Request
  PROVE  /\ TypeOK /\ request[r] \in RequestRow /\ Sound(request[r])
         /\ request[r].pc \notin {"acted", "ended", "unsent"} =>
              request[r].from \in Browser \cup Device /\ request[r].do # None
BY DEF IInv, TypeOK, Sound, Shaped

-----------------------------------------------------------------------------
(* The steps of a request                                                  *)

LEMMA IdentifyKeeps ==
  ASSUME IInv, NEW r \in Request, Identify(r) PROVE IInv'
<1> USE NoneIsApart
<1> DEFINE q0 == request[r]
           row == IF q0.sid = None THEN None ELSE session[q0.sid]
           resolved == ResolveTenant(q0)
           after == IF deployment.trusted /\ q0.header # None THEN None ELSE q0.after
<1>1. /\ TypeOK /\ q0 \in RequestRow /\ Sound(q0)
      /\ q0.pc = "sent" /\ q0.do \notin {"login", "complete"}
      /\ UNCHANGED <<deployment, jar, token, settled, role, session, used, changes>>
      /\ q0.from \in Browser \cup Device /\ q0.user = None
  <2>1. TypeOK /\ q0 \in RequestRow /\ Sound(q0)
    BY OfARequest
  <2>2. q0.pc = "sent" /\ q0.do \notin {"login", "complete"}
    BY <2>1 DEF Identify, RequestRow
  <2>3. UNCHANGED <<deployment, jar, token, settled, role, session, used, changes>>
    BY DEF Identify, Step
  <2>4. q0.from \in Browser \cup Device /\ q0.user = None
    BY <2>1, <2>2 DEF Sound, Shaped
  <2> QED
    BY <2>1, <2>2, <2>3, <2>4
<1>2. /\ row \in SessionRow \cup {None}
      /\ resolved \in Tenant \cup {None}
      /\ after \in {None, q0.after} /\ after \in Tenant \cup {None}
  <2>1. /\ q0.sid \in Session \cup {None} /\ q0.after \in Tenant \cup {None}
        /\ q0.cookie \in Tenant \cup {None} /\ q0.header \in Tenant \cup {None}
        /\ q0.host \in Tenant \cup {None}
    BY <1>1, Fields
  <2>2. session \in [Session -> SessionRow \cup {None}]
    BY <1>1 DEF TypeOK
  <2>3. resolved \in Tenant \cup {None}
    BY <2>1 DEF ResolveTenant
  <2> HIDE DEF q0, resolved
  <2> QED
    BY <2>1, <2>2, <2>3
<1>3. Spares(r)
  BY <1>1, SessionsSpared
<1>4. CASE request' = [request EXCEPT ![r] = [Blank EXCEPT !.pc = "ended"]]
  BY <1>1, <1>4, StepEnds DEF Ended
<1>5. ASSUME NEW u \in User \cup {None}, NEW t \in Tenant \cup {None},
             NEW x \in Tenant \cup {None},
             request' = [request EXCEPT ![r] =
               [q0 EXCEPT !.cookie = None, !.header = None, !.host = None, !.after = after,
                          !.user = u, !.tenant = t, !.context = x, !.pc = "identified"]],
             row # None => u = row.user /\ x \in {row.tenant, resolved},
             row = None => u = q0.user /\ x = resolved /\ (q0.from \in Browser \/ q0.sid = None)
      PROVE  IInv'
  <2> DEFINE y == [q0 EXCEPT !.cookie = None, !.header = None, !.host = None, !.after = after,
                             !.user = u, !.tenant = t, !.context = x, !.pc = "identified"]
  <2> HIDE DEF row, resolved, after
  <2>1. y \in RequestRow
    <3>1. q0 \in RequestRow
      BY <1>1
    <3>2. /\ after \in Maybe(Tenant) /\ u \in Maybe(User) /\ t \in Maybe(Tenant)
          /\ x \in Maybe(Tenant) /\ None \in Maybe(Tenant)
      BY <1>2, MaybeIs
    <3>3. "identified" \in Stages
      BY DEF Stages
    <3> HIDE DEF q0
    <3> QED
      BY <3>1, <3>2, <3>3 DEF RequestRow
  <2>2. Moves(r) /\ request'[r] = y
    <3> HIDE DEF y
    <3> QED BY <1>1, <2>1, Stepping, <1>5 DEF y
  <2>3. /\ y.pc = "identified" /\ y.from = q0.from /\ y.do = q0.do /\ y.sid = q0.sid
        /\ y.arg = q0.arg /\ y.user = u /\ y.context = x /\ y.dead = q0.dead /\ y.after = after
        /\ y.alone = q0.alone
    BY <1>1 DEF RequestRow
  <2> HIDE DEF y
  <2>4. Continues(r)
    BY <1>2, <2>2, <2>3 DEF Continues
  <2>5. Shaped(request[r])'
    BY <1>1, <2>2, <2>3 DEF Shaped, Sound
  <2>6. q0.sid # None => row = session[q0.sid]
    BY DEF row
  <2>7. Dead(request[r])'
    BY <1>1, <2>2, <2>3, <2>6, <1>5 DEF Sound, Dead
  <2>8. Nobody(request[r])'
    BY <1>1, <1>2, <2>2, <2>3, <2>6, <1>5 DEF Nobody, SessionRow
  <2>9. ASSUME after # None
        PROVE  /\ q0.do = "command" /\ q0.from \in Browser /\ x = after
    <3>1. /\ after = q0.after /\ q0.cookie = after /\ Brings(q0.sid, after)
          /\ q0.do = "command" /\ q0.from \in Browser
      BY <1>1, <1>2, <2>9 DEF Sound, Keeps
    <3>2. resolved = after
      BY <3>1, <2>9 DEF resolved, ResolveTenant, after
    <3>3. row # None => row.tenant = after
      BY <3>1 DEF Brings, row
    <3> QED
      BY <3>1, <3>2, <3>3, <1>5
  <2>10. Keeps(request[r])'
    BY <2>2, <2>3, <2>9 DEF Keeps
  <2>11. Tells(request[r])'
    BY <1>1, <2>2, <2>3 DEF Sound, Tells, Moving, MovesTenant
  <2>12. Vouched(request[r])'
    BY <2>2, <2>3 DEF Vouched
  <2>13. Sound(request[r])'
    BY <2>5, <2>7, <2>8, <2>10, <2>11, <2>12 DEF Sound
  <2> QED
    BY <1>1, <1>3, <2>2, <2>4, <2>13, StepKeeps
<1> QED
  <2> DEFINE q == [q0 EXCEPT !.cookie = None, !.header = None, !.host = None, !.after = after]
  <2>1. CASE row # None
    <3> DEFINE x == IF q.from \in Browser /\ (deployment.inner \/ resolved = None)
                    THEN row.tenant ELSE resolved
    <3>1. /\ row.user \in User /\ row.tenant \in Tenant /\ x \in {row.tenant, resolved}
      BY <2>1, <1>2 DEF SessionRow
    <3>2. request' = [request EXCEPT ![r] =
               [q0 EXCEPT !.cookie = None, !.header = None, !.host = None, !.after = after,
                          !.user = row.user, !.tenant = row.tenant, !.context = x,
                          !.pc = "identified"]]
      BY <2>1 DEF Identify, Step, Ended
    <3> HIDE DEF x
    <3> QED
      BY <3>1, <3>2, <2>1, <1>2, <1>5
  <2>2. CASE row = None /\ q.from \in Device /\ q.sid # None
    BY <2>2, <1>4 DEF Identify, Step, Ended
  <2>3. CASE row = None /\ ~(q.from \in Device /\ q.sid # None)
    <3>1. request' = [request EXCEPT ![r] =
               [q0 EXCEPT !.cookie = None, !.header = None, !.host = None, !.after = after,
                          !.context = resolved, !.pc = "identified"]]
      BY <2>3 DEF Identify, Step, Ended
    <3>2. q0.user \in User \cup {None} /\ q0.tenant \in Tenant \cup {None}
      BY <1>1, Fields
    <3>3. [q0 EXCEPT !.cookie = None, !.header = None, !.host = None, !.after = after,
                     !.context = resolved, !.pc = "identified"]
          = [q0 EXCEPT !.cookie = None, !.header = None, !.host = None, !.after = after,
                       !.user = q0.user, !.tenant = q0.tenant, !.context = resolved,
                       !.pc = "identified"]
      BY <1>1 DEF RequestRow
    <3>4. q0.from \in Browser \/ q0.sid = None
      BY <2>3, <1>1 DEF RequestRow
    <3>5. request' = [request EXCEPT ![r] =
             [q0 EXCEPT !.cookie = None, !.header = None, !.host = None, !.after = after,
                        !.user = q0.user, !.tenant = q0.tenant, !.context = resolved,
                        !.pc = "identified"]]
      BY <3>1, <3>3
    <3> HIDE DEF q0, row, resolved, after, q
    <3> QED
      BY <3>2, <3>4, <3>5, <2>3, <1>2, <1>5
  <2> QED
    BY <2>1, <2>2, <2>3

\* The other steps change of their request its user, tenant, role, session,
\* and what a provider has said.
Turns(r, pc, u, t, n, s, w, v) ==
  request' = [request EXCEPT ![r] =
    [request[r] EXCEPT !.user = u, !.tenant = t, !.seen = n, !.sid = s, !.answers = w,
                       !.via = v, !.pc = pc]]

LEMMA TurnsKeeps ==
  ASSUME IInv, NEW r \in Request, request[r].pc \notin {"acted", "ended", "unsent"},
         NEW pc \in Stages \ {"acted", "ended", "unsent"},
         NEW u \in User \cup {None}, NEW t \in Tenant \cup {None}, NEW n \in Roles \cup {None},
         NEW s \in Session \cup {None}, NEW w \in Answers \cup {None},
         NEW v \in (Provider \X Uri) \cup {None},
         Turns(r, pc, u, t, n, s, w, v),
         UNCHANGED <<deployment, role, jar, token, settled, changes>>, Spares(r),
         s = request[r].sid \/ (s \notin used /\ s \in used')
  PROVE  /\ request'[r].pc = pc /\ request'[r].user = u /\ request'[r].tenant = t
         /\ request'[r].sid = s /\ request'[r].answers = w /\ request'[r].via = v
         /\ request'[r].from = request[r].from /\ request'[r].do = request[r].do
         /\ request'[r].arg = request[r].arg /\ request'[r].context = request[r].context
         /\ request'[r].dead = request[r].dead /\ request'[r].after = request[r].after
         /\ request'[r].alone = request[r].alone
         /\ Sound(request[r])' => IInv'
<1> DEFINE q0 == request[r]
           y == [q0 EXCEPT !.user = u, !.tenant = t, !.seen = n, !.sid = s, !.answers = w,
                           !.via = v, !.pc = pc]
<1>1. TypeOK /\ q0 \in RequestRow
  BY OfARequest
<1>2. y \in RequestRow
  <2>1. q0 \in RequestRow
    BY <1>1
  <2>2. /\ u \in Maybe(User) /\ t \in Maybe(Tenant) /\ n \in Maybe(Roles) /\ s \in Maybe(Session)
        /\ w \in Maybe(Answers) /\ v \in Maybe(Provider \X Uri)
    BY MaybeIs
  <2>3. pc \in Stages
    OBVIOUS
  <2> HIDE DEF q0
  <2> QED
    BY <2>1, <2>2, <2>3 DEF RequestRow
<1>3. /\ y.pc = pc /\ y.user = u /\ y.tenant = t /\ y.sid = s /\ y.answers = w /\ y.via = v
      /\ y.from = q0.from /\ y.do = q0.do /\ y.arg = q0.arg /\ y.context = q0.context
      /\ y.dead = q0.dead /\ y.after = q0.after /\ y.alone = q0.alone
  BY <1>1 DEF RequestRow
<1>4. request' = [request EXCEPT ![r] = y]
  BY DEF Turns
<1> HIDE DEF y
<1>5. Moves(r) /\ request'[r] = y
  BY <1>1, <1>2, <1>4, Stepping
<1>6. Continues(r)
  BY <1>3, <1>5 DEF Continues
<1>7. Sound(request[r])' => IInv'
  BY <1>5, <1>6, StepKeeps
<1> QED
  BY <1>3, <1>5, <1>7

\* Whatever a step leaves alone is what it was.
LEMMA RowIsItself ==
  ASSUME NEW q \in RequestRow
  PROVE  q = [q EXCEPT !.user = q.user, !.tenant = q.tenant, !.seen = q.seen, !.sid = q.sid,
                       !.answers = q.answers, !.via = q.via, !.pc = q.pc]
BY DEF RequestRow

LEMMA OtherFields ==
  ASSUME NEW q \in RequestRow
  PROVE  /\ q.seen \in Roles \cup {None} /\ q.answers \in Answers \cup {None}
         /\ q.via \in (Provider \X Uri) \cup {None}
         /\ q.arg \in Permissions \cup Tenant \cup User \cup {None} /\ q.pc \in Stages
<1>1. /\ q.seen \in Maybe(Roles) /\ q.answers \in Maybe(Answers)
      /\ q.via \in Maybe(Provider \X Uri)
      /\ q.arg \in Maybe(Permissions \cup Tenant \cup User) /\ q.pc \in Stages
  BY DEF RequestRow
<1> QED
  BY <1>1, MaybeIs

\* A step that only goes on to the next stage.
LEMMA AdvanceIsATurn ==
  ASSUME NEW r \in Request, request[r] \in RequestRow, NEW pc \in Stages,
         request' = [request EXCEPT ![r] = [request[r] EXCEPT !.pc = pc]]
  PROVE  Turns(r, pc, request[r].user, request[r].tenant, request[r].seen, request[r].sid,
               request[r].answers, request[r].via)
<1> DEFINE q == request[r]
<1>1. [q EXCEPT !.pc = pc] =
        [q EXCEPT !.user = q.user, !.tenant = q.tenant, !.seen = q.seen, !.sid = q.sid,
                  !.answers = q.answers, !.via = q.via, !.pc = pc]
  BY DEF RequestRow
<1> QED
  BY <1>1 DEF Turns

LEMMA ReconcileKeeps ==
  ASSUME IInv, NEW r \in Request, Reconcile(r) PROVE IInv'
<1> USE NoneIsApart
<1> DEFINE q == request[r]
           tenant == IF q.context # None THEN q.context ELSE q.tenant
           found == RoleOf(Identity(q.user), tenant)
           user == IF found # None THEN Identity(q.user) ELSE q.user
<1>1. /\ TypeOK /\ q \in RequestRow /\ Sound(q) /\ q.pc = "identified"
      /\ UNCHANGED <<deployment, jar, token, settled, role, session, used, changes>>
  BY OfARequest DEF Reconcile, Step
<1>2. /\ q.user \in User \cup {None} /\ q.tenant \in Tenant \cup {None}
      /\ q.context \in Tenant \cup {None} /\ q.sid \in Session \cup {None}
      /\ q.answers \in Answers \cup {None} /\ q.via \in (Provider \X Uri) \cup {None}
  BY <1>1, Fields, OtherFields
<1>3. tenant \in Tenant \cup {None}
  BY <1>2
<1>4. Identity(q.user) \in User \cup {None}
  BY <1>2, IdentityIsSomeone
<1>5. found \in Roles \cup {None} /\ user \in User \cup {None}
  <2> HIDE DEF tenant
  <2>1. found \in Roles \cup {None}
    BY <1>1, <1>3, <1>4, RoleIsARole
  <2> QED
    BY <2>1, <1>2, <1>4
<1>6. request' = [request EXCEPT ![r] =
                   [q EXCEPT !.tenant = tenant, !.seen = found, !.user = user, !.pc = "hooked"]]
  BY DEF Reconcile, Step, Ended
<1> HIDE DEF tenant, found, user
<1>7. [q EXCEPT !.tenant = tenant, !.seen = found, !.user = user, !.pc = "hooked"] =
        [q EXCEPT !.user = user, !.tenant = tenant, !.seen = found, !.sid = q.sid,
                  !.answers = q.answers, !.via = q.via, !.pc = "hooked"]
  BY <1>1 DEF RequestRow
<1>8. Turns(r, "hooked", user, tenant, found, q.sid, q.answers, q.via)
  BY <1>6, <1>7 DEF Turns
<1>9. "hooked" \in Stages \ {"acted", "ended", "unsent"}
  BY DEF Stages
<1>10. Spares(r)
  BY <1>1, SessionsSpared
<1>11. /\ request'[r].pc = "hooked" /\ request'[r].user = user /\ request'[r].tenant = tenant
       /\ request'[r].sid = q.sid /\ request'[r].from = q.from /\ request'[r].do = q.do
       /\ request'[r].arg = q.arg /\ request'[r].context = q.context
       /\ request'[r].dead = q.dead /\ request'[r].after = q.after
       /\ request'[r].alone = q.alone
       /\ Sound(request[r])' => IInv'
  BY <1>1, <1>2, <1>3, <1>5, <1>8, <1>9, <1>10, TurnsKeeps
<1>12. user = None => q.user = None
  BY <1>2, IdentityIsSomeone DEF user
<1>13. q.user = None \/ (deployment.fallback /\ q.user = Demo) =>
         user = None \/ (deployment.fallback /\ user = Demo)
  BY <1>2, IdentityIsSomeone DEF user
<1>14. Shaped(request[r])'
  BY <1>1, <1>11 DEF Sound, Shaped
<1>15. Dead(request[r])'
  BY <1>1, <1>11, <1>13 DEF Sound, Dead
<1>16. Nobody(request[r])'
  BY <1>1, <1>11, <1>12 DEF Sound, Nobody
<1>17. Keeps(request[r])'
  BY <1>1, <1>11 DEF Sound, Keeps, tenant
<1>18. Tells(request[r])' /\ Vouched(request[r])'
  BY <1>1, <1>11 DEF Sound, Tells, Vouched, Moving, MovesTenant
<1> QED
  BY <1>11, <1>14, <1>15, <1>16, <1>17, <1>18 DEF Sound

\* A request that goes on to be checked or answered has what it had.
LEMMA AdvanceKeeps ==
  ASSUME IInv, NEW r \in Request, NEW pc \in {"checked", "answer", "conflict"},
         request[r].pc \notin {"acted", "ended", "unsent", "sent", "identified"},
         request' = [request EXCEPT ![r] = [request[r] EXCEPT !.pc = pc]],
         UNCHANGED <<deployment, role, jar, token, settled, changes>>, Spares(r),
         pc = "checked" => request[r].do \in {"command", "switch", "bootstrap"}
                           /\ UNCHANGED session,
         pc = "checked" => request[r].user # None
                           \/ (request[r].pc = "hooked" /\ request[r].do # "command"),
         pc = "answer" => request[r].do # "command",
         pc = "conflict" => request[r].do = "switch",
         pc = "answer" /\ request[r].do = "switch" =>
           (request[r].sid # None /\ session'[request[r].sid] # None =>
              session'[request[r].sid].tenant = request[r].arg),
         pc = "answer" => request[r].do # "login",
         request[r].dead => session'[request[r].sid] = None
                            \/ request[r].do \in {"login", "complete"}
  PROVE  IInv'
<1> USE NoneIsApart
<1> DEFINE q == request[r]
<1>1. TypeOK /\ q \in RequestRow /\ Sound(q)
  BY OfARequest
<1>2. /\ q.user \in User \cup {None} /\ q.tenant \in Tenant \cup {None}
      /\ q.sid \in Session \cup {None} /\ q.seen \in Roles \cup {None}
      /\ q.answers \in Answers \cup {None} /\ q.via \in (Provider \X Uri) \cup {None}
  BY <1>1, Fields, OtherFields
<1>3. pc \in Stages \ {"acted", "ended", "unsent"}
  BY DEF Stages
<1>4. Turns(r, pc, q.user, q.tenant, q.seen, q.sid, q.answers, q.via)
  BY <1>1, <1>3, AdvanceIsATurn
<1>5. /\ request'[r].pc = pc /\ request'[r].user = q.user /\ request'[r].tenant = q.tenant
      /\ request'[r].sid = q.sid /\ request'[r].from = q.from /\ request'[r].do = q.do
      /\ request'[r].arg = q.arg /\ request'[r].context = q.context
      /\ request'[r].dead = q.dead /\ request'[r].after = q.after
      /\ request'[r].alone = q.alone
      /\ Sound(request[r])' => IInv'
  BY <1>1, <1>2, <1>3, <1>4, TurnsKeeps
<1>6. Shaped(request[r])'
  BY <1>1, <1>5 DEF Sound, Shaped
<1>7. Dead(request[r])'
  BY <1>1, <1>5 DEF Sound, Dead
<1>8. Nobody(request[r])'
  BY <1>1, <1>5 DEF Sound, Nobody
<1>9. Keeps(request[r])'
  BY <1>1, <1>5 DEF Sound, Keeps
<1>10. Tells(request[r])'
  BY <1>1, <1>5 DEF Sound, Tells, Moving, MovesTenant, Brings
<1>11. Vouched(request[r])'
  BY <1>5 DEF Vouched
<1> QED
  BY <1>5, <1>6, <1>7, <1>8, <1>9, <1>10, <1>11 DEF Sound

LEMMA CheckSwitchKeeps ==
  ASSUME IInv, NEW r \in Request, CheckSwitch(r) PROVE IInv'
<1>1. /\ request[r].pc = "hooked" /\ request[r].do = "switch" /\ Sound(request[r])
      /\ UNCHANGED <<deployment, jar, token, settled, role, session, used, changes>>
  BY OfARequest DEF CheckSwitch, Step
<1>2. CASE request' = [request EXCEPT ![r] = [Blank EXCEPT !.pc = "ended"]]
  BY <1>1, <1>2, StepEnds DEF Ended
<1>3. CASE request' = [request EXCEPT ![r] = [request[r] EXCEPT !.pc = "checked"]]
  <2>1. Spares(r)
    BY <1>1, SessionsSpared
  <2>2. request[r].dead => session[request[r].sid] = None
    BY <1>1 DEF Sound, Dead
  <2> QED
    BY <1>1, <1>3, <2>1, <2>2, AdvanceKeeps
<1> QED
  BY <1>2, <1>3 DEF CheckSwitch, Step, Ended

LEMMA CheckLoadedKeeps ==
  ASSUME IInv, NEW r \in Request, CheckLoaded(r) PROVE IInv'
<1>1. /\ request[r].pc = "loaded" /\ request[r].do = "bootstrap" /\ Sound(request[r])
      /\ UNCHANGED <<deployment, jar, token, settled, role, session, used, changes>>
  BY OfARequest DEF CheckLoaded, Step, Sound, Shaped
<1>2. CASE RoleOf(request[r].user, request[r].tenant) = None
  <2>1. request' = [request EXCEPT ![r] = [Blank EXCEPT !.pc = "ended"]]
    BY <1>2 DEF CheckLoaded, Step, Ended
  <2> QED
    BY <1>1, <2>1, StepEnds DEF Ended
<1>3. CASE RoleOf(request[r].user, request[r].tenant) # None
  <2>1. request' = [request EXCEPT ![r] = [request[r] EXCEPT !.pc = "checked"]]
    BY <1>3 DEF CheckLoaded, Step, Ended
  <2>2. Spares(r)
    BY <1>1, SessionsSpared
  <2>3. request[r].dead => session[request[r].sid] = None
    BY <1>1 DEF Sound, Dead
  <2>4. request[r].user # None
    BY <1>3, NobodyIsGranted
  <2> QED
    BY <1>1, <2>1, <2>2, <2>3, <2>4, AdvanceKeeps
<1> QED
  BY <1>2, <1>3

LEMMA CheckStoredKeeps ==
  ASSUME IInv, NEW r \in Request, CheckStored(r) PROVE IInv'
<1>1. /\ request[r].pc = "stored" /\ request[r].do = "complete"
      /\ UNCHANGED <<deployment, jar, token, settled, role, session, used, changes>>
  BY OfARequest DEF CheckStored, Step, Sound, Shaped
<1>2. CASE request' = [request EXCEPT ![r] = [Blank EXCEPT !.pc = "ended"]]
  BY <1>1, <1>2, StepEnds DEF Ended
<1>3. CASE request' = [request EXCEPT ![r] = [request[r] EXCEPT !.pc = "answer"]]
  <2>1. Spares(r)
    BY <1>1, SessionsSpared
  <2> QED
    BY <1>1, <1>3, <2>1, AdvanceKeeps
<1> QED
  BY <1>2, <1>3 DEF CheckStored, Step, Ended

LEMMA ActKeeps ==
  ASSUME IInv, NEW r \in Request, Act(r) PROVE IInv'
<1>1. /\ request[r].pc = "checked"
      /\ UNCHANGED <<deployment, jar, token, settled, role, session, used, changes>>
  BY DEF Act, Step
<1>2. \E pc \in Ended : request' = [request EXCEPT ![r] = [Blank EXCEPT !.pc = pc]]
  BY DEF Act, Step, Ended
<1> QED
  BY <1>1, <1>2, StepEnds

LEMMA RequirePermissionKeeps ==
  ASSUME IInv, NEW r \in Request, RequirePermission(r) PROVE IInv'
<1> USE NoneIsApart
<1> DEFINE q == request[r]
           user == Identity(q.user)
<1>1. /\ TypeOK /\ q \in RequestRow /\ Sound(q) /\ q.pc = "hooked" /\ q.do = "command"
      /\ UNCHANGED <<deployment, jar, token, settled, role, session, used, changes>>
  BY OfARequest DEF RequirePermission, Step
<1>2. CASE request' = [request EXCEPT ![r] = [Blank EXCEPT !.pc = "ended"]]
  BY <1>1, <1>2, StepEnds DEF Ended
<1>3. CASE /\ q.arg \in Grants(RoleOf(user, q.tenant))
           /\ request' = [request EXCEPT ![r] = [q EXCEPT !.user = user, !.pc = "checked"]]
  <2>1. /\ q.user \in User \cup {None} /\ q.tenant \in Tenant \cup {None}
        /\ q.sid \in Session \cup {None} /\ q.seen \in Roles \cup {None}
        /\ q.answers \in Answers \cup {None} /\ q.via \in (Provider \X Uri) \cup {None}
    BY <1>1, Fields, OtherFields
  <2>2. user \in User \cup {None}
    BY <2>1, IdentityIsSomeone
  <2>3. user # None
    <3> HIDE DEF user
    <3> QED BY <1>3, NobodyIsGranted
  <2>4. q.user = None \/ (deployment.fallback /\ q.user = Demo) =>
          (deployment.fallback /\ user = Demo)
    BY <2>1, <2>3, IdentityIsSomeone
  <2> HIDE DEF user
  <2>5. [q EXCEPT !.user = user, !.pc = "checked"] =
          [q EXCEPT !.user = user, !.tenant = q.tenant, !.seen = q.seen, !.sid = q.sid,
                    !.answers = q.answers, !.via = q.via, !.pc = "checked"]
    BY <1>1 DEF RequestRow
  <2>6. Turns(r, "checked", user, q.tenant, q.seen, q.sid, q.answers, q.via)
    BY <1>3, <2>5 DEF Turns
  <2>7. "checked" \in Stages \ {"acted", "ended", "unsent"}
    BY DEF Stages
  <2>8. Spares(r)
    BY <1>1, SessionsSpared
  <2>9. /\ request'[r].pc = "checked" /\ request'[r].user = user /\ request'[r].tenant = q.tenant
        /\ request'[r].sid = q.sid /\ request'[r].from = q.from /\ request'[r].do = q.do
        /\ request'[r].arg = q.arg /\ request'[r].context = q.context
        /\ request'[r].dead = q.dead /\ request'[r].after = q.after
        /\ request'[r].alone = q.alone
        /\ Sound(request[r])' => IInv'
    BY <1>1, <2>1, <2>2, <2>6, <2>7, <2>8, TurnsKeeps
  <2>10. Shaped(request[r])'
    BY <1>1, <2>9 DEF Sound, Shaped
  <2>11. Dead(request[r])'
    BY <1>1, <2>3, <2>4, <2>9 DEF Sound, Dead
  <2>12. Nobody(request[r])'
    BY <2>3, <2>9 DEF Nobody
  <2>13. Keeps(request[r])'
    BY <1>1, <2>9 DEF Sound, Keeps
  <2>14. Tells(request[r])' /\ Vouched(request[r])'
    BY <1>1, <2>9 DEF Sound, Tells, Vouched, Moving, MovesTenant
  <2> QED
    BY <2>9, <2>10, <2>11, <2>12, <2>13, <2>14 DEF Sound
<1> QED
  BY <1>2, <1>3 DEF RequirePermission, Step, Ended

LEMMA SwitchSessionKeeps ==
  ASSUME IInv, NEW r \in Request, SwitchSession(r) PROVE IInv'
<1> USE NoneIsApart
<1> DEFINE q == request[r]
<1>1. /\ TypeOK /\ Used /\ q \in RequestRow /\ Sound(q) /\ q.pc = "checked" /\ q.do = "switch"
      /\ UNCHANGED <<deployment, jar, token, settled, role, used, changes>>
  BY OfARequest DEF SwitchSession, Step, IInv
<1>2. q.sid \in Session \cup {None} /\ q.arg \in Tenant
  BY <1>1, Fields DEF Sound, Shaped
<1>3. q.dead => session[q.sid] = None
  BY <1>1 DEF Sound, Dead
<1>4. CASE /\ q.sid # None /\ session[q.sid] # None
           /\ session' = [session EXCEPT ![q.sid].tenant = q.arg]
           /\ Step(r, "answer", q)
  <2>1. request' = [request EXCEPT ![r] = [q EXCEPT !.pc = "answer"]]
    BY <1>4 DEF Step, Ended
  <2>2. q.sid \in Session /\ session[q.sid] \in SessionRow
    BY <1>1, <1>2, <1>4 DEF TypeOK
  <2>3. session'[q.sid] = [session[q.sid] EXCEPT !.tenant = q.arg]
    BY <1>1, <1>4, <2>2 DEF TypeOK
  <2>4. session'[q.sid] \in SessionRow /\ session'[q.sid].tenant = q.arg
    BY <1>2, <2>2, <2>3 DEF SessionRow
  <2>5. \A s \in Session : s # q.sid => session'[s] = session[s]
    BY <1>1, <1>4, <2>2 DEF TypeOK
  <2>6. session' \in [Session -> SessionRow \cup {None}]
    <3>1. session' = [s \in Session |-> session'[s]]
      BY <1>1, <1>4 DEF TypeOK
    <3>2. \A s \in Session : session'[s] \in SessionRow \cup {None}
      BY <1>1, <2>4, <2>5 DEF TypeOK
    <3> QED
      BY <3>1, <3>2
  <2>7. q.sid \in used
    BY <1>1, <1>4, <2>2 DEF Used
  <2>8. Spares(r)
    BY <1>1, <1>4, <2>4, <2>5, <2>6, <2>7 DEF Spares, Used, TypeOK
  <2> QED
    BY <1>1, <1>3, <1>4, <2>1, <2>4, <2>8, AdvanceKeeps
<1>5. CASE UNCHANGED session /\ session[q.sid] = None /\ Step(r, "conflict", q)
  <2>1. request' = [request EXCEPT ![r] = [q EXCEPT !.pc = "conflict"]]
    BY <1>5 DEF Step, Ended
  <2>2. Spares(r)
    BY <1>1, <1>5, SessionsSpared
  <2> QED
    BY <1>1, <1>3, <1>5, <2>1, <2>2, AdvanceKeeps
<1>6. CASE UNCHANGED session /\ (q.sid = None \/ q.user = None) /\ Step(r, "answer", q)
  <2>1. request' = [request EXCEPT ![r] = [q EXCEPT !.pc = "answer"]]
    BY <1>6 DEF Step, Ended
  <2>2. Spares(r)
    BY <1>1, <1>6, SessionsSpared
  <2>3. q.sid # None => session[q.sid] = None
    BY <1>1, <1>6 DEF Sound, Nobody
  <2> QED
    BY <1>1, <1>3, <1>6, <2>1, <2>2, <2>3, AdvanceKeeps
<1> QED
  BY <1>4, <1>5, <1>6 DEF SwitchSession

LEMMA DestroyKeeps ==
  ASSUME IInv, NEW r \in Request, Destroy(r) PROVE IInv'
<1> USE NoneIsApart
<1> DEFINE q == request[r]
<1>1. /\ TypeOK /\ Used /\ q \in RequestRow /\ Sound(q) /\ q.pc = "hooked"
      /\ q.do \in {"logout", "destroy"}
      /\ UNCHANGED <<deployment, jar, token, settled, role, used, changes>>
  BY OfARequest DEF Destroy, Step, IInv
<1>2. request' = [request EXCEPT ![r] = [q EXCEPT !.pc = "answer"]]
  BY DEF Destroy, Step, Ended
<1>3. \A s \in Session : session'[s] \in {session[s], None}
  BY <1>1 DEF Destroy, TypeOK
<1>4. session' \in [Session -> SessionRow \cup {None}]
  BY <1>1 DEF Destroy, TypeOK
<1>5. Spares(r)
  BY <1>1, <1>3, <1>4 DEF Spares, Used, TypeOK
<1>6. q.dead => session'[q.sid] = None
  BY <1>1, <1>3 DEF Sound, Dead
<1> QED
  BY <1>1, <1>2, <1>5, <1>6, AdvanceKeeps

\* A session that is stored is a new one.
LEMMA NewSessionIsNew ==
  ASSUME IInv, NEW r \in Request, Unused # {}, NEW u \in User, NEW t \in Tenant,
         session' = [session EXCEPT ![NewSession] = [user |-> u, tenant |-> t]],
         used' = used \cup {NewSession}
  PROVE  /\ NewSession \in Session /\ NewSession \notin used /\ NewSession \in used'
         /\ session'[NewSession].tenant = t /\ Spares(r)
<1> USE NoneIsApart
<1>1. TypeOK /\ Used
  BY DEF IInv
<1>2. NewSession \in Session /\ NewSession \notin used
  BY DEF NewSession, Unused
<1>3. [user |-> u, tenant |-> t] \in SessionRow
  BY DEF SessionRow
<1>4. /\ session' \in [Session -> SessionRow \cup {None}]
      /\ session'[NewSession] = [user |-> u, tenant |-> t]
      /\ \A s \in Session : s # NewSession => session'[s] = session[s]
  BY <1>1, <1>2, <1>3 DEF TypeOK
<1>5. Spares(r)
  BY <1>1, <1>2, <1>4 DEF Spares, Used, TypeOK
<1> QED
  BY <1>2, <1>4, <1>5

LEMMA LoginKeeps ==
  ASSUME IInv, NEW r \in Request, Login(r) PROVE IInv'
<1> USE NoneIsApart
<1> DEFINE q == request[r]
<1>1. /\ TypeOK /\ q \in RequestRow /\ Sound(q) /\ q.pc = "sent" /\ q.do = "login"
      /\ UNCHANGED <<deployment, jar, token, settled, role, changes>>
      /\ q.arg \in User
  BY OfARequest DEF Login, Step, Sound, Shaped
<1>2. PICK t \in Tenant :
        /\ session' = [session EXCEPT ![NewSession] = [user |-> q.arg, tenant |-> t]]
        /\ used' = used \cup {NewSession}
        /\ Step(r, "answer", [q EXCEPT !.tenant = t, !.sid = NewSession])
  BY DEF Login
<1>3. Unused # {}
  BY DEF Login
<1>4. /\ NewSession \in Session /\ NewSession \notin used /\ NewSession \in used'
      /\ session'[NewSession].tenant = t /\ Spares(r)
  BY <1>1, <1>2, <1>3, NewSessionIsNew
<1>5. request' = [request EXCEPT ![r] =
                   [q EXCEPT !.tenant = t, !.sid = NewSession, !.pc = "answer"]]
  BY <1>2 DEF Step, Ended
<1>6. [q EXCEPT !.tenant = t, !.sid = NewSession, !.pc = "answer"] =
        [q EXCEPT !.user = q.user, !.tenant = t, !.seen = q.seen, !.sid = NewSession,
                  !.answers = q.answers, !.via = q.via, !.pc = "answer"]
  BY <1>1 DEF RequestRow
<1>7. Turns(r, "answer", q.user, t, q.seen, NewSession, q.answers, q.via)
  BY <1>5, <1>6 DEF Turns
<1>8. /\ q.user \in User \cup {None} /\ q.seen \in Roles \cup {None}
      /\ q.answers \in Answers \cup {None} /\ q.via \in (Provider \X Uri) \cup {None}
  BY <1>1, Fields, OtherFields
<1>9. "answer" \in Stages \ {"acted", "ended", "unsent"}
  BY DEF Stages
<1>10. /\ request'[r].pc = "answer" /\ request'[r].user = q.user /\ request'[r].tenant = t
       /\ request'[r].sid = NewSession /\ request'[r].from = q.from /\ request'[r].do = q.do
       /\ request'[r].arg = q.arg /\ request'[r].context = q.context
       /\ request'[r].dead = q.dead /\ request'[r].after = q.after
       /\ request'[r].alone = q.alone
       /\ Sound(request[r])' => IInv'
  BY <1>1, <1>4, <1>7, <1>8, <1>9, TurnsKeeps
<1>11. Shaped(request[r])'
  BY <1>1, <1>10 DEF Sound, Shaped
<1>12. Dead(request[r])' /\ Nobody(request[r])' /\ Vouched(request[r])'
  BY <1>1, <1>10 DEF Dead, Nobody, Vouched
<1>13. Keeps(request[r])'
  BY <1>1, <1>10 DEF Sound, Keeps
<1>14. Tells(request[r])'
  BY <1>1, <1>4, <1>10 DEF Sound, Tells, Moving, MovesTenant, Brings
<1> QED
  BY <1>10, <1>11, <1>12, <1>13, <1>14 DEF Sound

LEMMA StoreKeeps ==
  ASSUME IInv, NEW r \in Request, Store(r) PROVE IInv'
<1> USE NoneIsApart
<1> DEFINE q == request[r]
<1>1. /\ TypeOK /\ q \in RequestRow /\ Sound(q) /\ q.pc = "signed" /\ q.do = "complete"
      /\ UNCHANGED <<deployment, jar, token, settled, role, changes>>
      /\ q.user \in User /\ q.tenant \in Tenant
  BY OfARequest DEF Store, Step, Sound, Shaped
<1>2. /\ session' = [session EXCEPT ![NewSession] = [user |-> q.user, tenant |-> q.tenant]]
      /\ used' = used \cup {NewSession} /\ Unused # {}
      /\ Step(r, "stored", [q EXCEPT !.sid = NewSession])
  BY DEF Store
<1>4. /\ NewSession \in Session /\ NewSession \notin used /\ NewSession \in used' /\ Spares(r)
  BY <1>1, <1>2, NewSessionIsNew
<1>5. request' = [request EXCEPT ![r] = [q EXCEPT !.sid = NewSession, !.pc = "stored"]]
  BY <1>2 DEF Step, Ended
<1>6. [q EXCEPT !.sid = NewSession, !.pc = "stored"] =
        [q EXCEPT !.user = q.user, !.tenant = q.tenant, !.seen = q.seen, !.sid = NewSession,
                  !.answers = q.answers, !.via = q.via, !.pc = "stored"]
  BY <1>1 DEF RequestRow
<1>7. Turns(r, "stored", q.user, q.tenant, q.seen, NewSession, q.answers, q.via)
  BY <1>5, <1>6 DEF Turns
<1>8. /\ q.user \in User \cup {None} /\ q.tenant \in Tenant \cup {None}
      /\ q.seen \in Roles \cup {None} /\ NewSession \in Session \cup {None}
      /\ q.answers \in Answers \cup {None} /\ q.via \in (Provider \X Uri) \cup {None}
  BY <1>1, <1>4, Fields, OtherFields
<1>9. "stored" \in Stages \ {"acted", "ended", "unsent"}
  BY DEF Stages
<1>10. /\ request'[r].pc = "stored" /\ request'[r].user = q.user
       /\ request'[r].tenant = q.tenant
       /\ request'[r].sid = NewSession /\ request'[r].from = q.from /\ request'[r].do = q.do
       /\ request'[r].arg = q.arg /\ request'[r].context = q.context
       /\ request'[r].dead = q.dead /\ request'[r].after = q.after
       /\ request'[r].alone = q.alone
       /\ Sound(request[r])' => IInv'
  BY <1>1, <1>4, <1>7, <1>8, <1>9, TurnsKeeps
<1>11. Shaped(request[r])'
  BY <1>1, <1>10 DEF Sound, Shaped
<1>12. Dead(request[r])' /\ Nobody(request[r])' /\ Vouched(request[r])'
  BY <1>1, <1>10 DEF Dead, Nobody, Vouched
<1>13. Keeps(request[r])' /\ Tells(request[r])'
  BY <1>1, <1>10 DEF Sound, Keeps, Tells, Moving, MovesTenant
<1> QED
  BY <1>10, <1>11, <1>12, <1>13 DEF Sound

LEMMA SignInKeeps ==
  ASSUME IInv, NEW r \in Request, SignIn(r) PROVE IInv'
<1> USE NoneIsApart
<1> DEFINE q == request[r]
<1>1. /\ TypeOK /\ q \in RequestRow /\ Sound(q) /\ q.pc = "exchanged" /\ q.do = "complete"
      /\ UNCHANGED <<deployment, jar, token, settled, role, session, used, changes>>
      /\ q.user \in User
  <2>1. TypeOK /\ q \in RequestRow /\ Sound(q)
    BY OfARequest
  <2>2. q.pc = "exchanged"
    BY <2>1 DEF SignIn, RequestRow
  <2> QED
    BY <2>1, <2>2 DEF SignIn, Step, Sound, Shaped
<1>2. CASE request' = [request EXCEPT ![r] = [Blank EXCEPT !.pc = "ended"]]
  BY <1>1, <1>2, StepEnds DEF Ended
<1>3. ASSUME NEW t \in Tenant,
             request' = [request EXCEPT ![r] = [q EXCEPT !.answers = None, !.via = None,
                                                         !.tenant = t, !.pc = "signed"]]
      PROVE  IInv'
  <2>1. [q EXCEPT !.answers = None, !.via = None, !.tenant = t, !.pc = "signed"] =
          [q EXCEPT !.user = q.user, !.tenant = t, !.seen = q.seen, !.sid = q.sid,
                    !.answers = None, !.via = None, !.pc = "signed"]
    BY <1>1 DEF RequestRow
  <2>2. Turns(r, "signed", q.user, t, q.seen, q.sid, None, None)
    BY <1>3, <2>1 DEF Turns
  <2>3. /\ q.seen \in Roles \cup {None} /\ q.sid \in Session \cup {None}
        /\ q.user \in User \cup {None} /\ t \in Tenant \cup {None}
        /\ None \in Answers \cup {None} /\ None \in (Provider \X Uri) \cup {None}
    BY <1>1, Fields, OtherFields
  <2>4. "signed" \in Stages \ {"acted", "ended", "unsent"}
    BY DEF Stages
  <2>5. Spares(r)
    BY <1>1, SessionsSpared
  <2>6. /\ request'[r].pc = "signed" /\ request'[r].user = q.user /\ request'[r].tenant = t
        /\ request'[r].sid = q.sid /\ request'[r].from = q.from /\ request'[r].do = q.do
        /\ request'[r].arg = q.arg /\ request'[r].context = q.context
        /\ request'[r].dead = q.dead /\ request'[r].after = q.after
        /\ request'[r].alone = q.alone
        /\ Sound(request[r])' => IInv'
    BY <1>1, <2>2, <2>3, <2>4, <2>5, TurnsKeeps
  <2>7. Shaped(request[r])'
    BY <1>1, <2>6 DEF Sound, Shaped
  <2>8. Dead(request[r])' /\ Nobody(request[r])' /\ Vouched(request[r])'
    BY <1>1, <2>6 DEF Dead, Nobody, Vouched
  <2>9. Keeps(request[r])' /\ Tells(request[r])'
    BY <1>1, <2>6 DEF Sound, Keeps, Tells, Moving, MovesTenant
  <2> QED
    BY <2>6, <2>7, <2>8, <2>9 DEF Sound
<1> QED
  BY <1>2, <1>3 DEF SignIn, Step, Ended

LEMMA LoadAgainKeeps ==
  ASSUME IInv, NEW r \in Request, LoadAgain(r) PROVE IInv'
<1> USE NoneIsApart
<1> DEFINE q == request[r]
<1>1. /\ TypeOK /\ q \in RequestRow /\ Sound(q) /\ q.pc = "hooked" /\ q.do = "bootstrap"
      /\ UNCHANGED <<deployment, jar, token, settled, role, session, used, changes>>
      /\ q.sid \in Session /\ q.from \in Device
  BY OfARequest DEF LoadAgain, Step, Sound, Shaped
<1>2. CASE session[q.sid] = None
  <2>1. request' = [request EXCEPT ![r] = [Blank EXCEPT !.pc = "ended"]]
    BY <1>2 DEF LoadAgain, Step, Ended
  <2> QED
    BY <1>1, <2>1, StepEnds DEF Ended
<1>3. CASE session[q.sid] # None
  <2> DEFINE u == session[q.sid].user
             t == session[q.sid].tenant
  <2>1. u \in User /\ t \in Tenant
    BY <1>1, <1>3 DEF TypeOK, SessionRow
  <2>2. request' = [request EXCEPT ![r] =
                     [q EXCEPT !.user = u, !.tenant = t, !.pc = "loaded"]]
    BY <1>3 DEF LoadAgain, Step, Ended
  <2> HIDE DEF u, t
  <2>3. [q EXCEPT !.user = u, !.tenant = t, !.pc = "loaded"] =
          [q EXCEPT !.user = u, !.tenant = t, !.seen = q.seen, !.sid = q.sid,
                    !.answers = q.answers, !.via = q.via, !.pc = "loaded"]
    BY <1>1 DEF RequestRow
  <2>4. Turns(r, "loaded", u, t, q.seen, q.sid, q.answers, q.via)
    BY <2>2, <2>3 DEF Turns
  <2>5. /\ q.seen \in Roles \cup {None} /\ q.answers \in Answers \cup {None}
        /\ q.via \in (Provider \X Uri) \cup {None}
    BY <1>1, OtherFields
  <2>6. "loaded" \in Stages \ {"acted", "ended", "unsent"}
    BY DEF Stages
  <2>7. Spares(r)
    BY <1>1, SessionsSpared
  <2>8. /\ request'[r].pc = "loaded" /\ request'[r].user = u /\ request'[r].tenant = t
        /\ request'[r].sid = q.sid /\ request'[r].from = q.from /\ request'[r].do = q.do
        /\ request'[r].arg = q.arg /\ request'[r].context = q.context
        /\ request'[r].dead = q.dead /\ request'[r].after = q.after
        /\ request'[r].alone = q.alone
        /\ Sound(request[r])' => IInv'
    BY <1>1, <2>1, <2>4, <2>5, <2>6, <2>7, TurnsKeeps
  <2>9. Shaped(request[r])'
    BY <1>1, <2>8 DEF Sound, Shaped
  <2>10. Dead(request[r])'
    BY <1>1, <1>3, <2>8 DEF Sound, Dead
  <2>11. Nobody(request[r])' /\ Vouched(request[r])'
    BY <2>8 DEF Nobody, Vouched
  <2>12. Keeps(request[r])' /\ Tells(request[r])'
    BY <1>1, <2>8 DEF Sound, Keeps, Tells, Moving, MovesTenant
  <2> QED
    BY <2>8, <2>9, <2>10, <2>11, <2>12 DEF Sound
<1> QED
  BY <1>2, <1>3

-----------------------------------------------------------------------------
(* The exchange of a code                                                  *)

\* What an address verified by the provider comes from
LEMMA AddressIsVouched ==
  ASSUME NEW profile \in Statement \cup {None}, NEW claims \in Statement \cup {None},
         NEW email, email = VerifiedEmail(profile, claims), email # None
  PROVE  /\ email \in User
         /\ \E a \in {profile, claims} \ {None} : a.email = email /\ a.verified = "yes"
         /\ profile # None /\ profile.email # None =>
              profile.email = email /\ profile.verified # "no"
<1> USE NoneIsApart
<1> DEFINE said == IF profile = None THEN None ELSE profile.email
<1>1. said \in User \cup {None} /\ (claims # None => claims.email \in User \cup {None})
  BY DEF Statement
<1>2. CASE said # None /\ profile.verified # None
  BY <1>1, <1>2 DEF VerifiedEmail
<1>3. CASE said = None \/ profile.verified = None
  BY <1>1, <1>3 DEF VerifiedEmail
<1> QED
  BY <1>2, <1>3

\* A provider that a sign-in is resolved to is in the list once.
LEMMA ResolvedIsListedOnce ==
  ASSUME deployment \in Deployment, NEW asked \in Provider \cup {None},
         NEW p, p = Resolved(asked), p # None
  PROVE  /\ p \in Provider
         /\ Cardinality({i \in DOMAIN deployment.list : deployment.list[i] = p}) = 1
<1> DEFINE list == deployment.list
<1>1. /\ Cardinality({list[i] : i \in DOMAIN list}) = Len(list)
      /\ \E i \in DOMAIN list : list[i] = p
  BY DEF Resolved
<1>2. CASE \E a \in Provider : list = <<a>>
  <2>1. PICK a \in Provider : list = <<a>>
    BY <1>2
  <2>2. DOMAIN list = {1} /\ list[1] = a
    BY <2>1
  <2>3. p = a /\ {i \in DOMAIN list : list[i] = p} = {1}
    BY <1>1, <2>2
  <2> QED
    BY <2>3, FS_Singleton
<1>3. CASE \E a, b \in Provider : list = <<a, b>>
  <2>1. PICK a \in Provider, b \in Provider : list = <<a, b>>
    BY <1>3
  <2>2. DOMAIN list = {1, 2} /\ list[1] = a /\ list[2] = b /\ Len(list) = 2
    BY <2>1
  <2>3. {list[i] : i \in DOMAIN list} = {a, b}
    BY <2>2
  <2>4. a # b
    <3> SUFFICES ASSUME a = b PROVE FALSE
      OBVIOUS
    <3>1. {a, b} = {a}
      OBVIOUS
    <3>2. Cardinality({a}) = 1
      BY FS_Singleton
    <3> QED
      BY <1>1, <2>2, <2>3, <3>1, <3>2
  <2>5. p \in {a, b}
    BY <1>1, <2>2
  <2>6. {i \in DOMAIN list : list[i] = p} = {IF p = a THEN 1 ELSE 2}
    BY <2>2, <2>4, <2>5
  <2> QED
    BY <2>5, <2>6, FS_Singleton
<1> QED
  BY <1>2, <1>3 DEF Deployment

LEMMA ExchangeKeeps ==
  ASSUME IInv, NEW r \in Request, Exchange(r) PROVE IInv'
<1> USE NoneIsApart
<1> DEFINE q == request[r]
<1>1. /\ TypeOK /\ q \in RequestRow /\ Sound(q) /\ q.pc = "sent" /\ q.do = "complete"
      /\ UNCHANGED <<deployment, jar, token, settled, role, session, used, changes>>
  BY OfARequest DEF Exchange, Step
<1>2. deployment \in Deployment
  BY <1>1, AuthorityAssumption DEF TypeOK
<1>3. CASE request' = [request EXCEPT ![r] = [Blank EXCEPT !.pc = "ended"]]
  BY <1>1, <1>3, StepEnds DEF Ended
<1>4. ASSUME NEW asked \in Provider \cup {None}, NEW uri \in Uri, NEW said \in Said,
             NEW provider, provider = Resolved(asked), provider # None,
             uri \in Allowed(provider),
             NEW email, email = VerifiedEmail(said.profile, said.claims), email # None,
             request' = [request EXCEPT ![r] =
               [q EXCEPT !.user = email, !.answers = said, !.via = <<provider, uri>>,
                         !.pc = "exchanged"]]
      PROVE  IInv'
  <2>1. /\ said \in Answers /\ said # None
        /\ said.profile \in Statement \cup {None} /\ said.claims \in Statement \cup {None}
    BY AuthorityAssumption DEF Answers
  <2>2. /\ email \in User
        /\ \E a \in {said.profile, said.claims} \ {None} : a.email = email /\ a.verified = "yes"
        /\ said.profile # None /\ said.profile.email # None =>
             said.profile.email = email /\ said.profile.verified # "no"
    BY <1>4, <2>1, AddressIsVouched
  <2>3. /\ provider \in Provider
        /\ Cardinality({i \in DOMAIN deployment.list : deployment.list[i] = provider}) = 1
    BY <1>2, <1>4, ResolvedIsListedOnce
  <2> DEFINE v == <<provider, uri>>
  <2>4. v \in Provider \X Uri /\ v[1] = provider /\ v[2] = uri
    BY <2>3
  <2> HIDE DEF v
  <2>5. [q EXCEPT !.user = email, !.answers = said, !.via = v, !.pc = "exchanged"] =
          [q EXCEPT !.user = email, !.tenant = q.tenant, !.seen = q.seen, !.sid = q.sid,
                    !.answers = said, !.via = v, !.pc = "exchanged"]
    BY <1>1 DEF RequestRow
  <2>6. Turns(r, "exchanged", email, q.tenant, q.seen, q.sid, said, v)
    BY <1>4, <2>5 DEF Turns, v
  <2>7. /\ q.seen \in Roles \cup {None} /\ q.sid \in Session \cup {None}
        /\ q.tenant \in Tenant \cup {None} /\ email \in User \cup {None}
        /\ said \in Answers \cup {None} /\ v \in (Provider \X Uri) \cup {None}
    BY <1>1, <2>1, <2>2, <2>4, Fields, OtherFields
  <2>8. "exchanged" \in Stages \ {"acted", "ended", "unsent"}
    BY DEF Stages
  <2>9. Spares(r)
    BY <1>1, SessionsSpared
  <2>10. /\ request'[r].pc = "exchanged" /\ request'[r].user = email
         /\ request'[r].answers = said /\ request'[r].via = v
         /\ request'[r].sid = q.sid /\ request'[r].from = q.from /\ request'[r].do = q.do
         /\ request'[r].arg = q.arg /\ request'[r].context = q.context
         /\ request'[r].dead = q.dead /\ request'[r].after = q.after
         /\ request'[r].alone = q.alone
         /\ Sound(request[r])' => IInv'
    BY <1>1, <2>6, <2>7, <2>8, <2>9, TurnsKeeps
  <2>11. Shaped(request[r])'
    BY <1>1, <2>2, <2>10 DEF Sound, Shaped
  <2>12. Dead(request[r])' /\ Nobody(request[r])'
    BY <1>1, <2>10 DEF Dead, Nobody
  <2>13. Keeps(request[r])' /\ Tells(request[r])'
    BY <1>1, <2>10 DEF Sound, Keeps, Tells, Moving, MovesTenant
  <2>14. Vouched(request[r])'
    <3>1. deployment' = deployment
      BY <1>1
    <3>2. v[2] \in deployment.allowed[None] \cup deployment.allowed[v[1]]
      BY <1>4, <2>4 DEF Allowed
    <3> QED
      BY <2>2, <2>3, <2>4, <2>10, <3>1, <3>2 DEF Vouched
  <2> QED
    BY <2>10, <2>11, <2>12, <2>13, <2>14 DEF Sound
<1>5. PICK asked \in Provider \cup {None}, uri \in Uri, said \in Said :
        LET provider == Resolved(asked)
            email == VerifiedEmail(said.profile, said.claims) IN
        IF provider # None /\ uri \in Allowed(provider) /\ email # None
        THEN Step(r, "exchanged", [q EXCEPT !.user = email, !.answers = said,
                                            !.via = <<provider, uri>>])
        ELSE Step(r, "ended", q)
  BY DEF Exchange
<1> DEFINE provider == Resolved(asked)
           email == VerifiedEmail(said.profile, said.claims)
<1>6. CASE provider # None /\ uri \in Allowed(provider) /\ email # None
  <2>1. request' = [request EXCEPT ![r] =
                     [q EXCEPT !.user = email, !.answers = said, !.via = <<provider, uri>>,
                               !.pc = "exchanged"]]
    BY <1>5, <1>6 DEF Step, Ended
  <2> QED
    BY <2>1, <1>4, <1>6
<1>7. CASE ~(provider # None /\ uri \in Allowed(provider) /\ email # None)
  <2>1. request' = [request EXCEPT ![r] = [Blank EXCEPT !.pc = "ended"]]
    BY <1>5, <1>7 DEF Step, Ended
  <2> QED
    BY <2>1, <1>3
<1> QED
  BY <1>6, <1>7

-----------------------------------------------------------------------------
(* Requests are sent, and answered                                         *)

LEMMA SendKeeps ==
  ASSUME IInv, NEW r \in Request, NEW c \in Browser \cup Device, NEW do \in Doings,
         NEW arg \in Permissions \cup Tenant \cup User \cup {None}, Send(r, c, do, arg),
         do \in {"switch", "login", "logout"} => c \in Browser,
         do \in {"complete", "bootstrap", "destroy"} => c \in Device,
         do = "switch" => arg \in Tenant, do = "login" => arg \in User,
         do \in {"bootstrap", "destroy"} => token[c] # None
  PROVE  IInv'
<1> USE NoneIsApart
<1> DEFINE sid == IF c \in Browser THEN jar[c].sid ELSE token[c]
           cookie == IF c \in Browser THEN jar[c].tenant ELSE None
           dead == sid # None /\ session[sid] = None
           after == IF c \in Browser /\ do = "command" THEN settled[c] ELSE None
           alone == MovesTenant(do) /\ \A o \in Request :
                      request[o].from = c /\ InFlight(o) => ~MovesTenant(request[o].do)
           lesser(q) == [request[q] EXCEPT !.after = None, !.alone = FALSE]
<1>1. /\ TypeOK /\ Used /\ Apart /\ Crossing /\ Settled
      /\ \A o \in Request : Sound(request[o]) /\ request[o] \in RequestRow
      /\ request[r].pc = "unsent"
      /\ UNCHANGED <<deployment, role, session, used, jar, token, changes>>
      /\ settled' = IF MovesTenant(do) THEN [settled EXCEPT ![c] = None] ELSE settled
  BY OfARequest DEF IInv, Send
<1>2. PICK way \in Ways :
        request' = [q \in Request |->
          IF q = r THEN Sent(c, do, arg, way)
          ELSE IF MovesTenant(do) /\ request[q].from = c THEN lesser(q) ELSE request[q]]
  BY DEF Send
<1>3. /\ sid \in Session \cup {None} /\ cookie \in Tenant \cup {None}
      /\ after \in Tenant \cup {None}
      /\ way[1] \in Tenant \cup {None} /\ way[2] \in Tenant \cup {None}
  <2>1. way \in (Tenant \cup {None}) \X (Tenant \cup {None})
    BY AuthorityAssumption
  <2>2. c \in Browser => jar[c] \in [sid : Session \cup {None}, tenant : Tenant \cup {None}]
                         /\ settled[c] \in Tenant \cup {None}
    BY <1>1 DEF TypeOK
  <2>3. c \notin Browser => token[c] \in Session \cup {None}
    BY <1>1 DEF TypeOK
  <2> QED
    BY <2>1, <2>2, <2>3
<1>4. dead \in BOOLEAN /\ alone \in BOOLEAN
  OBVIOUS
<1>5. MovesTenant(do) <=> do \in {"switch", "login", "logout"}
  BY DEF MovesTenant
<1>7. Sent(c, do, arg, way) =
        [pc |-> "sent", from |-> c, do |-> do, arg |-> arg, sid |-> sid,
         cookie |-> cookie, header |-> way[1], host |-> way[2], user |-> None, tenant |-> None,
         context |-> None, seen |-> None, dead |-> dead, after |-> after, alone |-> alone,
         answers |-> None, via |-> None]
  BY DEF Sent
<1> HIDE DEF sid, cookie, dead, after, alone
<1>8. Sent(c, do, arg, way) \in RequestRow
  <2>1. /\ c \in Maybe(Browser \cup Device) /\ do \in Maybe(Doings)
        /\ arg \in Maybe(Permissions \cup Tenant \cup User) /\ sid \in Maybe(Session)
        /\ cookie \in Maybe(Tenant) /\ way[1] \in Maybe(Tenant) /\ way[2] \in Maybe(Tenant)
        /\ after \in Maybe(Tenant) /\ None \in Maybe(User) /\ None \in Maybe(Tenant)
        /\ None \in Maybe(Roles) /\ None \in Maybe(Answers) /\ None \in Maybe(Provider \X Uri)
    BY <1>3, MaybeIs
  <2>2. "sent" \in Stages
    BY DEF Stages
  <2> QED
    BY <1>4, <1>7, <2>1, <2>2 DEF RequestRow
<1>9. \A q \in Request : lesser(q) \in RequestRow
  <2>1. \A q \in RequestRow : [q EXCEPT !.after = None, !.alone = FALSE] \in RequestRow
    BY MaybeIs DEF RequestRow
  <2> QED
    BY <1>1, <2>1
<1>10. request'[r] = Sent(c, do, arg, way)
  BY <1>2
<1>11. /\ request'[r].pc = "sent" /\ request'[r].from = c /\ request'[r].do = do
       /\ request'[r].arg = arg /\ request'[r].sid = sid /\ request'[r].cookie = cookie
       /\ request'[r].user = None /\ request'[r].dead = dead /\ request'[r].after = after
       /\ request'[r].alone = alone
  BY <1>7, <1>10
<1>12. ASSUME NEW o \in Request, o # r
       PROVE  \/ request'[o] = request[o] /\ ~(MovesTenant(do) /\ request[o].from = c)
              \/ request'[o] = lesser(o) /\ MovesTenant(do) /\ request[o].from = c
  BY <1>2, <1>12
<1>13. ASSUME NEW o \in Request, o # r
       PROVE  /\ request'[o].pc = request[o].pc /\ request'[o].from = request[o].from
              /\ request'[o].do = request[o].do /\ request'[o].arg = request[o].arg
              /\ request'[o].sid = request[o].sid /\ request'[o].user = request[o].user
              /\ request'[o].tenant = request[o].tenant /\ request'[o].dead = request[o].dead
              /\ request'[o].context = request[o].context
              /\ request'[o].cookie = request[o].cookie
              /\ request'[o].answers = request[o].answers /\ request'[o].via = request[o].via
              /\ request'[o].after \in {None, request[o].after}
              /\ request'[o].alone => request[o].alone
              /\ MovesTenant(do) /\ request[o].from = c =>
                   request'[o].after = None /\ ~request'[o].alone
  <2>1. request[o] \in RequestRow
    BY <1>1
  <2>2. CASE request'[o] = request[o] /\ ~(MovesTenant(do) /\ request[o].from = c)
    BY <2>2
  <2>3. CASE request'[o] = lesser(o) /\ MovesTenant(do) /\ request[o].from = c
    BY <2>1, <2>3 DEF RequestRow
  <2> QED
    BY <1>12, <1>13, <2>2, <2>3
<1> HIDE DEF lesser
<1>14. TypeOK'
  <2>1. request' \in [Request -> RequestRow]
    BY <1>1, <1>2, <1>8, <1>9
  <2>2. settled' \in [Browser -> Tenant \cup {None}]
    BY <1>1 DEF TypeOK
  <2> QED
    BY <1>1, <2>1, <2>2 DEF TypeOK
<1>15. sid # None => Holds(c, sid)
  BY DEF Holds, sid
<1>16. ASSUME NEW d \in Browser \cup Device, NEW s \in Session, Holds(d, s)'
       PROVE  Holds(d, s)
  <2>1. CASE (d \in Browser /\ jar'[d].sid = s) \/ (d \in Device /\ token'[d] = s)
    BY <2>1, <1>1 DEF Holds
  <2>2. CASE \E o \in Request : request'[o].from = d /\ request'[o].sid = s
    BY <2>2, <1>11, <1>13, <1>15 DEF Holds
  <2> QED
    BY <1>16, <2>1, <2>2 DEF Holds
<1>17. Used' /\ Apart'
  BY <1>1, <1>16 DEF Used, Apart
<1>18. Settled'
  BY <1>1 DEF Settled, Brings, TypeOK
<1>19. Crossing'
  <2> SUFFICES ASSUME NEW a \in Request, Moving(request[a])'
               PROVE  /\ settled'[request'[a].from] = None
                      /\ \A o \in Request : request'[o].from = request'[a].from =>
                           /\ request'[o].after = None
                           /\ o # a /\ Moving(request[o])' => ~request'[a].alone
    BY DEF Crossing
  <2>1. \A o \in Request : o # r /\ Moving(request[o])' => Moving(request[o])
    BY <1>13 DEF Moving
  <2>2. CASE MovesTenant(do)
    <3>1. c \in Browser /\ settled'[c] = None /\ do # "command"
      BY <1>1, <1>5, <2>2 DEF TypeOK
    <3>2. after = None
      BY <3>1 DEF after
    <3>3. \A o \in Request : request'[o].from = c => request'[o].after = None
      BY <1>11, <1>13, <2>2, <3>2
    <3>4. CASE a = r
      <4>1. \A o \in Request : o # r /\ request'[o].from = c /\ Moving(request[o])' => ~alone
        BY <1>13, <2>1 DEF alone, Moving, InFlight, Ended
      <4> QED
        BY <1>11, <3>1, <3>3, <3>4, <4>1
    <3>5. CASE a # r /\ request[a].from = c
      BY <1>13, <2>2, <3>1, <3>3, <3>5
    <3>6. CASE a # r /\ request[a].from # c
      <4>1. Moving(request[a]) /\ request'[a].from = request[a].from
        BY <1>13, <2>1, <3>6
      <4>2. settled'[request[a].from] = None
        <5>1. request[a].from \in Browser /\ settled[request[a].from] = None
          BY <4>1, <1>1 DEF Crossing, Moving, MovesTenant, Sound, Shaped
        <5> QED
          BY <5>1, <1>1, <3>6 DEF TypeOK
      <4>3. ASSUME NEW o \in Request, request'[o].from = request[a].from
            PROVE  /\ request'[o].after = None
                   /\ o # a /\ Moving(request[o])' => ~request'[a].alone
        <5>1. o # r /\ request[o].from = request[a].from
          BY <1>11, <1>13, <3>6, <4>3
        <5>2. request'[o].after = None
          BY <5>1, <4>1, <1>1, <1>13 DEF Crossing
        <5>3. o # a /\ Moving(request[o])' => ~request[a].alone
          BY <5>1, <4>1, <1>1, <2>1 DEF Crossing
        <5> QED
          BY <5>2, <5>3, <1>13, <3>6
      <4> QED
        BY <4>1, <4>2, <4>3
    <3> QED
      BY <3>4, <3>5, <3>6
  <2>3. CASE ~MovesTenant(do)
    <3>1. a # r
      BY <1>11, <2>3 DEF Moving
    <3>2. Moving(request[a]) /\ request'[a].from = request[a].from /\ settled' = settled
      BY <1>1, <1>13, <2>1, <2>3, <3>1
    <3>3. ASSUME NEW o \in Request, request'[o].from = request[a].from
          PROVE  /\ request'[o].after = None
                 /\ o # a /\ Moving(request[o])' => ~request'[a].alone
      <4>1. CASE o = r
        <5>1. c = request[a].from
          BY <1>11, <3>3, <4>1
        <5>2. settled[c] = None
          BY <5>1, <3>2, <1>1 DEF Crossing
        <5>3. after = None
          BY <5>2 DEF after
        <5> QED
          BY <1>11, <2>3, <4>1, <5>3 DEF Moving
      <4>2. CASE o # r
        <5>1. request[o].from = request[a].from /\ request'[o].after \in {None, request[o].after}
          BY <1>13, <3>3, <4>2
        <5>2. request'[o].after = None
          BY <5>1, <3>2, <1>1 DEF Crossing
        <5>3. o # a /\ Moving(request[o])' => ~request[a].alone
          BY <5>1, <3>2, <4>2, <2>1, <1>1 DEF Crossing
        <5> QED
          BY <5>2, <5>3, <1>13, <3>1
      <4> QED
        BY <4>1, <4>2
    <3> QED
      BY <3>2, <3>3, <1>1 DEF Crossing
  <2> QED
    BY <2>2, <2>3
<1>20. ASSUME NEW o \in Request, o # r PROVE Sound(request[o])'
  <2>1. Sound(request[o])
    BY <1>1
  <2>2. Shaped(request[o])'
    <3>1. CASE request[o].pc \in {"acted", "ended", "unsent"}
      <4>2. request[o].from = None
        BY <2>1, <3>1 DEF Sound, Shaped
      <4>3. request'[o] = request[o]
        BY <1>12, <1>20, <4>2
      <4> QED
        BY <2>1, <4>3 DEF Sound, Shaped
    <3>2. CASE request[o].pc \notin {"acted", "ended", "unsent"}
      BY <1>13, <1>20, <2>1, <3>2 DEF Sound, Shaped
    <3> QED
      BY <3>1, <3>2
  <2>3. Dead(request[o])' /\ Nobody(request[o])'
    BY <1>1, <1>13, <1>20, <2>1 DEF Sound, Dead, Nobody
  <2>4. Keeps(request[o])'
    BY <1>1, <1>13, <1>20, <2>1 DEF Sound, Keeps, Brings
  <2>5. Tells(request[o])'
    BY <1>1, <1>13, <1>20, <2>1 DEF Sound, Tells, Brings, Moving
  <2>6. Vouched(request[o])'
    BY <1>1, <1>13, <1>20, <2>1 DEF Sound, Vouched
  <2> QED
    BY <2>2, <2>3, <2>4, <2>5, <2>6 DEF Sound
<1>21. Sound(request[r])'
  <2>1. Shaped(request[r])'
    <3>1. do \in {"bootstrap", "destroy"} => sid \in Session
      BY <1>3, AuthorityAssumption DEF sid
    <3> QED
      BY <1>11, <3>1 DEF Shaped
  <2>2. Dead(request[r])'
    BY <1>1, <1>3, <1>11 DEF Dead, dead
  <2>3. Nobody(request[r])' /\ Vouched(request[r])'
    BY <1>11 DEF Nobody, Vouched
  <2>4. ASSUME after # None
        PROVE  do = "command" /\ c \in Browser /\ cookie = after /\ Brings(sid, after)
    BY <1>1, <2>4 DEF Settled, after, cookie, sid
  <2>5. Keeps(request[r])'
    BY <1>1, <1>11, <2>4 DEF Keeps, Brings
  <2>6. Tells(request[r])'
    <3>1. alone => MovesTenant(do) /\ c \in Browser
      BY <1>5 DEF alone
    <3>2. c \in Browser => sid = jar[c].sid
      BY DEF sid
    <3> QED
      BY <1>1, <1>11, <3>1, <3>2 DEF Tells, Moving
  <2> QED
    BY <2>1, <2>2, <2>3, <2>5, <2>6 DEF Sound
<1> QED
  BY <1>14, <1>17, <1>18, <1>19, <1>20, <1>21 DEF IInv

LEMMA AnswerKeeps ==
  ASSUME IInv, NEW r \in Request, Answer(r) PROVE IInv'
<1> USE NoneIsApart
<1> DEFINE q == request[r]
           c == q.from
           told == IF q.pc = "conflict" \/ q.do = "logout" THEN None
                   ELSE IF q.do = "switch" THEN q.arg ELSE q.tenant
           cookies == CASE q.do = "logout" -> Nothing
                        [] q.do = "login" -> [sid |-> q.sid, tenant |-> q.tenant]
                        [] OTHER -> [jar[c] EXCEPT !.tenant = q.arg]
<1>1. /\ TypeOK /\ Used /\ Apart /\ Crossing /\ Settled
      /\ \A o \in Request : Sound(request[o]) /\ request[o] \in RequestRow
      /\ q.pc \in {"answer", "conflict"} /\ c \in Browser \cup Device
      /\ UNCHANGED <<deployment, role, session, used, changes>>
      /\ request' = [request EXCEPT ![r] = [Blank EXCEPT !.pc = "ended"]]
  BY OfARequest DEF IInv, Answer
<1>2. /\ c \in Browser => q.do \in {"switch", "login", "logout"} /\ Moving(q)
      /\ q.sid \in Session \cup {None} /\ q.tenant \in Tenant \cup {None}
      /\ q.do = "switch" => q.arg \in Tenant
  <2>1. Sound(q) /\ q \in RequestRow
    BY <1>1
  <2>2. /\ q.do \in Doings \cup {None} /\ q.sid \in Session \cup {None}
        /\ q.tenant \in Tenant \cup {None}
    BY <2>1, Fields
  <2>3. q.do # "command" /\ q.do # None
    BY <1>1, <2>1 DEF Sound, Shaped
  <2>4. c \in Browser => q.do \notin {"complete", "bootstrap", "destroy"}
    BY <2>1, AuthorityAssumption DEF Sound, Shaped
  <2>5. c \in Browser => q.do \in {"switch", "login", "logout"}
    BY <2>2, <2>3, <2>4 DEF Doings
  <2> QED
    BY <1>1, <2>1, <2>2, <2>5 DEF Sound, Shaped, Moving, MovesTenant
<1>3. /\ request'[r] = [Blank EXCEPT !.pc = "ended"]
      /\ \A o \in Request : o # r => request'[o] = request[o]
      /\ [Blank EXCEPT !.pc = "ended"] \in RequestRow /\ Sound([Blank EXCEPT !.pc = "ended"])
  BY <1>1, BlankIsSound DEF TypeOK
<1>4. request'[r].from = None /\ request'[r].pc = "ended"
  BY <1>3 DEF Blank
<1>5. CASE c \in Browser
  <2>1. /\ jar' = [jar EXCEPT ![c] = cookies] /\ token' = token
        /\ settled' = [settled EXCEPT ![c] = IF q.alone THEN told ELSE None]
    BY <1>5 DEF Answer
  <2>2. jar[c] \in [sid : Session \cup {None}, tenant : Tenant \cup {None}]
    BY <1>1, <1>5 DEF TypeOK
  <2>3. /\ cookies \in [sid : Session \cup {None}, tenant : Tenant \cup {None}]
        /\ cookies.sid \in {None, q.sid, jar[c].sid}
    <3>1. CASE q.do = "logout"
      BY <3>1 DEF Nothing
    <3>2. CASE q.do = "login"
      BY <1>2, <3>2
    <3>3. CASE q.do = "switch"
      <4>1. cookies = [jar[c] EXCEPT !.tenant = q.arg]
        BY <3>3
      <4> HIDE DEF cookies
      <4> QED
        BY <1>2, <2>2, <3>3, <4>1
    <3> QED
      BY <1>2, <1>5, <3>1, <3>2, <3>3
  <2>4. told \in Tenant \cup {None}
    BY <1>2, <1>5
  <2>5. ASSUME q.alone, told # None
        PROVE  cookies.tenant = told /\ Brings(cookies.sid, told)
    <3>1. Tells(q) /\ q.pc = "answer"
      BY <1>1, <2>5 DEF Sound
    <3>2. CASE q.do = "login"
      <4>1. cookies = [sid |-> q.sid, tenant |-> q.tenant] /\ told = q.tenant
        BY <3>1, <3>2
      <4> HIDE DEF cookies, told
      <4> QED
        BY <2>5, <3>1, <3>2, <4>1 DEF Tells
    <3>3. CASE q.do = "switch"
      <4>1. cookies = [jar[c] EXCEPT !.tenant = q.arg] /\ told = q.arg
        BY <3>1, <3>3
      <4>2. cookies.sid = jar[c].sid /\ cookies.tenant = q.arg
        BY <2>2, <4>1
      <4> HIDE DEF cookies, told
      <4> QED
        BY <2>5, <3>1, <3>3, <4>1, <4>2 DEF Tells
    <3> QED
      BY <1>2, <1>5, <2>5, <3>2, <3>3
  <2> HIDE DEF cookies, told
  <2>6. jar'[c] = cookies /\ \A b \in Browser : b # c => jar'[b] = jar[b]
    BY <1>1, <1>5, <2>1 DEF TypeOK
  <2>7. /\ settled'[c] = (IF q.alone THEN told ELSE None)
        /\ \A b \in Browser : b # c => settled'[b] = settled[b]
    BY <1>1, <1>5, <2>1 DEF TypeOK
  <2>8. TypeOK'
    <3>1. jar' \in [Browser -> [sid : Session \cup {None}, tenant : Tenant \cup {None}]]
      BY <1>1, <2>1, <2>3 DEF TypeOK
    <3>2. settled' \in [Browser -> Tenant \cup {None}]
      BY <1>1, <2>1, <2>4 DEF TypeOK
    <3>3. request' \in [Request -> RequestRow]
      BY <1>1, <1>3 DEF TypeOK
    <3> QED
      BY <1>1, <2>1, <3>1, <3>2, <3>3 DEF TypeOK
  <2>9. ASSUME NEW d \in Browser \cup Device, NEW s \in Session, Holds(d, s)'
        PROVE  Holds(d, s)
    <3>1. CASE d \in Browser /\ jar'[d].sid = s
      <4>1. CASE d = c
        BY <2>3, <2>6, <3>1, <4>1 DEF Holds
      <4>2. CASE d # c
        BY <2>6, <3>1, <4>2 DEF Holds
      <4> QED
        BY <4>1, <4>2
    <3>2. CASE d \in Device /\ token'[d] = s
      BY <2>1, <3>2 DEF Holds
    <3>3. CASE \E o \in Request : request'[o].from = d /\ request'[o].sid = s
      BY <1>3, <1>4, <3>3 DEF Holds
    <3> QED
      BY <2>9, <3>1, <3>2, <3>3 DEF Holds
  <2>10. Used' /\ Apart'
    BY <1>1, <2>9 DEF Used, Apart
  <2>11. Settled'
    <3> SUFFICES ASSUME NEW b \in Browser, settled'[b] # None
                 PROVE  jar'[b].tenant = settled'[b] /\ Brings(jar[b].sid, settled[b])'
      BY DEF Settled
    <3>1. CASE b = c
      BY <1>1, <2>5, <2>6, <2>7, <3>1 DEF Brings
    <3>2. CASE b # c
      BY <1>1, <2>6, <2>7, <3>2 DEF Settled, Brings
    <3> QED
      BY <3>1, <3>2
  <2>12. Crossing'
    <3> SUFFICES ASSUME NEW a \in Request, Moving(request[a])'
                 PROVE  /\ settled'[request'[a].from] = None
                        /\ \A o \in Request : request'[o].from = request'[a].from =>
                             /\ request'[o].after = None
                             /\ o # a /\ Moving(request[o])' => ~request'[a].alone
      BY DEF Crossing
    <3>1. a # r
      BY <1>4 DEF Moving
    <3>2. request'[a] = request[a] /\ Moving(request[a]) /\ request[a].from \in Browser
      BY <1>1, <1>3, <3>1 DEF Moving, MovesTenant, Sound, Shaped
    <3>3. settled'[request[a].from] = None
      <4>1. settled[request[a].from] = None
        BY <1>1, <3>2 DEF Crossing
      <4>2. request[a].from = c => ~q.alone
        BY <1>1, <1>2, <1>5, <3>1, <3>2 DEF Crossing
      <4> QED
        BY <2>7, <3>2, <4>1, <4>2
    <3>4. ASSUME NEW o \in Request, request'[o].from = request'[a].from
          PROVE  /\ request'[o].after = None
                 /\ o # a /\ Moving(request[o])' => ~request'[a].alone
      <4>1. o # r
        BY <1>4, <3>2, <3>4
      <4>2. request'[o] = request[o]
        BY <1>3, <4>1
      <4> QED
        BY <1>1, <3>2, <3>4, <4>2 DEF Crossing, Moving
    <3> QED
      BY <3>2, <3>3, <3>4
  <2>13. ASSUME NEW o \in Request, o # r PROVE Sound(request[o])'
    <3>1. Sound(request[o]) /\ request'[o] = request[o]
      BY <1>1, <1>3, <2>13
    <3>2. Shaped(request[o])' /\ Dead(request[o])' /\ Nobody(request[o])' /\ Vouched(request[o])'
      <4>1. Shaped(request[o])'
        BY <3>1 DEF Sound, Shaped
      <4>2. Dead(request[o])' /\ Nobody(request[o])'
        BY <1>1, <3>1 DEF Sound, Dead, Nobody
      <4>3. Vouched(request[o])'
        BY <1>1, <3>1 DEF Sound, Vouched
      <4> QED
        BY <4>1, <4>2, <4>3
    <3>3. Keeps(request[o])'
      BY <1>1, <3>1 DEF Sound, Keeps, Brings
    <3>4. request[o].alone => request[o].from \in Browser /\ request[o].from # c
      BY <1>1, <1>2, <1>5, <2>13, <3>1 DEF Crossing, Sound, Tells, Moving, MovesTenant, Shaped
    <3>5. Tells(request[o])'
      BY <1>1, <2>6, <3>1, <3>4 DEF Sound, Tells, Brings, Moving
    <3> QED
      BY <3>2, <3>3, <3>5 DEF Sound
  <2>14. Sound(request[r])'
    BY <1>3, BlankRowsAreSound
  <2> QED
    BY <2>8, <2>10, <2>11, <2>12, <2>13, <2>14 DEF IInv
<1>6. CASE c \notin Browser
  <2>1. /\ jar' = jar /\ settled' = settled /\ c \in Device
        /\ token' = [token EXCEPT ![c] = IF q.do = "complete" THEN q.sid ELSE None]
    BY <1>1, <1>6 DEF Answer
  <2>2. TypeOK'
    <3>1. token' \in [Device -> Session \cup {None}]
      BY <1>1, <1>2, <2>1 DEF TypeOK
    <3>2. request' \in [Request -> RequestRow]
      BY <1>1, <1>3 DEF TypeOK
    <3> QED
      BY <1>1, <2>1, <3>1, <3>2 DEF TypeOK
  <2>3. /\ token'[c] \in {q.sid, None} /\ \A d \in Device : d # c => token'[d] = token[d]
    BY <1>1, <2>1 DEF TypeOK
  <2>4. ASSUME NEW d \in Browser \cup Device, NEW s \in Session, Holds(d, s)'
        PROVE  Holds(d, s)
    <3>1. CASE d \in Browser /\ jar'[d].sid = s
      BY <2>1, <3>1 DEF Holds
    <3>2. CASE d \in Device /\ token'[d] = s
      <4>1. CASE d = c
        BY <2>3, <3>2, <4>1 DEF Holds
      <4>2. CASE d # c
        BY <2>3, <3>2, <4>2 DEF Holds
      <4> QED
        BY <4>1, <4>2
    <3>3. CASE \E o \in Request : request'[o].from = d /\ request'[o].sid = s
      BY <1>3, <1>4, <3>3 DEF Holds
    <3> QED
      BY <2>4, <3>1, <3>2, <3>3 DEF Holds
  <2>5. Used' /\ Apart'
    BY <1>1, <2>4 DEF Used, Apart
  <2>6. Settled'
    BY <1>1, <2>1 DEF Settled, Brings
  <2>7. Crossing'
    <3>1. \A o \in Request : Moving(request[o])' => Moving(request[o]) /\ request'[o] = request[o]
      BY <1>3, <1>4 DEF Moving
    <3>2. \A a \in Request : Moving(request[a]) => request[a].from \in Browser
      BY <1>1 DEF Moving, MovesTenant, Sound, Shaped
    <3>3. \A o \in Request : request'[o].from \in Browser => request'[o] = request[o]
      BY <1>3, <1>4
    <3> SUFFICES ASSUME NEW a \in Request, Moving(request[a])'
                 PROVE  /\ settled'[request'[a].from] = None
                        /\ \A o \in Request : request'[o].from = request'[a].from =>
                             /\ request'[o].after = None
                             /\ o # a /\ Moving(request[o])' => ~request'[a].alone
      BY DEF Crossing
    <3>4. request'[a] = request[a] /\ Moving(request[a]) /\ request[a].from \in Browser
      BY <3>1, <3>2
    <3>5. settled'[request'[a].from] = None
      BY <1>1, <2>1, <3>4 DEF Crossing
    <3>6. ASSUME NEW o \in Request, request'[o].from = request'[a].from
          PROVE  /\ request'[o].after = None
                 /\ o # a /\ Moving(request[o])' => ~request'[a].alone
      <4>1. request'[o] = request[o] /\ request[o].from = request[a].from
        BY <3>3, <3>4, <3>6
      <4> QED
        BY <1>1, <3>1, <3>4, <4>1 DEF Crossing
    <3> QED
      BY <3>5, <3>6
  <2>8. ASSUME NEW o \in Request, o # r PROVE Sound(request[o])'
    <3>1. Sound(request[o]) /\ request'[o] = request[o]
      BY <1>1, <1>3, <2>8
    <3>2. Shaped(request[o])' /\ Dead(request[o])' /\ Nobody(request[o])' /\ Vouched(request[o])'
      <4>1. Shaped(request[o])'
        BY <3>1 DEF Sound, Shaped
      <4>2. Dead(request[o])' /\ Nobody(request[o])'
        BY <1>1, <3>1 DEF Sound, Dead, Nobody
      <4>3. Vouched(request[o])'
        BY <1>1, <3>1 DEF Sound, Vouched
      <4> QED
        BY <4>1, <4>2, <4>3
    <3>3. Keeps(request[o])' /\ Tells(request[o])'
      BY <1>1, <2>1, <3>1 DEF Sound, Keeps, Tells, Brings, Moving
    <3> QED
      BY <3>2, <3>3 DEF Sound
  <2>9. Sound(request[r])'
    BY <1>3, BlankRowsAreSound
  <2> QED
    BY <2>2, <2>5, <2>6, <2>7, <2>8, <2>9 DEF IInv
<1> QED
  BY <1>5, <1>6

-----------------------------------------------------------------------------
(* What else happens                                                       *)

LEMMA ChangeRoleKeeps ==
  ASSUME IInv, ChangeRole PROVE IInv'
<1>1. /\ TypeOK /\ Used /\ Apart /\ Crossing /\ Settled
      /\ \A o \in Request : Sound(request[o])
      /\ UNCHANGED <<deployment, session, used, jar, token, request, settled>>
  BY DEF IInv, ChangeRole
<1>2. TypeOK'
  <2>1. role' \in [User -> [Tenant -> RolesInPlay \cup {None}]]
    BY <1>1 DEF ChangeRole, TypeOK
  <2>2. changes' \in 0 .. Changes
    BY <1>1, AuthorityAssumption DEF ChangeRole, TypeOK
  <2> QED
    BY <1>1, <2>1, <2>2 DEF TypeOK
<1>3. Used' /\ Apart'
  BY <1>1 DEF Used, Apart, Holds
<1>4. Crossing' /\ Settled'
  BY <1>1 DEF Crossing, Settled, Moving, Brings
<1>5. ASSUME NEW o \in Request PROVE Sound(request[o])'
  BY <1>1 DEF Sound, Shaped, Dead, Nobody, Keeps, Tells, Vouched, Brings, Moving
<1> QED
  BY <1>2, <1>3, <1>4, <1>5 DEF IInv

\* A session that ends takes nothing from what is known.
LEMMA ExpireKeeps ==
  ASSUME IInv, Expire PROVE IInv'
<1> USE NoneIsApart
<1>1. /\ TypeOK /\ Used /\ Apart /\ Crossing /\ Settled
      /\ \A o \in Request : Sound(request[o]) /\ request[o] \in RequestRow
      /\ UNCHANGED <<deployment, role, used, jar, token, request, settled>>
  BY OfARequest DEF IInv, Expire
<1>2. /\ session' \in [Session -> SessionRow \cup {None}]
      /\ \A s \in Session : session'[s] \in {session[s], None}
  BY <1>1 DEF Expire, TypeOK
<1>3. TypeOK'
  <2>1. changes' \in 0 .. Changes
    BY <1>1, AuthorityAssumption DEF Expire, TypeOK
  <2> QED
    BY <1>1, <1>2, <2>1 DEF TypeOK
<1>4. Used' /\ Apart'
  BY <1>1, <1>2 DEF Used, Apart, Holds
<1>5. \A s \in Session \cup {None} : \A t : Brings(s, t) => Brings(s, t)'
  BY <1>2 DEF Brings
<1>6. Crossing'
  BY <1>1 DEF Crossing, Moving
<1>7. Settled'
  <2>1. \A b \in Browser : jar[b].sid \in Session \cup {None}
    BY <1>1 DEF TypeOK
  <2>2. \A b \in Browser : \A t : Brings(jar[b].sid, t) =>
          (jar[b].sid # None /\ session'[jar[b].sid] # None => session'[jar[b].sid].tenant = t)
    BY <1>2, <2>1 DEF Brings
  <2> QED
    BY <1>1, <2>2 DEF Settled, Brings
<1>8. ASSUME NEW o \in Request PROVE Sound(request[o])'
  <2>1. request[o].sid \in Session \cup {None} /\ Sound(request[o]) /\ request'[o] = request[o]
    BY <1>1, Fields
  <2>2. \A t : Brings(request[o].sid, t) =>
          (request[o].sid # None /\ session'[request[o].sid] # None =>
             session'[request[o].sid].tenant = t)
    BY <1>2, <2>1 DEF Brings
  <2>3. request[o].sid # None /\ session[request[o].sid] = None =>
          session'[request[o].sid] = None
    BY <1>2, <2>1
  <2>4. Shaped(request[o])'
    BY <2>1 DEF Sound, Shaped
  <2>5. Dead(request[o])' /\ Nobody(request[o])'
    BY <1>1, <2>1, <2>3 DEF Sound, Dead, Nobody
  <2>6. Vouched(request[o])'
    BY <1>1, <2>1 DEF Sound, Vouched
  <2>7. Keeps(request[o])'
    BY <2>1, <2>2 DEF Sound, Keeps, Brings
  <2>8. Tells(request[o])'
    BY <1>1, <2>1, <2>2 DEF Sound, Tells, Brings, Moving
  <2> QED
    BY <2>4, <2>5, <2>6, <2>7, <2>8 DEF Sound
<1> QED
  BY <1>3, <1>4, <1>6, <1>7, <1>8 DEF IInv

-----------------------------------------------------------------------------
(* The invariant                                                           *)

LEMMA InitIsSound ==
  ASSUME Init PROVE IInv
<1> USE NoneIsApart
<1>1. /\ deployment \in Deployments /\ role \in Memberships
      /\ request = [r \in Request |-> Blank] /\ changes = 0
  BY DEF Init
<1>2. /\ Blank.pc = "unsent" /\ Blank.from = None /\ Blank.do = None /\ Blank.sid = None
      /\ Blank.after = None /\ ~Blank.dead /\ ~Blank.alone
  BY DEF Blank
<1>3. Blank \in RequestRow /\ Sound(Blank)
  <2>1. Blank \in RequestRow
    BY MaybeIs DEF Blank, RequestRow, Stages
  <2>2. None \notin {"switch", "login", "logout", "complete", "bootstrap", "destroy"}
    BY NoneIsApart DEF Doings
  <2>3. Sound(Blank)
    BY <1>2, <2>2 DEF Sound, Shaped, Dead, Nobody, Keeps, Tells, Vouched
  <2> QED
    BY <2>1, <2>3
<1>4. Looked \subseteq Browser \cup Device
  BY DEF Looked
<1>5. \A c \in Browser \cup Device, s \in Session :
        Holds(c, s) => (c \in Browser /\ jar[c].sid = s) \/ (c \in Device /\ token[c] = s)
  BY <1>1, <1>2 DEF Holds
<1>6. Crossing
  BY <1>1, <1>2 DEF Crossing, Moving
<1>7. TypeOK /\ Used /\ Apart /\ Settled
  <2>1. /\ role \in [User -> [Tenant -> RolesInPlay \cup {None}]]
        /\ changes \in 0 .. Changes /\ request \in [Request -> RequestRow]
    BY <1>1, <1>3, AuthorityAssumption
  <2>2. CASE /\ session = [s \in Session |-> None] /\ used = {}
             /\ jar = [b \in Browser |-> Nothing]
             /\ token = [d \in Device |-> None] /\ settled = [b \in Browser |-> None]
    <3>1. TypeOK
      BY <1>1, <2>1, <2>2 DEF TypeOK, Nothing
    <3>2. \A c \in Browser \cup Device, s \in Session : ~Holds(c, s)
      BY <1>5, <2>2 DEF Nothing
    <3> QED
      BY <2>2, <3>1, <3>2 DEF Used, Apart, Settled
  <2>3. ASSUME NEW c \in Looked, NEW s \in Session, NEW u \in User, NEW t \in Tenant,
          used = {s},
          session = [o \in Session |-> IF o = s THEN [user |-> u, tenant |-> t] ELSE None],
          jar = [b \in Browser |-> IF b = c THEN [sid |-> s, tenant |-> t] ELSE Nothing],
          token = [d \in Device |-> IF d = c THEN s ELSE None],
          settled = [b \in Browser |-> IF b = c THEN t ELSE None]
        PROVE  TypeOK /\ Used /\ Apart /\ Settled
    <3>1. TypeOK
      <4>1. session \in [Session -> SessionRow \cup {None}]
        BY <2>3 DEF SessionRow
      <4>2. jar \in [Browser -> [sid : Session \cup {None}, tenant : Tenant \cup {None}]]
        BY <2>3 DEF Nothing
      <4> QED
        BY <1>1, <2>1, <2>3, <4>1, <4>2 DEF TypeOK
    <3>2. \A d \in Browser \cup Device, o \in Session : Holds(d, o) => d = c /\ o = s
      BY <1>5, <2>3 DEF Nothing
    <3>3. Used /\ Apart
      BY <2>3, <3>2 DEF Used, Apart
    <3>4. Settled
      <4>1. session[s].tenant = t
        BY <2>3
      <4> QED
        BY <2>3, <4>1 DEF Settled, Brings
    <3> QED
      BY <3>1, <3>3, <3>4
  <2> QED
    BY <2>2, <2>3 DEF Init
<1>8. \A r \in Request : Sound(request[r])
  <2> TAKE r \in Request
  <2>1. request[r] = Blank
    BY <1>1
  <2> QED
    BY <2>1, <1>3
<1> QED
  BY <1>6, <1>7, <1>8 DEF IInv

\* What may be sent is what SendKeeps speaks of.
LEMMA SendingKeeps ==
  ASSUME IInv, NEW r \in Request,
         SendCommand(r) \/ SendSwitch(r) \/ SendLogin(r) \/ SendLogout(r) \/ SendMobile(r)
  PROVE  IInv'
<1>1. Looked \subseteq Browser \cup Device /\ Asked \subseteq Permissions
  BY AuthorityAssumption DEF Looked
<1>2. CASE SendCommand(r)
  <2>1. PICK c \in Looked, p \in Asked : Send(r, c, "command", p)
    BY <1>2 DEF SendCommand
  <2> QED
    BY <1>1, <2>1, SendKeeps DEF Doings
<1>3. CASE SendSwitch(r)
  <2>1. PICK b \in Looked \cap Browser, t \in Tenant : Send(r, b, "switch", t)
    BY <1>3 DEF SendSwitch
  <2> QED
    BY <2>1, SendKeeps DEF Doings
<1>4. CASE SendLogin(r)
  <2>1. PICK b \in Looked \cap Browser, u \in User : Send(r, b, "login", u)
    BY <1>4 DEF SendLogin
  <2> QED
    BY <2>1, SendKeeps DEF Doings
<1>5. CASE SendLogout(r)
  <2>1. PICK b \in Looked \cap Browser : Send(r, b, "logout", None)
    BY <1>5 DEF SendLogout
  <2> QED
    BY <2>1, SendKeeps DEF Doings
<1>6. CASE SendMobile(r)
  <2>1. PICK d \in Looked \cap Device :
          \/ Send(r, d, "complete", None)
          \/ token[d] # None /\ \E do \in {"bootstrap", "destroy"} : Send(r, d, do, None)
    BY <1>6 DEF SendMobile
  <2>2. CASE Send(r, d, "complete", None)
    BY <2>2, SendKeeps DEF Doings
  <2>3. ASSUME token[d] # None, NEW do \in {"bootstrap", "destroy"}, Send(r, d, do, None)
        PROVE  IInv'
    BY <2>3, SendKeeps DEF Doings
  <2> QED
    BY <2>1, <2>2, <2>3
<1> QED
  BY <1>2, <1>3, <1>4, <1>5, <1>6

LEMMA NextKeeps ==
  ASSUME IInv, [Next]_vars PROVE IInv'
<1>1. CASE UNCHANGED vars
  <2>1. UNCHANGED <<deployment, role, session, used, jar, token, request, settled, changes>>
    BY <1>1 DEF vars
  <2>2. TypeOK' /\ Used' /\ Apart' /\ Crossing' /\ Settled'
    BY <2>1 DEF IInv, TypeOK, Used, Apart, Holds, Crossing, Settled, Moving, Brings
  <2>3. ASSUME NEW o \in Request PROVE Sound(request[o])'
    BY <2>1 DEF IInv, Sound, Shaped, Dead, Nobody, Keeps, Tells, Vouched, Brings, Moving
  <2> QED
    BY <2>2, <2>3 DEF IInv
<1>2. ASSUME NEW r \in Request,
             \/ SendCommand(r) \/ SendSwitch(r) \/ SendLogin(r) \/ SendLogout(r) \/ SendMobile(r)
             \/ Identify(r) \/ Reconcile(r) \/ RequirePermission(r) \/ Act(r)
             \/ CheckSwitch(r) \/ SwitchSession(r) \/ Login(r) \/ Destroy(r) \/ Answer(r)
             \/ Exchange(r) \/ SignIn(r) \/ Store(r) \/ CheckStored(r)
             \/ LoadAgain(r) \/ CheckLoaded(r)
      PROVE  IInv'
  BY <1>2, SendingKeeps, IdentifyKeeps, ReconcileKeeps, RequirePermissionKeeps, ActKeeps,
     CheckSwitchKeeps, SwitchSessionKeeps, LoginKeeps, DestroyKeeps, AnswerKeeps, ExchangeKeeps,
     SignInKeeps, StoreKeeps, CheckStoredKeeps, LoadAgainKeeps, CheckLoadedKeeps
<1> QED
  BY <1>1, <1>2, ChangeRoleKeeps, ExpireKeeps DEF Next

\* The invariant holds in every behaviour of the sessions and requests.
THEOREM Invariance == Spec => []IInv
<1>1. Init => IInv
  BY InitIsSound
<1>2. IInv /\ [Next]_vars => IInv'
  BY NextKeeps
<1> QED
  BY <1>1, <1>2, PTL DEF Spec

-----------------------------------------------------------------------------
(* What follows                                                            *)

\* Types: what the variables and each request may hold.
THEOREM TypeCorrect == Spec => []TypeOK
BY Invariance, PTL DEF IInv

\* A device is signed in only to an address that the provider vouches for, by
\* a redirect allowed to that provider, which the configuration names once.
THEOREM SignInsAreVouched == Spec => []SignInIsVouched
<1>1. IInv => SignInIsVouched
  BY DEF IInv, Sound, Vouched, SignInIsVouched
<1> QED
  BY <1>1, Invariance, PTL

\* The steps that a request takes itself
Goes(r) ==
  \/ Identify(r) \/ Reconcile(r) \/ RequirePermission(r) \/ Act(r)
  \/ CheckSwitch(r) \/ SwitchSession(r) \/ Login(r) \/ Destroy(r) \/ Answer(r)
  \/ Exchange(r) \/ SignIn(r) \/ Store(r) \/ CheckStored(r)
  \/ LoadAgain(r) \/ CheckLoaded(r)

LEMMA SendTouchesNoStage ==
  ASSUME IInv, NEW r \in Request, NEW c, NEW do, NEW arg, Send(r, c, do, arg),
         NEW o \in Request, o # r
  PROVE  request'[o].pc = request[o].pc
<1>1. request[o] \in RequestRow
  BY OfARequest
<1>2. request'[o] = request[o]
      \/ request'[o] = [request[o] EXCEPT !.after = None, !.alone = FALSE]
  BY DEF Send
<1> QED
  BY <1>1, <1>2 DEF RequestRow

LEMMA StepTouchesNoOther ==
  ASSUME IInv, NEW r \in Request, Goes(r), NEW o \in Request, o # r
  PROVE  request'[o] = request[o]
<1>1. CASE Identify(r)
  BY <1>1 DEF IInv, TypeOK, Identify, Step
<1>2. CASE Reconcile(r) \/ RequirePermission(r) \/ Act(r) \/ CheckSwitch(r) \/ CheckStored(r)
           \/ LoadAgain(r) \/ CheckLoaded(r) \/ Destroy(r)
  BY <1>2 DEF IInv, TypeOK, Step, Reconcile, RequirePermission, Act, CheckSwitch, CheckStored,
              LoadAgain, CheckLoaded, Destroy
<1>3. CASE SwitchSession(r) \/ Login(r) \/ Store(r)
  BY <1>3 DEF IInv, TypeOK, Step, SwitchSession, Login, Store
<1>4. CASE Answer(r)
  BY <1>4 DEF IInv, TypeOK, Answer
<1>5. CASE Exchange(r) \/ SignIn(r)
  BY <1>5 DEF IInv, TypeOK, Step, Exchange, SignIn
<1> QED
  BY <1>1, <1>2, <1>3, <1>4, <1>5 DEF Goes

\* A request gets further by a step of its own, or is sent.
LEMMA StagesChange ==
  ASSUME IInv, [Next]_vars, NEW r \in Request, request'[r].pc # request[r].pc
  PROVE  \/ Goes(r)
         \/ \E c, do, arg : Send(r, c, do, arg)
<1>1. CASE UNCHANGED vars
  BY <1>1 DEF vars
<1>2. CASE ChangeRole \/ Expire
  BY <1>2 DEF ChangeRole, Expire
<1>3. ASSUME NEW o \in Request, Goes(o) PROVE Goes(r)
  BY <1>3, StepTouchesNoOther
<1>4. ASSUME NEW o \in Request,
             SendCommand(o) \/ SendSwitch(o) \/ SendLogin(o) \/ SendLogout(o) \/ SendMobile(o)
      PROVE  \E c, do, arg : Send(r, c, do, arg)
  <2>1. PICK c, do, arg : Send(o, c, do, arg)
    BY <1>4 DEF SendCommand, SendSwitch, SendLogin, SendLogout, SendMobile
  <2>2. o = r
    BY <2>1, SendTouchesNoStage
  <2> QED
    BY <2>1, <2>2
<1> QED
  BY <1>1, <1>2, <1>3, <1>4 DEF Next, Goes

\* A step leads to the stage it names, and elsewhere leaves alone.
LEMMA StepLeads ==
  ASSUME IInv, NEW r \in Request, NEW to \in Stages, NEW new \in RequestRow, Step(r, to, new)
  PROVE  /\ request'[r].pc = to
         /\ to \notin Ended => request'[r] = [new EXCEPT !.pc = to]
         /\ to \notin Ended => /\ request'[r].do = new.do /\ request'[r].arg = new.arg
                               /\ request'[r].user = new.user /\ request'[r].tenant = new.tenant
<1>1. request \in [Request -> RequestRow]
  BY DEF IInv, TypeOK
<1>2. CASE to \in Ended
  <2>1. request'[r] = [Blank EXCEPT !.pc = to]
    BY <1>1, <1>2 DEF Step
  <2> QED
    BY <1>2, <2>1 DEF Blank
<1>3. CASE to \notin Ended
  <2>1. request'[r] = [new EXCEPT !.pc = to]
    BY <1>1, <1>3 DEF Step
  <2> QED
    BY <1>3, <2>1 DEF RequestRow
<1> QED
  BY <1>2, <1>3

\* Where the steps lead
LEMMA Destinations ==
  ASSUME IInv, NEW r \in Request, Goes(r)
  PROVE  /\ request'[r].pc = "acted" => Act(r)
         /\ request'[r].pc = "checked" =>
              RequirePermission(r) \/ CheckSwitch(r) \/ CheckLoaded(r)
         /\ request'[r].pc = "answer" =>
              SwitchSession(r) \/ Login(r) \/ Destroy(r) \/ CheckStored(r)
<1> DEFINE q == request[r]
<1>1. q \in RequestRow /\ request \in [Request -> RequestRow]
  BY OfARequest DEF IInv, TypeOK
<1>2. {"identified", "hooked", "checked", "loaded", "exchanged", "signed", "stored", "answer",
       "conflict", "acted", "ended"} \subseteq Stages
  BY DEF Stages
<1>3. CASE Identify(r)
  <2> DEFINE a == IF deployment.trusted /\ q.header # None THEN None ELSE q.after
             p == [q EXCEPT !.cookie = None, !.header = None, !.host = None, !.after = a]
             row == IF p.sid = None THEN None ELSE session[p.sid]
             resolved == ResolveTenant(q)
             x == IF p.from \in Browser /\ (deployment.inner \/ resolved = None)
                  THEN row.tenant ELSE resolved
             n1 == [p EXCEPT !.user = row.user, !.tenant = row.tenant, !.context = x]
             n2 == [p EXCEPT !.context = resolved]
  <2>1. Step(r, "identified", n1) \/ Step(r, "ended", p) \/ Step(r, "identified", n2)
    BY <1>3 DEF Identify
  <2>2. CASE Step(r, "ended", p)
    <3>1. request'[r] = [Blank EXCEPT !.pc = "ended"]
      BY <1>1, <2>2 DEF Step, Ended
    <3> QED
      BY <3>1 DEF Blank
  <2>3. CASE Step(r, "identified", n1)
    <3> HIDE DEF a, row, resolved, x
    <3>1. request'[r] = [n1 EXCEPT !.pc = "identified"]
      <4> HIDE DEF n1
      <4> QED BY <1>1, <2>3 DEF Step, Ended
    <3>2. request'[r].pc = "identified"
      BY <1>1, <3>1 DEF RequestRow
    <3> QED
      BY <3>2
  <2>4. CASE Step(r, "identified", n2)
    <3> HIDE DEF a, row, resolved, x
    <3>1. request'[r] = [n2 EXCEPT !.pc = "identified"]
      <4> HIDE DEF n2
      <4> QED BY <1>1, <2>4 DEF Step, Ended
    <3>2. request'[r].pc = "identified"
      BY <1>1, <3>1 DEF RequestRow
    <3> QED
      BY <3>2
  <2> QED
    BY <2>1, <2>2, <2>3, <2>4
<1>4. CASE Reconcile(r)
  <2> DEFINE t == IF q.context # None THEN q.context ELSE q.tenant
             found == RoleOf(Identity(q.user), t)
             u == IF found # None THEN Identity(q.user) ELSE q.user
  <2>1. request' = [request EXCEPT ![r] =
                     [[q EXCEPT !.tenant = t, !.seen = found, !.user = u] EXCEPT !.pc = "hooked"]]
    BY <1>4 DEF Reconcile, Step, Ended
  <2> HIDE DEF t, found, u
  <2>2. request'[r].pc = "hooked"
    BY <1>1, <2>1 DEF RequestRow
  <2> QED
    BY <2>2
<1>5. ASSUME NEW to \in Stages, Step(r, to, q)
      PROVE  request'[r].pc = to
  BY <1>1, <1>5, StepLeads
<1>6. CASE RequirePermission(r) \/ CheckSwitch(r) \/ CheckLoaded(r)
  <2>1. RequirePermission(r) => request'[r].pc \in {"checked", "ended"}
    <3> SUFFICES ASSUME RequirePermission(r) PROVE request'[r].pc \in {"checked", "ended"}
      OBVIOUS
    <3> DEFINE u == Identity(q.user)
    <3>1. CASE Step(r, "ended", q)
      BY <1>2, <1>5, <3>1
    <3>2. CASE Step(r, "checked", [q EXCEPT !.user = u])
      <4> HIDE DEF u
      <4>1. request'[r] = [[q EXCEPT !.user = u] EXCEPT !.pc = "checked"]
        BY <1>1, <3>2 DEF Step, Ended
      <4> QED
        BY <1>1, <4>1 DEF RequestRow
    <3> QED
      BY <3>1, <3>2 DEF RequirePermission
  <2>2. CheckSwitch(r) => request'[r].pc \in {"checked", "ended"}
    BY <1>2, <1>5 DEF CheckSwitch
  <2>3. CheckLoaded(r) => request'[r].pc \in {"checked", "ended"}
    BY <1>2, <1>5 DEF CheckLoaded
  <2> QED
    BY <1>6, <2>1, <2>2, <2>3
<1>7. CASE SwitchSession(r)
  <2>1. request'[r].pc \in {"answer", "conflict"}
    BY <1>2, <1>5, <1>7 DEF SwitchSession
  <2> QED
    BY <1>7, <2>1
<1>8. CASE Destroy(r)
  <2>1. request'[r].pc = "answer"
    BY <1>2, <1>5, <1>8 DEF Destroy
  <2> QED
    BY <1>8, <2>1
<1>9. CASE CheckStored(r)
  <2>1. request'[r].pc \in {"answer", "ended"}
    BY <1>2, <1>5, <1>9 DEF CheckStored
  <2> QED
    BY <1>9, <2>1
<1>10. CASE Login(r)
  <2>1. PICK t \in Tenant : Step(r, "answer", [q EXCEPT !.tenant = t, !.sid = NewSession])
    BY <1>10 DEF Login
  <2>2. request'[r] = [[q EXCEPT !.tenant = t, !.sid = NewSession] EXCEPT !.pc = "answer"]
    BY <1>1, <2>1 DEF Step, Ended
  <2>3. request'[r].pc = "answer"
    BY <1>1, <2>2 DEF RequestRow
  <2> QED
    BY <1>10, <2>3
<1>11. CASE Answer(r)
  <2>1. request'[r] = [Blank EXCEPT !.pc = "ended"]
    BY <1>1, <1>11 DEF Answer
  <2>2. request'[r].pc = "ended"
    BY <2>1 DEF Blank
  <2> QED
    BY <2>2
<1>12. CASE Exchange(r)
  <2>1. Step(r, "ended", q)
        \/ \E u, w, v : Step(r, "exchanged", [q EXCEPT !.user = u, !.answers = w, !.via = v])
    BY <1>12 DEF Exchange
  <2>2. ASSUME NEW u, NEW w, NEW v,
               Step(r, "exchanged", [q EXCEPT !.user = u, !.answers = w, !.via = v])
        PROVE  request'[r].pc = "exchanged"
    <3>1. request'[r] = [[q EXCEPT !.user = u, !.answers = w, !.via = v] EXCEPT !.pc = "exchanged"]
      BY <1>1, <2>2 DEF Step, Ended
    <3> QED
      BY <1>1, <3>1 DEF RequestRow
  <2>3. request'[r].pc \in {"ended", "exchanged"}
    BY <1>2, <1>5, <2>1, <2>2
  <2> QED
    BY <2>3
<1>13. CASE SignIn(r)
  <2> DEFINE p == [q EXCEPT !.answers = None, !.via = None]
  <2>1. PICK t \in Tenant : Step(r, "signed", [p EXCEPT !.tenant = t]) \/ Step(r, "ended", p)
    BY <1>13 DEF SignIn
  <2>2. CASE Step(r, "ended", p)
    <3>1. request'[r] = [Blank EXCEPT !.pc = "ended"]
      BY <1>1, <2>2 DEF Step, Ended
    <3> QED
      BY <3>1 DEF Blank
  <2>3. CASE Step(r, "signed", [p EXCEPT !.tenant = t])
    <3>1. request'[r] = [[p EXCEPT !.tenant = t] EXCEPT !.pc = "signed"]
      BY <1>1, <2>3 DEF Step, Ended
    <3>2. request'[r].pc = "signed"
      BY <1>1, <3>1 DEF RequestRow
    <3> QED
      BY <3>2
  <2> QED
    BY <2>1, <2>2, <2>3
<1>14. CASE Store(r)
  <2>1. request'[r] = [[q EXCEPT !.sid = NewSession] EXCEPT !.pc = "stored"]
    BY <1>1, <1>14 DEF Store, Step, Ended
  <2>2. request'[r].pc = "stored"
    BY <1>1, <2>1 DEF RequestRow
  <2> QED
    BY <2>2
<1>15. CASE LoadAgain(r)
  <2> DEFINE u == session[q.sid].user
             t == session[q.sid].tenant
  <2>1. Step(r, "ended", q) \/ Step(r, "loaded", [q EXCEPT !.user = u, !.tenant = t])
    BY <1>15 DEF LoadAgain
  <2> HIDE DEF u, t
  <2>2. CASE Step(r, "loaded", [q EXCEPT !.user = u, !.tenant = t])
    <3>1. request'[r] = [[q EXCEPT !.user = u, !.tenant = t] EXCEPT !.pc = "loaded"]
      BY <1>1, <2>2 DEF Step, Ended
    <3>2. request'[r].pc = "loaded"
      BY <1>1, <3>1 DEF RequestRow
    <3> QED
      BY <3>2
  <2>3. CASE Step(r, "ended", q)
    <3>1. request'[r].pc = "ended"
      BY <1>2, <1>5, <2>3
    <3> QED
      BY <3>1
  <2> QED
    BY <2>1, <2>2, <2>3
<1>16. CASE Act(r)
  <2>1. request'[r].pc \in {"acted", "ended"}
    BY <1>2, <1>5, <1>16 DEF Act
  <2> QED
    BY <1>16, <2>1
<1> QED
  BY <1>3, <1>4, <1>6, <1>7, <1>8, <1>9, <1>10, <1>11, <1>12, <1>13, <1>14, <1>15, <1>16
     DEF Goes

\* What a command and a bootstrap act with
LEMMA ActsRightly ==
  ASSUME IInv, NEW r \in Request, Act(r), request'[r].pc = "acted"
  PROVE  /\ request[r].context \in {None, request[r].tenant}
         /\ request[r].after \in {None, request[r].tenant}
         /\ request[r].dead => /\ request[r].from \in Browser /\ deployment.fallback
                               /\ request[r].user = Demo
<1> USE NoneIsApart
<1> DEFINE q == request[r]
<1>1. Sound(q) /\ q \in RequestRow /\ q.pc = "checked" /\ q.do \in {"command", "bootstrap"}
  BY OfARequest DEF Act
<1>2. q.context \in {None, q.tenant}
  <2> SUFFICES ASSUME q.context \notin {None, q.tenant} PROVE FALSE
    OBVIOUS
  <2>1. Step(r, "ended", q) /\ "ended" \in Stages
    BY DEF Act, Stages
  <2> QED
    BY <1>1, <2>1, StepLeads
<1>3. q.after \in {None, q.tenant}
  BY <1>1 DEF Sound, Keeps
<1>4. ASSUME q.dead PROVE q.from \in Browser /\ deployment.fallback /\ q.user = Demo
  <2>1. /\ q.from \in Browser /\ (q.user = None \/ (deployment.fallback /\ q.user = Demo))
        /\ q.do = "command" => q.user # None
    BY <1>1, <1>4 DEF Sound, Dead
  <2>2. q.do = "command"
    BY <1>1, <2>1, AuthorityAssumption DEF Sound, Shaped
  <2> QED
    BY <2>1, <2>2
<1> QED
  BY <1>2, <1>3, <1>4

LEMMA SentIsSent ==
  ASSUME NEW r \in Request, NEW c, NEW do, NEW arg, Send(r, c, do, arg)
  PROVE  request'[r].pc = "sent"
<1>1. PICK way : request'[r] = Sent(c, do, arg, way)
  BY DEF Send
<1> QED
  BY <1>1 DEF Sent

LEMMA ActingIsAnAct ==
  ASSUME IInv, [Next]_vars, NEW r \in Request, request[r].pc # "acted", request'[r].pc = "acted"
  PROVE  Act(r)
<1>1. ~ \E c, do, arg : Send(r, c, do, arg)
  BY SentIsSent
<1>2. Goes(r)
  BY <1>1, StagesChange
<1> QED
  BY <1>2, Destinations

\* Whoever sends, switches, signs in or out meanwhile: a command acts for the
\* tenant its user was checked for, and its browser was told.
THEOREM TenantsAreRight == Spec => TenantIsRight
<1>1. ASSUME IInv, [Next]_vars
      PROVE  [\A r \in Request : Acts(r) =>
                /\ request[r].context \in {None, request[r].tenant}
                /\ request[r].after \in {None, request[r].tenant}]_vars
  <2> SUFFICES ASSUME NEW r \in Request, Acts(r)
               PROVE  /\ request[r].context \in {None, request[r].tenant}
                      /\ request[r].after \in {None, request[r].tenant}
    OBVIOUS
  <2>1. Act(r) /\ request'[r].pc = "acted"
    BY <1>1, ActingIsAnAct DEF Acts
  <2> QED
    BY <1>1, <2>1, ActsRightly
<1> QED
  BY <1>1, Invariance, PTL DEF Spec, TenantIsRight

\* What a handler goes ahead with is a membership it has just looked up.
LEMMA ChecksAreOfNow ==
  ASSUME IInv, NEW r \in Request, Goes(r), NEW q, q = request'[r]
  PROVE  /\ q.pc = "checked" /\ q.do = "command" =>
              q.arg \in Grants(RoleOf(q.user, q.tenant))
         /\ q.pc = "checked" /\ q.do = "bootstrap" => RoleOf(q.user, q.tenant) # None
         /\ q.pc = "answer" /\ q.do = "complete" => RoleOf(q.user, q.tenant) # None
<1> USE NoneIsApart
<1> DEFINE old == request[r]
<1>1. old \in RequestRow /\ Sound(old) /\ request \in [Request -> RequestRow]
  BY OfARequest DEF IInv, TypeOK
<1>2. "checked" \in Stages /\ "answer" \in Stages /\ "conflict" \in Stages /\ "ended" \in Stages
  BY DEF Stages
<1>3. ASSUME NEW to \in {"checked", "answer", "conflict", "ended"}, Step(r, to, old)
      PROVE  /\ q.pc = to
             /\ to # "ended" => /\ q.do = old.do /\ q.arg = old.arg /\ q.user = old.user
                               /\ q.tenant = old.tenant
  <2>1. CASE to = "ended"
    BY <1>3, <2>1, <1>1, <1>2, StepLeads
  <2>2. CASE to # "ended"
    <3>1. q = [old EXCEPT !.pc = to]
      BY <1>1, <1>3, <2>2 DEF Step, Ended
    <3> QED
      BY <1>1, <3>1, <2>2 DEF RequestRow
  <2> QED
    BY <2>1, <2>2
<1>4. CASE RequirePermission(r)
  <2> DEFINE user == Identity(old.user)
  <2>1. CASE Step(r, "ended", old)
    BY <1>3, <2>1
  <2>2. CASE /\ old.arg \in Grants(RoleOf(user, old.tenant))
             /\ Step(r, "checked", [old EXCEPT !.user = user])
    <3>1. old.do = "command"
      BY <1>4 DEF RequirePermission
    <3> HIDE DEF user
    <3>2. q = [[old EXCEPT !.user = user] EXCEPT !.pc = "checked"]
      BY <1>1, <2>2 DEF Step, Ended
    <3>3. /\ q.user = user /\ q.tenant = old.tenant /\ q.arg = old.arg /\ q.do = old.do
          /\ q.pc = "checked"
      BY <1>1, <3>2 DEF RequestRow
    <3> QED
      BY <2>2, <3>1, <3>3
  <2> QED
    BY <1>4, <2>1, <2>2 DEF RequirePermission
<1>5. CASE CheckSwitch(r)
  BY <1>3, <1>5 DEF CheckSwitch
<1>6. CASE CheckLoaded(r)
  <2>1. old.do = "bootstrap"
    BY <1>1, <1>6 DEF CheckLoaded, Sound, Shaped
  <2> QED
    BY <1>3, <1>6, <2>1 DEF CheckLoaded
<1>7. CASE SwitchSession(r)
  BY <1>3, <1>7 DEF SwitchSession
<1>8. CASE Login(r)
  <2>1. PICK t \in Tenant : Step(r, "answer", [old EXCEPT !.tenant = t, !.sid = NewSession])
    BY <1>8 DEF Login
  <2>2. q = [[old EXCEPT !.tenant = t, !.sid = NewSession] EXCEPT !.pc = "answer"]
    BY <1>1, <2>1 DEF Step, Ended
  <2>3. q.pc = "answer" /\ q.do = old.do
    BY <1>1, <2>2 DEF RequestRow
  <2> QED
    BY <1>8, <2>3 DEF Login
<1>9. CASE Destroy(r)
  BY <1>3, <1>9 DEF Destroy
<1>10. CASE CheckStored(r)
  BY <1>3, <1>10 DEF CheckStored
<1>11. CASE q.pc \notin {"checked", "answer"}
  BY <1>11
<1> QED
  BY <1>4, <1>5, <1>6, <1>7, <1>8, <1>9, <1>10, <1>11, Destinations

\* No command, bootstrap or sign-in goes ahead under a membership that is not
\* active when the handler looks, whatever a hook has found; and a session that
\* was gone when the request was sent acts for nobody, or for the demo's owner.
THEOREM StaleRequestsDoNotAct == Spec => NothingStaleActs
<1>1. ASSUME IInv, [Next]_vars
      PROVE  [\A r \in Request :
                LET q == request'[r] IN
                request[r].pc # q.pc =>
                  /\ q.pc = "checked" /\ q.do = "command" => q.arg \in Grants(RoleOf(q.user, q.tenant))
                  /\ <<q.do, q.pc>> \in {<<"bootstrap", "checked">>, <<"complete", "answer">>} =>
                       RoleOf(q.user, q.tenant) # None
                  /\ Acts(r) /\ request[r].dead =>
                       request[r].from \in Browser /\ deployment.fallback /\ request[r].user = Demo]_vars
  <2> SUFFICES ASSUME NEW r \in Request, NEW q, q = request'[r], request[r].pc # q.pc
               PROVE  /\ q.pc = "checked" /\ q.do = "command" =>
                           q.arg \in Grants(RoleOf(q.user, q.tenant))
                      /\ q.pc = "checked" /\ q.do = "bootstrap" => RoleOf(q.user, q.tenant) # None
                      /\ q.pc = "answer" /\ q.do = "complete" => RoleOf(q.user, q.tenant) # None
                      /\ Acts(r) /\ request[r].dead =>
                           /\ request[r].from \in Browser /\ deployment.fallback
                           /\ request[r].user = Demo
    OBVIOUS
  <2>1. CASE \E c, do, arg : Send(r, c, do, arg)
    <3>1. q.pc = "sent"
      BY <2>1, SentIsSent
    <3> QED
      BY <3>1 DEF Acts
  <2>2. CASE Goes(r)
    <3>1. Acts(r) /\ request[r].dead =>
            request[r].from \in Browser /\ deployment.fallback /\ request[r].user = Demo
      BY <1>1, ActingIsAnAct, ActsRightly DEF Acts
    <3> QED
      BY <1>1, <2>2, <3>1, ChecksAreOfNow
  <2> QED
    BY <1>1, <2>1, <2>2, StagesChange
<1> QED
  BY <1>1, Invariance, PTL DEF Spec, NothingStaleActs
=============================================================================
