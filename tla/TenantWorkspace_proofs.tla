----------------------- MODULE TenantWorkspace_proofs -----------------------
(***************************************************************************)
(* Proofs about a tenant's workspace: the quotas, rooms and the audit of   *)
(* TenantUsage, for every number of requests, thresholds, days and tenants *)
(* and every plan; that the workspace that is checked with the shell       *)
(* beside it (TenantWorkspace) is one of TenantUsage; and the shell's      *)
(* tools, acknowledgement and dock, for every number of calls, requests    *)
(* and messages.                                                           *)
(***************************************************************************)
EXTENDS TenantWorkspace, FiniteSetTheorems, NaturalsInduction, TLAPS

-----------------------------------------------------------------------------
(* The inductive invariant                                                 *)

\* A window that was compared or counted in is one of a day there has been.
Known(w) == \E kind \in Kind, d \in 0 .. day : w = WindowOf(kind, d)

\* Stages in which a use of a metric has not been counted yet
NotYet(metric) ==
  IF metric = "chat.messages" THEN {"idle"} \cup Pending(metric)
  ELSE Stages \ {"answer", "conclude", "done", "failed"}

\* A request that is to be counted has the window of a threshold, where there
\* is one; a request is counted once for each metric, after its check; and
\* `peak` knows how many are between the two.
Metered ==
  /\ IsFiniteSet(usage)
  /\ \A u \in usage : Known(u.window) /\ req[u.by].pc \notin NotYet(u.metric)
  /\ \A r \in Request : req[r].window # None => Known(req[r].window)
  /\ \A m \in Metric : \A r \in Uncounted(m) : Matching(m) # {} => req[r].window # None
  /\ \A m \in Metric : Cardinality(Uncounted(m)) <= peak[m]

\* What the room of a chat holds at each stage, and when its tool has run
Spoken(q) ==
  /\ q.pc \in {"idle", "read", "save", "send", "refused"} => q.room = << >>
  /\ q.pc \in {"countMessage", "select", "rejected"} => q.room = <<"user">>
  /\ q.pc \in {"policy", "execute", "countCall", "answer", "apologise"} =>
       q.room = <<"user", "call">>
  /\ q.pc = "conclude" => q.room = <<"user", "call", "result">>
  /\ q.pc = "done" => q.room \in Answered /\ (Len(q.room) = 4 <=> q.ran)
  /\ q.pc = "failed" =>
       q.room \in {<< >>, <<"user">>, <<"user", "call">>, <<"user", "call", "result">>}
  /\ q.pc \in {"idle", "read", "save", "send", "countMessage", "select", "policy", "execute",
               "apologise"} => ~q.ran
  /\ q.pc \in {"answer", "conclude", "countCall"} => q.ran

\* What a tool needs is permitted when it is offered, and when it runs.
Permitted(r, q) ==
  /\ \A tool \in q.tools : RequiredPermission(tool) \in q.grant
  /\ r \in Chat => "tenant.activity-report.query" \notin q.tools
  /\ q.pc \in {"policy", "execute"} \/ q.ran => RequiredPermission(q.tool) \in q.grant
  /\ r \in Chat /\ q.pc \in {"policy", "execute"} => q.tool \in q.tools
  /\ q.pc \in {"read", "save", "send", "countMessage", "select"} => r \in Chat

\* Tools of a session are those of a message that has begun; those of a
\* message that has saved its own, or of another one.
Others(r) == {s \in Chat \ {r} : req[s].pc # "idle"}
Owned ==
  /\ \/ session = {} /\ \A r \in Chat : req[r].view = {}
     \/ \E s \in Chat : req[s].pc # "idle" /\ req[s].tools = session
  /\ \A r \in Chat : req[r].pc \in {"send", "countMessage", "select"} =>
       session = req[r].tools \/ \E s \in Others(r) : req[s].tools = session
  /\ \A r \in Chat : req[r].pc = "rejected" => \E s \in Others(r) : req[s].tools # req[r].tools

Rooms ==
  /\ \A r \in Request : Permitted(r, req[r])
  /\ \A r \in Chat : Spoken(req[r])

\* The tenants up to the cursor have been visited, and of the page those that
\* are not left; who was subscribed all the while is among them.
Listed ==
  /\ audit.steady \subseteq subscribed /\ audit.pc # "threw"
  /\ audit.pc # "visit" => audit.page = {}
  /\ audit.left \subseteq audit.page
  /\ \A t \in audit.page : t > audit.after /\ audit.visits[t] = (IF t \in audit.left THEN 0 ELSE 1)
  /\ \A t \in Tenant :
       \/ audit.visits[t] = 0
       \/ audit.visits[t] = 1 /\ (t <= audit.after \/ t \in audit.page)
  /\ audit.pc # "idle" => \A t \in audit.steady : t <= audit.after => audit.visits[t] = 1
  /\ audit.pc = "visit" => /\ audit.page # {}
                           /\ \A t \in audit.steady \ audit.page : \A u \in audit.page :
                                t > audit.after => u < t
  /\ audit.pc = "done" => \A t \in audit.steady : t <= audit.after

IInv == TypeOK /\ Metered /\ QuotaHolds /\ Rooms /\ Owned /\ Listed

-----------------------------------------------------------------------------
(* Numbers, windows and texts                                              *)

\* The least of some numbers is one of them.
LEMMA Least ==
  ASSUME NEW S, S \subseteq Nat, S # {}
  PROVE  Min(S) \in S /\ \A x \in S : Min(S) <= x
<1> DEFINE R == {p \in Nat \X Nat : p[1] < p[2]}
<1>1. IsWellFoundedOn(R, Nat)
  BY NatLessThanWellFounded DEF OpToRel
<1>2. PICK m \in S : \A y \in S : ~ (<<y, m>> \in R)
  BY <1>1, WFMin
<1>3. ASSUME NEW y \in S PROVE m <= y
  <2>1. m \in Nat /\ y \in Nat /\ <<y, m>> \in Nat \X Nat
    OBVIOUS
  <2>2. <<y, m>>[1] = y /\ <<y, m>>[2] = m
    OBVIOUS
  <2>3. ~ (<<y, m>> \in R)
    BY <1>2
  <2>4. ~ (y < m)
    BY <2>1, <2>2, <2>3
  <2> QED
    BY <2>1, <2>4
<1> QED
  BY <1>3 DEF Min

\* The greatest of finitely many numbers is the one that the fewest exceed.
LEMMA Greatest ==
  ASSUME NEW S, S \subseteq Nat, IsFiniteSet(S), S # {}
  PROVE  Max(S) \in S /\ \A x \in S : Max(S) >= x
<1> DEFINE Above(x) == {y \in S : y > x}
           N == {Cardinality(Above(x)) : x \in S}
<1>1. \A x \in S : IsFiniteSet(Above(x)) /\ Cardinality(Above(x)) \in Nat
  BY FS_Subset, FS_CardinalityType
<1>2. N \subseteq Nat /\ N # {}
  BY <1>1
<1>3. Min(N) \in N /\ \A n \in N : Min(N) <= n
  BY <1>2, Least
<1>4. PICK m \in S : \A x \in S : Cardinality(Above(m)) <= Cardinality(Above(x))
  BY <1>3
<1>5. \A x \in S : x <= m
  <2> SUFFICES ASSUME NEW x \in S, x > m PROVE FALSE
    OBVIOUS
  <2>0. \A y \in S : y \in Int
    OBVIOUS
  <2>1. x \in Above(m) /\ x \notin Above(x)
    BY <2>0
  <2>2. \A y \in S : y > x => y > m
    BY <2>0
  <2>3. Above(x) \subseteq Above(m)
    BY <2>2
  <2>4. /\ Cardinality(Above(x)) <= Cardinality(Above(m))
        /\ Cardinality(Above(x)) # Cardinality(Above(m))
    BY <1>1, <2>1, <2>3, FS_Subset
  <2> QED
    BY <1>1, <1>4, <2>4
<1> QED
  BY <1>5 DEF Max

\* A day lies in its windows; ...
LEMMA DayIsInside ==
  ASSUME NEW kind, NEW d \in Nat
  PROVE  /\ WindowOf(kind, d)[1] \in Nat /\ WindowOf(kind, d)[2] \in Nat
         /\ WindowOf(kind, d)[1] <= d /\ d < WindowOf(kind, d)[2]
<1>1. MonthDays \in Nat \ {0}
  BY TenantUsageAssumption
<1> DEFINE q == d \div MonthDays
<1>2. q \in Nat /\ q * MonthDays <= d /\ d < (q + 1) * MonthDays
  BY <1>1
<1>3. q * MonthDays \in Nat /\ (q + 1) * MonthDays \in Nat
  BY <1>1, <1>2
<1> HIDE DEF q
<1> QED
  BY <1>2, <1>3 DEF WindowOf, q

\* ... two windows of a kind are the same or apart; ...
LEMMA WindowsAreApart ==
  ASSUME NEW kind, NEW d \in Nat, NEW e \in Nat
  PROVE  \/ WindowOf(kind, d) = WindowOf(kind, e)
         \/ WindowOf(kind, d)[2] <= WindowOf(kind, e)[1]
         \/ WindowOf(kind, e)[2] <= WindowOf(kind, d)[1]
<1>1. MonthDays \in Nat \ {0}
  BY TenantUsageAssumption
<1>2. CASE kind = "day"
  BY <1>2 DEF WindowOf
<1>3. CASE kind # "day"
  <2> DEFINE q == d \div MonthDays
             p == e \div MonthDays
  <2>1. q \in Nat /\ p \in Nat
    BY <1>1
  <2> HIDE DEF q, p
  <2>2. q = p \/ q + 1 <= p \/ p + 1 <= q
    BY <2>1
  <2>3. \A a, b \in Nat : a <= b => a * MonthDays <= b * MonthDays
    BY <1>1
  <2>4. \/ q = p \/ (q + 1) * MonthDays <= p * MonthDays \/ (p + 1) * MonthDays <= q * MonthDays
    BY <2>1, <2>2, <2>3
  <2> QED
    BY <1>3, <2>4 DEF WindowOf, q, p
<1> QED
  BY <1>2, <1>3

\* ... and with a new day a window goes on or begins.
LEMMA WindowsBegin ==
  ASSUME NEW kind, NEW d \in Nat
  PROVE  WindowOf(kind, d + 1) = WindowOf(kind, d) \/ WindowOf(kind, d + 1)[1] = d + 1
<1>1. d + 1 \in Nat
  OBVIOUS
<1> QED
  BY <1>1, DayIsInside, WindowsAreApart

\* Every message leads to a tool: the last rule asks for nothing.
LEMMA SomeToolIsSelected ==
  ASSUME NEW text
  PROVE  SelectTool(text) \in Tool
<1> DEFINE I == {i \in DOMAIN Rules : Rules[i].asks \subseteq text}
<1>1. DOMAIN Rules = 1 .. 8
  BY DEF Rules
<1>2. 8 \in I
  BY DEF Rules
<1>3. Min(I) \in 1 .. 8
  BY <1>1, <1>2, Least
<1>4. \A i \in 1 .. 8 : Rules[i].tool \in Tool
  BY DEF Rules, Tool, RuntimeTools, OperationTools
<1> HIDE DEF I
<1> QED
  BY <1>3, <1>4 DEF SelectTool, I

\* The window of a request is that of a threshold of its metric and within
\* those of all others.
LEMMA ContainedIsAWindow ==
  ASSUME NEW m, day \in Nat
  PROVE  /\ Matching(m) = {} => Contained(m) = None
         /\ Matching(m) # {} =>
              /\ \E kind \in Kind : Contained(m) = WindowOf(kind, day)
              /\ \A t \in Matching(m) : Within(Contained(m), WindowOf(t.window, day))
<1> DEFINE ws == {WindowOf(t.window, day) : t \in Matching(m)}
           A == {w[1] : w \in ws}
           B == {w[2] : w \in ws}
           M == WindowOf("month", day)
<1>1. \A t \in Matching(m) : t.window \in Kind
  BY TenantUsageAssumption DEF Matching
<1>2. WindowOf("day", day) = <<day, day + 1>>
  BY DEF WindowOf
<1>3. /\ M = <<M[1], M[2]>> /\ M[1] \in Nat /\ M[2] \in Nat
      /\ M[1] <= day /\ day + 1 <= M[2]
  <2>1. M = <<M[1], M[2]>>
    BY DEF WindowOf
  <2> QED
    BY <2>1, DayIsInside
<1> HIDE DEF M
<1>4. \A t \in Matching(m) :
        WindowOf(t.window, day) = IF t.window = "day" THEN <<day, day + 1>> ELSE M
  BY <1>1, <1>2 DEF Kind, M
<1>5. CASE Matching(m) = {}
  <2>1. ws = {}
    BY <1>5
  <2> QED
    BY <1>5, <2>1 DEF Contained
<1>6. CASE \E t \in Matching(m) : t.window = "day"
  <2>1. <<day, day + 1>> \in ws /\ \A w \in ws : w = <<day, day + 1>> \/ w = M
    BY <1>4, <1>6
  <2>2. day \in A /\ day + 1 \in B
    BY <2>1
  <2>3. \A a \in A : a \in Nat /\ a <= day
    BY <1>3, <2>1
  <2>4. \A b \in B : b \in Nat /\ day + 1 <= b
    BY <1>3, <2>1
  <2> HIDE DEF ws, A, B
  <2>5. Max(A) = day
    <3>1. (\A y \in A : day >= y) /\ \A x \in A : (\A y \in A : x >= y) => x = day
      BY <2>2, <2>3
    <3> QED
      BY <2>2, <3>1 DEF Max
  <2>6. Min(B) = day + 1
    BY <2>2, <2>4 DEF Min
  <2>7. Contained(m) = <<day, day + 1>>
    BY <2>1, <2>5, <2>6 DEF Contained, ws, A, B
  <2>8. \A t \in Matching(m) : Within(Contained(m), WindowOf(t.window, day))
    BY <1>3, <1>4, <2>7 DEF Within
  <2> QED
    BY <1>2, <1>6, <2>7, <2>8 DEF Kind
<1>7. CASE Matching(m) # {} /\ ~ \E t \in Matching(m) : t.window = "day"
  <2>1. ws = {M}
    BY <1>4, <1>7
  <2>2. A = {M[1]} /\ B = {M[2]}
    BY <2>1
  <2> HIDE DEF ws, A, B
  <2>3. Max(A) = M[1] /\ Min(B) = M[2]
    BY <1>3, <2>2 DEF Max, Min
  <2>4. Contained(m) = M
    BY <1>3, <2>1, <2>3 DEF Contained, ws, A, B
  <2>5. \A t \in Matching(m) : Within(Contained(m), WindowOf(t.window, day))
    BY <1>3, <1>4, <1>7, <2>4 DEF Within
  <2> QED
    BY <1>7, <2>4, <2>5 DEF Kind, M
<1> QED
  BY <1>5, <1>6, <1>7

LEMMA ContainedIsNoNone ==
  ASSUME IInv, NEW m, Matching(m) # {}
  PROVE  Contained(m) \in Window /\ Contained(m) # None
<1>1. day \in 0 .. LastDay /\ day \in Nat /\ None \notin Window
  BY TenantUsageAssumption DEF IInv, TypeOK
<1>2. PICK kind \in Kind : Contained(m) = WindowOf(kind, day)
  BY <1>1, ContainedIsAWindow
<1> QED
  BY <1>1, <1>2 DEF Window

-----------------------------------------------------------------------------
(* Quotas                                                                  *)

\* What is asked of a step of the request r to the state s
Becoming(r, s) ==
  /\ \A x \in Request : req'[x] = IF x = r THEN s ELSE req[x]
  /\ \A m \in Metric : s.pc \in NotYet(m) => req[r].pc \in NotYet(m)

LEMMA ListsAreFinite ==
  ASSUME IInv, NEW m, NEW w
  PROVE  /\ IsFiniteSet(Uncounted(m)) /\ Cardinality(Uncounted(m)) \in Nat
         /\ IsFiniteSet(UncountedIn(m, w)) /\ Cardinality(UncountedIn(m, w)) \in Nat
         /\ Cardinality(UncountedIn(m, w)) <= Cardinality(Uncounted(m))
         /\ IsFiniteSet({u \in usage : u.metric = m /\ Within(u.window, w)})
         /\ Used(m, w) \in Nat
<1>1. IsFiniteSet(Request) /\ IsFiniteSet(usage)
  BY TenantUsageAssumption DEF IInv, Metered
<1>2. Uncounted(m) \in SUBSET Request /\ UncountedIn(m, w) \in SUBSET Uncounted(m)
  BY DEF Uncounted, UncountedIn
<1>3. IsFiniteSet(Uncounted(m)) /\ Cardinality(Uncounted(m)) \in Nat
  BY <1>1, <1>2, FS_Subset, FS_CardinalityType
<1>4. /\ IsFiniteSet(UncountedIn(m, w)) /\ Cardinality(UncountedIn(m, w)) \in Nat
      /\ Cardinality(UncountedIn(m, w)) <= Cardinality(Uncounted(m))
  BY <1>2, <1>3, FS_Subset, FS_CardinalityType
<1>5. {u \in usage : u.metric = m /\ Within(u.window, w)} \in SUBSET usage
  OBVIOUS
<1> QED
  BY <1>1, <1>3, <1>4, <1>5, FS_Subset, FS_CardinalityType DEF Used

\* A check that a request passes is one of the windows of this day; it says
\* nothing of those of another day, in which the request is not counted.
LEMMA UsesStayCovered ==
  ASSUME IInv, NEW r \in Request, NEW s \in ReqState, Becoming(r, s),
         UNCHANGED <<day, usage>>,
         peak' \in [Metric -> Nat], \A m \in Metric : peak'[m] >= peak[m],
         \A m \in Metric :
           \/ s.pc \notin Pending(m)
           \/ req[r].pc \in Pending(m) /\ s.window = req[r].window
           \/ Allowed(m) /\ s.window = Contained(m) /\ Cardinality(Uncounted(m)') <= peak'[m],
         s.window \in {None, req[r].window} \/ \E m \in Metric : s.window = Contained(m)
  PROVE  Metered' /\ QuotaHolds'
<1>1. /\ day \in Nat /\ peak \in [Metric -> Nat]
      /\ usage \subseteq [metric : Metric, window : Window, by : Request]
      /\ None \notin Window
  BY TenantUsageAssumption DEF IInv, TypeOK
<1>2. ASSUME NEW m \in Metric
      PROVE  \/ /\ Uncounted(m)' \subseteq Uncounted(m)
                /\ \A w : UncountedIn(m, w)' \subseteq UncountedIn(m, w)
             \/ /\ Allowed(m) /\ s.window = Contained(m) /\ Cardinality(Uncounted(m)') <= peak'[m]
                /\ \A w : Within(CountedIn(r)', w) \/ UncountedIn(m, w)' \subseteq UncountedIn(m, w)
  <2>1. CASE s.pc \notin Pending(m)
    BY <2>1 DEF Becoming, Uncounted, UncountedIn, CountedIn
  <2>2. CASE req[r].pc \in Pending(m) /\ s.window = req[r].window
    BY <2>2 DEF Becoming, Uncounted, UncountedIn, CountedIn
  <2>3. CASE Allowed(m) /\ s.window = Contained(m) /\ Cardinality(Uncounted(m)') <= peak'[m]
    BY <2>3 DEF Becoming, Uncounted, UncountedIn, CountedIn
  <2> QED
    BY <2>1, <2>2, <2>3
<1>3. \A w : Known(w)' <=> Known(w)
  BY DEF Known
<1>4. Metered'
  <2>1. IsFiniteSet(usage)'
    BY DEF IInv, Metered
  <2>2. \A u \in usage' : Known(u.window)' /\ req'[u.by].pc \notin NotYet(u.metric)
    BY <1>1, <1>3 DEF IInv, Metered, Becoming
  <2>3. ASSUME NEW x \in Request, req'[x].window # None
        PROVE  Known(req[x].window)'
    <3>1. s.window # None => Known(s.window)
      <4>1. ASSUME NEW m \in Metric, s.window = Contained(m), s.window # None
            PROVE  Known(s.window)
        <5>1. PICK kind \in Kind : Contained(m) = WindowOf(kind, day)
          BY <1>1, <4>1, ContainedIsAWindow
        <5> QED
          BY <1>1, <4>1, <5>1 DEF Known
      <4> QED
        BY <4>1 DEF IInv, Metered
    <3>2. req[x].window # None => Known(req[x].window)
      BY DEF IInv, Metered
    <3>3. req'[x].window = IF x = r THEN s.window ELSE req[x].window
      BY DEF Becoming
    <3>4. Known(req'[x].window)
      BY <2>3, <3>1, <3>2, <3>3
    <3> QED
      BY <3>4 DEF Known
  <2>4. ASSUME NEW m \in Metric, NEW x \in Uncounted(m)', Matching(m) # {}
        PROVE  req'[x].window # None
    <3>1. CASE x # r
      BY <2>4, <3>1 DEF IInv, Metered, Becoming, Uncounted
    <3>2. CASE x = r
      <4>1. s.pc \in Pending(m) /\ req'[x] = s
        BY <2>4, <3>2 DEF Becoming, Uncounted
      <4>2. CASE req[r].pc \in Pending(m) /\ s.window = req[r].window
        BY <2>4, <4>1, <4>2 DEF IInv, Metered, Uncounted
      <4>3. CASE s.window = Contained(m)
        BY <2>4, <4>1, <4>3, ContainedIsNoNone
      <4> QED
        BY <4>1, <4>2, <4>3
    <3> QED
      BY <3>1, <3>2
  <2>5. ASSUME NEW m \in Metric
        PROVE  Cardinality(Uncounted(m)') <= peak'[m]
    <3>1. CASE Uncounted(m)' \subseteq Uncounted(m)
      <4>1. /\ IsFiniteSet(Uncounted(m)) /\ Cardinality(Uncounted(m)) \in Nat
            /\ Uncounted(m)' \in SUBSET Uncounted(m)
        BY <3>1, ListsAreFinite
      <4>2. IsFiniteSet(Uncounted(m)') /\ Cardinality(Uncounted(m)') <= Cardinality(Uncounted(m))
        BY <4>1, FS_Subset
      <4>3. Cardinality(Uncounted(m)') \in Nat
        BY <4>2, FS_CardinalityType
      <4>4. Cardinality(Uncounted(m)) <= peak[m] /\ peak[m] \in Nat /\ peak'[m] \in Nat
        BY <1>1 DEF IInv, Metered
      <4> QED
        BY <4>1, <4>2, <4>3, <4>4
    <3> QED
      BY <1>2, <3>1
  <2> QED
    BY <2>1, <2>2, <2>3, <2>4, <2>5 DEF Metered
<1>5. ASSUME NEW d \in 0 .. day, NEW t \in Thresholds
      PROVE  Used(t.metric, WindowOf(t.window, d))'
               + Cardinality(UncountedIn(t.metric, WindowOf(t.window, d))') <=
             t.limit - 1 + (IF peak'[t.metric] = 0 THEN 1 ELSE peak'[t.metric])
  <2> DEFINE m == t.metric
             w == WindowOf(t.window, d)
             n == Cardinality(UncountedIn(m, w))
             next == Cardinality(UncountedIn(m, w)')
  <2>1. m \in Metric /\ t.window \in Kind /\ t.limit \in Nat \ {0} /\ t \in Matching(m)
    BY TenantUsageAssumption DEF Matching
  <2>2. Used(m, w)' = Used(m, w) /\ Used(m, w) \in Nat /\ n \in Nat
    BY ListsAreFinite DEF Used
  <2>3. Used(m, w) + n <= t.limit - 1 + (IF peak[m] = 0 THEN 1 ELSE peak[m])
    BY DEF IInv, QuotaHolds
  <2>4. CASE UncountedIn(m, w)' \subseteq UncountedIn(m, w)
    <3>1. IsFiniteSet(UncountedIn(m, w)) /\ UncountedIn(m, w)' \in SUBSET UncountedIn(m, w)
      BY <2>4, ListsAreFinite
    <3>2. IsFiniteSet(UncountedIn(m, w)') /\ next <= n
      BY <3>1, FS_Subset
    <3>3. next \in Nat
      BY <3>2, FS_CardinalityType
    <3> HIDE DEF n, next, w
    <3>4. peak[m] \in Nat /\ peak'[m] \in Nat /\ peak'[m] >= peak[m]
      BY <1>1, <2>1
    <3> HIDE DEF m
    <3>5. Used(m, w) + next <= t.limit - 1 + (IF peak'[m] = 0 THEN 1 ELSE peak'[m])
      BY <2>1, <2>2, <2>3, <3>2, <3>3, <3>4
    <3> QED
      BY <2>2, <3>5 DEF m, w, next
  <2>5. CASE ~(UncountedIn(m, w)' \subseteq UncountedIn(m, w))
    <3>1. Allowed(m) /\ s.window = Contained(m) /\ Cardinality(Uncounted(m)') <= peak'[m]
      BY <1>2, <2>1, <2>5
    <3>2. Within(Contained(m), w)
      <4>1. Contained(m) # None
        BY <2>1, ContainedIsNoNone
      <4>2. CountedIn(r)' = Contained(m)
        BY <3>1, <4>1 DEF CountedIn, Becoming
      <4> QED
        BY <1>2, <2>1, <2>5, <4>2
    <3>3. w = WindowOf(t.window, day)
      <4>1. PICK kind \in Kind : Contained(m) = WindowOf(kind, day)
        BY <1>1, <2>1, ContainedIsAWindow
      <4>2. Within(Contained(m), WindowOf(t.window, day))
        BY <1>1, <2>1, ContainedIsAWindow
      <4> DEFINE v == Contained(m)
                 x == WindowOf(t.window, day)
      <4>3. /\ v[1] \in Nat /\ v[2] \in Nat /\ v[1] <= day /\ day < v[2]
            /\ x[1] \in Nat /\ x[2] \in Nat /\ d \in Nat
            /\ w[1] \in Nat /\ w[2] \in Nat
        BY <1>1, <4>1, DayIsInside
      <4>4. w = x \/ w[2] <= x[1] \/ x[2] <= w[1]
        BY <1>1, <4>3, WindowsAreApart
      <4>5. v[1] >= w[1] /\ v[2] <= w[2] /\ v[1] >= x[1] /\ v[2] <= x[2]
        BY <3>2, <4>2 DEF Within
      <4> HIDE DEF v, x, w
      <4>6. w = x
        BY <1>1, <4>3, <4>4, <4>5
      <4> QED
        BY <4>6 DEF x
    <3>4. Used(m, w) < t.limit
      BY <2>1, <3>1, <3>3 DEF Allowed
    <3>5. next \in Nat /\ next <= Cardinality(Uncounted(m)') /\ Cardinality(Uncounted(m)') \in Nat
      <4>1. UncountedIn(m, w)' \in SUBSET Uncounted(m)' /\ Uncounted(m)' \in SUBSET Request
        BY DEF UncountedIn, Uncounted
      <4>2. IsFiniteSet(Uncounted(m)')
        BY <4>1, TenantUsageAssumption, FS_Subset
      <4> QED
        BY <4>1, <4>2, FS_Subset, FS_CardinalityType
    <3>6. peak'[m] \in Nat
      BY <2>1
    <3> HIDE DEF w, next, n, m
    <3>7. Used(m, w) + next <= t.limit - 1 + (IF peak'[m] = 0 THEN 1 ELSE peak'[m])
      BY <2>1, <2>2, <3>1, <3>4, <3>5, <3>6
    <3> QED
      BY <2>2, <3>7 DEF m, w, next
  <2> QED
    BY <2>4, <2>5
<1>6. QuotaHolds'
  BY <1>5 DEF QuotaHolds
<1> QED
  BY <1>4, <1>6

\* The use is counted in the window that was compared, once.
LEMMA UseIsCounted ==
  ASSUME IInv, NEW r \in Request, NEW s \in ReqState, Becoming(r, s),
         NEW m \in Metric, req[r].pc \in Pending(m), s.pc \notin NotYet(m),
         \A x \in Metric : s.pc \notin Pending(x), s.window = None,
         Recorded(m, r), UNCHANGED <<day, peak>>
  PROVE  /\ usage' \subseteq [metric : Metric, window : Window, by : Request]
         /\ Metered' /\ QuotaHolds'
<1> DEFINE new == [metric |-> m, window |-> CountedIn(r), by |-> r]
<1>1. /\ day \in Nat /\ day \in 0 .. LastDay /\ peak \in [Metric -> Nat]
      /\ usage \subseteq [metric : Metric, window : Window, by : Request]
      /\ req[r].window \in Window \cup {None} /\ None \notin Window
  BY TenantUsageAssumption DEF IInv, TypeOK, ReqState
<1>2. usage' = usage \cup {new}
  BY DEF Recorded
<1>3. CountedIn(r) \in Window /\ Known(CountedIn(r))
  <2>1. WindowOf("month", day) \in Window /\ Known(WindowOf("month", day))
    BY <1>1 DEF Window, Known, Kind
  <2> QED
    BY <1>1, <2>1 DEF CountedIn, IInv, Metered
<1>4. new \notin usage /\ r \in Uncounted(m)
  <2>1. req[r].pc \in NotYet(m)
    BY DEF Pending, NotYet, Stages, Metric
  <2> QED
    BY <2>1 DEF IInv, Metered, Uncounted
<1>5. \A x \in Metric : \A w : /\ Uncounted(x)' \subseteq Uncounted(x) \ {r}
                              /\ UncountedIn(x, w)' = UncountedIn(x, w) \ {r}
  BY DEF Becoming, Uncounted, UncountedIn, CountedIn
<1>6. \A w : Known(w)' <=> Known(w)
  BY DEF Known
<1>7. Metered'
  <2>1. IsFiniteSet(usage)'
    BY <1>2, FS_AddElement DEF IInv, Metered
  <2>2. \A u \in usage' : Known(u.window)' /\ req'[u.by].pc \notin NotYet(u.metric)
    <3>1. \A u \in usage : u.metric \in Metric /\ u.by \in Request
      BY <1>1
    <3>2. \A u \in usage : Known(u.window)' /\ req'[u.by].pc \notin NotYet(u.metric)
      BY <1>6, <3>1 DEF IInv, Metered, Becoming
    <3>3. ASSUME NEW u, u = new
          PROVE  Known(u.window)' /\ req'[u.by].pc \notin NotYet(u.metric)
      <4>1. u.window = CountedIn(r) /\ u.by = r /\ u.metric = m
        BY <3>3
      <4>2. \E kind \in Kind, d \in 0 .. day' : u.window = WindowOf(kind, d)
        BY <1>3, <4>1 DEF Known
      <4> QED
        BY <4>1, <4>2 DEF Known, Becoming
    <3> HIDE DEF new
    <3> QED
      BY <1>2, <3>2, <3>3
  <2>3. ASSUME NEW x \in Request, req'[x].window # None
        PROVE  Known(req[x].window)'
    <3>1. req'[x].window = req[x].window
      BY <2>3 DEF Becoming
    <3>2. Known(req'[x].window)
      BY <2>3, <3>1 DEF IInv, Metered
    <3> QED
      BY <3>2 DEF Known
  <2>4. ASSUME NEW x \in Metric, NEW y \in Uncounted(x)', Matching(x) # {}
        PROVE  req'[y].window # None
    <3>1. y \in Uncounted(x) /\ y # r /\ y \in Request
      BY <1>5 DEF Uncounted
    <3> QED
      BY <2>4, <3>1 DEF IInv, Metered, Becoming
  <2>5. ASSUME NEW x \in Metric
        PROVE  Cardinality(Uncounted(x)') <= peak'[x]
    <3>1. IsFiniteSet(Uncounted(x)) /\ Uncounted(x)' \in SUBSET Uncounted(x)
      BY <1>5, ListsAreFinite
    <3>2. /\ Cardinality(Uncounted(x)') <= Cardinality(Uncounted(x))
          /\ Cardinality(Uncounted(x)') \in Nat
      BY <3>1, FS_Subset, FS_CardinalityType
    <3>3. Cardinality(Uncounted(x)) <= peak[x] /\ Cardinality(Uncounted(x)) \in Nat /\ peak[x] \in Nat
      BY <1>1, ListsAreFinite DEF IInv, Metered
    <3> QED
      BY <3>2, <3>3
  <2> QED
    BY <2>1, <2>2, <2>3, <2>4, <2>5 DEF Metered
<1>8. ASSUME NEW d \in 0 .. day, NEW t \in Thresholds
      PROVE  Used(t.metric, WindowOf(t.window, d))'
               + Cardinality(UncountedIn(t.metric, WindowOf(t.window, d))') <=
             t.limit - 1 + (IF peak[t.metric] = 0 THEN 1 ELSE peak[t.metric])
  <2> DEFINE w == WindowOf(t.window, d)
             U == {u \in usage : u.metric = t.metric /\ Within(u.window, w)}
             N == UncountedIn(t.metric, w)
             most == t.limit - 1 + (IF peak[t.metric] = 0 THEN 1 ELSE peak[t.metric])
  <2>1. t.metric \in Metric /\ t.limit \in Nat /\ peak[t.metric] \in Nat /\ most \in Int
    BY <1>1, TenantUsageAssumption
  <2>2. /\ IsFiniteSet(U) /\ Cardinality(U) \in Nat /\ IsFiniteSet(N) /\ Cardinality(N) \in Nat
        /\ Used(t.metric, w) = Cardinality(U)
    BY ListsAreFinite DEF Used
  <2>3. Cardinality(U) + Cardinality(N) <= most
    BY <2>2 DEF IInv, QuotaHolds
  <2>4. N' = N \ {r}
    BY <1>5, <2>1
  <2>5. Used(t.metric, w)' = Cardinality(U')
    BY DEF Used
  <2>6. Cardinality(N') = IF r \in N THEN Cardinality(N) - 1 ELSE Cardinality(N)
    <3>1. Cardinality(N \ {r}) = IF r \in N THEN Cardinality(N) - 1 ELSE Cardinality(N)
      BY <2>2, FS_RemoveElement
    <3> QED
      BY <2>4, <3>1
  <2>7. CASE t.metric = m /\ Within(CountedIn(r), w)
    <3>1. U' = U \cup {new} /\ new \notin U
      BY <1>2, <1>4, <2>7
    <3>2. Cardinality(U') = Cardinality(U) + 1
      BY <2>2, <3>1, FS_AddElement
    <3>3. r \in N
      BY <1>4, <2>7 DEF UncountedIn
    <3> HIDE DEF U, N, most, w
    <3>4. Cardinality(U') + Cardinality(N') <= most
      BY <2>1, <2>2, <2>3, <2>6, <3>2, <3>3
    <3> QED
      BY <2>5, <3>4 DEF N, most, w
  <2>8. CASE ~(t.metric = m /\ Within(CountedIn(r), w))
    <3>1. U' = U
      BY <1>2, <2>8
    <3> HIDE DEF U, N, most, w
    <3>2. Cardinality(U') + Cardinality(N') <= most
      BY <2>1, <2>2, <2>3, <2>6, <3>1
    <3> QED
      BY <2>5, <3>2 DEF N, most, w
  <2> QED
    BY <2>7, <2>8
<1>9. QuotaHolds'
  BY <1>8 DEF QuotaHolds
<1> QED
  BY <1>1, <1>2, <1>3, <1>7, <1>9

\* A new day: what is left of its windows is that of the old ones, and
\* nothing has been compared or counted in those that begin.
LEMMA MidnightMeters ==
  ASSUME IInv, Midnight
  PROVE  Metered' /\ QuotaHolds'
<1>1. /\ day \in Nat /\ day' = day + 1 /\ UNCHANGED <<usage, req, peak>>
      /\ peak \in [Metric -> Nat]
  BY DEF IInv, TypeOK, Midnight
<1>2. \A m : Uncounted(m)' = Uncounted(m)
  BY <1>1 DEF Uncounted
<1>3. \A w : Known(w) => \E kind \in Kind, d \in 0 .. day' : w = WindowOf(kind, d)
  BY <1>1 DEF Known
<1>4. Metered'
  <2>1. \A u \in usage : \E kind \in Kind, d \in 0 .. day' : u.window = WindowOf(kind, d)
    BY <1>3 DEF IInv, Metered
  <2>2. \A r \in Request : req[r].window # None =>
          \E kind \in Kind, d \in 0 .. day' : req[r].window = WindowOf(kind, d)
    BY <1>3 DEF IInv, Metered
  <2>3. /\ IsFiniteSet(usage)
        /\ \A u \in usage : req[u.by].pc \notin NotYet(u.metric)
        /\ \A m \in Metric : \A r \in Uncounted(m) : Matching(m) # {} => req[r].window # None
        /\ \A m \in Metric : Cardinality(Uncounted(m)) <= peak[m]
    BY DEF IInv, Metered
  <2> QED
    BY <1>1, <1>2, <2>1, <2>2, <2>3 DEF Metered, Known
<1>5. ASSUME NEW d \in 0 .. day', NEW t \in Thresholds
      PROVE  Used(t.metric, WindowOf(t.window, d))
               + Cardinality(UncountedIn(t.metric, WindowOf(t.window, d))') <=
             t.limit - 1 + (IF peak[t.metric] = 0 THEN 1 ELSE peak[t.metric])
  <2> DEFINE m == t.metric
             w == WindowOf(t.window, d)
  <2>1. /\ m \in Metric /\ t.window \in Kind /\ t.limit \in Nat \ {0} /\ t \in Matching(m)
        /\ d \in Nat /\ peak[m] \in Nat
    BY <1>1, TenantUsageAssumption DEF Matching
  <2>2. UncountedIn(m, w)' = UncountedIn(m, w)
    <3>1. \A r \in Uncounted(m) : CountedIn(r)' = CountedIn(r)
      BY <1>1, <2>1 DEF IInv, Metered, CountedIn
    <3> QED
      BY <1>1, <1>2, <3>1 DEF UncountedIn
  <2>3. CASE \E e \in 0 .. day : w = WindowOf(t.window, e)
    BY <2>2, <2>3 DEF IInv, QuotaHolds
  <2>4. CASE ~ \E e \in 0 .. day : w = WindowOf(t.window, e)
    <3>1. d = day + 1
      BY <1>1, <2>4
    <3>2. w[1] = day + 1
      BY <1>1, <2>4, <3>1, WindowsBegin
    <3>3. \A v : Known(v) => ~Within(v, w)
      <4> SUFFICES ASSUME NEW kind \in Kind, NEW e \in 0 .. day
                   PROVE  ~Within(WindowOf(kind, e), w)
        BY DEF Known
      <4>1. WindowOf(kind, e)[1] \in Nat /\ WindowOf(kind, e)[1] <= e
        BY <1>1, DayIsInside
      <4> QED
        BY <1>1, <3>2, <4>1 DEF Within
    <3>4. {u \in usage : u.metric = m /\ Within(u.window, w)} = {}
      BY <3>3 DEF IInv, Metered
    <3>5. UncountedIn(m, w) = {}
      <4>1. \A r \in Uncounted(m) : r \in Request /\ req[r].window # None
        BY <2>1 DEF IInv, Metered, Uncounted
      <4>2. \A r \in Uncounted(m) : Known(CountedIn(r))
        BY <4>1 DEF IInv, Metered, CountedIn
      <4> QED
        BY <3>3, <4>2 DEF UncountedIn
    <3>6. Used(m, w) = 0 /\ Cardinality(UncountedIn(m, w)') = 0
      BY <2>2, <3>4, <3>5, FS_EmptySet DEF Used
    <3> QED
      BY <2>1, <3>6
  <2> QED
    BY <2>3, <2>4
<1>6. \A m, w : Used(m, w)' = Used(m, w)
  BY <1>1 DEF Used
<1> QED
  BY <1>1, <1>4, <1>5, <1>6 DEF QuotaHolds

-----------------------------------------------------------------------------
(* Requests                                                                *)

\* What every step of a request keeps to: it leaves the others alone, goes on
\* from where it is, and what it has read stays read.
Turn(r, s) ==
  /\ s \in ReqState /\ Becoming(r, s) /\ req' \in [Request -> ReqState]
  /\ Permitted(r, s) /\ (r \in Chat => Spoken(s))
  /\ s.pc # "idle" /\ (req[r].pc # "idle" => s.tools = req[r].tools)

LEMMA OfARequest ==
  ASSUME IInv, NEW r \in Request
  PROVE  /\ req[r] \in ReqState /\ req \in [Request -> ReqState]
         /\ Permitted(r, req[r]) /\ (r \in Chat => Spoken(req[r]))
  BY DEF IInv, TypeOK, Rooms

LEMMA Becomes ==
  ASSUME IInv, NEW r \in Request, NEW s \in ReqState, Become(r, s)
  PROVE  /\ req' \in [Request -> ReqState] /\ req'[r] = s
         /\ \A x \in Request : req'[x] = IF x = r THEN s ELSE req[x]
  BY OfARequest DEF Become

\* The others' rooms stay as they are.
LEMMA RoomsStay ==
  ASSUME IInv, NEW r \in Request, NEW s, Turn(r, s)
  PROVE  Rooms'
<1>1. \A x \in Request : Permitted(x, req'[x]) /\ (x \in Chat => Spoken(req'[x]))
  BY DEF Turn, Becoming, IInv, Rooms
<1> QED
  BY <1>1 DEF Rooms, Request, Permitted, Spoken

\* A message that has begun keeps its tools, so that others can go by them.
LEMMA OthersStay ==
  ASSUME IInv, NEW r \in Request, NEW s, Turn(r, s), NEW x
  PROVE  /\ Others(x) \subseteq Others(x)'
         /\ \A y \in Others(x) : req'[y].tools = req[y].tools
         /\ \A y \in Chat : req[y].pc # "idle" => /\ req'[y].pc # "idle"
                                                /\ req'[y].tools = req[y].tools
  BY DEF Turn, Becoming, Others, Request

\* A step that does not save the session
LEMMA OwnersStay ==
  ASSUME IInv, NEW r \in Request, NEW s, Turn(r, s), session' = session,
         s.view \in {req[r].view, {}, session},
         s.pc \in {"send", "countMessage", "select"} =>
           req[r].pc \in {"send", "countMessage", "select"},
         s.pc = "rejected" =>
           req[r].pc # "idle" /\ \E x \in Others(r) : req[x].tools # req[r].tools
  PROVE  Owned'
<1>1. Chat \subseteq Request /\ \A x \in Chat : req'[x] = IF x = r THEN s ELSE req[x]
  BY DEF Turn, Becoming, Request
<1>2. \/ session' = {} /\ \A x \in Chat : req'[x].view = {}
      \/ \E x \in Chat : req'[x].pc # "idle" /\ req'[x].tools = session'
  <2>1. CASE session = {} /\ \A x \in Chat : req[x].view = {}
    BY <1>1, <2>1
  <2>2. CASE \E x \in Chat : req[x].pc # "idle" /\ req[x].tools = session
    BY <2>2, OthersStay
  <2> QED
    BY <2>1, <2>2 DEF IInv, Owned
<1>3. ASSUME NEW x \in Chat, req'[x].pc \in {"send", "countMessage", "select"}
      PROVE  session' = req'[x].tools \/ \E y \in Others(x)' : req'[y].tools = session'
  <2>1. req[x].pc \in {"send", "countMessage", "select"}
    BY <1>1, <1>3
  <2>2. req'[x].tools = req[x].tools
    BY <2>1, OthersStay
  <2>3. session = req[x].tools \/ \E y \in Others(x) : req[y].tools = session
    BY <2>1 DEF IInv, Owned
  <2> QED
    BY <2>2, <2>3, OthersStay
<1>4. ASSUME NEW x \in Chat, req'[x].pc = "rejected"
      PROVE  \E y \in Others(x)' : req'[y].tools # req'[x].tools
  <2>1. CASE req[x].pc = "rejected"
    <3>1. PICK y \in Others(x) : req[y].tools # req[x].tools
      BY <2>1 DEF IInv, Owned
    <3> QED
      BY <2>1, <3>1, OthersStay
  <2>2. CASE req[x].pc # "rejected"
    <3>1. x = r /\ s.pc = "rejected"
      BY <1>1, <1>4, <2>2
    <3>2. PICK y \in Others(r) : req[y].tools # req[r].tools
      BY <3>1
    <3>3. req'[r].tools = req[r].tools
      BY <3>1, OthersStay
    <3> QED
      BY <3>1, <3>2, <3>3, OthersStay
  <2> QED
    BY <2>1, <2>2
<1> QED
  BY <1>2, <1>3, <1>4 DEF Owned

LEMMA PeaksGrow ==
  ASSUME IInv, Noted
  PROVE  /\ peak' \in [Metric -> Nat]
         /\ \A m \in Metric : peak'[m] >= peak[m] /\ Cardinality(Uncounted(m)') <= peak'[m]
<1>1. \A m \in Metric : Cardinality(Uncounted(m)') \in Nat
  <2> TAKE m \in Metric
  <2>1. Uncounted(m)' \in SUBSET Request /\ IsFiniteSet(Request)
    BY TenantUsageAssumption DEF Uncounted
  <2> QED
    BY <2>1, FS_Subset, FS_CardinalityType
<1>2. peak \in [Metric -> Nat]
  BY DEF IInv, TypeOK
<1> QED
  BY <1>1, <1>2 DEF Noted

LEMMA FaultsAreBounded ==
  ASSUME IInv, Fault
  PROVE  faults' \in 0 .. situation.faults
  BY TenantUsageAssumption DEF IInv, TypeOK, Fault

\* The steps of a request that neither count nor save the session
LEMMA StepsKeep ==
  ASSUME IInv, NEW r \in Request, NEW s, Turn(r, s),
         UNCHANGED <<situation, day, plan, permits, usage, session, audit, subscribed>>,
         faults' \in 0 .. situation.faults,
         peak' \in [Metric -> Nat], \A m \in Metric : peak'[m] >= peak[m],
         s.view \in {req[r].view, {}, session},
         s.pc \in {"send", "countMessage", "select"} =>
           req[r].pc \in {"send", "countMessage", "select"},
         s.pc = "rejected" =>
           req[r].pc # "idle" /\ \E x \in Others(r) : req[x].tools # req[r].tools,
         \A m \in Metric :
           \/ s.pc \notin Pending(m)
           \/ req[r].pc \in Pending(m) /\ s.window = req[r].window
           \/ Allowed(m) /\ s.window = Contained(m) /\ Cardinality(Uncounted(m)') <= peak'[m],
         s.window \in {None, req[r].window} \/ \E m \in Metric : s.window = Contained(m)
  PROVE  IInv'
<1>1. s \in ReqState /\ Becoming(r, s) /\ req' \in [Request -> ReqState]
  BY DEF Turn
<1>2. Metered' /\ QuotaHolds'
  BY <1>1, UsesStayCovered
<1>3. Rooms' /\ Owned'
  BY RoomsStay, OwnersStay
<1>4. TypeOK'
  BY <1>1 DEF IInv, TypeOK
<1>5. Listed'
  BY DEF IInv, Listed
<1> QED
  BY <1>2, <1>3, <1>4, <1>5 DEF IInv

\* Those among them that nothing is compared in
LEMMA TalkKeeps ==
  ASSUME IInv, NEW r \in Request, NEW s, Turn(r, s),
         UNCHANGED <<situation, day, plan, permits, usage, session, peak, audit, subscribed>>,
         faults' \in 0 .. situation.faults,
         s.view \in {req[r].view, {}, session},
         s.pc \in {"send", "countMessage", "select"} =>
           req[r].pc \in {"send", "countMessage", "select"},
         s.pc = "rejected" =>
           req[r].pc # "idle" /\ \E x \in Others(r) : req[x].tools # req[r].tools,
         \A m \in Metric :
           \/ s.pc \notin Pending(m)
           \/ req[r].pc \in Pending(m) /\ s.window = req[r].window,
         s.window \in {None, req[r].window}
  PROVE  IInv'
<1>1. peak' \in [Metric -> Nat] /\ \A m \in Metric : peak'[m] >= peak[m]
  BY DEF IInv, TypeOK
<1> QED
  BY <1>1, StepsKeep

\* What the rules for rooms come to, for a message with the kinds it has
LEMMA Kindly ==
  ASSUME NEW k \in Kinds
  PROVE  /\ Append(<< >>, k) = <<k>> /\ <<k>> \in Seq(Kinds)
         /\ Append(<<"user">>, k) = <<"user", k>> /\ <<"user", k>> \in Seq(Kinds)
         /\ Append(<<"user", "call">>, k) = <<"user", "call", k>>
         /\ <<"user", "call", k>> \in Seq(Kinds)
         /\ Append(<<"user", "call", "result">>, k) = <<"user", "call", "result", k>>
         /\ <<"user", "call", "result", k>> \in Seq(Kinds)
<1> DEFINE one == Append(<<"user">>, k)
           two == Append(<<"user", "call">>, k)
           three == Append(<<"user", "call", "result">>, k)
<1>1. "user" \in Kinds /\ "call" \in Kinds /\ "result" \in Kinds
  BY DEF Kinds
<1>2. /\ <<"user">> \in Seq(Kinds) /\ <<"user", "call">> \in Seq(Kinds)
      /\ <<"user", "call", "result">> \in Seq(Kinds)
  BY <1>1
<1>3. one \in Seq(Kinds) /\ Len(one) = 2 /\ one[1] = "user" /\ one[2] = k
  BY <1>2
<1>4. two \in Seq(Kinds) /\ Len(two) = 3 /\ two[1] = "user" /\ two[2] = "call" /\ two[3] = k
  BY <1>2
<1>5. /\ three \in Seq(Kinds) /\ Len(three) = 4 /\ three[1] = "user" /\ three[2] = "call"
      /\ three[3] = "result" /\ three[4] = k
  BY <1>2
<1>6. Append(<< >>, k) = <<k>> /\ <<k>> \in Seq(Kinds)
  OBVIOUS
<1> HIDE DEF one, two, three
<1>7. one = <<"user", k>>
  BY <1>3
<1>8. two = <<"user", "call", k>>
  BY <1>4
<1>9. three = <<"user", "call", "result", k>>
  BY <1>5
<1> QED
  BY <1>3, <1>4, <1>5, <1>6, <1>7, <1>8, <1>9 DEF one, two, three

LEMMA ReadSessionKeeps ==
  ASSUME IInv, NEW r \in Request, ReadSession(r)
  PROVE  IInv'
<1> DEFINE q == req[r]
           s == [q EXCEPT !.pc = "save", !.view = session]
<1>1. q \in ReqState /\ Permitted(r, q) /\ (r \in Chat => Spoken(q)) /\ q.pc = "read"
  BY OfARequest DEF ReadSession, At
<1>2. s \in ReqState
  BY <1>1 DEF ReqState, Stages, IInv, TypeOK
<1>3. /\ s.pc = "save" /\ s.view = session /\ s.grant = q.grant /\ s.tools = q.tools
      /\ s.tool = q.tool /\ s.window = q.window /\ s.room = q.room /\ s.ran = q.ran
  BY <1>1 DEF ReqState
<1>4. Become(r, s)
  BY DEF ReadSession
<1> HIDE DEF s
<1>5. Permitted(r, s) /\ (r \in Chat => Spoken(s))
  BY <1>1, <1>3 DEF Permitted, Spoken
<1>6. Turn(r, s)
  BY <1>1, <1>2, <1>3, <1>4, <1>5, Becomes DEF Turn, Becoming, NotYet, Pending, Stages
<1>7. \A m \in Metric : s.pc \notin Pending(m) \/ (q.pc \in Pending(m) /\ s.window = q.window)
  BY <1>1, <1>3 DEF Pending
<1> QED
  BY <1>3, <1>6, <1>7, TalkKeeps DEF ReadSession, NoAuditStep, IInv, TypeOK

LEMMA SendMessageKeeps ==
  ASSUME IInv, NEW r \in Request, SendMessage(r)
  PROVE  IInv'
<1> DEFINE q == req[r]
           s == [q EXCEPT !.pc = "countMessage", !.room = Append(@, "user")]
<1>1. q \in ReqState /\ Permitted(r, q) /\ (r \in Chat => Spoken(q)) /\ q.pc = "send"
  BY OfARequest DEF SendMessage, At
<1>2. r \in Chat /\ q.room = << >> /\ ~q.ran
  BY <1>1 DEF Permitted, Spoken
<1>3. s \in ReqState
  BY <1>1, <1>2, Kindly DEF ReqState, Stages, Kinds
<1>4. /\ s.pc = "countMessage" /\ s.view = q.view /\ s.grant = q.grant /\ s.tools = q.tools
      /\ s.tool = q.tool /\ s.window = q.window /\ s.room = <<"user">> /\ s.ran = q.ran
  BY <1>1, <1>2, Kindly DEF ReqState
<1>5. Become(r, s)
  BY DEF SendMessage, Said
<1> HIDE DEF s
<1>6. Permitted(r, s) /\ Spoken(s)
  BY <1>1, <1>2, <1>4 DEF Permitted, Spoken
<1>7. Turn(r, s)
  BY <1>1, <1>3, <1>4, <1>5, <1>6, Becomes DEF Turn, Becoming, NotYet, Pending, Stages
<1>8. \A m \in Metric : s.pc \notin Pending(m) \/ (q.pc \in Pending(m) /\ s.window = q.window)
  BY <1>1, <1>4 DEF Pending
<1> QED
  BY <1>1, <1>4, <1>7, <1>8, TalkKeeps DEF SendMessage, NoAuditStep, IInv, TypeOK

LEMMA DenyKeeps ==
  ASSUME IInv, NEW r \in Request, Deny(r)
  PROVE  IInv'
<1> DEFINE q == req[r]
           s == [q EXCEPT !.pc = "done", !.room = Append(@, "assistant")]
<1>1. q \in ReqState /\ Permitted(r, q) /\ (r \in Chat => Spoken(q)) /\ q.pc = "select"
  BY OfARequest DEF Deny, At
<1>2. r \in Chat => q.room = <<"user">> /\ ~q.ran
  BY <1>1 DEF Spoken
<1>3. s \in ReqState
  <2>1. q.room \in Seq(Kinds) /\ "assistant" \in Kinds
    BY <1>1 DEF ReqState, Kinds
  <2>2. Append(q.room, "assistant") \in Seq(Kinds) /\ "done" \in Stages
    BY <2>1 DEF Stages
  <2> QED
    BY <1>1, <2>2 DEF ReqState
<1>4. /\ s.pc = "done" /\ s.view = q.view /\ s.grant = q.grant /\ s.tools = q.tools
      /\ s.tool = q.tool /\ s.window = q.window /\ s.ran = q.ran
      /\ s.room = Append(q.room, "assistant")
  BY <1>1 DEF ReqState
<1>5. Become(r, s)
  BY DEF Deny, Said
<1> HIDE DEF s
<1>6. r \in Chat => s.room = <<"user", "assistant">>
  BY <1>2, <1>4, Kindly DEF Kinds
<1>7. r \in Chat => Spoken(s)
  <2>1. Len(<<"user", "assistant">>) = 2
    OBVIOUS
  <2>2. "done" = "done" => <<"user", "assistant">> \in Answered
    BY DEF Answered
  <2>3. r \in Chat => ~s.ran
    BY <1>2, <1>4
  <2>4. SUFFICES ASSUME r \in Chat PROVE Spoken(s)
    OBVIOUS
  <2>5. s.room = <<"user", "assistant">> /\ s.pc = "done" /\ ~s.ran
    BY <1>4, <1>6, <2>3, <2>4
  <2> QED
    BY <2>1, <2>2, <2>5 DEF Spoken
<1>8. Permitted(r, s)
  BY <1>1, <1>4 DEF Permitted
<1>9. Turn(r, s)
  BY <1>1, <1>3, <1>4, <1>5, <1>7, <1>8, Becomes
     DEF Turn, Becoming, NotYet, Pending, Stages
<1>10. \A m \in Metric : s.pc \notin Pending(m)
  BY <1>4 DEF Pending
<1> QED
  BY <1>1, <1>4, <1>9, <1>10, TalkKeeps DEF Deny, NoAuditStep, IInv, TypeOK

LEMMA AnnounceKeeps ==
  ASSUME IInv, NEW r \in Request, Announce(r)
  PROVE  IInv'
<1> DEFINE q == req[r]
           s == [q EXCEPT !.pc = "policy", !.room = Append(@, "call")]
<1>1. q \in ReqState /\ Permitted(r, q) /\ (r \in Chat => Spoken(q)) /\ q.pc = "select"
  BY OfARequest DEF Announce, At
<1>2. r \in Chat => q.room = <<"user">> /\ ~q.ran
  BY <1>1 DEF Spoken
<1>3. s \in ReqState
  <2>1. q.room \in Seq(Kinds) /\ "call" \in Kinds
    BY <1>1 DEF ReqState, Kinds
  <2>2. Append(q.room, "call") \in Seq(Kinds) /\ "policy" \in Stages
    BY <2>1 DEF Stages
  <2> QED
    BY <1>1, <2>2 DEF ReqState
<1>4. /\ s.pc = "policy" /\ s.view = q.view /\ s.grant = q.grant /\ s.tools = q.tools
      /\ s.tool = q.tool /\ s.window = q.window /\ s.ran = q.ran
      /\ s.room = Append(q.room, "call")
  BY <1>1 DEF ReqState
<1>5. Become(r, s)
  BY DEF Announce, Said
<1> HIDE DEF s
<1>6. r \in Chat => s.room = <<"user", "call">>
  BY <1>2, <1>4, Kindly DEF Kinds
<1>7. r \in Chat => Spoken(s)
  <2>1. Len(<<"user", "call">>) = 2
    OBVIOUS
  <2>2. "policy" = "done" => <<"user", "call">> \in Answered
    BY DEF Answered
  <2>3. r \in Chat => ~s.ran
    BY <1>2, <1>4
  <2>4. SUFFICES ASSUME r \in Chat PROVE Spoken(s)
    OBVIOUS
  <2>5. s.room = <<"user", "call">> /\ s.pc = "policy" /\ ~s.ran
    BY <1>4, <1>6, <2>3, <2>4
  <2> QED
    BY <2>1, <2>2, <2>5 DEF Spoken
<1>8. Permitted(r, s)
  BY <1>1, <1>4 DEF Permitted, Announce, Available
<1>9. Turn(r, s)
  BY <1>1, <1>3, <1>4, <1>5, <1>7, <1>8, Becomes
     DEF Turn, Becoming, NotYet, Pending, Stages
<1>10. \A m \in Metric : s.pc \notin Pending(m)
  BY <1>4 DEF Pending
<1> QED
  BY <1>1, <1>4, <1>9, <1>10, TalkKeeps DEF Announce, NoAuditStep, IInv, TypeOK

LEMMA AnswerKeeps ==
  ASSUME IInv, NEW r \in Request, Answer(r)
  PROVE  IInv'
<1> DEFINE q == req[r]
           s == [q EXCEPT !.pc = "conclude", !.room = Append(@, "result")]
<1>1. q \in ReqState /\ Permitted(r, q) /\ (r \in Chat => Spoken(q)) /\ q.pc = "answer"
  BY OfARequest DEF Answer, At
<1>2. r \in Chat => q.room = <<"user", "call">> /\ q.ran
  BY <1>1 DEF Spoken
<1>3. s \in ReqState
  <2>1. q.room \in Seq(Kinds) /\ "result" \in Kinds
    BY <1>1 DEF ReqState, Kinds
  <2>2. Append(q.room, "result") \in Seq(Kinds) /\ "conclude" \in Stages
    BY <2>1 DEF Stages
  <2> QED
    BY <1>1, <2>2 DEF ReqState
<1>4. /\ s.pc = "conclude" /\ s.view = q.view /\ s.grant = q.grant /\ s.tools = q.tools
      /\ s.tool = q.tool /\ s.window = q.window /\ s.ran = q.ran
      /\ s.room = Append(q.room, "result")
  BY <1>1 DEF ReqState
<1>5. Become(r, s)
  BY DEF Answer, Said
<1> HIDE DEF s
<1>6. r \in Chat => s.room = <<"user", "call", "result">>
  BY <1>2, <1>4, Kindly DEF Kinds
<1>7. r \in Chat => Spoken(s)
  <2>1. Len(<<"user", "call", "result">>) = 3
    OBVIOUS
  <2>2. "conclude" = "done" => <<"user", "call", "result">> \in Answered
    BY DEF Answered
  <2>3. r \in Chat => s.ran
    BY <1>2, <1>4
  <2>4. SUFFICES ASSUME r \in Chat PROVE Spoken(s)
    OBVIOUS
  <2>5. s.room = <<"user", "call", "result">> /\ s.pc = "conclude" /\ s.ran
    BY <1>4, <1>6, <2>3, <2>4
  <2> QED
    BY <2>1, <2>2, <2>5 DEF Spoken
<1>8. Permitted(r, s)
  BY <1>1, <1>4 DEF Permitted
<1>9. Turn(r, s)
  BY <1>1, <1>3, <1>4, <1>5, <1>7, <1>8, Becomes
     DEF Turn, Becoming, NotYet, Pending, Stages
<1>10. \A m \in Metric : s.pc \notin Pending(m)
  BY <1>4 DEF Pending
<1> QED
  BY <1>1, <1>4, <1>9, <1>10, TalkKeeps DEF Answer, NoAuditStep, IInv, TypeOK

LEMMA ConcludeKeeps ==
  ASSUME IInv, NEW r \in Request, Conclude(r)
  PROVE  IInv'
<1> DEFINE q == req[r]
           s == [q EXCEPT !.pc = "done", !.room = Append(@, "assistant")]
<1>1. q \in ReqState /\ Permitted(r, q) /\ (r \in Chat => Spoken(q)) /\ q.pc = "conclude"
  BY OfARequest DEF Conclude, At
<1>2. r \in Chat => q.room = <<"user", "call", "result">> /\ q.ran
  BY <1>1 DEF Spoken
<1>3. s \in ReqState
  <2>1. q.room \in Seq(Kinds) /\ "assistant" \in Kinds
    BY <1>1 DEF ReqState, Kinds
  <2>2. Append(q.room, "assistant") \in Seq(Kinds) /\ "done" \in Stages
    BY <2>1 DEF Stages
  <2> QED
    BY <1>1, <2>2 DEF ReqState
<1>4. /\ s.pc = "done" /\ s.view = q.view /\ s.grant = q.grant /\ s.tools = q.tools
      /\ s.tool = q.tool /\ s.window = q.window /\ s.ran = q.ran
      /\ s.room = Append(q.room, "assistant")
  BY <1>1 DEF ReqState
<1>5. Become(r, s)
  BY DEF Conclude, Said
<1> HIDE DEF s
<1>6. r \in Chat => s.room = <<"user", "call", "result", "assistant">>
  BY <1>2, <1>4, Kindly DEF Kinds
<1>7. r \in Chat => Spoken(s)
  <2>1. Len(<<"user", "call", "result", "assistant">>) = 4
    OBVIOUS
  <2>2. "done" = "done" => <<"user", "call", "result", "assistant">> \in Answered
    BY DEF Answered
  <2>3. r \in Chat => s.ran
    BY <1>2, <1>4
  <2>4. SUFFICES ASSUME r \in Chat PROVE Spoken(s)
    OBVIOUS
  <2>5. s.room = <<"user", "call", "result", "assistant">> /\ s.pc = "done" /\ s.ran
    BY <1>4, <1>6, <2>3, <2>4
  <2> QED
    BY <2>1, <2>2, <2>5 DEF Spoken
<1>8. Permitted(r, s)
  BY <1>1, <1>4 DEF Permitted
<1>9. Turn(r, s)
  BY <1>1, <1>3, <1>4, <1>5, <1>7, <1>8, Becomes
     DEF Turn, Becoming, NotYet, Pending, Stages
<1>10. \A m \in Metric : s.pc \notin Pending(m)
  BY <1>4 DEF Pending
<1> QED
  BY <1>1, <1>4, <1>9, <1>10, TalkKeeps DEF Conclude, NoAuditStep, IInv, TypeOK

LEMMA ApologiseKeeps ==
  ASSUME IInv, NEW r \in Request, Apologise(r)
  PROVE  IInv'
<1> DEFINE q == req[r]
           s == [q EXCEPT !.pc = "done", !.room = Append(@, "assistant")]
<1>1. q \in ReqState /\ Permitted(r, q) /\ (r \in Chat => Spoken(q)) /\ q.pc = "apologise"
  BY OfARequest DEF Apologise, At
<1>2. r \in Chat => q.room = <<"user", "call">> /\ ~q.ran
  BY <1>1 DEF Spoken
<1>3. s \in ReqState
  <2>1. q.room \in Seq(Kinds) /\ "assistant" \in Kinds
    BY <1>1 DEF ReqState, Kinds
  <2>2. Append(q.room, "assistant") \in Seq(Kinds) /\ "done" \in Stages
    BY <2>1 DEF Stages
  <2> QED
    BY <1>1, <2>2 DEF ReqState
<1>4. /\ s.pc = "done" /\ s.view = q.view /\ s.grant = q.grant /\ s.tools = q.tools
      /\ s.tool = q.tool /\ s.window = q.window /\ s.ran = q.ran
      /\ s.room = Append(q.room, "assistant")
  BY <1>1 DEF ReqState
<1>5. Become(r, s)
  BY DEF Apologise, Said
<1> HIDE DEF s
<1>6. r \in Chat => s.room = <<"user", "call", "assistant">>
  BY <1>2, <1>4, Kindly DEF Kinds
<1>7. r \in Chat => Spoken(s)
  <2>1. Len(<<"user", "call", "assistant">>) = 3
    OBVIOUS
  <2>2. "done" = "done" => <<"user", "call", "assistant">> \in Answered
    BY DEF Answered
  <2>3. r \in Chat => ~s.ran
    BY <1>2, <1>4
  <2>4. SUFFICES ASSUME r \in Chat PROVE Spoken(s)
    OBVIOUS
  <2>5. s.room = <<"user", "call", "assistant">> /\ s.pc = "done" /\ ~s.ran
    BY <1>4, <1>6, <2>3, <2>4
  <2> QED
    BY <2>1, <2>2, <2>5 DEF Spoken
<1>8. Permitted(r, s)
  BY <1>1, <1>4 DEF Permitted
<1>9. Turn(r, s)
  BY <1>1, <1>3, <1>4, <1>5, <1>7, <1>8, Becomes
     DEF Turn, Becoming, NotYet, Pending, Stages
<1>10. \A m \in Metric : s.pc \notin Pending(m)
  BY <1>4 DEF Pending
<1> QED
  BY <1>1, <1>4, <1>9, <1>10, TalkKeeps DEF Apologise, NoAuditStep, IInv, TypeOK

\* The session has the tools of another message, which are not those of this.
LEMMA AnnounceRejectedKeeps ==
  ASSUME IInv, NEW r \in Request, AnnounceRejected(r)
  PROVE  IInv'
<1> DEFINE q == req[r]
           s == [q EXCEPT !.pc = "rejected"]
<1>1. /\ q \in ReqState /\ Permitted(r, q) /\ (r \in Chat => Spoken(q)) /\ q.pc = "select"
      /\ q.tool \in q.tools /\ q.tool \notin session
  BY OfARequest DEF AnnounceRejected, At, Available
<1>2. r \in Chat /\ q.room = <<"user">>
  BY <1>1 DEF Permitted, Spoken
<1>3. s \in ReqState
  BY <1>1 DEF ReqState, Stages, Failed
<1>4. /\ s.pc = "rejected" /\ s.view = q.view /\ s.grant = q.grant /\ s.tools = q.tools
      /\ s.tool = q.tool /\ s.window = q.window /\ s.room = q.room /\ s.ran = q.ran
  BY <1>1 DEF ReqState
<1>5. Become(r, s)
  BY DEF AnnounceRejected, Goto
<1> HIDE DEF s
<1>6. Permitted(r, s) /\ Spoken(s)
  BY <1>1, <1>2, <1>4 DEF Permitted, Spoken
<1>7. Turn(r, s)
  BY <1>1, <1>3, <1>4, <1>5, <1>6, Becomes DEF Turn, Becoming, NotYet, Pending, Stages
<1>8. \A m \in Metric : s.pc \notin Pending(m)
  BY <1>4 DEF Pending
<1>9. \E x \in Others(r) : req[x].tools # req[r].tools
  <2>1. session # q.tools
    BY <1>1
  <2>2. session = q.tools \/ \E x \in Others(r) : req[x].tools = session
    BY <1>1, <1>2 DEF IInv, Owned
  <2> QED
    BY <2>1, <2>2
<1> QED
  BY <1>1, <1>4, <1>7, <1>8, <1>9, TalkKeeps DEF AnnounceRejected, NoAuditStep, IInv, TypeOK

\* A tool that runs, or does not: of a chat only one that was offered
LEMMA ExecutionKeeps ==
  ASSUME IInv, NEW r \in Request, At(r, "execute"),
         UNCHANGED <<situation, day, plan, permits, usage, session, peak, audit, subscribed>>,
         faults' \in 0 .. situation.faults,
         \/ Ran(r)
         \/ NotRun(r, "failed")
         \/ NotRun(r, "refused") /\ req[r].tool = "tenant.activity-report.query"
  PROVE  IInv'
<1> DEFINE q == req[r]
           ran == [q EXCEPT !.pc = "countCall", !.ran = TRUE]
           not(pc) == [q EXCEPT !.pc = pc, !.window = None]
<1>1. /\ q \in ReqState /\ Permitted(r, q) /\ (r \in Chat => Spoken(q)) /\ q.pc = "execute"
      /\ RequiredPermission(q.tool) \in q.grant
      /\ r \in Chat => q.tool # "tenant.activity-report.query"
  BY OfARequest DEF At, Permitted
<1>2. r \in Chat => q.room = <<"user", "call">>
  BY <1>1 DEF Spoken
<1>3. CASE Ran(r)
  <2>1. ran \in ReqState
    BY <1>1 DEF ReqState, Stages
  <2>2. /\ ran.pc = "countCall" /\ ran.view = q.view /\ ran.grant = q.grant
        /\ ran.tools = q.tools /\ ran.tool = q.tool /\ ran.window = q.window
        /\ ran.room = q.room /\ ran.ran
    BY <1>1 DEF ReqState
  <2>3. Become(r, ran)
    BY <1>3 DEF Ran
  <2> HIDE DEF ran
  <2>4. Permitted(r, ran) /\ (r \in Chat => Spoken(ran))
    BY <1>1, <1>2, <2>2 DEF Permitted, Spoken
  <2>5. Turn(r, ran)
    BY <1>1, <2>1, <2>2, <2>3, <2>4, Becomes DEF Turn, Becoming, NotYet, Pending, Stages
  <2>6. \A m \in Metric : ran.pc \notin Pending(m) \/ (q.pc \in Pending(m) /\ ran.window = q.window)
    BY <1>1, <2>2 DEF Pending
  <2> QED
    BY <1>1, <2>2, <2>5, <2>6, TalkKeeps
<1>4. ASSUME NEW pc \in {"failed", "refused"}, NotRun(r, pc),
             pc = "refused" => q.tool = "tenant.activity-report.query"
      PROVE  IInv'
  <2> DEFINE s == not(pc)
  <2>1. s \in ReqState
    BY <1>1, <1>4 DEF ReqState, Stages, Failed
  <2>2. /\ s.pc = pc /\ s.view = q.view /\ s.grant = q.grant
        /\ s.tools = q.tools /\ s.tool = q.tool /\ s.window = None
        /\ s.room = q.room /\ s.ran = q.ran
    BY <1>1 DEF ReqState
  <2>3. Become(r, s)
    BY <1>4 DEF NotRun
  <2> HIDE DEF s
  <2>4. Permitted(r, s) /\ (r \in Chat => Spoken(s))
    BY <1>1, <1>2, <1>4, <2>2 DEF Permitted, Spoken
  <2>5. Turn(r, s)
    BY <1>1, <1>4, <2>1, <2>2, <2>3, <2>4, Becomes DEF Turn, Becoming, NotYet, Pending, Stages
  <2>6. \A m \in Metric : s.pc \notin Pending(m)
    BY <1>4, <2>2 DEF Pending
  <2> QED
    BY <1>1, <1>4, <2>2, <2>5, <2>6, TalkKeeps
<1> QED
  BY <1>3, <1>4

LEMMA ExecuteKeeps ==
  ASSUME IInv, NEW r \in Request, Execute(r) \/ ExecuteRefuses(r) \/ ExecuteAsMember(r)
  PROVE  IInv'
<1>1. faults \in 0 .. situation.faults
  BY DEF IInv, TypeOK
<1>2. CASE Execute(r)
  BY <1>1, <1>2, ExecutionKeeps DEF Execute, NoAuditStep
<1>3. CASE ExecuteRefuses(r)
  BY <1>3, ExecutionKeeps, FaultsAreBounded DEF ExecuteRefuses, NoAuditStep
<1>4. CASE ExecuteAsMember(r)
  BY <1>1, <1>4, ExecutionKeeps DEF ExecuteAsMember, NoAuditStep
<1> QED
  BY <1>2, <1>3, <1>4

LEMMA FailsKeeps ==
  ASSUME IInv, NEW r \in Request, Fails(r)
  PROVE  IInv'
<1> DEFINE q == req[r]
           s == [q EXCEPT !.pc = "failed", !.view = {}, !.window = None]
<1>1. /\ q \in ReqState /\ Permitted(r, q) /\ (r \in Chat => Spoken(q))
      /\ q.pc \notin {"idle", "done", "refused", "rejected", "failed"} /\ q.pc \in Stages
  BY OfARequest DEF Fails, At, Failed, ReqState
<1>2. s \in ReqState
  BY <1>1 DEF ReqState, Stages, Failed
<1>3. /\ s.pc = "failed" /\ s.view = {} /\ s.grant = q.grant /\ s.tools = q.tools
      /\ s.tool = q.tool /\ s.window = None /\ s.room = q.room /\ s.ran = q.ran
  BY <1>1 DEF ReqState
<1>4. Become(r, s)
  BY DEF Fails
<1> HIDE DEF s
<1>5. Permitted(r, s) /\ (r \in Chat => Spoken(s))
  <2>1. Permitted(r, s)
    BY <1>1, <1>3 DEF Permitted
  <2>2. r \in Chat =>
          q.room \in {<< >>, <<"user">>, <<"user", "call">>, <<"user", "call", "result">>}
    BY <1>1 DEF Spoken, Stages, Failed
  <2> QED
    BY <1>3, <2>1, <2>2 DEF Spoken
<1>6. Turn(r, s)
  BY <1>1, <1>2, <1>3, <1>4, <1>5, Becomes DEF Turn, Becoming, NotYet, Pending, Stages
<1>7. \A m \in Metric : s.pc \notin Pending(m)
  BY <1>3 DEF Pending
<1>8. faults' \in 0 .. situation.faults
  BY FaultsAreBounded DEF Fails
<1> QED
  BY <1>1, <1>3, <1>6, <1>7, <1>8, TalkKeeps DEF Fails, NoAuditStep

LEMMA ContainedIsTyped ==
  ASSUME IInv, NEW m
  PROVE  Contained(m) \in Window \cup {None}
<1>1. day \in Nat
  BY DEF IInv, TypeOK
<1> QED
  BY <1>1, ContainedIsAWindow, ContainedIsNoNone

LEMMA FreshIsARequest ==
  /\ Fresh \in ReqState /\ Fresh.pc = "idle" /\ Fresh.grant = {} /\ Fresh.tools = {}
  /\ Fresh.tool = None /\ Fresh.view = {} /\ Fresh.window = None /\ Fresh.room = << >>
  /\ ~Fresh.ran
<1>1. << >> \in Seq(Kinds)
  OBVIOUS
<1> QED
  BY <1>1 DEF Fresh, ReqState, Stages

LEMMA BeginCallKeeps ==
  ASSUME IInv, NEW r \in Request, BeginCall(r)
  PROVE  IInv'
<1>1. PICK tool \in {"tenant.activity-report.query", "tenant.subscription.update"} :
        Become(r, [Fresh EXCEPT !.pc = IF RequiredPermission(tool) \in permits
                                       THEN "policy" ELSE "refused",
                                !.grant = permits, !.tool = tool])
  BY DEF BeginCall
<1> DEFINE pc == IF RequiredPermission(tool) \in permits THEN "policy" ELSE "refused"
           s == [Fresh EXCEPT !.pc = pc, !.grant = permits, !.tool = tool]
<1>2. /\ req[r].pc = "idle" /\ r \notin Chat /\ permits \subseteq Permission
      /\ tool \in Tool
  BY TenantUsageAssumption DEF BeginCall, At, IInv, TypeOK, Tool, RuntimeTools
<1>3. pc \in {"policy", "refused"} /\ (pc = "policy" => RequiredPermission(tool) \in permits)
  OBVIOUS
<1> HIDE DEF pc
<1>4. /\ s.pc = pc /\ s.grant = permits /\ s.tools = {} /\ s.tool = tool /\ s.view = {}
      /\ s.window = None /\ s.room = << >> /\ ~s.ran
  BY FreshIsARequest DEF ReqState
<1>5. Become(r, s)
  BY <1>1 DEF pc
<1>6. s \in ReqState
  BY FreshIsARequest, <1>2, <1>3 DEF ReqState, Stages, Failed
<1> HIDE DEF s
<1>7. Permitted(r, s)
  BY <1>2, <1>3, <1>4 DEF Permitted
<1>8. Turn(r, s)
  BY <1>2, <1>3, <1>4, <1>5, <1>6, <1>7, Becomes
     DEF Turn, Becoming, NotYet, Pending, Stages
<1>9. \A m \in Metric : s.pc \notin Pending(m)
  BY <1>3, <1>4 DEF Pending
<1> QED
  BY <1>3, <1>4, <1>8, <1>9, TalkKeeps DEF BeginCall, NoAuditStep, IInv, TypeOK

LEMMA BeginChatKeeps ==
  ASSUME IInv, NEW r \in Request, BeginChat(r)
  PROVE  IInv'
<1>1. PICK text \in situation.texts :
        Become(r, IF "chat.agent" \notin plan \/ ~Allowed("chat.messages")
                  THEN [Fresh EXCEPT !.pc = "refused"]
                  ELSE [Fresh EXCEPT !.pc = "read", !.grant = permits, !.tool = SelectTool(text),
                          !.tools = Offered(plan, permits), !.window = Contained("chat.messages")])
  BY DEF BeginChat
<1>2. /\ req[r].pc = "idle" /\ r \in Chat /\ permits \subseteq Permission
      /\ faults' \in 0 .. situation.faults
  BY DEF BeginChat, At, IInv, TypeOK
<1>3. /\ peak' \in [Metric -> Nat]
      /\ \A m \in Metric : peak'[m] >= peak[m] /\ Cardinality(Uncounted(m)') <= peak'[m]
  BY PeaksGrow DEF BeginChat
<1>4. ASSUME NEW s \in ReqState, Become(r, s), s.view = {}, s.room = << >>, ~s.ran,
             \A tool \in s.tools : RequiredPermission(tool) \in s.grant,
             "tenant.activity-report.query" \notin s.tools,
             \/ s.pc = "refused" /\ s.window = None
             \/ s.pc = "read" /\ Allowed("chat.messages") /\ s.window = Contained("chat.messages")
      PROVE  IInv'
  <2>1. Permitted(r, s) /\ Spoken(s)
    BY <1>2, <1>4 DEF Permitted, Spoken
  <2>2. Turn(r, s)
    BY <1>2, <1>4, <2>1, Becomes DEF Turn, Becoming, NotYet, Pending, Stages
  <2>3. "chat.messages" \in Metric
    BY DEF Metric
  <2>4. \A m \in Metric :
          \/ s.pc \notin Pending(m)
          \/ Allowed(m) /\ s.window = Contained(m) /\ Cardinality(Uncounted(m)') <= peak'[m]
    BY <1>3, <1>4 DEF Pending, Metric
  <2>5. UNCHANGED <<situation, day, plan, permits, usage, session, audit, subscribed>>
    BY DEF BeginChat, NoAuditStep
  <2> QED
    BY <1>2, <1>3, <1>4, <2>2, <2>3, <2>4, <2>5, StepsKeep
<1>5. CASE "chat.agent" \notin plan \/ ~Allowed("chat.messages")
  <2> DEFINE s == [Fresh EXCEPT !.pc = "refused"]
  <2>1. /\ s.pc = "refused" /\ s.tools = {} /\ s.view = {}
        /\ s.window = None /\ s.room = << >> /\ ~s.ran
    BY FreshIsARequest DEF ReqState
  <2>2. Become(r, s)
    BY <1>1, <1>5
  <2>3. s \in ReqState
    BY FreshIsARequest DEF ReqState, Stages, Failed
  <2> HIDE DEF s
  <2> QED
    BY <1>4, <2>1, <2>2, <2>3
<1>6. CASE ~("chat.agent" \notin plan \/ ~Allowed("chat.messages"))
  <2> DEFINE tools == Offered(plan, permits)
             tool == SelectTool(text)
             window == Contained("chat.messages")
             s == [Fresh EXCEPT !.pc = "read", !.grant = permits, !.tool = tool,
                                !.tools = tools, !.window = window]
  <2>1. /\ tools \subseteq Tool /\ tool \in Tool /\ window \in Window \cup {None}
        /\ \A x \in tools : RequiredPermission(x) \in permits
        /\ "tenant.activity-report.query" \notin tools
    BY ContainedIsTyped, SomeToolIsSelected DEF Offered
  <2>2. Become(r, s)
    BY <1>1, <1>6
  <2> HIDE DEF tools, tool, window
  <2>3. /\ s.pc = "read" /\ s.grant = permits /\ s.tools = tools /\ s.view = {}
        /\ s.window = window /\ s.room = << >> /\ ~s.ran
    BY FreshIsARequest DEF ReqState
  <2>4. s \in ReqState
    BY FreshIsARequest, <1>2, <2>1 DEF ReqState, Stages
  <2> HIDE DEF s
  <2>5. s.window = Contained("chat.messages")
    BY <2>3 DEF window
  <2> QED
    BY <1>4, <1>6, <2>1, <2>2, <2>3, <2>4, <2>5
<1> QED
  BY <1>5, <1>6

LEMMA PolicyKeeps ==
  ASSUME IInv, NEW r \in Request, Policy(r)
  PROVE  IInv'
<1> DEFINE q == req[r]
           window == Contained("mcp.calls")
           go == [q EXCEPT !.pc = "execute", !.window = window]
           pc == IF r \in Chat THEN "apologise" ELSE "refused"
           no == [q EXCEPT !.pc = pc]
<1>1. /\ q \in ReqState /\ Permitted(r, q) /\ (r \in Chat => Spoken(q)) /\ q.pc = "policy"
      /\ faults' \in 0 .. situation.faults
  BY OfARequest DEF Policy, At, IInv, TypeOK
<1>2. /\ peak' \in [Metric -> Nat]
      /\ \A m \in Metric : peak'[m] >= peak[m] /\ Cardinality(Uncounted(m)') <= peak'[m]
  BY PeaksGrow DEF Policy
<1>3. UNCHANGED <<situation, day, plan, permits, usage, session, audit, subscribed>>
  BY DEF Policy, NoAuditStep
<1>4. CASE ~Refusal(r)
  <2>1. window \in Window \cup {None}
    BY ContainedIsTyped
  <2>2. Become(r, go)
    BY <1>4 DEF Policy
  <2> HIDE DEF window
  <2>3. go \in ReqState
    BY <1>1, <2>1 DEF ReqState, Stages
  <2>4. /\ go.pc = "execute" /\ go.view = q.view /\ go.grant = q.grant /\ go.tools = q.tools
        /\ go.tool = q.tool /\ go.window = window /\ go.room = q.room /\ go.ran = q.ran
    BY <1>1 DEF ReqState
  <2> HIDE DEF go
  <2>5. Permitted(r, go) /\ (r \in Chat => Spoken(go))
    BY <1>1, <2>4 DEF Permitted, Spoken
  <2>6. Turn(r, go)
    BY <1>1, <2>2, <2>3, <2>4, <2>5, Becomes DEF Turn, Becoming, NotYet, Pending, Stages
  <2>7. "mcp.calls" \in Metric /\ Allowed("mcp.calls") /\ go.window = Contained("mcp.calls")
    BY <1>4, <2>4 DEF Metric, Refusal, window
  <2>8. \A m \in Metric :
          \/ go.pc \notin Pending(m)
          \/ Allowed(m) /\ go.window = Contained(m) /\ Cardinality(Uncounted(m)') <= peak'[m]
    BY <1>2, <2>4, <2>7 DEF Pending, Metric
  <2> QED
    BY <1>1, <1>2, <1>3, <2>4, <2>6, <2>7, <2>8, StepsKeep
<1>5. CASE Refusal(r)
  <2>1. Become(r, no)
    BY <1>5 DEF Policy
  <2>2. pc \in {"apologise", "refused"} /\ (r \in Chat => pc = "apologise")
    OBVIOUS
  <2> HIDE DEF pc
  <2>3. no \in ReqState
    BY <1>1, <2>2 DEF ReqState, Stages, Failed
  <2>4. /\ no.pc = pc /\ no.view = q.view /\ no.grant = q.grant /\ no.tools = q.tools
        /\ no.tool = q.tool /\ no.window = q.window /\ no.room = q.room /\ no.ran = q.ran
    BY <1>1 DEF ReqState
  <2> HIDE DEF no
  <2>5. Permitted(r, no) /\ (r \in Chat => Spoken(no))
    BY <1>1, <2>2, <2>4 DEF Permitted, Spoken
  <2>6. Turn(r, no)
    BY <1>1, <2>1, <2>2, <2>3, <2>4, <2>5, Becomes DEF Turn, Becoming, NotYet, Pending, Stages
  <2>7. \A m \in Metric : no.pc \notin Pending(m)
    BY <2>2, <2>4 DEF Pending
  <2> QED
    BY <1>1, <1>2, <1>3, <2>2, <2>4, <2>6, <2>7, StepsKeep
<1> QED
  BY <1>4, <1>5

\* A use that is counted
LEMMA CountKeeps ==
  ASSUME IInv, NEW r \in Request, NEW m \in Metric, NEW pc \in {"select", "answer", "done"},
         Become(r, [req[r] EXCEPT !.pc = pc, !.window = None]),
         Recorded(m, r), req[r].pc \in Pending(m),
         \/ m = "chat.messages" /\ req[r].pc = "countMessage" /\ pc = "select"
         \/ /\ m = "mcp.calls" /\ req[r].pc = "countCall"
            /\ pc = IF r \in Chat THEN "answer" ELSE "done",
         UNCHANGED <<situation, day, plan, permits, session, peak, audit, subscribed, faults>>
  PROVE  IInv'
<1> DEFINE q == req[r]
           s == [q EXCEPT !.pc = pc, !.window = None]
<1>1. q \in ReqState /\ Permitted(r, q) /\ (r \in Chat => Spoken(q))
  BY OfARequest
<1>2. s \in ReqState
  BY <1>1 DEF ReqState, Stages
<1>3. /\ s.pc = pc /\ s.view = q.view /\ s.grant = q.grant /\ s.tools = q.tools
      /\ s.tool = q.tool /\ s.window = None /\ s.room = q.room /\ s.ran = q.ran
  BY <1>1 DEF ReqState
<1> HIDE DEF s
<1>4. Permitted(r, s) /\ (r \in Chat => Spoken(s))
  BY <1>1, <1>3 DEF Permitted, Spoken
<1>5. Turn(r, s)
  <2>1. \A x \in Metric : s.pc \in NotYet(x) => q.pc \in NotYet(x)
    BY <1>3 DEF NotYet, Pending, Stages, Metric
  <2> QED
    BY <1>2, <1>3, <1>4, <2>1, Becomes DEF Turn, Becoming, s
<1>6. (\A x \in Metric : s.pc \notin Pending(x)) /\ s.pc \notin NotYet(m)
  BY <1>3 DEF Pending, NotYet
<1>7. /\ usage' \subseteq [metric : Metric, window : Window, by : Request]
      /\ Metered' /\ QuotaHolds'
  BY <1>2, <1>3, <1>5, <1>6, UseIsCounted DEF Turn
<1>8. Rooms' /\ Owned'
  <2>1. s.pc \in {"send", "countMessage", "select"} => q.pc \in {"send", "countMessage", "select"}
    BY <1>3
  <2> QED
    BY <1>3, <1>5, <2>1, RoomsStay, OwnersStay
<1>9. TypeOK' /\ Listed'
  BY <1>5, <1>7 DEF IInv, TypeOK, Turn, Listed
<1> QED
  BY <1>7, <1>8, <1>9 DEF IInv

LEMMA CountsKeep ==
  ASSUME IInv, NEW r \in Request, CountMessage(r) \/ CountCall(r)
  PROVE  IInv'
<1>1. CASE CountMessage(r)
  <2>1. req[r].pc = "countMessage" /\ "chat.messages" \in Metric
    BY <1>1 DEF CountMessage, At, Metric
  <2>2. req[r].pc \in Pending("chat.messages")
    BY <2>1 DEF Pending
  <2> QED
    BY <1>1, <2>1, <2>2, CountKeeps DEF CountMessage, NoAuditStep
<1>2. CASE CountCall(r)
  <2> DEFINE pc == IF r \in Chat THEN "answer" ELSE "done"
  <2>1. req[r].pc = "countCall" /\ "mcp.calls" \in Metric
    BY <1>2 DEF CountCall, At, Metric
  <2>2. req[r].pc \in Pending("mcp.calls") /\ pc \in {"select", "answer", "done"}
    BY <2>1 DEF Pending
  <2>3. /\ Become(r, [req[r] EXCEPT !.pc = pc, !.window = None]) /\ Recorded("mcp.calls", r)
        /\ UNCHANGED <<situation, day, plan, permits, session, peak, audit, subscribed, faults>>
    BY <1>2 DEF CountCall, NoAuditStep
  <2> QED
    BY <2>1, <2>2, <2>3, CountKeeps
<1> QED
  BY <1>1, <1>2

\* What is to be shown where the session has an owner
LEMMA OwnersAre ==
  ASSUME \E x \in Chat : req'[x].pc # "idle" /\ req'[x].tools = session',
         \A x \in Chat : req'[x].pc \in {"send", "countMessage", "select"} =>
           session' = req'[x].tools \/ \E y \in Others(x)' : req'[y].tools = session',
         \A x \in Chat : req'[x].pc = "rejected" =>
           \E y \in Others(x)' : req'[y].tools # req'[x].tools
  PROVE  Owned'
  BY DEF Owned

LEMMA SaveSessionKeeps ==
  ASSUME IInv, NEW r \in Request, SaveSession(r)
  PROVE  IInv'
<1> DEFINE q == req[r]
           s == [q EXCEPT !.pc = "send", !.view = {}]
<1>1. q \in ReqState /\ Permitted(r, q) /\ (r \in Chat => Spoken(q)) /\ q.pc = "save"
  BY OfARequest DEF SaveSession, At
<1>2. r \in Chat /\ Chat \subseteq Request
  BY <1>1 DEF Permitted, Request
<1>3. s \in ReqState
  BY <1>1 DEF ReqState, Stages
<1>4. /\ s.pc = "send" /\ s.view = {} /\ s.grant = q.grant /\ s.tools = q.tools
      /\ s.tool = q.tool /\ s.window = q.window /\ s.room = q.room /\ s.ran = q.ran
  BY <1>1 DEF ReqState
<1>5. Become(r, s)
  BY DEF SaveSession
<1> HIDE DEF s
<1>6. Permitted(r, s) /\ (r \in Chat => Spoken(s))
  BY <1>1, <1>4 DEF Permitted, Spoken
<1>7. Turn(r, s)
  BY <1>1, <1>3, <1>4, <1>5, <1>6, Becomes DEF Turn, Becoming, NotYet, Pending, Stages
<1>8. \A m \in Metric : s.pc \notin Pending(m) \/ (q.pc \in Pending(m) /\ s.window = q.window)
  BY <1>1, <1>4 DEF Pending
<1>9. Metered' /\ QuotaHolds'
  <2>1. /\ peak' \in [Metric -> Nat] /\ \A m \in Metric : peak'[m] >= peak[m]
        /\ UNCHANGED <<day, usage>>
    BY DEF SaveSession, IInv, TypeOK
  <2> QED
    BY <1>3, <1>4, <1>7, <1>8, <2>1, UsesStayCovered DEF Turn
<1>10. Rooms'
  BY <1>7, RoomsStay
<1>11. session' \in {session, q.tools} /\ q.tools \subseteq Tool
  BY <1>1 DEF SaveSession, ReqState
<1>12. TypeOK' /\ Listed'
  BY <1>7, <1>11 DEF IInv, TypeOK, Turn, Listed, SaveSession, NoAuditStep
<1>13. /\ \A x \in Chat : req'[x] = IF x = r THEN s ELSE req[x]
       /\ \A x \in Chat : req[x].pc # "idle" => req'[x].pc # "idle" /\ req'[x].tools = req[x].tools
       /\ r \in Chat /\ req[r].pc # "idle"
  BY <1>1, <1>2, <1>7, OthersStay DEF Turn, Becoming
<1>14. ASSUME session' = q.tools PROVE Owned'
  <2>1. \E x \in Chat : req'[x].pc # "idle" /\ req'[x].tools = session'
    BY <1>13, <1>14
  <2>2. ASSUME NEW x \in Chat, req'[x].pc \in {"send", "countMessage", "select"}
        PROVE  session' = req'[x].tools \/ \E y \in Others(x)' : req'[y].tools = session'
    <3>1. CASE x = r
      BY <1>13, <1>14, <3>1
    <3>2. CASE x # r
      <4>1. r \in Others(x)' /\ req'[r].tools = session'
        BY <1>13, <1>14, <3>2 DEF Others
      <4> QED
        BY <4>1
    <3> QED
      BY <3>1, <3>2
  <2>3. ASSUME NEW x \in Chat, req'[x].pc = "rejected"
        PROVE  \E y \in Others(x)' : req'[y].tools # req'[x].tools
    <3>1. x # r /\ req[x].pc = "rejected"
      BY <1>4, <1>13, <2>3
    <3>2. PICK y \in Others(x) : req[y].tools # req[x].tools
      BY <3>1 DEF IInv, Owned
    <3> QED
      BY <1>7, <3>1, <3>2, OthersStay
  <2> QED
    BY <2>1, <2>2, <2>3, OwnersAre
<1>15. ASSUME session' # q.tools PROVE Owned'
  <2>1. session' = session /\ q.view = q.tools /\ session # q.tools
    BY <1>15 DEF SaveSession
  <2>2. q.view # {} \/ session # {}
    BY <2>1
  <2>3. PICK y \in Chat : req[y].pc # "idle" /\ req[y].tools = session
    BY <1>13, <2>1 DEF IInv, Owned
  <2>4. y \in Others(r) /\ req'[y].tools = session'
    BY <1>13, <2>1, <2>3 DEF Others
  <2>5. ASSUME NEW x \in Chat, req'[x].pc \in {"send", "countMessage", "select"}
        PROVE  session' = req'[x].tools \/ \E z \in Others(x)' : req'[z].tools = session'
    <3>1. CASE x = r
      BY <1>7, <2>4, <3>1, OthersStay
    <3>2. CASE x # r
      <4>1. req[x].pc \in {"send", "countMessage", "select"} /\ req'[x].tools = req[x].tools
        BY <1>13, <2>5, <3>2
      <4>2. session = req[x].tools \/ \E z \in Others(x) : req[z].tools = session
        BY <4>1 DEF IInv, Owned
      <4> QED
        BY <1>7, <2>1, <4>1, <4>2, OthersStay
    <3> QED
      BY <3>1, <3>2
  <2>6. ASSUME NEW x \in Chat, req'[x].pc = "rejected"
        PROVE  \E z \in Others(x)' : req'[z].tools # req'[x].tools
    <3>1. x # r /\ req[x].pc = "rejected"
      BY <1>4, <1>13, <2>6
    <3>2. PICK z \in Others(x) : req[z].tools # req[x].tools
      BY <3>1 DEF IInv, Owned
    <3> QED
      BY <1>7, <3>1, <3>2, OthersStay
  <2>7. \E x \in Chat : req'[x].pc # "idle" /\ req'[x].tools = session'
    BY <1>13, <2>3, <2>4
  <2> QED
    BY <2>5, <2>6, <2>7, OwnersAre
<1> QED
  BY <1>9, <1>10, <1>12, <1>14, <1>15 DEF IInv

-----------------------------------------------------------------------------
(* Days, plans and roles                                                   *)

LEMMA MidnightKeeps ==
  ASSUME IInv, Midnight
  PROVE  IInv'
<1>1. TypeOK' /\ Listed'
  BY TenantUsageAssumption DEF IInv, TypeOK, Listed, Midnight, NoAuditStep
<1>2. Rooms' /\ Owned'
  BY DEF IInv, Rooms, Owned, Others, Midnight, Permitted, Spoken
<1> QED
  BY <1>1, <1>2, MidnightMeters DEF IInv

\* What quotas, rooms and owners look at
LEMMA NothingMoves ==
  ASSUME IInv, UNCHANGED <<day, usage, session, req, peak>>
  PROVE  Metered' /\ QuotaHolds' /\ Rooms' /\ Owned'
<1>1. \A m \in Metric : Uncounted(m)' = Uncounted(m)
  BY DEF Uncounted
<1>2. \A w : Known(w)' <=> Known(w)
  BY DEF Known
<1>3. Metered'
  <2>1. \A u \in usage : Known(u.window)'
    BY <1>2 DEF IInv, Metered
  <2>2. \A r \in Request : req[r].window # None => Known(req[r].window)'
    BY <1>2 DEF IInv, Metered
  <2>3. /\ IsFiniteSet(usage)
        /\ \A u \in usage : req[u.by].pc \notin NotYet(u.metric)
        /\ \A m \in Metric : \A r \in Uncounted(m) : Matching(m) # {} => req[r].window # None
        /\ \A m \in Metric : Cardinality(Uncounted(m)) <= peak[m]
    BY DEF IInv, Metered
  <2> QED
    BY <1>1, <2>1, <2>2, <2>3 DEF Metered, Known
<1>4. QuotaHolds'
  <2>1. \A m, w : Used(m, w)' = Used(m, w) /\ UncountedIn(m, w)' = UncountedIn(m, w)
    BY DEF Used, UncountedIn, Uncounted, CountedIn
  <2> QED
    BY <2>1 DEF IInv, QuotaHolds
<1>5. Rooms' /\ Owned'
  BY DEF IInv, Rooms, Owned, Others, Permitted, Spoken
<1> QED
  BY <1>3, <1>4, <1>5

LEMMA ChangesKeep ==
  ASSUME IInv, ChangePlan \/ ChangeRole
  PROVE  IInv'
<1>1. faults' \in 0 .. situation.faults
  BY FaultsAreBounded DEF ChangePlan, ChangeRole
<1>2. UNCHANGED <<situation, day, usage, session, req, peak, audit, subscribed>>
  BY DEF ChangePlan, ChangeRole, NoAuditStep
<1>3. plan' \in Plans /\ permits' \subseteq Permission
  BY TenantUsageAssumption DEF ChangePlan, ChangeRole, IInv, TypeOK
<1>4. TypeOK' /\ Listed'
  BY <1>1, <1>2, <1>3 DEF IInv, TypeOK, Listed
<1> QED
  BY <1>2, <1>4, NothingMoves DEF IInv

-----------------------------------------------------------------------------
(* The audit of the thresholds                                             *)

\* A page of the listing is empty only if nothing is left to be listed, and
\* it leaves out only what comes after all of it.
LEMMA PagesAreInOrder ==
  ASSUME NEW S, S \subseteq Nat, IsFiniteSet(S), NEW n \in Nat \ {0}
  PROVE  /\ Smallest(S, n) \subseteq S
         /\ Smallest(S, n) = {} => S = {}
         /\ \A t \in S \ Smallest(S, n) : \A u \in Smallest(S, n) : u < t
<1> DEFINE Upto(t) == {u \in S : u <= t}
<1>1. \A t \in S : IsFiniteSet(Upto(t)) /\ Cardinality(Upto(t)) \in Nat
  BY FS_Subset, FS_CardinalityType
<1>2. Smallest(S, n) \subseteq S
  BY DEF Smallest
<1>3. ASSUME S # {}
      PROVE  Smallest(S, n) # {}
  <2> DEFINE t == Min(S)
  <2>1. t \in S /\ \A x \in S : t <= x
    BY <1>3, Least
  <2> HIDE DEF t
  <2>2. Upto(t) = {t}
    <3>1. \A x \in S : x \in Nat
      OBVIOUS
    <3>2. \A x \in S : x <= t <=> x = t
      BY <2>1, <3>1
    <3> QED
      BY <2>1, <3>2
  <2>3. Cardinality(Upto(t)) = 1
    BY <2>2, FS_Singleton
  <2>4. t \in Smallest(S, n)
    BY <2>1, <2>3 DEF Smallest
  <2> QED
    BY <2>4
<1>4. ASSUME NEW t \in S \ Smallest(S, n), NEW u \in Smallest(S, n)
      PROVE  u < t
  <2>1. t \in Nat /\ u \in Nat /\ u \in S
    BY <1>2
  <2>2. SUFFICES ASSUME t <= u PROVE FALSE
    BY <2>1
  <2>3. \A x \in S : x <= t => x <= u
    BY <2>1, <2>2
  <2>4. Upto(t) \in SUBSET Upto(u)
    BY <2>3
  <2>5. Cardinality(Upto(t)) <= Cardinality(Upto(u))
    BY <1>1, <2>1, <2>4, FS_Subset
  <2>6. Cardinality(Upto(u)) <= n /\ ~(Cardinality(Upto(t)) <= n)
    BY DEF Smallest
  <2> QED
    BY <1>1, <2>1, <2>5, <2>6
<1> QED
  BY <1>2, <1>3, <1>4

\* The steps of the audit touch nothing else.
LEMMA AuditKeeps ==
  ASSUME IInv, Quiet, audit' \in AuditState, subscribed' \subseteq Tenant,
         faults' \in 0 .. situation.faults, Listed'
  PROVE  IInv'
<1>1. TypeOK'
  BY DEF IInv, TypeOK, Quiet
<1> QED
  BY <1>1, NothingMoves DEF IInv, Quiet

LEMMA NoAuditIsOne ==
  /\ NoAudit \in AuditState /\ NoAudit.pc = "idle" /\ NoAudit.after = 0 /\ NoAudit.page = {}
  /\ NoAudit.left = {} /\ NoAudit.visits = [t \in Tenant |-> 0] /\ NoAudit.steady = {}
  BY DEF NoAudit, AuditState

LEMMA BeginAuditKeeps ==
  ASSUME IInv, BeginAudit
  PROVE  IInv'
<1> DEFINE a == [NoAudit EXCEPT !.pc = "list", !.steady = subscribed]
<1>1. audit' = a /\ subscribed' = subscribed /\ subscribed \subseteq Tenant
  BY DEF BeginAudit, IInv, TypeOK
<1>2. a \in AuditState
  BY <1>1, NoAuditIsOne DEF AuditState
<1>3. /\ a.pc = "list" /\ a.after = 0 /\ a.page = {} /\ a.left = {}
      /\ a.visits = [t \in Tenant |-> 0] /\ a.steady = subscribed
  BY NoAuditIsOne DEF AuditState
<1> HIDE DEF a
<1>4. \A t \in subscribed : t \in Nat \ {0}
  BY <1>1, TenantUsageAssumption
<1>5. Listed'
  BY <1>1, <1>3, <1>4 DEF Listed
<1> QED
  BY <1>1, <1>2, <1>5, AuditKeeps DEF BeginAudit, IInv, TypeOK

LEMMA ListTenantsKeeps ==
  ASSUME IInv, ListTenants
  PROVE  IInv'
<1> DEFINE S == {t \in subscribed : t > audit.after}
           page == Smallest(S, PageSize)
           pc == IF page = {} THEN "done" ELSE "visit"
           a == [audit EXCEPT !.pc = pc, !.page = page, !.left = page]
<1>1. /\ audit \in AuditState /\ audit.pc = "list" /\ audit.after \in Nat
      /\ audit' = a /\ subscribed' = subscribed /\ subscribed \subseteq Tenant
  BY DEF ListTenants, IInv, TypeOK, AuditState
<1>2. S \subseteq Nat /\ IsFiniteSet(S)
  <2>1. S \in SUBSET Tenant
    BY <1>1
  <2>2. Tenant \subseteq Nat /\ IsFiniteSet(Tenant)
    BY TenantUsageAssumption
  <2>3. IsFiniteSet(S)
    BY <2>1, <2>2, FS_Subset
  <2> QED
    BY <2>1, <2>2, <2>3
<1>3. /\ page \subseteq S
      /\ page = {} => S = {}
      /\ \A t \in S \ page : \A u \in page : u < t
  BY <1>2, TenantUsageAssumption, PagesAreInOrder
<1>4. \A t \in subscribed : t > audit.after => t \in S
  OBVIOUS
<1>5. \A t \in S : t \in subscribed /\ t > audit.after /\ t \in Tenant
  BY <1>1
<1> HIDE DEF page
<1>6. a \in AuditState
  BY <1>1, <1>3, <1>5 DEF AuditState
<1>7. /\ a.pc = pc /\ a.after = audit.after /\ a.page = page /\ a.left = page
      /\ a.visits = audit.visits /\ a.steady = audit.steady
  BY <1>1 DEF AuditState
<1>8. pc = (IF page = {} THEN "done" ELSE "visit")
  OBVIOUS
<1> HIDE DEF a, S, pc
<1>9. /\ audit.steady \subseteq subscribed /\ audit.page = {}
      /\ \A t \in Tenant :
           audit.visits[t] = 0 \/ (audit.visits[t] = 1 /\ t <= audit.after)
      /\ \A t \in audit.steady : t <= audit.after => audit.visits[t] = 1
  <2>1. audit.steady \subseteq subscribed /\ audit.page = {}
    BY <1>1 DEF IInv, Listed
  <2>2. \A t \in Tenant : audit.visits[t] = 0 \/ (audit.visits[t] = 1 /\ t <= audit.after)
    BY <2>1 DEF IInv, Listed
  <2>3. \A t \in audit.steady : t <= audit.after => audit.visits[t] = 1
    BY <1>1 DEF IInv, Listed
  <2> QED
    BY <2>1, <2>2, <2>3
<1>10. \A t \in page : t \in Tenant /\ t > audit.after /\ audit.visits[t] = 0
  <2> TAKE t \in page
  <2>1. t \in Tenant /\ t > audit.after /\ t \in Nat
    BY <1>3, <1>5, TenantUsageAssumption
  <2> QED
    BY <1>1, <1>9, <2>1
<1>11. page = {} => \A t \in audit.steady : t <= audit.after
  <2>1. \A t \in audit.steady : t \in Nat
    BY <1>1, <1>9, TenantUsageAssumption
  <2> QED
    BY <1>1, <1>3, <1>4, <1>9, <2>1
<1>12. \A t \in audit.steady \ page : \A u \in page : t > audit.after => u < t
  BY <1>3, <1>4, <1>9
<1>13. Listed'
  BY <1>1, <1>7, <1>8, <1>9, <1>10, <1>11, <1>12 DEF Listed
<1> QED
  BY <1>1, <1>6, <1>13, AuditKeeps DEF ListTenants, IInv, TypeOK

LEMMA VisitTenantKeeps ==
  ASSUME IInv, VisitTenant
  PROVE  IInv'
<1> DEFINE t == Min(audit.left)
           visits == [audit.visits EXCEPT ![t] = @ + 1]
           a == [audit EXCEPT !.left = @ \ {t}, !.visits = visits]
<1>1. /\ audit \in AuditState /\ audit.pc = "visit" /\ audit.left # {}
      /\ audit.left \subseteq audit.page /\ audit.page \subseteq Tenant
      /\ audit.visits \in [Tenant -> Nat]
      /\ audit' = a /\ subscribed' = subscribed /\ subscribed \subseteq Tenant
  BY DEF VisitTenant, IInv, TypeOK, Listed, AuditState
<1>2. t \in audit.left
  BY <1>1, TenantUsageAssumption, Least
<1>3. t \in Tenant /\ t \in audit.page /\ t > audit.after /\ audit.visits[t] = 0
  BY <1>1, <1>2 DEF IInv, Listed
<1> HIDE DEF t
<1>4. /\ visits \in [Tenant -> Nat]
      /\ \A u \in Tenant : visits[u] = IF u = t THEN 1 ELSE audit.visits[u]
  BY <1>1, <1>3
<1> HIDE DEF visits
<1>5. a \in AuditState
  BY <1>1, <1>4 DEF AuditState
<1>6. /\ a.pc = "visit" /\ a.after = audit.after /\ a.page = audit.page
      /\ a.left = audit.left \ {t} /\ a.steady = audit.steady
      /\ \A u \in Tenant : a.visits[u] = IF u = t THEN 1 ELSE audit.visits[u]
  BY <1>1, <1>4 DEF AuditState
<1> HIDE DEF a
<1>7. /\ audit.steady \subseteq subscribed
      /\ \A u \in audit.page : /\ u > audit.after
                               /\ audit.visits[u] = (IF u \in audit.left THEN 0 ELSE 1)
      /\ \A u \in Tenant :
           \/ audit.visits[u] = 0
           \/ audit.visits[u] = 1 /\ (u <= audit.after \/ u \in audit.page)
      /\ \A u \in audit.steady : u <= audit.after => audit.visits[u] = 1
      /\ audit.page # {}
      /\ \A x \in audit.steady \ audit.page : \A u \in audit.page : x > audit.after => u < x
  BY <1>1 DEF IInv, Listed
<1>8. /\ \A u \in a.page : u > a.after /\ a.visits[u] = (IF u \in a.left THEN 0 ELSE 1)
      /\ \A u \in Tenant :
           \/ a.visits[u] = 0
           \/ a.visits[u] = 1 /\ (u <= a.after \/ u \in a.page)
  BY <1>1, <1>2, <1>3, <1>6, <1>7
<1>9. \A u \in a.steady : u <= a.after => a.visits[u] = 1
  BY <1>1, <1>6, <1>7
<1>10. Listed'
  BY <1>1, <1>6, <1>7, <1>8, <1>9 DEF Listed
<1> QED
  BY <1>1, <1>5, <1>10, AuditKeeps DEF VisitTenant, IInv, TypeOK

LEMMA EndPageKeeps ==
  ASSUME IInv, EndPage
  PROVE  IInv'
<1> DEFINE last == Max(audit.page)
           a == [audit EXCEPT !.pc = "list", !.after = last, !.page = {}]
<1>1. /\ audit \in AuditState /\ audit.pc = "visit" /\ audit.left = {} /\ audit.after \in Nat
      /\ audit.page \subseteq Tenant /\ Tenant \subseteq Nat /\ subscribed' = subscribed
      /\ subscribed \subseteq Tenant
  BY TenantUsageAssumption DEF EndPage, IInv, TypeOK, AuditState
<1>2. /\ audit.steady \subseteq subscribed
      /\ \A u \in audit.page : u > audit.after /\ audit.visits[u] = 1
      /\ \A u \in Tenant :
           \/ audit.visits[u] = 0
           \/ audit.visits[u] = 1 /\ (u <= audit.after \/ u \in audit.page)
      /\ \A u \in audit.steady : u <= audit.after => audit.visits[u] = 1
      /\ audit.page # {}
      /\ \A x \in audit.steady \ audit.page : \A u \in audit.page : x > audit.after => u < x
  BY <1>1 DEF IInv, Listed
<1>3. last \in audit.page /\ \A x \in audit.page : last >= x
  <2>1. audit.page \in SUBSET Tenant /\ audit.page \subseteq Nat
    BY <1>1
  <2>2. IsFiniteSet(audit.page)
    BY <2>1, TenantUsageAssumption, FS_Subset
  <2> QED
    BY <1>2, <2>1, <2>2, Greatest
<1>4. last \in Nat /\ last > audit.after
  BY <1>1, <1>2, <1>3
<1>5. audit' = a
  BY <1>4 DEF EndPage
<1> HIDE DEF last
<1>6. a \in AuditState
  BY <1>1, <1>4 DEF AuditState
<1>7. /\ a.pc = "list" /\ a.after = last /\ a.page = {} /\ a.left = {}
      /\ a.visits = audit.visits /\ a.steady = audit.steady
  BY <1>1 DEF AuditState
<1> HIDE DEF a
<1>8. \A u \in Tenant : audit.visits[u] = 0 \/ (audit.visits[u] = 1 /\ u <= last)
  <2> TAKE u \in Tenant
  <2>1. u \in Nat
    BY <1>1
  <2> QED
    BY <1>1, <1>2, <1>3, <1>4, <2>1
<1>9. \A u \in audit.steady : u <= last => audit.visits[u] = 1
  <2> TAKE u \in audit.steady
  <2>1. u \in Nat
    BY <1>1, <1>2
  <2>2. CASE u <= audit.after \/ u \in audit.page
    BY <1>2, <2>2
  <2>3. CASE u > audit.after /\ u \notin audit.page
    BY <1>2, <1>3, <1>4, <2>1, <2>3
  <2> QED
    BY <1>1, <2>1, <2>2, <2>3
<1>10. Listed'
  BY <1>1, <1>2, <1>5, <1>7, <1>8, <1>9 DEF Listed
<1> QED
  BY <1>1, <1>5, <1>6, <1>10, AuditKeeps DEF EndPage, IInv, TypeOK

LEMMA SubscriptionsKeep ==
  ASSUME IInv, NEW t \in Tenant, Subscribe(t) \/ Unsubscribe(t)
  PROVE  IInv'
<1>1. audit \in AuditState /\ subscribed \subseteq Tenant /\ audit.steady \subseteq subscribed
  BY DEF IInv, TypeOK, Listed
<1>2. faults' \in 0 .. situation.faults
  BY FaultsAreBounded DEF Subscribe, Unsubscribe
<1>3. CASE Subscribe(t)
  <2>1. audit' = audit /\ subscribed' = subscribed \cup {t}
    BY <1>3 DEF Subscribe
  <2>2. Listed'
    BY <2>1 DEF IInv, Listed
  <2> QED
    BY <1>1, <1>2, <1>3, <2>1, <2>2, AuditKeeps DEF Subscribe
<1>4. CASE Unsubscribe(t)
  <2> DEFINE a == [audit EXCEPT !.steady = @ \ {t}]
  <2>1. audit' = a /\ subscribed' = subscribed \ {t}
    BY <1>4 DEF Unsubscribe
  <2>2. a \in AuditState
    BY <1>1 DEF AuditState
  <2>3. /\ a.pc = audit.pc /\ a.after = audit.after /\ a.page = audit.page
        /\ a.left = audit.left /\ a.visits = audit.visits /\ a.steady = audit.steady \ {t}
    BY <1>1 DEF AuditState
  <2> HIDE DEF a
  <2>4. Listed'
    BY <1>1, <2>1, <2>3 DEF IInv, Listed
  <2> QED
    BY <1>1, <1>2, <1>4, <2>1, <2>2, <2>4, AuditKeeps DEF Unsubscribe
<1> QED
  BY <1>3, <1>4

-----------------------------------------------------------------------------
(* The theorems                                                            *)

LEMMA InitIsSound ==
  Init => IInv
<1> SUFFICES ASSUME Init PROVE IInv
  OBVIOUS
<1>1. \A r \in Request : req[r] = Fresh
  BY DEF Init
<1>2. TypeOK
  <2>1. req \in [Request -> ReqState]
    BY FreshIsARequest DEF Init
  <2>2. situation \in Situations /\ permits \subseteq Permission /\ 0 \in 0 .. situation.faults
    BY TenantUsageAssumption DEF Init
  <2>3. LastDay \in Nat
    BY TenantUsageAssumption
  <2>4. peak \in [Metric -> Nat]
    BY DEF Init
  <2>5. audit \in AuditState /\ subscribed \subseteq Tenant
    BY NoAuditIsOne DEF Init
  <2> QED
    BY <2>1, <2>2, <2>3, <2>4, <2>5 DEF Init, TypeOK
<1>3. \A m : Uncounted(m) = {}
  BY <1>1, FreshIsARequest DEF Uncounted, Pending
<1>4. Metered
  <2>1. IsFiniteSet(usage)
    BY FS_EmptySet DEF Init
  <2>2. \A m \in Metric : Cardinality(Uncounted(m)) <= peak[m]
    BY <1>3, FS_EmptySet DEF Init
  <2>3. \A r \in Request : req[r].window = None
    BY <1>1, FreshIsARequest
  <2> QED
    BY <1>3, <2>1, <2>2, <2>3 DEF Metered, Init
<1>5. QuotaHolds
  <2> SUFFICES ASSUME NEW d \in 0 .. day, NEW t \in Thresholds
               PROVE  Used(t.metric, WindowOf(t.window, d))
                        + Cardinality(UncountedIn(t.metric, WindowOf(t.window, d))) <=
                      t.limit - 1 + (IF peak[t.metric] = 0 THEN 1 ELSE peak[t.metric])
    BY DEF QuotaHolds
  <2>1. \A w : UncountedIn(t.metric, w) = {}
    BY <1>3 DEF UncountedIn
  <2>2. \A w : {u \in usage : u.metric = t.metric /\ Within(u.window, w)} = {}
    BY DEF Init
  <2>3. \A w : Used(t.metric, w) = 0 /\ Cardinality(UncountedIn(t.metric, w)) = 0
    BY <2>1, <2>2, FS_EmptySet DEF Used
  <2>4. t.limit \in Nat \ {0} /\ peak[t.metric] = 0
    BY TenantUsageAssumption DEF Init
  <2> QED
    BY <2>3, <2>4
<1>6. Rooms /\ Owned
  <2>1. \A r \in Request : /\ req[r].pc = "idle" /\ req[r].tools = {} /\ req[r].view = {}
                           /\ req[r].room = << >> /\ ~req[r].ran
    BY <1>1, FreshIsARequest
  <2>2. Chat \subseteq Request /\ session = {}
    BY DEF Request, Init
  <2>3. \A r \in Request : Permitted(r, req[r])
    BY <2>1 DEF Permitted
  <2>4. \A r \in Chat : Spoken(req[r])
    BY <2>1, <2>2 DEF Spoken
  <2>5. Owned
    BY <2>1, <2>2 DEF Owned
  <2> QED
    BY <2>3, <2>4, <2>5 DEF Rooms
<1>7. Listed
  BY NoAuditIsOne DEF Init, Listed
<1> QED
  BY <1>2, <1>4, <1>5, <1>6, <1>7 DEF IInv

LEMMA NextKeeps ==
  ASSUME IInv, [Next]_vars
  PROVE  IInv'
<1>1. ASSUME NEW r \in Request,
             BeginChat(r) \/ BeginCall(r) \/ Handle(r) \/ ExecuteRefuses(r) \/ Fails(r)
      PROVE  IInv'
  <2>1. CASE BeginChat(r)
    BY <2>1, BeginChatKeeps
  <2>2. CASE BeginCall(r)
    BY <2>2, BeginCallKeeps
  <2>3. CASE ExecuteRefuses(r) \/ Execute(r) \/ ExecuteAsMember(r)
    BY <2>3, ExecuteKeeps
  <2>4. CASE Fails(r)
    BY <2>4, FailsKeeps
  <2>5. CASE ReadSession(r)
    BY <2>5, ReadSessionKeeps
  <2>6. CASE SaveSession(r)
    BY <2>6, SaveSessionKeeps
  <2>7. CASE SendMessage(r)
    BY <2>7, SendMessageKeeps
  <2>8. CASE CountMessage(r) \/ CountCall(r)
    BY <2>8, CountsKeep
  <2>9. CASE Deny(r)
    BY <2>9, DenyKeeps
  <2>10. CASE Announce(r)
    BY <2>10, AnnounceKeeps
  <2>11. CASE AnnounceRejected(r)
    BY <2>11, AnnounceRejectedKeeps
  <2>12. CASE Policy(r)
    BY <2>12, PolicyKeeps
  <2>13. CASE Answer(r)
    BY <2>13, AnswerKeeps
  <2>14. CASE Conclude(r)
    BY <2>14, ConcludeKeeps
  <2>15. CASE Apologise(r)
    BY <2>15, ApologiseKeeps
  <2> QED
    BY <1>1, <2>1, <2>2, <2>3, <2>4, <2>5, <2>6, <2>7, <2>8, <2>9, <2>10, <2>11, <2>12,
       <2>13, <2>14, <2>15 DEF Handle
<1>2. CASE Midnight
  BY <1>2, MidnightKeeps
<1>3. CASE ChangePlan \/ ChangeRole
  BY <1>3, ChangesKeep
<1>4. CASE Audit
  BY <1>4, BeginAuditKeeps, ListTenantsKeeps, VisitTenantKeeps, EndPageKeeps DEF Audit
<1>5. ASSUME NEW t \in Tenant, Subscribe(t) \/ Unsubscribe(t)
      PROVE  IInv'
  BY <1>5, SubscriptionsKeep
<1>6. CASE UNCHANGED vars
  <2>1. UNCHANGED <<day, usage, session, req, peak>>
    BY <1>6 DEF vars
  <2>2. TypeOK' /\ Listed'
    BY <1>6 DEF vars, IInv, TypeOK, Listed
  <2> QED
    BY <2>1, <2>2, NothingMoves DEF IInv
<1> QED
  BY <1>1, <1>2, <1>3, <1>4, <1>5, <1>6 DEF Next

\* The invariant holds whatever requests, days, plans and tenants do.
THEOREM Invariance == Spec => []IInv
<1>1. Init => IInv
  BY InitIsSound
<1>2. IInv /\ [Next]_vars => IInv'
  BY NextKeeps
<1> QED
  BY <1>1, <1>2, PTL DEF Spec

\* The workspace that is checked with the shell beside it is one of these: the
\* steps of the shell leave all of it alone.
THEOREM WorkspaceIsOne == WorkspaceSpec => Spec
<1>1. WorkspaceInit => Init
  BY DEF WorkspaceInit
<1>2. [WorkspaceNext]_workspaceVars => [Next]_vars
  BY DEF WorkspaceNext, workspaceVars, vars
<1> QED
  BY <1>1, <1>2, PTL DEF WorkspaceSpec, Spec

\* Every request, record of the meter and run of the audit is of its type: in
\* particular no message leads to a tool that there is not, and the window a
\* request is counted in is one of a day or month.
THEOREM TypeCorrect == WorkspaceSpec => []TypeOK
<1>1. IInv => TypeOK
  BY DEF IInv
<1> QED
  BY <1>1, Invariance, WorkspaceIsOne, PTL

\* However many requests interleave, fail, see the day change or the plan: a
\* threshold is exceeded by no more than those that were between its check and
\* the count at once.
THEOREM QuotasHold == WorkspaceSpec => []QuotaHolds
<1>1. IInv => QuotaHolds
  BY DEF IInv
<1> QED
  BY <1>1, Invariance, WorkspaceIsOne, PTL

\* What may be left in a room begins one that is answered.
LEMMA RoomsBegin ==
  /\ \E whole \in Answered : IsPrefix(<<"user">>, whole)
  /\ \E whole \in Answered : IsPrefix(<<"user", "call">>, whole)
  /\ \E whole \in Answered : IsPrefix(<<"user", "call", "result">>, whole)
  /\ \A whole \in Answered : IsPrefix(whole, whole)
<1>1. /\ IsPrefix(<<"user">>, <<"user", "assistant">>)
      /\ IsPrefix(<<"user", "call">>, <<"user", "call", "assistant">>)
      /\ IsPrefix(<<"user", "call", "result">>, <<"user", "call", "result", "assistant">>)
  BY DEF IsPrefix
<1>2. \A whole \in Answered : IsPrefix(whole, whole)
  BY DEF IsPrefix, Answered
<1> QED
  BY <1>1, <1>2 DEF Answered

\* Whatever fails, and however the messages of a member interleave with each
\* other and with a change of the role or the plan: a room makes sense.
THEOREM RoomsAlwaysMakeSense == WorkspaceSpec => []RoomsMakeSense
<1>1. ASSUME IInv PROVE RoomsMakeSense
  <2>1. \A r \in Request : req[r].ran => RequiredPermission(req[r].tool) \in req[r].grant
    BY <1>1 DEF IInv, Rooms, Permitted
  <2>2. ASSUME NEW r \in Chat
        PROVE  /\ req[r].pc = "done" => /\ req[r].room \in Answered
                                        /\ Len(req[r].room) = 4 <=> req[r].ran
               /\ req[r].room # << >> => \E whole \in Answered : IsPrefix(req[r].room, whole)
               /\ req[r].pc = "rejected" =>
                    \E s \in Chat \ {r} : req[s].pc # "idle" /\ req[s].tools # req[r].tools
    <3>1. Spoken(req[r])
      BY <1>1 DEF IInv, Rooms
    <3>2. req[r].pc \in Stages
      BY <1>1 DEF IInv, TypeOK, ReqState, Request
    <3>3. \/ req[r].room \in Answered
          \/ req[r].room \in
               {<< >>, <<"user">>, <<"user", "call">>, <<"user", "call", "result">>}
      BY <3>1, <3>2 DEF Spoken, Stages, Failed
    <3>4. req[r].room # << >> => \E whole \in Answered : IsPrefix(req[r].room, whole)
      BY <3>3, RoomsBegin
    <3>5. req[r].pc = "rejected" =>
            \E s \in Chat \ {r} : req[s].pc # "idle" /\ req[s].tools # req[r].tools
      BY <1>1 DEF IInv, Owned, Others
    <3> QED
      BY <3>1, <3>4, <3>5 DEF Spoken
  <2> QED
    BY <2>1, <2>2 DEF RoomsMakeSense
<1> QED
  BY <1>1, Invariance, WorkspaceIsOne, PTL

\* Whatever tenants come and go during it, and for every size of a page: the
\* audit visits none twice and, when it ends, has visited all that stayed.
THEOREM AuditsAreComplete == WorkspaceSpec => []AuditIsComplete
<1>1. ASSUME IInv PROVE AuditIsComplete
  <2>1. \A t \in Tenant : audit.visits[t] <= 1
    BY <1>1 DEF IInv, Listed
  <2>2. audit.pc = "done" => \A t \in audit.steady : audit.visits[t] = 1
    BY <1>1 DEF IInv, Listed
  <2> QED
    BY <1>1, <2>1, <2>2 DEF AuditIsComplete, IInv, Listed
<1> QED
  BY <1>1, Invariance, WorkspaceIsOne, PTL

-----------------------------------------------------------------------------
(* The shell                                                               *)

\* A call that nobody has aborted was made on the page that is shown; what the
\* server has done for a call that is served, it has done in a tenant.
SoundCall(q, page) ==
  /\ q \in ToolCall
  /\ q.pc = "served" => q.acted \in Workspace
  /\ q.kind = "switch" => q.to \in Workspace
  /\ q.pc \in {"sent", "served", "failed"} /\ ~q.aborted => q.from = page

\* A load that has read its tenant goes somewhere.
SoundLoad(load) ==
  /\ load \in [to : Path \cup {"nowhere"}, tenant : Workspace \cup {"unread"}]
  /\ load.tenant # "unread" => load.to \in Path

ToolsInv ==
  /\ shown \in Page /\ sessionTenant \in Workspace
  /\ SoundLoad(going)
  /\ formText \in {"stored", "filled"}
  /\ ack \in [what : {"none", "said"}, tenant : Workspace] /\ ack.tenant = shown.tenant
  /\ toolCall \in [ToolUse -> ToolCall]
  /\ \A c \in ToolUse : SoundCall(toolCall[c], shown)

Sends == {q \in DockRequest : dockRequest[q].kind = "send"}
Current == {q \in Sends : ~dockRequest[q].orphan}

\* A message that was written has one place: the draft, or one request.  Only
\* one request answers to the dock that is there, which then is sending.
Dispatched ==
  /\ \A q \in Sends : /\ dockRequest[q].pc # "idle" /\ dockRequest[q].message \in drafted
                      /\ dockRequest[q].message # dock.draft
  /\ \A q, r \in Sends : dockRequest[q].message = dockRequest[r].message => q = r
  /\ \A q, r \in Current : q = r
  /\ dock.sending <=> Current # {}
  /\ dock.sending => dock.draft = "none"
  /\ dock.draft # "none" => dock.draft \in drafted

\* A message is stored once more than its sending has failed only when it is
\* nowhere else or its request has been served.
Copied ==
  /\ \A m \in Message :
       /\ stored[m].times <= 1 + failures[m]
       /\ m \notin drafted \/ dock.draft = m => stored[m].times <= failures[m]
  /\ \A q \in Sends :
       /\ dockRequest[q].pc \in {"sent", "failed"} =>
            stored[dockRequest[q].message].times <= failures[dockRequest[q].message]
       /\ dockRequest[q].pc = "served" => stored[dockRequest[q].message].in # {}

Kept ==
  \A m \in owed :
    dock.draft = m \/ stored[m].in # {} \/ \E q \in Current : dockRequest[q].message = m

DockTyped ==
  /\ dock \in [draft : Message \cup {"none"}, sending : BOOLEAN, context : Workspace \cup {"none"}]
  /\ dockRequest \in [DockRequest -> ChatRequest]
  /\ stored \in [Message -> [times : Nat, in : SUBSET Workspace]]
  /\ failures \in [Message -> Nat]
  /\ owed \subseteq drafted /\ drafted \subseteq Message

DockInv == DockTyped /\ Dispatched /\ Copied /\ Kept

\* Of the calls, only one that is served and not aborted becomes answered.
Answers ==
  \A c \in ToolUse : toolCall'[c].pc = "answered" =>
    toolCall[c].pc = "answered" \/ (toolCall[c].pc = "served" /\ ~toolCall[c].aborted)

-----------------------------------------------------------------------------
(* The tools                                                               *)

LEMMA ToolsStay ==
  ASSUME ToolsInv, UNCHANGED <<shown, sessionTenant, going, toolVars>>
  PROVE  ToolsInv' /\ Answers
<1>1. /\ shown' = shown /\ sessionTenant' = sessionTenant /\ going' = going
      /\ formText' = formText /\ ack' = ack /\ toolCall' = toolCall
  BY DEF toolVars
<1> QED
  BY <1>1 DEF ToolsInv, Answers

\* One call is replaced, on the page that is shown.
LEMMA OneCall ==
  ASSUME ToolsInv, NEW c \in ToolUse, NEW v, SoundCall(v, shown), shown' = shown,
         toolCall' = [toolCall EXCEPT ![c] = v],
         v.pc = "answered" => toolCall[c].pc = "served" /\ ~toolCall[c].aborted
  PROVE  /\ toolCall' \in [ToolUse -> ToolCall]
         /\ \A d \in ToolUse : SoundCall(toolCall'[d], shown')
         /\ Answers
<1>1. v \in ToolCall /\ toolCall \in [ToolUse -> ToolCall]
  BY DEF SoundCall, ToolsInv
<1>2. \A d \in ToolUse : toolCall'[d] = IF d = c THEN v ELSE toolCall[d]
  BY <1>1
<1>3. \A d \in ToolUse : SoundCall(toolCall'[d], shown)
  BY <1>2 DEF ToolsInv
<1>4. \A d \in ToolUse : SoundCall(toolCall'[d], shown')
  BY <1>3
<1> QED
  BY <1>1, <1>2, <1>4 DEF Answers

\* What else there is of the page, when a call is replaced
LEMMA OneCallMore ==
  ASSUME ToolsInv, shown' = shown, sessionTenant' \in Workspace,
         formText' \in {"stored", "filled"}, ack' = ack \/ Acknowledges,
         going' = going \/ Loads(shown.path),
         toolCall' \in [ToolUse -> ToolCall],
         \A d \in ToolUse : SoundCall(toolCall'[d], shown')
  PROVE  ToolsInv'
<1>1. shown \in Page /\ shown.tenant \in Workspace /\ shown.path \in Path
  BY DEF ToolsInv, Page
<1>2. /\ ack' \in [what : {"none", "said"}, tenant : Workspace] /\ ack'.tenant = shown.tenant
  BY <1>1 DEF ToolsInv, Acknowledges
<1>3. SoundLoad(going')
  BY <1>1 DEF ToolsInv, Loads, SoundLoad
<1> QED
  BY <1>1, <1>2, <1>3 DEF ToolsInv

LEMMA RunSound ==
  ASSUME ToolsInv, NEW kind \in {"portal", "checkout", "switch", "form"},
         NEW to \in Workspace \cup Path \cup {"none"}, kind = "switch" => to \in Workspace,
         Run(kind, to)
  PROVE  ToolsInv' /\ Answers
<1>1. PICK c : c = CHOOSE d \in IdleCalls : TRUE
  OBVIOUS
<1>2. c \in ToolUse
  BY <1>1 DEF Run, IdleCalls
<1>3. PICK v : v = [pc |-> "sent", kind |-> kind, from |-> shown, to |-> to,
                    acted |-> "nowhere", aborted |-> FALSE]
  OBVIOUS
<1>5. SoundCall(v, shown) /\ v.pc # "answered"
  BY <1>3 DEF SoundCall, ToolCall, ToolsInv, Page
<1>6. toolCall' = [toolCall EXCEPT ![c] = v] /\ UNCHANGED <<shown, sessionTenant, going, formText, ack>>
  BY <1>1, <1>3 DEF Run
<1>7. /\ toolCall' \in [ToolUse -> ToolCall]
      /\ \A d \in ToolUse : SoundCall(toolCall'[d], shown')
      /\ Answers
  BY <1>2, <1>5, <1>6, OneCall
<1> QED
  BY <1>6, <1>7, OneCallMore DEF ToolsInv

\* What an endpoint has done, or that it has refused
LEMMA EndpointSound ==
  ASSUME ToolsInv, NEW c \in ToolUse, toolCall[c].pc = "sent", NEW pc \in {"served", "failed"},
         NEW t \in Workspace, sessionTenant' \in Workspace,
         UNCHANGED <<shown, going, formText, ack>>,
         \/ toolCall' = [toolCall EXCEPT ![c].acted = t, ![c].pc = pc]
         \/ toolCall' = [toolCall EXCEPT ![c].pc = "failed"]
  PROVE  ToolsInv' /\ Answers
<1> DEFINE q == toolCall[c]
<1>1. SoundCall(q, shown) /\ q \in ToolCall
  BY DEF ToolsInv, SoundCall
<1>2. PICK v : /\ v \in ToolCall /\ toolCall' = [toolCall EXCEPT ![c] = v]
               /\ v.pc \in {"served", "failed"} /\ v.kind = q.kind /\ v.from = q.from /\ v.to = q.to
               /\ v.aborted = q.aborted /\ (v.pc = "served" => v.acted \in Workspace)
  <2>1. CASE toolCall' = [toolCall EXCEPT ![c].acted = t, ![c].pc = pc]
    <3>1. PICK v : v = [q EXCEPT !.acted = t, !.pc = pc]
      OBVIOUS
    <3>2. /\ v \in ToolCall /\ v.pc = pc /\ v.kind = q.kind /\ v.from = q.from /\ v.to = q.to
          /\ v.aborted = q.aborted /\ v.acted = t
      BY <1>1, <3>1 DEF ToolCall
    <3>3. toolCall' = [toolCall EXCEPT ![c] = v]
      BY <2>1, <3>1 DEF ToolsInv
    <3> QED
      BY <3>2, <3>3
  <2>2. CASE toolCall' = [toolCall EXCEPT ![c].pc = "failed"]
    <3>1. PICK v : v = [q EXCEPT !.pc = "failed"]
      OBVIOUS
    <3>2. /\ v \in ToolCall /\ v.pc = "failed" /\ v.kind = q.kind /\ v.from = q.from /\ v.to = q.to
          /\ v.aborted = q.aborted
      BY <1>1, <3>1 DEF ToolCall
    <3>3. toolCall' = [toolCall EXCEPT ![c] = v]
      BY <2>2, <3>1 DEF ToolsInv
    <3> QED
      BY <3>2, <3>3
  <2> QED
    BY <2>1, <2>2
<1>3. SoundCall(v, shown) /\ v.pc # "answered"
  BY <1>1, <1>2 DEF SoundCall
<1>4. /\ toolCall' \in [ToolUse -> ToolCall]
      /\ \A d \in ToolUse : SoundCall(toolCall'[d], shown')
      /\ Answers
  BY <1>2, <1>3, OneCall
<1> QED
  BY <1>4, OneCallMore DEF ToolsInv

\* Each endpoint does one of the two.
LEMMA ServedSound ==
  ASSUME ToolsInv, NEW c \in ToolUse, toolCall[c].pc = "sent", NEW pc \in {"served", "failed"},
         UNCHANGED <<shown, going, formText, ack>>,
         \/ PreparePortal(c, pc) \/ PrepareCheckout(c, pc) \/ SavePrompt(c, pc)
         \/ SaveLanguage(c, pc) \/ SwitchTenant(c, pc) \/ Refuses(c)
  PROVE  ToolsInv' /\ Answers
<1>1. sessionTenant \in Workspace /\ SoundCall(toolCall[c], shown)
  BY DEF ToolsInv
<1>2. CASE Acts(c, pc) /\ UNCHANGED sessionTenant
  BY <1>1, <1>2, EndpointSound DEF Acts
<1>3. CASE Refuses(c)
  BY <1>1, <1>3, EndpointSound DEF Refuses
<1>4. CASE SwitchTenant(c, pc)
  <2>1. toolCall[c].to \in Workspace
    BY <1>1, <1>4 DEF SwitchTenant, SoundCall
  <2>2. /\ sessionTenant' \in Workspace
        /\ toolCall' = [toolCall EXCEPT ![c].acted = toolCall[c].to, ![c].pc = pc]
    BY <1>4, <2>1 DEF SwitchTenant
  <2> QED
    BY <2>1, <2>2, EndpointSound
<1> QED
  BY <1>2, <1>3, <1>4 DEF PreparePortal, PrepareCheckout, SavePrompt, SaveLanguage, Save

LEMMA AbortSound ==
  ASSUME ToolsInv, NEW c \in ToolUse, CallerAbort(c)
  PROVE  ToolsInv' /\ Answers
<1> DEFINE q == toolCall[c]
<1>1. SoundCall(q, shown) /\ q \in ToolCall /\ q.pc \in {"sent", "served", "failed"}
  BY DEF ToolsInv, SoundCall, CallerAbort, UnderWay
<1>2. PICK v : v = [q EXCEPT !.aborted = TRUE]
  OBVIOUS
<1>3. /\ v \in ToolCall /\ v.pc = q.pc /\ v.kind = q.kind /\ v.from = q.from /\ v.to = q.to
      /\ v.acted = q.acted /\ v.aborted
  BY <1>1, <1>2 DEF ToolCall
<1>4. toolCall' = [toolCall EXCEPT ![c] = v] /\ UNCHANGED <<shown, sessionTenant, going, formText, ack>>
  BY <1>2 DEF CallerAbort, ToolsInv
<1>5. SoundCall(v, shown) /\ v.pc # "answered"
  BY <1>1, <1>3 DEF SoundCall
<1>6. /\ toolCall' \in [ToolUse -> ToolCall]
      /\ \A d \in ToolUse : SoundCall(toolCall'[d], shown')
      /\ Answers
  BY <1>4, <1>5, OneCall
<1> QED
  BY <1>4, <1>6, OneCallMore DEF ToolsInv

LEMMA NoCallSound == SoundCall(NoCall, shown) /\ NoCall.pc # "answered"
  BY DEF SoundCall, ToolCall, NoCall, NoPage

LEMMA AnswerSound ==
  ASSUME ToolsInv, NEW c \in ToolUse, AnswerCall(c) \/ HearAnswer(c)
  PROVE  ToolsInv' /\ Answers
<1> DEFINE q == toolCall[c]
<1>1. SoundCall(q, shown) /\ q \in ToolCall
  BY DEF ToolsInv, SoundCall
<1>2. PICK v : /\ toolCall' = [toolCall EXCEPT ![c] = v] /\ SoundCall(v, shown)
               /\ v.pc = "answered" => q.pc = "served" /\ ~q.aborted
  <2>1. CASE toolCall' = [toolCall EXCEPT ![c] = NoCall]
    BY <2>1, NoCallSound
  <2>2. CASE AnswerCall(c) /\ q.pc = "served" /\ ~q.aborted
    <3>1. PICK v : v = [q EXCEPT !.pc = "answered"]
      OBVIOUS
    <3>2. v \in ToolCall /\ v.pc = "answered" /\ v.kind = q.kind /\ v.to = q.to
      BY <1>1, <3>1 DEF ToolCall
    <3>3. toolCall' = [toolCall EXCEPT ![c] = v]
      BY <2>2, <3>1 DEF AnswerCall, Respond, ToolsInv
    <3>4. SoundCall(v, shown)
      BY <1>1, <3>2 DEF SoundCall
    <3> QED
      BY <2>2, <3>3, <3>4
  <2> QED
    BY <2>1, <2>2 DEF AnswerCall, Respond, HearAnswer
<1>3. /\ toolCall' \in [ToolUse -> ToolCall]
      /\ \A d \in ToolUse : SoundCall(toolCall'[d], shown')
      /\ Answers
  <2>1. UNCHANGED shown
    BY DEF AnswerCall, Respond, HearAnswer
  <2> QED
    BY <1>2, <2>1, OneCall
<1>4. /\ shown' = shown /\ sessionTenant' = sessionTenant /\ formText' = formText
      /\ ack' = ack \/ Acknowledges
      /\ going' = going \/ Loads(shown.path)
  BY DEF AnswerCall, Respond, HearAnswer
<1> QED
  BY <1>3, <1>4, OneCallMore DEF ToolsInv

\* A page arrives: unless it is the one that was shown, what is under way is
\* aborted.
LEMMA ArriveSound ==
  ASSUME ToolsInv, Arrive
  PROVE  ToolsInv' /\ Answers
<1>1. PICK page : page = [tenant |-> going.tenant, path |-> going.to]
  OBVIOUS
<1>2. page \in Page /\ page.tenant = going.tenant /\ page.tenant \in Workspace
  BY <1>1 DEF ToolsInv, Page, Arrive, SoundLoad
<1>3. /\ going' = NoLoad /\ shown' = page
      /\ toolCall' = IF page = shown THEN toolCall ELSE Disposed
      /\ ack' = IF page.tenant = shown.tenant THEN ack ELSE [what |-> "none", tenant |-> page.tenant]
      /\ formText' \in IF page.path = shown.path THEN {formText, "stored"} ELSE {"stored"}
      /\ UNCHANGED sessionTenant
  BY <1>1 DEF Arrive
<1>4. \A c \in ToolUse : SoundCall(toolCall[c], shown) /\ toolCall[c] \in ToolCall
  BY DEF ToolsInv, SoundCall
<1>5. /\ toolCall' \in [ToolUse -> ToolCall]
      /\ \A c \in ToolUse : SoundCall(toolCall'[c], page) /\ toolCall'[c].pc = toolCall[c].pc
  <2>1. CASE page = shown
    BY <1>3, <1>4, <2>1 DEF ToolsInv
  <2>2. CASE page # shown
    <3>1. \A c \in ToolUse :
            /\ [toolCall[c] EXCEPT !.aborted = TRUE] \in ToolCall
            /\ SoundCall([toolCall[c] EXCEPT !.aborted = TRUE], page)
            /\ [toolCall[c] EXCEPT !.aborted = TRUE].pc = toolCall[c].pc
      <4>1. TAKE c \in ToolUse
      <4>2. PICK q : q = toolCall[c]
        OBVIOUS
      <4>3. PICK v : v = [q EXCEPT !.aborted = TRUE]
        OBVIOUS
      <4>4. q \in ToolCall /\ SoundCall(q, shown)
        BY <1>4, <4>2
      <4>5. /\ v \in ToolCall /\ v.pc = q.pc /\ v.kind = q.kind /\ v.from = q.from /\ v.to = q.to
            /\ v.acted = q.acted /\ v.aborted
        BY <4>3, <4>4 DEF ToolCall
      <4>6. SoundCall(v, page)
        BY <4>4, <4>5 DEF SoundCall
      <4> QED
        BY <4>2, <4>3, <4>5, <4>6
    <3>2. \A c \in ToolUse : ~UnderWay(c) => SoundCall(toolCall[c], page)
      BY <1>4 DEF SoundCall, UnderWay
    <3>3. toolCall' = Disposed
      BY <1>3, <2>2
    <3> QED
      BY <1>4, <3>1, <3>2, <3>3 DEF Disposed
  <2> QED
    BY <2>1, <2>2
<1>6. Answers
  BY <1>5 DEF Answers
<1>7. shown' \in Page /\ \A c \in ToolUse : SoundCall(toolCall'[c], shown')
  BY <1>2, <1>3, <1>5
<1>8. ack' \in [what : {"none", "said"}, tenant : Workspace] /\ ack'.tenant = shown'.tenant
  BY <1>2, <1>3 DEF ToolsInv
<1>9. SoundLoad(going')
  BY <1>3 DEF NoLoad, SoundLoad
<1>10. formText' \in {"stored", "filled"} /\ sessionTenant' \in Workspace
  BY <1>3 DEF ToolsInv
<1> QED
  BY <1>5, <1>6, <1>7, <1>8, <1>9, <1>10 DEF ToolsInv

\* The calls stand still, and so does the page.
LEMMA CallsStay ==
  ASSUME ToolsInv, shown' = shown, toolCall' = toolCall, sessionTenant' \in Workspace,
         SoundLoad(going'),
         formText' \in {"stored", "filled"}, ack' = ack \/ Acknowledges
  PROVE  ToolsInv' /\ Answers
<1>1. ack' \in [what : {"none", "said"}, tenant : Workspace] /\ ack'.tenant = shown.tenant
  BY DEF ToolsInv, Acknowledges, Page
<1> QED
  BY <1>1 DEF ToolsInv, Answers

LEMMA PageMovesSound ==
  ASSUME ToolsInv, PageMoves
  PROVE  ToolsInv' /\ Answers
<1>1. CASE SwitchElsewhere
  BY <1>1, CallsStay DEF SwitchElsewhere, ToolsInv, toolVars
<1>2. CASE Revisit
  BY <1>2, CallsStay DEF Revisit, ToolsInv, Loads, SoundLoad, Page, toolVars
<1>3. CASE LoadPage
  BY <1>3, CallsStay DEF LoadPage, SoundLoad, ToolsInv, toolVars
<1> QED
  BY <1>1, <1>2, <1>3, ArriveSound DEF PageMoves

LEMMA ToolStepSound ==
  ASSUME ToolsInv, ToolStep
  PROVE  ToolsInv' /\ Answers
<1>1. CASE PageMoves
  BY <1>1, PageMovesSound
<1>2. CASE NavigateTool
  BY <1>2, CallsStay DEF NavigateTool, ToolsInv, Loads, SoundLoad
<1>3. CASE PortalTool \/ CheckoutTool
  BY <1>3, RunSound DEF PortalTool, CheckoutTool
<1>4. CASE SwitchTool
  BY <1>4, RunSound DEF SwitchTool
<1>5. CASE SetTheme
  BY <1>5, CallsStay DEF SetTheme, ToolsInv
<1>6. ASSUME NEW form \in Path, FillForm(form) PROVE ToolsInv' /\ Answers
  BY <1>6, CallsStay DEF FillForm, ToolsInv
<1>7. ASSUME NEW form \in Path, SubmitForm(form) PROVE ToolsInv' /\ Answers
  BY <1>7, RunSound DEF SubmitForm
<1>8. ASSUME NEW c \in ToolUse, ServeCall(c) PROVE ToolsInv' /\ Answers
  BY <1>8, ServedSound DEF ServeCall
<1>9. ASSUME NEW c \in ToolUse, FailCall(c) PROVE ToolsInv' /\ Answers
  BY <1>9, ServedSound DEF FailCall
<1> QED
  BY <1>1, <1>2, <1>3, <1>4, <1>5, <1>6, <1>7, <1>8, <1>9, AbortSound, AnswerSound DEF ToolStep

-----------------------------------------------------------------------------
(* The dock                                                                *)

LEMMA DockStays ==
  ASSUME DockInv, UNCHANGED dockVars
  PROVE  DockInv'
<1>1. /\ dock' = dock /\ dockRequest' = dockRequest /\ stored' = stored
      /\ owed' = owed /\ drafted' = drafted /\ failures' = failures
  BY DEF dockVars
<1>2. Sends' = Sends /\ Current' = Current
  BY <1>1 DEF Sends, Current
<1>3. DockTyped'
  BY <1>1 DEF DockInv, DockTyped
<1>4. Dispatched'
  BY <1>1, <1>2 DEF DockInv, Dispatched
<1>5. Copied'
  BY <1>1, <1>2 DEF DockInv, Copied
<1>6. Kept'
  BY <1>1, <1>2 DEF DockInv, Kept
<1> QED
  BY <1>3, <1>4, <1>5, <1>6 DEF DockInv

\* One request is replaced by v: the sends are those that were, but for it.
LEMMA OneRequest ==
  ASSUME DockInv, NEW q \in DockRequest, NEW v \in ChatRequest,
         dockRequest' = [dockRequest EXCEPT ![q] = v]
  PROVE  /\ dockRequest' \in [DockRequest -> ChatRequest]
         /\ \A r \in DockRequest : dockRequest'[r] = IF r = q THEN v ELSE dockRequest[r]
         /\ Sends \subseteq DockRequest /\ Sends' \subseteq DockRequest
         /\ \A r \in DockRequest \ {q} : /\ r \in Sends' <=> r \in Sends
                                         /\ r \in Current' <=> r \in Current
         /\ q \in Sends' <=> v.kind = "send"
         /\ q \in Current' <=> v.kind = "send" /\ ~v.orphan
<1>1. dockRequest \in [DockRequest -> ChatRequest]
  BY DEF DockInv, DockTyped
<1>2. \A r \in DockRequest : dockRequest'[r] = IF r = q THEN v ELSE dockRequest[r]
  BY <1>1
<1>3. \A r \in DockRequest : /\ r \in Sends <=> dockRequest[r].kind = "send"
                             /\ r \in Sends' <=> dockRequest'[r].kind = "send"
  BY DEF Sends
<1>4. \A r \in DockRequest : /\ r \in Current <=> r \in Sends /\ ~dockRequest[r].orphan
                             /\ r \in Current' <=> r \in Sends' /\ ~dockRequest'[r].orphan
  BY DEF Current
<1>5. dockRequest' \in [DockRequest -> ChatRequest]
  BY <1>1
<1>6. Sends \subseteq DockRequest /\ Sends' \subseteq DockRequest
  BY DEF Sends
<1>7. \A r \in DockRequest \ {q} : /\ r \in Sends' <=> r \in Sends
                                   /\ r \in Current' <=> r \in Current
  BY <1>2, <1>3, <1>4
<1>8. /\ q \in Sends' <=> v.kind = "send"
      /\ q \in Current' <=> v.kind = "send" /\ ~v.orphan
  BY <1>2, <1>3, <1>4
<1> QED
  BY <1>2, <1>5, <1>6, <1>7, <1>8

\* A load of the chat is begun, dealt with or received.
LEMMA LoadsSound ==
  ASSUME DockInv, NEW q \in DockRequest, NEW v \in ChatRequest,
         dockRequest' = [dockRequest EXCEPT ![q] = v],
         dockRequest[q].kind # "send", v.kind # "send",
         dock' \in [draft : Message \cup {"none"}, sending : BOOLEAN, context : Workspace \cup {"none"}],
         dock'.draft = dock.draft, dock'.sending <=> dock.sending,
         UNCHANGED <<stored, owed, drafted, failures>>
  PROVE  DockInv'
<1>1. /\ dockRequest' \in [DockRequest -> ChatRequest]
      /\ \A r \in DockRequest : dockRequest'[r] = IF r = q THEN v ELSE dockRequest[r]
      /\ Sends \subseteq DockRequest /\ Sends' \subseteq DockRequest
      /\ \A r \in DockRequest \ {q} : /\ r \in Sends' <=> r \in Sends
                                      /\ r \in Current' <=> r \in Current
      /\ q \notin Sends' /\ q \notin Current'
  BY OneRequest
<1>2. q \notin Sends /\ q \notin Current /\ Current \subseteq DockRequest /\ Current' \subseteq DockRequest
  BY DEF Sends, Current
<1>3. Sends' = Sends /\ Current' = Current
  BY <1>1, <1>2
<1>4. \A r \in Sends : dockRequest'[r] = dockRequest[r]
  BY <1>1, <1>2
<1>5. \A r \in Current : r \in Sends
  BY DEF Current
<1>6. DockTyped'
  BY <1>1 DEF DockInv, DockTyped
<1>7. Dispatched'
  BY <1>3, <1>4, <1>5 DEF DockInv, Dispatched
<1>8. Copied'
  BY <1>3, <1>4 DEF DockInv, Copied
<1>9. Kept'
  BY <1>3, <1>4, <1>5 DEF DockInv, Kept
<1> QED
  BY <1>6, <1>7, <1>8, <1>9 DEF DockInv

\* A request goes out by one that is idle, which is not a send.
LEMMA RequestGoesOut ==
  ASSUME DockInv, NEW kind, NEW message, Requests(kind, message)
  PROVE  \E q \in DockRequest :
           /\ dockRequest[q].pc = "idle" /\ dockRequest[q].kind # "send"
           /\ dockRequest' = [dockRequest EXCEPT ![q] =
                [pc |-> "sent", kind |-> kind, message |-> message, orphan |-> FALSE]]
<1>1. PICK q : q = CHOOSE r \in IdleRequests : TRUE
  OBVIOUS
<1>2. q \in IdleRequests
  BY <1>1 DEF Requests
<1>3. q \in DockRequest /\ dockRequest[q].pc = "idle"
  BY <1>2 DEF IdleRequests
<1>4. dockRequest[q].kind # "send"
  BY <1>3 DEF DockInv, Dispatched, Sends
<1> QED
  BY <1>1, <1>3, <1>4 DEF Requests

LEMMA BeginLoadSound ==
  ASSUME DockInv, ToolsInv, LoadOnChange \/ LoadChat
  PROVE  DockInv'
<1>1. Requests("load", "none") /\ UNCHANGED <<stored, owed, drafted, failures>>
  BY DEF LoadOnChange, LoadChat
<1>2. PICK v : v = [pc |-> "sent", kind |-> "load", message |-> "none", orphan |-> FALSE]
  OBVIOUS
<1>3. PICK q \in DockRequest :
        dockRequest[q].kind # "send" /\ dockRequest' = [dockRequest EXCEPT ![q] = v]
  BY <1>1, <1>2, RequestGoesOut
<1>4. v \in ChatRequest /\ v.kind # "send"
  BY <1>2 DEF ChatRequest
<1>5. /\ dock' \in [draft : Message \cup {"none"}, sending : BOOLEAN, context : Workspace \cup {"none"}]
      /\ dock'.draft = dock.draft /\ dock'.sending = dock.sending
  BY DEF LoadOnChange, LoadChat, DockInv, DockTyped, ToolsInv, Page
<1> QED
  BY <1>1, <1>3, <1>4, <1>5, LoadsSound

LEMMA WriteSound ==
  ASSUME DockInv, WriteMessage
  PROVE  DockInv'
<1>1. PICK m \in Message \ drafted :
        /\ dock' = [dock EXCEPT !.draft = m]
        /\ drafted' = drafted \cup {m} /\ owed' = (owed \ {dock.draft}) \cup {m}
  BY DEF WriteMessage
<1>2. ~dock.sending /\ UNCHANGED <<dockRequest, stored, failures>>
  BY DEF WriteMessage
<1>3. /\ dock' \in [draft : Message \cup {"none"}, sending : BOOLEAN, context : Workspace \cup {"none"}]
      /\ dock'.draft = m /\ dock'.sending = dock.sending
  BY <1>1 DEF DockInv, DockTyped
<1>4. Sends' = Sends /\ Current' = Current
  BY <1>2 DEF Sends, Current
<1>5. m # "none"
  BY ShellAssumption
<1>6. DockTyped'
  BY <1>1, <1>2, <1>3 DEF DockInv, DockTyped
<1>7. Dispatched'
  BY <1>1, <1>2, <1>3, <1>4 DEF DockInv, Dispatched
<1>8. Copied'
  BY <1>1, <1>2, <1>3, <1>4 DEF DockInv, Copied
<1>9. Kept'
  BY <1>1, <1>2, <1>3, <1>4 DEF DockInv, Kept
<1> QED
  BY <1>6, <1>7, <1>8, <1>9 DEF DockInv

LEMMA SendSound ==
  ASSUME DockInv, SendDraft
  PROVE  DockInv'
<1>1. PICK m : m = dock.draft
  OBVIOUS
<1>2. /\ m # "none" /\ ~dock.sending /\ Requests("send", m)
      /\ dock' = [dock EXCEPT !.draft = "none", !.sending = TRUE]
      /\ UNCHANGED <<stored, owed, drafted, failures>>
  BY <1>1 DEF SendDraft
<1>3. m \in Message /\ m \in drafted
  BY <1>1, <1>2 DEF DockInv, DockTyped, Dispatched
<1>4. PICK v : v = [pc |-> "sent", kind |-> "send", message |-> m, orphan |-> FALSE]
  OBVIOUS
<1>5. PICK q \in DockRequest :
        dockRequest[q].kind # "send" /\ dockRequest' = [dockRequest EXCEPT ![q] = v]
  BY <1>2, <1>4, RequestGoesOut
<1>6. /\ v \in ChatRequest /\ v.kind = "send" /\ v.message = m /\ v.pc = "sent" /\ ~v.orphan
  BY <1>3, <1>4 DEF ChatRequest
<1>7. /\ dockRequest' \in [DockRequest -> ChatRequest]
      /\ \A r \in DockRequest : dockRequest'[r] = IF r = q THEN v ELSE dockRequest[r]
      /\ Sends \subseteq DockRequest /\ Sends' \subseteq DockRequest
      /\ \A r \in DockRequest \ {q} : /\ r \in Sends' <=> r \in Sends
                                      /\ r \in Current' <=> r \in Current
      /\ q \in Sends' /\ q \in Current'
  BY <1>5, <1>6, OneRequest
<1>8. q \notin Sends /\ Current = {}
  BY <1>2, <1>5 DEF Sends, DockInv, Dispatched
<1>9. Sends' = Sends \cup {q} /\ Current' = {q}
  <2>1. Current' \subseteq DockRequest
    BY DEF Current, Sends
  <2> QED
    BY <1>7, <1>8, <2>1
<1>10. \A r \in Sends : dockRequest'[r] = dockRequest[r]
  BY <1>7, <1>8
<1>11. dockRequest'[q] = v
  BY <1>7
<1>12. /\ dock' \in [draft : Message \cup {"none"}, sending : BOOLEAN, context : Workspace \cup {"none"}]
       /\ dock'.draft = "none" /\ dock'.sending
  BY <1>2 DEF DockInv, DockTyped
<1>13. DockTyped'
  BY <1>2, <1>7, <1>12 DEF DockInv, DockTyped
<1>14. Dispatched'
  <2>1. \A r \in Sends : dockRequest[r].message # m /\ dockRequest[r].message \in drafted
                         /\ dockRequest[r].pc # "idle"
    BY <1>1 DEF DockInv, Dispatched
  <2>2. \A r \in Sends : dockRequest[r].message # "none"
    BY <2>1, ShellAssumption DEF DockInv, DockTyped
  <2>3. \A r, s \in Sends : dockRequest[r].message = dockRequest[s].message => r = s
    BY DEF DockInv, Dispatched
  <2>4. \A r \in Sends' : /\ dockRequest'[r].pc # "idle" /\ dockRequest'[r].message \in drafted'
                          /\ dockRequest'[r].message # dock'.draft
    BY <1>2, <1>3, <1>6, <1>9, <1>10, <1>11, <1>12, <2>1, <2>2
  <2>5. \A r, s \in Sends' : dockRequest'[r].message = dockRequest'[s].message => r = s
    BY <1>6, <1>9, <1>10, <1>11, <2>1, <2>3
  <2> QED
    BY <1>9, <1>12, <2>4, <2>5 DEF Dispatched
<1>15. Copied'
  <2>1. \A n \in Message : n # "none"
    BY ShellAssumption
  <2>2. stored[m].times <= failures[m]
    BY <1>1, <1>3 DEF DockInv, Copied
  <2>3. \A n \in Message :
          /\ stored'[n].times <= 1 + failures'[n]
          /\ n \notin drafted' \/ dock'.draft = n => stored'[n].times <= failures'[n]
    BY <1>2, <1>12, <2>1 DEF DockInv, Copied
  <2>4. \A r \in Sends' :
          /\ dockRequest'[r].pc \in {"sent", "failed"} =>
               stored'[dockRequest'[r].message].times <= failures'[dockRequest'[r].message]
          /\ dockRequest'[r].pc = "served" => stored'[dockRequest'[r].message].in # {}
    BY <1>2, <1>6, <1>9, <1>10, <1>11, <2>2 DEF DockInv, Copied
  <2> QED
    BY <2>3, <2>4 DEF Copied
<1>16. Kept'
  BY <1>1, <1>2, <1>6, <1>8, <1>9, <1>11 DEF DockInv, Kept
<1> QED
  BY <1>13, <1>14, <1>15, <1>16 DEF DockInv

\* A message on its way is dealt with: stored, or failed, or both.
LEMMA DealtWithSound ==
  ASSUME DockInv, NEW q \in Sends, NEW v \in ChatRequest, NEW m \in Message,
         m = dockRequest[q].message, v.message = m, v.kind = "send",
         v.pc \in {"served", "failed"}, v.orphan = dockRequest[q].orphan,
         NEW s \in [times : Nat, in : SUBSET Workspace], NEW f \in Nat,
         stored[m].in \subseteq s.in, s.times <= 1 + f,
         v.pc = "failed" => s.times <= f, v.pc = "served" => s.in # {},
         dockRequest' = [dockRequest EXCEPT ![q] = v],
         stored' = [stored EXCEPT ![m] = s], failures' = [failures EXCEPT ![m] = f],
         UNCHANGED <<dock, owed, drafted>>
  PROVE  DockInv'
<1>1. q \in DockRequest
  BY DEF Sends
<1>2. /\ dockRequest' \in [DockRequest -> ChatRequest]
      /\ \A r \in DockRequest : dockRequest'[r] = IF r = q THEN v ELSE dockRequest[r]
      /\ Sends \subseteq DockRequest /\ Sends' \subseteq DockRequest
      /\ \A r \in DockRequest \ {q} : /\ r \in Sends' <=> r \in Sends
                                      /\ r \in Current' <=> r \in Current
      /\ q \in Sends' /\ (q \in Current' <=> ~v.orphan)
  BY <1>1, OneRequest
<1>3. q \in Current <=> ~v.orphan
  BY DEF Current
<1>4. Current \subseteq Sends /\ Current' \subseteq Sends'
  BY DEF Current
<1>5. Sends' = Sends /\ Current' = Current
  <2>1. \A r \in DockRequest : /\ r \in Sends' <=> r \in Sends
                               /\ r \in Current' <=> r \in Current
    <3>1. q \in Sends /\ (q \in Current <=> q \in Current')
      BY <1>2, <1>3
    <3> QED
      BY <1>2, <3>1
  <2>2. Sends' = Sends
    BY <1>2, <2>1
  <2> QED
    BY <1>2, <1>4, <2>1, <2>2
<1>6. \A r \in Sends : /\ r # q => dockRequest'[r] = dockRequest[r]
                       /\ dockRequest'[r].message = dockRequest[r].message
  BY <1>2
<1>7. dockRequest'[q] = v
  BY <1>1, <1>2
<1>8. /\ \A n \in Message : /\ stored'[n] = IF n = m THEN s ELSE stored[n]
                            /\ failures'[n] = IF n = m THEN f ELSE failures[n]
      /\ stored' \in [Message -> [times : Nat, in : SUBSET Workspace]]
      /\ failures' \in [Message -> Nat]
  BY DEF DockInv, DockTyped
<1>9. DockTyped'
  BY <1>2, <1>8 DEF DockInv, DockTyped
<1>10. Dispatched'
  <2>1. \A r \in Sends : dockRequest'[r].pc # "idle"
    BY <1>6, <1>7 DEF DockInv, Dispatched
  <2> QED
    BY <1>4, <1>5, <1>6, <2>1 DEF DockInv, Dispatched
<1>11. m \in drafted /\ dock.draft # m
  BY DEF DockInv, Dispatched
<1>12. \A r \in Sends : r # q => dockRequest[r].message # m
  BY DEF DockInv, Dispatched
<1>13. Copied'
  <2>1. \A n \in Message :
          /\ stored'[n].times <= 1 + failures'[n]
          /\ n \notin drafted \/ dock.draft = n => stored'[n].times <= failures'[n]
    BY <1>8, <1>11 DEF DockInv, Copied
  <2>2. \A r \in Sends : dockRequest[r].message \in Message
    BY DEF DockInv, DockTyped, Dispatched
  <2>3. \A r \in Sends : r # q =>
          /\ dockRequest'[r].pc \in {"sent", "failed"} =>
               stored'[dockRequest'[r].message].times <= failures'[dockRequest'[r].message]
          /\ dockRequest'[r].pc = "served" => stored'[dockRequest'[r].message].in # {}
    BY <1>6, <1>8, <1>12, <2>2 DEF DockInv, Copied
  <2>4. /\ v.pc \in {"sent", "failed"} => stored'[v.message].times <= failures'[v.message]
        /\ v.pc = "served" => stored'[v.message].in # {}
    BY <1>8
  <2> QED
    BY <1>5, <1>7, <2>1, <2>3, <2>4 DEF Copied
<1>14. Kept'
  <2>1. \A n \in owed : stored[n].in # {} => stored'[n].in # {}
    BY <1>8 DEF DockInv, DockTyped
  <2> QED
    BY <1>4, <1>5, <1>6, <2>1 DEF DockInv, Kept
<1> QED
  BY <1>9, <1>10, <1>13, <1>14 DEF DockInv

\* A message has been sent, or is back in the draft; or the dock that sent it
\* is gone.
LEMMA SendEndsSound ==
  ASSUME DockInv, NEW q \in Sends, NEW m, m = dockRequest[q].message,
         dockRequest' = [dockRequest EXCEPT ![q] = NoRequest],
         UNCHANGED <<stored, owed, drafted, failures>>,
         dock' \in [draft : Message \cup {"none"}, sending : BOOLEAN, context : Workspace \cup {"none"}],
         \/ dockRequest[q].orphan /\ dock' = dock
         \/ /\ ~dockRequest[q].orphan /\ ~dock'.sending
            /\ \/ dock'.draft = m /\ dockRequest[q].pc = "failed"
               \/ dock'.draft = dock.draft /\ dockRequest[q].pc = "served"
  PROVE  DockInv'
<1>1. q \in DockRequest /\ NoRequest \in ChatRequest /\ NoRequest.kind # "send"
  BY DEF Sends, NoRequest, ChatRequest
<1>2. /\ dockRequest' \in [DockRequest -> ChatRequest]
      /\ \A r \in DockRequest : dockRequest'[r] = IF r = q THEN NoRequest ELSE dockRequest[r]
      /\ Sends \subseteq DockRequest /\ Sends' \subseteq DockRequest
      /\ \A r \in DockRequest \ {q} : /\ r \in Sends' <=> r \in Sends
                                      /\ r \in Current' <=> r \in Current
      /\ q \notin Sends' /\ q \notin Current'
  BY <1>1, OneRequest
<1>3. Current \subseteq Sends /\ Current' \subseteq Sends'
  BY DEF Current
<1>4. Sends' = Sends \ {q} /\ Current' = Current \ {q}
  BY <1>2, <1>3
<1>5. \A r \in Sends' : dockRequest'[r] = dockRequest[r]
  BY <1>2, <1>4
<1>6. DockTyped'
  BY <1>2 DEF DockInv, DockTyped
<1>7. m \in drafted /\ m \in Message /\ m # "none"
  BY ShellAssumption DEF DockInv, DockTyped, Dispatched
<1>8. \A r \in Sends' : dockRequest[r].message # m
  BY <1>4 DEF DockInv, Dispatched
<1>9. CASE dockRequest[q].orphan /\ dock' = dock
  <2>1. Current' = Current
    BY <1>4, <1>9 DEF Current
  <2>2. Dispatched'
    BY <1>3, <1>4, <1>5, <1>9, <2>1 DEF DockInv, Dispatched
  <2>3. Copied'
    BY <1>4, <1>5, <1>9 DEF DockInv, Copied
  <2>4. Kept'
    BY <1>3, <1>4, <1>5, <1>9, <2>1 DEF DockInv, Kept
  <2> QED
    BY <1>6, <2>2, <2>3, <2>4 DEF DockInv
<1>10. CASE /\ ~dockRequest[q].orphan /\ ~dock'.sending
            /\ \/ dock'.draft = m /\ dockRequest[q].pc = "failed"
               \/ dock'.draft = dock.draft /\ dockRequest[q].pc = "served"
  <2>1. q \in Current /\ Current = {q} /\ Current' = {}
    BY <1>4, <1>10 DEF Current, DockInv, Dispatched
  <2>2. dock.sending /\ dock.draft = "none"
    BY <2>1 DEF DockInv, Dispatched
  <2>3. Dispatched'
    <3>1. \A r \in Sends' : /\ dockRequest'[r].pc # "idle" /\ dockRequest'[r].message \in drafted
                            /\ dockRequest'[r].message # dock'.draft
      BY <1>4, <1>5, <1>8, <1>10 DEF DockInv, Dispatched
    <3>2. \A r, t \in Sends' : dockRequest'[r].message = dockRequest'[t].message => r = t
      BY <1>4, <1>5 DEF DockInv, Dispatched
    <3>3. dock'.draft # "none" => dock'.draft \in drafted
      BY <1>7, <1>10, <2>2
    <3> QED
      BY <1>10, <2>1, <3>1, <3>2, <3>3 DEF Dispatched
  <2>4. Copied'
    <3>1. dockRequest[q].pc = "failed" => stored[m].times <= failures[m]
      BY DEF DockInv, Copied
    <3>2. \A n \in Message : /\ stored[n].times <= 1 + failures[n]
                             /\ n \notin drafted => stored[n].times <= failures[n]
      BY DEF DockInv, Copied
    <3>3. \A n \in Message : dock'.draft = n => stored[n].times <= failures[n]
      BY <1>10, <2>2, <3>1, ShellAssumption
    <3>4. \A r \in Sends' :
            /\ dockRequest'[r].pc \in {"sent", "failed"} =>
                 stored[dockRequest'[r].message].times <= failures[dockRequest'[r].message]
            /\ dockRequest'[r].pc = "served" => stored[dockRequest'[r].message].in # {}
      BY <1>4, <1>5 DEF DockInv, Copied
    <3> QED
      BY <3>2, <3>3, <3>4 DEF Copied
  <2>5. Kept'
    <3>1. dockRequest[q].pc = "served" => stored[m].in # {}
      BY DEF DockInv, Copied
    <3>2. \A n \in owed : n # "none"
      BY ShellAssumption DEF DockInv, DockTyped
    <3>3. \A n \in owed : stored[n].in # {} \/ n = m
      BY <2>1, <2>2, <3>2 DEF DockInv, Kept
    <3>4. \A n \in owed : stored[n].in # {} \/ dock'.draft = n
      BY <1>10, <3>1, <3>3
    <3> QED
      BY <3>4 DEF Kept
  <2> QED
    BY <1>6, <2>3, <2>4, <2>5 DEF DockInv
<1> QED
  BY <1>9, <1>10

\* What the endpoint stores of a message
LEMMA StoresOne ==
  ASSUME DockInv, NEW q \in Sends, NEW m, m = dockRequest[q].message, sessionTenant \in Workspace
  PROVE  /\ m \in Message /\ stored[m] \in [times : Nat, in : SUBSET Workspace]
         /\ \E s \in [times : Nat, in : SUBSET Workspace] :
              /\ Stores(q) = [stored EXCEPT ![m] = s]
              /\ stored[m].in \subseteq s.in /\ s.in # {} /\ s.times = stored[m].times + 1
<1>1. m \in Message /\ dockRequest[q].kind = "send"
  BY DEF DockInv, DockTyped, Dispatched, Sends
<1>2. PICK old : old = stored[m]
  OBVIOUS
<1>3. old \in [times : Nat, in : SUBSET Workspace]
  BY <1>1, <1>2 DEF DockInv, DockTyped
<1>4. PICK s : s = [times |-> old.times + 1, in |-> old.in \cup {sessionTenant}]
  OBVIOUS
<1>5. /\ s \in [times : Nat, in : SUBSET Workspace]
      /\ old.in \subseteq s.in /\ s.in # {} /\ s.times = old.times + 1
  BY <1>3, <1>4
<1>6. Stores(q) = [stored EXCEPT ![m] = s]
  BY <1>1, <1>2, <1>4 DEF Stores, DockInv, DockTyped
<1> QED
  BY <1>1, <1>2, <1>3, <1>5, <1>6

LEMMA ServeDockSound ==
  ASSUME DockInv, sessionTenant \in Workspace, NEW q \in DockRequest, ServeDock(q) \/ FailDock(q)
  PROVE  DockInv'
<1>1. PICK pc \in {"served", "failed"} :
        /\ dockRequest' = [dockRequest EXCEPT ![q].pc = pc]
        /\ (pc = "served" /\ ServeDock(q)) \/ (pc = "failed" /\ FailDock(q))
  <2>1. CASE ServeDock(q)
    <3>1. dockRequest' = [dockRequest EXCEPT ![q].pc = "served"]
      BY <2>1 DEF ServeDock
    <3> WITNESS "served" \in {"served", "failed"}
    <3> QED
      BY <2>1, <3>1
  <2>2. CASE FailDock(q)
    <3>1. dockRequest' = [dockRequest EXCEPT ![q].pc = "failed"]
      BY <2>2 DEF FailDock
    <3> WITNESS "failed" \in {"served", "failed"}
    <3> QED
      BY <2>2, <3>1
  <2> QED
    BY <2>1, <2>2
<1>2. PICK old : old = dockRequest[q]
  OBVIOUS
<1>3. PICK v : v = [old EXCEPT !.pc = pc]
  OBVIOUS
<1>4. old \in ChatRequest /\ old.pc = "sent"
  BY <1>2 DEF DockInv, DockTyped, ServeDock, FailDock
<1>5. /\ v \in ChatRequest /\ v.pc = pc /\ v.kind = old.kind /\ v.message = old.message
      /\ v.orphan = old.orphan
  BY <1>3, <1>4 DEF ChatRequest
<1>6. dockRequest' = [dockRequest EXCEPT ![q] = v]
  BY <1>1, <1>2, <1>3 DEF DockInv, DockTyped
<1>7. UNCHANGED <<dock, owed, drafted>>
  BY DEF ServeDock, FailDock
<1>8. CASE old.kind # "send"
  <2>1. UNCHANGED <<stored, failures>>
    BY <1>2, <1>8 DEF ServeDock, FailDock, Stores
  <2>2. /\ dock' \in [draft : Message \cup {"none"}, sending : BOOLEAN, context : Workspace \cup {"none"}]
        /\ dock'.draft = dock.draft /\ dock'.sending = dock.sending
    BY <1>7 DEF DockInv, DockTyped
  <2> QED
    BY <1>2, <1>5, <1>6, <1>7, <1>8, <2>1, <2>2, LoadsSound
<1>9. CASE old.kind = "send"
  <2>1. q \in Sends
    BY <1>2, <1>9 DEF Sends
  <2>2. PICK m : m = old.message
    OBVIOUS
  <2>3. m = dockRequest[q].message
    BY <1>2, <2>2
  <2>4. /\ m \in Message /\ stored[m] \in [times : Nat, in : SUBSET Workspace]
        /\ \E s \in [times : Nat, in : SUBSET Workspace] :
             /\ Stores(q) = [stored EXCEPT ![m] = s]
             /\ stored[m].in \subseteq s.in /\ s.in # {} /\ s.times = stored[m].times + 1
    BY <2>1, <2>3, StoresOne
  <2>5. PICK s \in [times : Nat, in : SUBSET Workspace] :
          /\ Stores(q) = [stored EXCEPT ![m] = s]
          /\ stored[m].in \subseteq s.in /\ s.in # {} /\ s.times = stored[m].times + 1
    BY <2>4
  <2>6. stored[m].times <= failures[m] /\ failures[m] \in Nat
    BY <1>2, <1>4, <2>1, <2>2, <2>4 DEF DockInv, DockTyped, Copied
  <2>7. v.message = m /\ v.kind = "send" /\ v.orphan = dockRequest[q].orphan
    BY <1>2, <1>5, <1>9, <2>2
  <2>8. CASE pc = "served"
    <3>1. stored' = [stored EXCEPT ![m] = s] /\ failures' = failures
      BY <1>1, <2>5, <2>8 DEF ServeDock
    <3>2. failures' = [failures EXCEPT ![m] = failures[m]]
      BY <3>1 DEF DockInv, DockTyped
    <3>3. s.times <= 1 + failures[m] /\ v.pc = "served"
      BY <1>5, <2>4, <2>5, <2>6, <2>8
    <3> QED
      BY <1>5, <1>6, <1>7, <2>1, <2>3, <2>4, <2>5, <2>6, <2>7, <3>1, <3>2, <3>3, DealtWithSound
  <2>9. CASE pc = "failed"
    <3>1. PICK f : f = failures[m] + 1
      OBVIOUS
    <3>2. stored' \in {stored, Stores(q)} /\ failures' = [failures EXCEPT ![m] = f]
      BY <1>1, <1>2, <1>9, <2>3, <2>9, <3>1 DEF FailDock
    <3>3. PICK t \in [times : Nat, in : SUBSET Workspace] :
            /\ stored' = [stored EXCEPT ![m] = t]
            /\ stored[m].in \subseteq t.in /\ t.times <= stored[m].times + 1
      <4>1. stored = [stored EXCEPT ![m] = stored[m]]
        BY DEF DockInv, DockTyped
      <4> QED
        BY <2>4, <2>5, <3>2, <4>1
    <3>4. f \in Nat /\ t.times <= 1 + f /\ t.times <= f /\ v.pc = "failed"
      BY <1>5, <2>4, <2>6, <2>9, <3>1, <3>3
    <3> QED
      BY <1>5, <1>6, <1>7, <2>1, <2>3, <2>4, <2>7, <3>2, <3>3, <3>4, DealtWithSound
  <2> QED
    BY <2>8, <2>9
<1> QED
  BY <1>8, <1>9

LEMMA ReceiveSound ==
  ASSUME DockInv, NEW q \in DockRequest, ReceiveChat(q) \/ SendFails(q)
  PROVE  DockInv'
<1>1. /\ dockRequest' = [dockRequest EXCEPT ![q] = NoRequest]
      /\ UNCHANGED <<stored, owed, drafted, failures>>
  BY DEF ReceiveChat, SendFails
<1>2. NoRequest \in ChatRequest /\ NoRequest.kind # "send"
  BY DEF NoRequest, ChatRequest
<1>3. PICK old : old = dockRequest[q]
  OBVIOUS
<1>4. old \in ChatRequest
  BY <1>3 DEF DockInv, DockTyped
<1>5. CASE old.kind # "send"
  <2>1. dock' = IF old.orphan THEN dock ELSE [dock EXCEPT !.sending = dock.sending /\ TRUE]
    BY <1>3, <1>5 DEF ReceiveChat, SendFails
  <2>2. /\ dock' \in [draft : Message \cup {"none"}, sending : BOOLEAN, context : Workspace \cup {"none"}]
        /\ dock'.draft = dock.draft /\ (dock'.sending <=> dock.sending)
    BY <2>1 DEF DockInv, DockTyped
  <2> QED
    BY <1>1, <1>2, <1>3, <1>5, <2>2, LoadsSound
<1>6. CASE old.kind = "send"
  <2>1. q \in Sends
    BY <1>3, <1>6 DEF Sends
  <2>2. PICK m : m = dockRequest[q].message
    OBVIOUS
  <2>3. m \in Message
    BY <2>1, <2>2 DEF DockInv, DockTyped, Dispatched
  <2>4. \/ old.orphan /\ dock' = dock
        \/ /\ ~old.orphan
           /\ \/ dock' = [dock EXCEPT !.draft = m, !.sending = FALSE] /\ old.pc = "failed"
              \/ dock' = [dock EXCEPT !.sending = FALSE] /\ old.pc = "served"
    <3>1. CASE ReceiveChat(q)
      <4>1. old.pc = "served"
        BY <1>3, <1>6, <3>1 DEF ReceiveChat
      <4>2. dock' = IF old.orphan THEN dock ELSE [dock EXCEPT !.sending = dock.sending /\ FALSE]
        BY <1>3, <1>6, <3>1 DEF ReceiveChat
      <4> QED
        BY <4>1, <4>2
    <3>2. CASE SendFails(q)
      BY <1>3, <2>2, <3>2 DEF SendFails
    <3> QED
      BY <3>1, <3>2
  <2>5. /\ dock' \in [draft : Message \cup {"none"}, sending : BOOLEAN, context : Workspace \cup {"none"}]
        /\ \/ old.orphan /\ dock' = dock
           \/ /\ ~old.orphan /\ ~dock'.sending
              /\ \/ dock'.draft = m /\ old.pc = "failed"
                 \/ dock'.draft = dock.draft /\ old.pc = "served"
    BY <2>3, <2>4 DEF DockInv, DockTyped
  <2> QED
    BY <1>1, <1>3, <2>1, <2>2, <2>5, SendEndsSound
<1> QED
  BY <1>5, <1>6

\* The dock is closed: what is on its way comes back to nobody.
LEMMA CloseSound ==
  ASSUME DockInv, CloseDock
  PROVE  DockInv'
<1>1. /\ dock' = NewDock /\ owed' = {} /\ UNCHANGED <<stored, drafted, failures>>
      /\ dockRequest' = [q \in DockRequest |-> IF dockRequest[q].pc = "idle" THEN NoRequest
                                               ELSE [dockRequest[q] EXCEPT !.orphan = TRUE]]
  BY DEF CloseDock
<1>2. /\ dock' \in [draft : Message \cup {"none"}, sending : BOOLEAN, context : Workspace \cup {"none"}]
      /\ dock'.draft = "none" /\ ~dock'.sending
  BY <1>1 DEF NewDock
<1>3. NoRequest \in ChatRequest /\ NoRequest.kind # "send"
  BY DEF NoRequest, ChatRequest
<1>4. \A q \in DockRequest : /\ dockRequest'[q] \in ChatRequest
                             /\ dockRequest[q].pc = "idle" => dockRequest'[q] = NoRequest
                             /\ dockRequest[q].pc # "idle" =>
                                  /\ dockRequest'[q].pc = dockRequest[q].pc
                                  /\ dockRequest'[q].kind = dockRequest[q].kind
                                  /\ dockRequest'[q].message = dockRequest[q].message
                                  /\ dockRequest'[q].orphan
  <2>1. TAKE q \in DockRequest
  <2>2. PICK old : old = dockRequest[q]
    OBVIOUS
  <2>3. PICK v : v = [old EXCEPT !.orphan = TRUE]
    OBVIOUS
  <2>4. old \in ChatRequest
    BY <2>2 DEF DockInv, DockTyped
  <2>5. /\ v \in ChatRequest /\ v.pc = old.pc /\ v.kind = old.kind /\ v.message = old.message /\ v.orphan
    BY <2>3, <2>4 DEF ChatRequest
  <2>6. dockRequest'[q] = IF old.pc = "idle" THEN NoRequest ELSE v
    BY <1>1, <2>2, <2>3
  <2> QED
    BY <1>3, <2>2, <2>5, <2>6
<1>5. \A q \in Sends : q \in DockRequest /\ dockRequest[q].pc # "idle" /\ dockRequest[q].kind = "send"
  BY DEF Sends, DockInv, Dispatched
<1>6. Sends' = Sends
  <2>1. \A q \in DockRequest : q \in Sends' <=> q \in Sends
    BY <1>3, <1>4, <1>5 DEF Sends
  <2> QED
    BY <2>1 DEF Sends
<1>7. Current' = {}
  BY <1>4, <1>5, <1>6 DEF Current
<1>8. \A q \in Sends : /\ dockRequest'[q].pc = dockRequest[q].pc
                       /\ dockRequest'[q].message = dockRequest[q].message
  BY <1>4, <1>5
<1>9. DockTyped'
  <2>1. dockRequest' \in [DockRequest -> ChatRequest]
    BY <1>1, <1>4
  <2> QED
    BY <1>1, <1>2, <2>1 DEF DockInv, DockTyped
<1>10. \A m \in Message : m # "none"
  BY ShellAssumption
<1>11. Dispatched'
  <2>1. \A q \in Sends : dockRequest[q].message \in Message
    BY DEF DockInv, DockTyped, Dispatched
  <2>2. \A q \in Sends' : /\ dockRequest'[q].pc # "idle" /\ dockRequest'[q].message \in drafted'
                          /\ dockRequest'[q].message # dock'.draft
    BY <1>1, <1>2, <1>6, <1>8, <1>10, <2>1 DEF DockInv, Dispatched
  <2>3. \A q, r \in Sends' : dockRequest'[q].message = dockRequest'[r].message => q = r
    BY <1>6, <1>8 DEF DockInv, Dispatched
  <2> QED
    BY <1>2, <1>7, <2>2, <2>3 DEF Dispatched
<1>12. Copied'
  <2>1. \A m \in Message :
          /\ stored'[m].times <= 1 + failures'[m]
          /\ m \notin drafted' \/ dock'.draft = m => stored'[m].times <= failures'[m]
    BY <1>1, <1>2, <1>10 DEF DockInv, Copied
  <2>2. \A q \in Sends' :
          /\ dockRequest'[q].pc \in {"sent", "failed"} =>
               stored'[dockRequest'[q].message].times <= failures'[dockRequest'[q].message]
          /\ dockRequest'[q].pc = "served" => stored'[dockRequest'[q].message].in # {}
    BY <1>1, <1>6, <1>8 DEF DockInv, Copied
  <2> QED
    BY <2>1, <2>2 DEF Copied
<1>13. Kept'
  BY <1>1 DEF Kept
<1> QED
  BY <1>9, <1>11, <1>12, <1>13 DEF DockInv

LEMMA DockStepSound ==
  ASSUME DockInv, ToolsInv, DockStep
  PROVE  DockInv' /\ ToolsInv' /\ Answers
<1>1. CASE PageMoves
  <2>1. UNCHANGED dockVars
    BY <1>1 DEF PageMoves, SwitchElsewhere, Revisit, LoadPage, Arrive
  <2> QED
    BY <1>1, <2>1, DockStays, PageMovesSound
<1>2. CASE ~PageMoves
  <2>1. UNCHANGED dockFrame
    BY <1>2 DEF DockStep, LoadOnChange, LoadChat, WriteMessage, SendDraft, CloseDock, ServeDock,
                FailDock, ReceiveChat, SendFails
  <2>2. sessionTenant \in Workspace
    BY DEF ToolsInv
  <2>3. ToolsInv' /\ Answers
    BY <2>1, ToolsStay DEF dockFrame
  <2>4. DockInv'
    BY <1>2, <2>2, BeginLoadSound, WriteSound, SendSound, CloseSound, ServeDockSound, ReceiveSound
       DEF DockStep
  <2> QED
    BY <2>3, <2>4
<1> QED
  BY <1>1, <1>2

LEMMA ToolStepKeepsDock ==
  ASSUME DockInv, ToolStep
  PROVE  DockInv'
<1>1. UNCHANGED dockVars
  BY DEF ToolStep, PageMoves, SwitchElsewhere, Revisit, LoadPage, Arrive, NavigateTool, PortalTool,
         CheckoutTool, SwitchTool, SetTheme, FillForm, SubmitForm, Run, CallerAbort, ServeCall,
         FailCall, AnswerCall, Respond, HearAnswer
<1> QED
  BY <1>1, DockStays

\* The bound on what goes wrong, for the type invariant
LEMMA SlipsBounded ==
  ASSUME slips \in 0 .. Slips, ToolStep \/ DockStep
  PROVE  slips' \in 0 .. Slips
<1>1. slips' = slips \/ Slip
  BY DEF ToolStep, DockStep, PageMoves, SwitchElsewhere, Revisit, LoadPage, Arrive, NavigateTool,
         PortalTool, CheckoutTool, SwitchTool, SetTheme, FillForm, SubmitForm, CallerAbort,
         ServeCall, FailCall, AnswerCall, Respond, HearAnswer, LoadOnChange, LoadChat, WriteMessage,
         SendDraft, CloseDock, ServeDock, FailDock, ReceiveChat, SendFails
<1>2. Slips \in Nat
  BY ShellAssumption
<1> QED
  BY <1>1, <1>2 DEF Slip

ShellInv == ToolsInv /\ DockInv /\ slips \in 0 .. Slips

LEMMA ShellStarts == ASSUME ShellInit PROVE ShellInv
<1>1. PICK t : t = CHOOSE u \in Workspace : TRUE
  OBVIOUS
<1>2. t \in Workspace
  BY <1>1, ShellAssumption
<1>3. /\ shown = [tenant |-> t, path |-> "prompts"] /\ sessionTenant = t
      /\ ack = [what |-> "none", tenant |-> t]
  BY <1>1 DEF ShellInit
<1>4. shown \in Page /\ SoundLoad(going)
  BY <1>2, <1>3 DEF ShellInit, Page, Path, SoundLoad, NoLoad
<1>5. \A c \in ToolUse : toolCall[c] = NoCall
  BY DEF ShellInit
<1>6. toolCall \in [ToolUse -> ToolCall] /\ \A c \in ToolUse : SoundCall(toolCall[c], shown)
  BY <1>5, NoCallSound DEF ShellInit, SoundCall
<1>7. ToolsInv
  BY <1>2, <1>3, <1>4, <1>6 DEF ToolsInv, ShellInit
<1>8. Sends = {} /\ Current = {}
  BY DEF ShellInit, Sends, Current, NoRequest
<1>9. DockTyped
  BY DEF ShellInit, DockTyped, NewDock, NoRequest, ChatRequest
<1>10. Dispatched
  BY <1>8 DEF Dispatched, ShellInit, NewDock
<1>11. Copied
  BY <1>8 DEF Copied, ShellInit
<1>12. Kept
  BY DEF Kept, ShellInit
<1> QED
  BY <1>7, <1>9, <1>10, <1>11, <1>12, ShellAssumption DEF DockInv, ShellInv, ShellInit

LEMMA ShellInvariance == WorkspaceSpec => []ShellInv
<1>1. WorkspaceInit => ShellInv
  BY ShellStarts DEF WorkspaceInit
<1>2. ShellInv /\ [WorkspaceNext]_workspaceVars => ShellInv'
  <2>1. SUFFICES ASSUME ShellInv, [WorkspaceNext]_workspaceVars PROVE ShellInv'
    OBVIOUS
  <2>2. CASE UNCHANGED shellVars
    BY <2>1, <2>2, ToolsStay, DockStays DEF ShellInv, shellVars, toolVars
  <2>3. CASE ToolStep
    BY <2>1, <2>3, ToolStepSound, ToolStepKeepsDock, SlipsBounded DEF ShellInv
  <2>4. CASE DockStep
    BY <2>1, <2>4, DockStepSound, SlipsBounded DEF ShellInv
  <2> QED
    BY <2>1, <2>2, <2>3, <2>4 DEF WorkspaceNext, workspaceVars
<1> QED
  BY <1>1, <1>2, PTL DEF WorkspaceSpec

LEMMA DockIsKept == ASSUME DockInv PROVE DockKeepsMessages
<1> DEFINE sends == {q \in DockRequest : dockRequest[q].kind = "send" /\ ~dockRequest[q].orphan}
<1>1. sends = Current
  BY DEF Current, Sends
<1>2. \A m \in owed :
        \/ dock.draft = m \/ \E q \in sends : dockRequest[q].message = m
        \/ stored[m].in # {}
  BY <1>1 DEF DockInv, Kept
<1>3. \A m \in Message : stored[m].times <= 1 + failures[m]
  BY DEF DockInv, Copied
<1>4. dock.sending <=> sends # {}
  BY <1>1 DEF DockInv, Dispatched
<1>5. Cardinality(sends) <= 1
  <2>1. CASE sends = {}
    BY <2>1, FS_EmptySet
  <2>2. CASE sends # {}
    <3>1. PICK q : q \in Current
      BY <1>1, <2>2
    <3>2. Current = {q}
      BY <3>1 DEF DockInv, Dispatched
    <3>3. Cardinality({q}) = 1
      BY FS_Singleton
    <3> HIDE DEF sends
    <3> QED
      BY <1>1, <3>2, <3>3
  <2> QED
    BY <2>1, <2>2
<1> QED
  BY <1>2, <1>3, <1>4, <1>5 DEF DockKeepsMessages

\* However often the tenant is switched, pages are left, calls are aborted and
\* the dock is closed: the shell's tools answer truly, its acknowledgement is
\* the shown tenant's, and no message is lost or stored unaccountably.
THEOREM ShellStaysSound == WorkspaceSpec => ShellIsSound
<1>1. ASSUME ShellInv, ShellInv', DockKeepsMessages', [WorkspaceNext]_workspaceVars
      PROVE  [TrulyAnswered /\ DockKeepsMessages' /\ ack'.tenant = shown'.tenant]_shellVars
  <2>1. CASE UNCHANGED shellVars
    BY <2>1
  <2>2. CASE ToolStep \/ DockStep
    <3>1. Answers
      BY <1>1, <2>2, ToolStepSound, DockStepSound DEF ShellInv
    <3>2. \A c \in ToolUse : SoundCall(toolCall[c], shown)
      BY <1>1 DEF ShellInv, ToolsInv
    <3>3. ASSUME NEW c \in ToolUse, toolCall[c].pc # "answered", toolCall'[c].pc = "answered"
          PROVE  toolCall[c].acted \in Workspace /\ ~toolCall[c].aborted /\ toolCall[c].from = shown
      BY <3>1, <3>2, <3>3 DEF Answers, SoundCall
    <3>4. TrulyAnswered
      BY <3>3 DEF TrulyAnswered
    <3>5. ack'.tenant = shown'.tenant
      BY <1>1 DEF ShellInv, ToolsInv
    <3> QED
      BY <1>1, <3>4, <3>5
  <2> QED
    BY <1>1, <2>1, <2>2 DEF WorkspaceNext, workspaceVars
<1>2. ShellInv => DockKeepsMessages
  BY DockIsKept DEF ShellInv
<1> QED
  BY <1>1, <1>2, ShellInvariance, PTL DEF WorkspaceSpec, ShellIsSound

\* The page, its calls, the dock, its requests and the messages are of their
\* types: no load, for one, shows a page of no tenant.
THEOREM ShellTypeCorrect == WorkspaceSpec => []ShellTypeOK
<1>1. ShellInv => ShellTypeOK
  BY DEF ShellInv, ToolsInv, SoundLoad, DockInv, DockTyped, ShellTypeOK
<1> QED
  BY <1>1, ShellInvariance, PTL
=============================================================================
