---------------------------- MODULE TenantUsage ----------------------------
(***************************************************************************)
(* Metered work of one tenant: chat messages with the tool they lead to    *)
(* (agent-chat.ts), the tools (mcp.ts, report-operation-agent.ts,          *)
(* agent-report-read.ts) and calls of them over MCP, their quotas and      *)
(* counts (thresholds.ts, usage.ts), and the worker's audit of the         *)
(* thresholds of all tenants (jobs.ts).                                    *)
(*                                                                         *)
(* A request is a process; each await of its handler is a step, so that    *)
(* requests interleave, the day changes and the plan is changed between    *)
(* any two, and each may fail.  A quota is read with the plan and compared *)
(* once; the work is counted after it is done, in the window that was      *)
(* compared.  A text is the set of phrases it contains that the code looks *)
(* for; of the room only the kinds of the messages are kept, and tool      *)
(* results and their rendering are left out.                               *)
(***************************************************************************)
EXTENDS Naturals, FiniteSets, SequencesExt

CONSTANTS
  Chat,        \* chat requests
  Call,        \* MCP requests
  Situations,  \* which requests come, with which texts and of a member with
               \* which permissions, whether the audit runs, and a bound on
               \* failures and changes
  Plans,       \* sets of features
  Thresholds,  \* the blocking thresholds: [metric, window, limit]
  LastDay,     \* bound: days go from 0 to LastDay
  MonthDays,   \* days of a month
  Tenant,      \* tenants of the audit: numbers from 1, in the order of their ids
  PageSize,    \* tenants listed at once
  None

Request == Chat \cup Call
Metric == {"chat.messages", "mcp.calls"}
Kind == {"day", "month"}
Feature == {"chat.agent", "mcp.read_tools", "mcp.write_tools", "prompts.tenant_overrides"}
Permission == {"usageRead", "mcpCall", "reportRefresh"}

\* The tools of the chat and of MCP; those of the report operations and
\* reports.query belong to the chat only.
RuntimeTools ==
  {"tenant.usage.summary", "tenant.subscription.summary", "tenant.activity-report.query",
   "tenant.prompt.preview", "tenant.subscription.update"}
OperationTools ==
  {"reports.operations.prepare", "reports.operations.status", "reports.operations.cancel"}
Tool == RuntimeTools \cup OperationTools \cup {"reports.query"}

RequiredFeature(tool) ==
  IF tool \in {"tenant.subscription.update", "reports.operations.prepare",
               "reports.operations.cancel"} THEN "mcp.write_tools"
  ELSE IF tool = "tenant.prompt.preview" THEN "prompts.tenant_overrides"
  ELSE "mcp.read_tools"

RequiredPermission(tool) ==
  CASE tool \in {"reports.operations.prepare", "reports.operations.cancel"} -> "reportRefresh"
    [] tool \in {"reports.operations.status", "reports.query", "tenant.activity-report.query"} -> "usageRead"
    [] OTHER -> "mcpCall"

\* What the text of a message leads to: the first rule of which it has all.
Rules == <<
  [asks |-> {"cancel_report_operation", "operation_id"}, tool |-> "reports.operations.cancel"],
  [asks |-> {"report_operation_status"}, tool |-> "reports.operations.status"],
  [asks |-> {"prepare_report"}, tool |-> "reports.operations.prepare"],
  [asks |-> {"report"}, tool |-> "reports.query"],
  [asks |-> {"usage"}, tool |-> "tenant.usage.summary"],
  [asks |-> {"prompt"}, tool |-> "tenant.prompt.preview"],
  [asks |-> {"cancel"}, tool |-> "tenant.subscription.update"],
  [asks |-> {}, tool |-> "tenant.subscription.summary"] >>
SelectTool(text) == Rules[Min({i \in DOMAIN Rules : Rules[i].asks \subseteq text})].tool

\* days are half-open intervals, and a month is a number of them
WindowOf(kind, d) ==
  IF kind = "day" THEN <<d, d + 1>>
  ELSE <<(d \div MonthDays) * MonthDays, ((d \div MonthDays) + 1) * MonthDays>>
Window == {WindowOf(kind, d) : kind \in Kind, d \in 0 .. LastDay}

ASSUME TenantUsageAssumption ==
  /\ \A s \in Situations :
       /\ DOMAIN s = {"requests", "texts", "grants", "audit", "faults"}
       /\ s.requests \subseteq Request /\ s.grants \subseteq SUBSET Permission
       /\ s.audit \in BOOLEAN /\ s.faults \in Nat
  /\ Plans \subseteq SUBSET Feature
  /\ Thresholds \subseteq [metric : Metric, window : Kind, limit : Nat \ {0}]
  /\ LastDay \in Nat /\ MonthDays \in Nat \ {0} /\ PageSize \in Nat \ {0}
  /\ Tenant \subseteq Nat \ {0} /\ IsFiniteSet(Tenant)
  /\ IsFiniteSet(Request) /\ Chat \cap Call = {}
  /\ None \notin Tool \cup Window

VARIABLES
  situation,   \* the situation
  day,         \* today
  plan,        \* the features of the tenant's plan
  permits,     \* the permissions of the member's role
  usage,       \* records of the meter, each of one use of a metric in a window
  session,     \* the tools the agent session of the member allows
  req,         \* the requests
  peak,        \* history: most requests at once between check and count
  audit,       \* the run of the audit
  subscribed,  \* tenants with a live subscription
  faults       \* failures so far

vars == <<situation, day, plan, permits, usage, session, req, peak, audit, subscribed, faults>>

Failed == {"refused", "rejected", "failed"}
Fresh == [pc |-> "idle", grant |-> {}, tools |-> {}, tool |-> None, view |-> {},
          window |-> None, room |-> << >>, ran |-> FALSE]
Stages == {"idle", "read", "save", "send", "countMessage", "select", "policy", "execute",
           "countCall", "answer", "conclude", "apologise", "done"} \cup Failed
Kinds == {"user", "call", "result", "assistant"}
ReqState ==
  [pc : Stages,
   grant : SUBSET Permission,       \* what the membership permits, as read
   tools : SUBSET Tool,             \* the tools offered for it under the plan
   tool : Tool \cup {None},
   view : SUBSET Tool,              \* the session, as read
   window : Window \cup {None},     \* the window compared and counted in
   room : Seq(Kinds),
   ran : BOOLEAN]                   \* the tool has run

\* The audit: the cursor, what is left of the page, and per tenant how often
\* it was visited; history: who has been subscribed since it began.
AuditState ==
  [pc : {"idle", "list", "visit", "done", "threw"}, after : Nat, page : SUBSET Tenant,
   left : SUBSET Tenant, visits : [Tenant -> Nat], steady : SUBSET Tenant]
NoAudit == [pc |-> "idle", after |-> 0, page |-> {}, left |-> {},
            visits |-> [t \in Tenant |-> 0], steady |-> {}]

TypeOK ==
  /\ situation \in Situations
  /\ day \in 0 .. LastDay /\ plan \in Plans /\ permits \subseteq Permission
  /\ usage \subseteq [metric : Metric, window : Window, by : Request]
  /\ session \subseteq Tool
  /\ req \in [Request -> ReqState]
  /\ peak \in [Metric -> Nat]
  /\ subscribed \subseteq Tenant
  /\ audit \in AuditState
  /\ faults \in 0 .. situation.faults

Init ==
  /\ situation \in Situations
  /\ day = 0 /\ plan \in Plans
  /\ permits \in IF situation.grants = {} THEN {{}} ELSE situation.grants
  /\ usage = {}
  /\ session = {} /\ req = [r \in Request |-> Fresh]
  /\ peak = [m \in Metric |-> 0]
  /\ audit = NoAudit /\ faults = 0
  /\ subscribed \in IF situation.audit THEN SUBSET Tenant ELSE {{}}

-----------------------------------------------------------------------------
At(r, pc) == r \in situation.requests /\ req[r].pc = pc
Become(r, s) == req' = [req EXCEPT ![r] = s]
Goto(r, pc) == Become(r, [req[r] EXCEPT !.pc = pc])
Said(r, kind, pc) == Become(r, [req[r] EXCEPT !.pc = pc, !.room = Append(@, kind)])
Fault == faults < situation.faults /\ faults' = faults + 1
NoAuditStep == UNCHANGED <<audit, subscribed>>

(* Quotas: getBillingOverview, assertMetricAllowed                          *)

Within(v, w) == v[1] >= w[1] /\ v[2] <= w[2]

\* the meter adds up the records that lie in a window
Used(metric, w) ==
  Cardinality({u \in usage : u.metric = metric /\ Within(u.window, w)})

Matching(metric) == {t \in Thresholds : t.metric = metric}
\* Mutant: of the windows only the month is compared.
MonthOnlyAllowed(metric) ==
  \A t \in Matching(metric) : t.window = "month" => Used(metric, WindowOf("month", day)) < t.limit

Allowed(metric) ==
  \A t \in Matching(metric) : Used(metric, WindowOf(t.window, day)) < t.limit

\* getContainedThresholdUsageWindow: what all matching windows have in common
Contained(metric) ==
  LET ws == {WindowOf(t.window, day) : t \in Matching(metric)} IN
  IF ws = {} THEN None ELSE <<Max({w[1] : w \in ws}), Min({w[2] : w \in ws})>>

\* The window a request is counted in: without one, this month's.
CountedIn(r) == IF req[r].window = None THEN WindowOf("month", day) ELSE req[r].window

\* recordTenantUsageSignal
Recorded(metric, r) ==
  usage' = usage \cup {[metric |-> metric, window |-> CountedIn(r), by |-> r]}

\* Requests that have passed the check of a metric and not counted yet
Pending(metric) ==
  IF metric = "chat.messages" THEN {"read", "save", "send", "countMessage"}
  ELSE {"execute", "countCall"}
Uncounted(metric) == {r \in Request : req[r].pc \in Pending(metric)}
UncountedIn(metric, w) == {r \in Uncounted(metric) : Within(CountedIn(r), w)}
Noted == peak' = [m \in Metric |->
  LET n == Cardinality(Uncounted(m)') IN IF n > peak[m] THEN n ELSE peak[m]]

-----------------------------------------------------------------------------
(* sendTenantChatMessage                                                   *)

\* ensureTenantAgentSession: the tools of the plan that the member may use;
\* the activity report is offered as reports.query.
Offered(features, permissions) ==
  {tool \in Tool \ {"tenant.activity-report.query"} :
     RequiredFeature(tool) \in features /\ RequiredPermission(tool) \in permissions}

\* One overview: without the agent 403, over the threshold 429.
BeginChat(r) ==
  /\ At(r, "idle") /\ r \in Chat
  /\ \E text \in situation.texts :
       Become(r, IF "chat.agent" \notin plan \/ ~Allowed("chat.messages")
                 THEN [Fresh EXCEPT !.pc = "refused"]
                 ELSE [Fresh EXCEPT !.pc = "read", !.grant = permits, !.tool = SelectTool(text),
                         !.tools = Offered(plan, permits), !.window = Contained("chat.messages")])
  /\ Noted
  /\ UNCHANGED <<situation, day, plan, permits, usage, session, faults>> /\ NoAuditStep

\* createAgentSession finds the session of the member, or creates it
ReadSession(r) ==
  /\ At(r, "read")
  /\ Become(r, [req[r] EXCEPT !.pc = "save", !.view = session])
  /\ UNCHANGED <<situation, day, plan, permits, usage, session, peak, faults>> /\ NoAuditStep

\* The tools of this request replace the ones that were read, if they differ;
\* they are written as well if only the prompt of the tenant does.  What GET
\* /api/chat does to the session is a chat that goes no further.
SaveSession(r) ==
  /\ At(r, "save")
  /\ session' \in {req[r].tools} \cup (IF req[r].view = req[r].tools THEN {session} ELSE {})
  /\ Become(r, [req[r] EXCEPT !.pc = "send", !.view = {}])
  /\ UNCHANGED <<situation, day, plan, permits, usage, peak, faults>> /\ NoAuditStep

SendMessage(r) ==
  /\ At(r, "send")
  /\ Said(r, "user", "countMessage")
  /\ UNCHANGED <<situation, day, plan, permits, usage, session, peak, faults>> /\ NoAuditStep

CountMessage(r) ==
  /\ At(r, "countMessage")
  /\ Recorded("chat.messages", r)
  /\ Become(r, [req[r] EXCEPT !.pc = "select", !.window = None])
  /\ UNCHANGED <<situation, day, plan, permits, session, peak, faults>> /\ NoAuditStep

-----------------------------------------------------------------------------
(* callToolForChat                                                         *)

\* Mutant: it is left to the framework to know the tools of the session.
AnyAvailable(r) == req[r].tool \in Tool

Available(r) == req[r].tool \in req[r].tools

\* A tool the member does not have: an answer that says so.
Deny(r) ==
  /\ At(r, "select") /\ ~Available(r)
  /\ Said(r, "assistant", "done")
  /\ UNCHANGED <<situation, day, plan, permits, usage, session, peak, faults>> /\ NoAuditStep

\* The framework takes a tool call only if the session allows the tool.
Announce(r) ==
  /\ At(r, "select") /\ Available(r)
  /\ req[r].tool \in session
  /\ Said(r, "call", "policy")
  /\ UNCHANGED <<situation, day, plan, permits, usage, session, peak, faults>> /\ NoAuditStep

AnnounceRejected(r) ==
  /\ At(r, "select") /\ Available(r)
  /\ req[r].tool \notin session
  /\ Goto(r, "rejected")
  /\ UNCHANGED <<situation, day, plan, permits, usage, session, peak, faults>> /\ NoAuditStep

\* executeRuntimeToolForMembership
BeginCall(r) ==
  /\ At(r, "idle") /\ r \in Call
  /\ \E tool \in {"tenant.activity-report.query", "tenant.subscription.update"} :
       Become(r, [Fresh EXCEPT !.pc = IF RequiredPermission(tool) \in permits THEN "policy" ELSE "refused",
                               !.grant = permits, !.tool = tool])
  /\ UNCHANGED <<situation, day, plan, permits, usage, session, peak, faults>> /\ NoAuditStep

\* executeRuntimeToolWithTenantPolicy: a second overview, and the quota of calls
Refusal(r) == RequiredFeature(req[r].tool) \notin plan \/ ~Allowed("mcp.calls")

Policy(r) ==
  /\ At(r, "policy")
  /\ Become(r, IF ~Refusal(r)
               THEN [req[r] EXCEPT !.pc = "execute", !.window = Contained("mcp.calls")]
               ELSE [req[r] EXCEPT !.pc = IF r \in Chat THEN "apologise" ELSE "refused"])
  /\ Noted
  /\ UNCHANGED <<situation, day, plan, permits, usage, session, faults>> /\ NoAuditStep

Ran(r) == Become(r, [req[r] EXCEPT !.pc = "countCall", !.ran = TRUE])
NotRun(r, pc) == Become(r, [req[r] EXCEPT !.pc = pc, !.window = None])

\* callRuntimeTool: these tools read and render.
Execute(r) ==
  /\ At(r, "execute") /\ req[r].tool \in RuntimeTools
  /\ Ran(r)
  /\ UNCHANGED <<situation, day, plan, permits, usage, session, peak, faults>> /\ NoAuditStep

\* The query of a report may be one that is not allowed.
ExecuteRefuses(r) ==
  /\ At(r, "execute") /\ req[r].tool = "tenant.activity-report.query" /\ Fault
  /\ NotRun(r, "refused")
  /\ UNCHANGED <<situation, day, plan, permits, usage, session, peak>> /\ NoAuditStep

\* The tools of the chat resolve the membership again, with the permission
\* they need.  Their refusal is an error of the request: no answer is sent.
ExecuteAsMember(r) ==
  /\ At(r, "execute") /\ req[r].tool \notin RuntimeTools
  /\ IF RequiredPermission(req[r].tool) \in permits THEN Ran(r) ELSE NotRun(r, "failed")
  /\ UNCHANGED <<situation, day, plan, permits, usage, session, peak, faults>> /\ NoAuditStep

CountCall(r) ==
  /\ At(r, "countCall")
  /\ Recorded("mcp.calls", r)
  /\ Become(r, [req[r] EXCEPT !.pc = IF r \in Chat THEN "answer" ELSE "done", !.window = None])
  /\ UNCHANGED <<situation, day, plan, permits, session, peak, faults>> /\ NoAuditStep

Answer(r) ==
  /\ At(r, "answer") /\ Said(r, "result", "conclude")
  /\ UNCHANGED <<situation, day, plan, permits, usage, session, peak, faults>> /\ NoAuditStep

Conclude(r) ==
  /\ At(r, "conclude") /\ Said(r, "assistant", "done")
  /\ UNCHANGED <<situation, day, plan, permits, usage, session, peak, faults>> /\ NoAuditStep

Apologise(r) ==
  /\ At(r, "apologise") /\ Said(r, "assistant", "done")
  /\ UNCHANGED <<situation, day, plan, permits, usage, session, peak, faults>> /\ NoAuditStep

\* Any await may throw, or the process die: what was done stays.
Fails(r) ==
  /\ r \in situation.requests /\ req[r].pc \notin {"idle", "done"} \cup Failed
  /\ Fault
  /\ Become(r, [req[r] EXCEPT !.pc = "failed", !.view = {}, !.window = None])
  /\ UNCHANGED <<situation, day, plan, permits, usage, session, peak>> /\ NoAuditStep

Midnight ==
  /\ situation.requests # {} /\ day < LastDay /\ day' = day + 1
  /\ UNCHANGED <<situation, plan, permits, usage, session, req, peak, faults>> /\ NoAuditStep

ChangePlan ==
  /\ situation.requests # {} /\ Fault /\ plan' \in Plans \ {plan}
  /\ UNCHANGED <<situation, day, permits, usage, session, req, peak>> /\ NoAuditStep

ChangeRole ==
  /\ Fault /\ permits' \in situation.grants \ {permits}
  /\ UNCHANGED <<situation, day, plan, usage, session, req, peak>> /\ NoAuditStep

-----------------------------------------------------------------------------
(* auditUsageThresholds                                                    *)

Quiet == UNCHANGED <<situation, day, plan, permits, usage, session, req, peak>>
Smallest(S, n) == {t \in S : Cardinality({u \in S : u <= t}) <= n}

BeginAudit ==
  /\ situation.audit /\ audit.pc = "idle"
  /\ audit' = [NoAudit EXCEPT !.pc = "list", !.steady = subscribed]
  /\ UNCHANGED <<subscribed, faults>> /\ Quiet

\* Mutant: pages are found by the number of tenants already listed.
ListByOffset ==
  /\ audit.pc = "list"
  /\ LET seen == Cardinality({t \in Tenant : audit.visits[t] > 0})
         page == Smallest(subscribed \ Smallest(subscribed, seen), PageSize) IN
     audit' = [audit EXCEPT !.pc = IF page = {} THEN "done" ELSE "visit",
                            !.page = page, !.left = page]
  /\ UNCHANGED <<subscribed, faults>> /\ Quiet

ListTenants ==
  /\ audit.pc = "list"
  /\ LET page == Smallest({t \in subscribed : t > audit.after}, PageSize) IN
     audit' = [audit EXCEPT !.pc = IF page = {} THEN "done" ELSE "visit",
                            !.page = page, !.left = page]
  /\ UNCHANGED <<subscribed, faults>> /\ Quiet

\* A tenant whose entitlements cannot be resolved counts as failed; the
\* others are audited all the same.
VisitTenant ==
  /\ audit.pc = "visit" /\ audit.left # {}
  /\ LET t == Min(audit.left) IN
     audit' = [audit EXCEPT !.left = @ \ {t}, !.visits[t] = @ + 1]
  /\ UNCHANGED <<subscribed, faults>> /\ Quiet

\* nextKeysetCursor: a page that does not advance would throw.
EndPage ==
  /\ audit.pc = "visit" /\ audit.left = {}
  /\ audit' = IF Max(audit.page) > audit.after
              THEN [audit EXCEPT !.pc = "list", !.after = Max(audit.page), !.page = {}]
              ELSE [audit EXCEPT !.pc = "threw"]
  /\ UNCHANGED <<subscribed, faults>> /\ Quiet

\* Subscriptions come and go meanwhile.
Subscribe(t) ==
  /\ situation.audit /\ t \notin subscribed /\ Fault
  /\ subscribed' = subscribed \cup {t} /\ UNCHANGED audit /\ Quiet

Unsubscribe(t) ==
  /\ situation.audit /\ t \in subscribed /\ Fault
  /\ subscribed' = subscribed \ {t}
  /\ audit' = [audit EXCEPT !.steady = @ \ {t}]
  /\ Quiet

-----------------------------------------------------------------------------
Handle(r) ==
  \/ ReadSession(r) \/ SaveSession(r) \/ SendMessage(r) \/ CountMessage(r)
  \/ Deny(r) \/ Announce(r) \/ AnnounceRejected(r) \/ Policy(r) \/ Execute(r)
  \/ ExecuteAsMember(r) \/ CountCall(r) \/ Answer(r) \/ Conclude(r) \/ Apologise(r)

Audit == BeginAudit \/ ListTenants \/ VisitTenant \/ EndPage

Next ==
  \/ \E r \in Request :
       BeginChat(r) \/ BeginCall(r) \/ Handle(r) \/ ExecuteRefuses(r) \/ Fails(r)
  \/ Midnight \/ ChangePlan \/ ChangeRole \/ Audit
  \/ \E t \in Tenant : Subscribe(t) \/ Unsubscribe(t)

Spec == Init /\ [][Next]_vars

-----------------------------------------------------------------------------
(* Properties                                                              *)

\* A threshold is exceeded by no more than the requests that were checked
\* before the others had been counted: at any moment what is counted and what
\* is yet to be counted in the window of a threshold is less than its limit
\* plus the most requests that were at once between check and count.
QuotaHolds ==
  \A d \in 0 .. day : \A t \in Thresholds :
    LET w == WindowOf(t.window, d) IN
    Used(t.metric, w) + Cardinality(UncountedIn(t.metric, w)) <=
      t.limit - 1 + (IF peak[t.metric] = 0 THEN 1 ELSE peak[t.metric])

\* What a chat leaves in the room is a message that is answered: by a denial,
\* by a call with its result, or by a call and an error.  Only a request that
\* has failed leaves a call without an answer; a tool runs only for a member
\* who was permitted it when the request came, and its result is shown exactly
\* if it has run.  A call is rejected after its message has been counted only
\* if another request of the member, begun under another role or plan, has
\* replaced the tools of the session.
Answered == {<<"user", "assistant">>, <<"user", "call", "assistant">>,
             <<"user", "call", "result", "assistant">>}
RoomsMakeSense ==
  /\ \A r \in Request : req[r].ran => RequiredPermission(req[r].tool) \in req[r].grant
  /\ \A r \in Chat :
       /\ req[r].pc = "done" =>
            /\ req[r].room \in Answered
            /\ Len(req[r].room) = 4 <=> req[r].ran
       /\ req[r].room # << >> =>
            \E whole \in Answered : IsPrefix(req[r].room, whole)
       /\ req[r].pc = "rejected" =>
            \E s \in Chat \ {r} : req[s].pc # "idle" /\ req[s].tools # req[r].tools

\* Whatever tenants come and go: when the audit ends, every tenant that was
\* subscribed all the while has been visited once, none twice, and the
\* listing has always advanced.
AuditIsComplete ==
  /\ \A t \in Tenant : audit.visits[t] <= 1
  /\ audit.pc = "done" => \A t \in audit.steady : audit.visits[t] = 1
  /\ audit.pc # "threw"
=============================================================================
