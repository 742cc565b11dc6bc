------------------------------ MODULE ShellPage ------------------------------
(***************************************************************************)
(* The shell around the pages of the workspace: the tools it gives an      *)
(* agent in the browser (WebMcpShellBridge.svelte, kept by                 *)
(* WebMcpShellContext.svelte and /app/+layout.svelte), the endpoints they  *)
(* ask, and the chat in the dock beside the page (DockPanel.svelte,        *)
(* /api/chat).                                                             *)
(*                                                                         *)
(* The page shows a tenant; the session has one, which another tab or a    *)
(* tool may change first.  A path or a tenant other than those shown       *)
(* before replaces the bridge, which aborts what its tools have under way; *)
(* the dock stays.                                                         *)
(***************************************************************************)
EXTENDS Naturals, FiniteSets

CONSTANTS
  Workspace,    \* tenants of the user
  Customers,    \* those that have a customer at the billing provider
  Prompting,    \* those whose plan has the feature prompts.tenant_overrides
  Translating,  \* those whose plan has the feature languages.ai_translate
  ToolUse,      \* calls of tools under way
  DockRequest,  \* requests of the dock under way
  Message,      \* messages the user writes
  Slips         \* bound: failures, aborts by callers, switches and closings

ASSUME ShellAssumption ==
  /\ Customers \cup Prompting \cup Translating \subseteq Workspace /\ Workspace # {}
  /\ "none" \notin Message /\ Slips \in Nat

VARIABLES
  shown,         \* the tenant and the path of the page
  sessionTenant,
  going,         \* the load of a page that is under way
  formText,      \* what stands in the form of the page
  ack,           \* the acknowledgement the shell shows, and for which tenant
  toolCall,      \* calls
  dock,          \* the chat in the dock
  dockRequest,   \* its requests
  stored,        \* how often a message is stored, and in which tenants
  owed,          \* history: messages the user has sent or has in the draft
  drafted,       \* history: messages written at all
  failures,      \* history: sends of a message that failed
  slips

toolVars == <<formText, ack, toolCall>>
dockVars == <<dock, dockRequest, stored, owed, drafted, failures>>
shellVars == <<shown, sessionTenant, going, toolVars, dockVars, slips>>

Path == {"prompts", "languages"}
NoLoad == [to |-> "nowhere", tenant |-> "unread"]
NoPage == [tenant |-> "unread", path |-> "nowhere"]
NoCall == [pc |-> "idle", kind |-> "none", from |-> NoPage, to |-> "none",
           acted |-> "nowhere", aborted |-> FALSE]
NoRequest == [pc |-> "idle", kind |-> "none", message |-> "none", orphan |-> FALSE]
NewDock == [draft |-> "none", sending |-> FALSE, context |-> "none"]

Page == [tenant : Workspace, path : Path]
ToolCall ==
  [pc : {"idle", "sent", "served", "failed", "answered"},
   kind : {"none", "portal", "checkout", "switch", "form"},
   from : [tenant : Workspace \cup {"unread"}, path : Path \cup {"nowhere"}],
   to : Workspace \cup Path \cup {"none"}, acted : Workspace \cup {"nowhere"}, aborted : BOOLEAN]
ChatRequest ==
  [pc : {"idle", "sent", "served", "failed"}, kind : {"none", "load", "send"},
   message : Message \cup {"none"}, orphan : BOOLEAN]

ShellTypeOK ==
  /\ shown \in Page /\ sessionTenant \in Workspace
  /\ going \in [to : Path \cup {"nowhere"}, tenant : Workspace \cup {"unread"}]
  /\ formText \in {"stored", "filled"}
  /\ ack \in [what : {"none", "said"}, tenant : Workspace]
  /\ toolCall \in [ToolUse -> ToolCall]
  /\ dock \in [draft : Message \cup {"none"}, sending : BOOLEAN, context : Workspace \cup {"none"}]
  /\ dockRequest \in [DockRequest -> ChatRequest]
  /\ stored \in [Message -> [times : Nat, in : SUBSET Workspace]]
  /\ failures \in [Message -> Nat]
  /\ owed \subseteq drafted /\ drafted \subseteq Message /\ slips \in 0 .. Slips

ShellInit ==
  /\ LET t == CHOOSE t \in Workspace : TRUE IN
     /\ shown = [tenant |-> t, path |-> "prompts"] /\ sessionTenant = t
     /\ ack = [what |-> "none", tenant |-> t]
  /\ going = NoLoad /\ formText = "stored" /\ toolCall = [c \in ToolUse |-> NoCall]
  /\ dock = NewDock /\ dockRequest = [q \in DockRequest |-> NoRequest]
  /\ stored = [m \in Message |-> [times |-> 0, in |-> {}]]
  /\ owed = {} /\ drafted = {} /\ failures = [m \in Message |-> 0] /\ slips = 0

Slip == slips < Slips /\ slips' = slips + 1
Acknowledges == ack' = [what |-> "said", tenant |-> shown.tenant]

-----------------------------------------------------------------------------
(* The page                                                                *)

\* The user changes the tenant in another tab.
SwitchElsewhere ==
  /\ Slip /\ sessionTenant' \in Workspace \ {sessionTenant}
  /\ UNCHANGED <<shown, going, toolVars, dockVars>>

\* goto and invalidateAll: the last of them is the one that counts.
Loads(path) == going' = [to |-> path, tenant |-> "unread"]

\* A link of the workspace to the same page is followed.
Revisit == Loads(shown.path) /\ UNCHANGED <<shown, sessionTenant, toolVars, dockVars, slips>>

\* starter_shell_navigate: acknowledged before the page is loaded
NavigateTool ==
  /\ \E p \in Path : Loads(p)
  /\ Acknowledges
  /\ UNCHANGED <<shown, sessionTenant, formText, toolCall, dockVars, slips>>

\* The load of /app reads the tenant of the session.
LoadPage ==
  /\ going.to # "nowhere" /\ going.tenant = "unread"
  /\ going' = [going EXCEPT !.tenant = sessionTenant]
  /\ UNCHANGED <<shown, sessionTenant, toolVars, dockVars, slips>>

UnderWay(c) == toolCall[c].pc \in {"sent", "served", "failed"}

\* dispose of the bridge's lifetime
Disposed == [c \in ToolUse |-> IF UnderWay(c) THEN [toolCall[c] EXCEPT !.aborted = TRUE] ELSE toolCall[c]]

\* Mutant: calls outlive the bridge they were made on.
ArriveLeaving ==
  LET page == [tenant |-> going.tenant, path |-> going.to] IN
  /\ going.tenant # "unread" /\ going' = NoLoad /\ shown' = page
  /\ ack' = IF page.tenant = shown.tenant THEN ack ELSE [what |-> "none", tenant |-> page.tenant]
  /\ formText' \in IF page.path = shown.path THEN {formText, "stored"} ELSE {"stored"}
  /\ UNCHANGED <<sessionTenant, toolCall, dockVars, slips>>

\* The page is shown.  The context is keyed by the tenant and drops the
\* acknowledgement with it; the bridge by the path as well.  What was filled
\* in stays if path and stored text are the same, in whatever tenant.
Arrive ==
  LET page == [tenant |-> going.tenant, path |-> going.to] IN
  /\ going.tenant # "unread" /\ going' = NoLoad /\ shown' = page
  /\ toolCall' = IF page = shown THEN toolCall ELSE Disposed
  /\ ack' = IF page.tenant = shown.tenant THEN ack ELSE [what |-> "none", tenant |-> page.tenant]
  /\ formText' \in IF page.path = shown.path THEN {formText, "stored"} ELSE {"stored"}
  /\ UNCHANGED <<sessionTenant, dockVars, slips>>

-----------------------------------------------------------------------------
(* The tools                                                               *)

IdleCalls == {c \in ToolUse : toolCall[c].pc = "idle"}

\* run of the lifetime: the request goes out under a signal of its own.
Run(kind, to) ==
  /\ IdleCalls # {}
  /\ LET c == CHOOSE c \in IdleCalls : TRUE IN
     toolCall' = [toolCall EXCEPT ![c] =
       [pc |-> "sent", kind |-> kind, from |-> shown, to |-> to,
        acted |-> "nowhere", aborted |-> FALSE]]
  /\ UNCHANGED <<shown, sessionTenant, going, formText, ack, dockVars>>

PortalTool == Run("portal", "none") /\ UNCHANGED slips
CheckoutTool == Run("checkout", "none") /\ UNCHANGED slips
SwitchTool == \E t \in Workspace \ {shown.tenant} : Slip /\ Run("switch", t)

\* formFor: a form is found by its name, which is on one page.
FormIsMounted(form) == shown.path = form

\* The tenants whose plan has the feature of a form
Entitled(form) == IF form = "prompts" THEN Prompting ELSE Translating

\* canManagePrompts and canManageLanguages of the page, but for the permission
Editable(form) == shown.tenant \in Entitled(form)

\* planShellFormFill: all of the fields, or none; nothing is sent.
FillForm(form) ==
  /\ FormIsMounted(form) /\ Editable(form) /\ formText' = "filled" /\ Acknowledges
  /\ UNCHANGED <<shown, sessionTenant, going, toolCall, dockVars, slips>>

SubmitForm(form) == FormIsMounted(form) /\ Run("form", form) /\ UNCHANGED slips

SetTheme ==
  /\ Acknowledges
  /\ UNCHANGED <<shown, sessionTenant, going, formText, toolCall, dockVars, slips>>

CallerAbort(c) ==
  /\ Slip /\ UnderWay(c) /\ ~toolCall[c].aborted
  /\ toolCall' = [toolCall EXCEPT ![c].aborted = TRUE]
  /\ UNCHANGED <<shown, sessionTenant, going, formText, ack, dockVars>>

\* The endpoints, all of them in the tenant of the session
Acts(c, pc) == toolCall' = [toolCall EXCEPT ![c].acted = sessionTenant, ![c].pc = pc]
Refuses(c) == toolCall' = [toolCall EXCEPT ![c].pc = "failed"] /\ UNCHANGED sessionTenant

\* GET /api/billing/portal: a tenant without a customer has no portal.
PreparePortal(c, pc) ==
  /\ toolCall[c].kind = "portal"
  /\ IF sessionTenant \in Customers THEN Acts(c, pc) /\ UNCHANGED sessionTenant ELSE Refuses(c)

\* GET /api/billing/checkout: the customer may be yet to come.
PrepareCheckout(c, pc) ==
  toolCall[c].kind = "checkout" /\ Acts(c, pc) /\ UNCHANGED sessionTenant

\* An action looks at the plan of the session's tenant, whatever the page has
\* shown; fail(403) is a response like any other, and its result is "failure".
Save(form, c, pc) ==
  /\ toolCall[c].kind = "form" /\ toolCall[c].to = form
  /\ IF sessionTenant \in Entitled(form) THEN Acts(c, pc) /\ UNCHANGED sessionTenant ELSE Refuses(c)

\* The action `prompt` of /app/settings/prompts
SavePrompt(c, pc) == Save("prompts", c, pc)

\* The action `language` of /app/settings/languages
SaveLanguage(c, pc) == Save("languages", c, pc)

SwitchTenant(c, pc) ==
  /\ toolCall[c].kind = "switch" /\ sessionTenant' = toolCall[c].to
  /\ toolCall' = [toolCall EXCEPT ![c].acted = toolCall[c].to, ![c].pc = pc]

ServeCall(c) ==
  /\ toolCall[c].pc = "sent"
  /\ \/ PreparePortal(c, "served") \/ PrepareCheckout(c, "served")
     \/ SavePrompt(c, "served") \/ SaveLanguage(c, "served") \/ SwitchTenant(c, "served")
  /\ UNCHANGED <<shown, going, formText, ack, dockVars, slips>>

\* Refused, or failed: before the server has acted or after.
FailCall(c) ==
  /\ Slip /\ toolCall[c].pc = "sent"
  /\ \/ Refuses(c) \/ PreparePortal(c, "failed")
     \/ PrepareCheckout(c, "failed") \/ SavePrompt(c, "failed")
     \/ SaveLanguage(c, "failed") \/ SwitchTenant(c, "failed")
  /\ UNCHANGED <<shown, going, formText, ack, dockVars>>

\* An answered form or switch has the page loaded again.
Respond(c, ok) ==
  /\ toolCall[c].pc \in {"served", "failed"}
  /\ toolCall' = [toolCall EXCEPT ![c] = IF ok THEN [@ EXCEPT !.pc = "answered"] ELSE NoCall]
  /\ IF ok THEN Acknowledges ELSE UNCHANGED ack
  /\ IF ok /\ toolCall[c].kind \in {"form", "switch"} THEN Loads(shown.path) ELSE UNCHANGED going
  /\ UNCHANGED <<shown, sessionTenant, formText, dockVars, slips>>

\* Mutant: of a form's response only the status is looked at.
AnswerByStatus(c) ==
  Respond(c, (toolCall[c].pc = "served" \/ toolCall[c].kind = "form") /\ ~toolCall[c].aborted)

\* What came back, unless somebody has aborted the call: then it is
\* "cancelled", whatever the server has done.
AnswerCall(c) == Respond(c, toolCall[c].pc = "served" /\ ~toolCall[c].aborted)

HearAnswer(c) ==
  /\ toolCall[c].pc = "answered" /\ toolCall' = [toolCall EXCEPT ![c] = NoCall]
  /\ UNCHANGED <<shown, sessionTenant, going, formText, ack, dockVars, slips>>

-----------------------------------------------------------------------------
(* The dock                                                                *)

dockFrame == <<shown, sessionTenant, going, toolVars>>
IdleRequests == {q \in DockRequest : dockRequest[q].pc = "idle"}

Requests(kind, message) ==
  /\ IdleRequests # {}
  /\ LET q == CHOOSE q \in IdleRequests : TRUE IN
     dockRequest' = [dockRequest EXCEPT ![q] =
       [pc |-> "sent", kind |-> kind, message |-> message, orphan |-> FALSE]]

\* The effect: the page shows a tenant whose chat is not yet asked for.
LoadOnChange ==
  /\ dock.context # shown.tenant /\ Requests("load", "none")
  /\ dock' = [dock EXCEPT !.context = shown.tenant]
  /\ UNCHANGED <<dockFrame, stored, owed, drafted, failures, slips>>

\* loadChat, by the button, which is never disabled
LoadChat ==
  /\ Requests("load", "none")
  /\ UNCHANGED <<dockFrame, dock, stored, owed, drafted, failures, slips>>

\* The text area is disabled while a message is sent; what stood there is
\* drafted over.
WriteMessage ==
  /\ ~dock.sending
  /\ \E m \in Message \ drafted :
       /\ dock' = [dock EXCEPT !.draft = m]
       /\ drafted' = drafted \cup {m} /\ owed' = (owed \ {dock.draft}) \cup {m}
  /\ UNCHANGED <<dockFrame, dockRequest, stored, failures, slips>>

SendDraft ==
  /\ dock.draft # "none" /\ ~dock.sending /\ Requests("send", dock.draft)
  /\ dock' = [dock EXCEPT !.draft = "none", !.sending = TRUE]
  /\ UNCHANGED <<dockFrame, stored, owed, drafted, failures, slips>>

Stores(q) ==
  IF dockRequest[q].kind = "send"
  THEN [stored EXCEPT ![dockRequest[q].message] =
          [times |-> @.times + 1, in |-> @.in \cup {sessionTenant}]]
  ELSE stored

\* GET and POST of /api/chat, in the tenant of the session
ServeDock(q) ==
  /\ dockRequest[q].pc = "sent"
  /\ stored' = Stores(q)
  /\ dockRequest' = [dockRequest EXCEPT ![q].pc = "served"]
  /\ UNCHANGED <<dockFrame, dock, owed, drafted, failures, slips>>

\* Refused, or failed when the message was stored already: its tool, or the
\* reading of the chat, may fail after that.
FailDock(q) ==
  /\ Slip /\ dockRequest[q].pc = "sent"
  /\ stored' \in {stored, Stores(q)}
  /\ dockRequest' = [dockRequest EXCEPT ![q].pc = "failed"]
  /\ failures' = IF dockRequest[q].kind = "send"
                 THEN [failures EXCEPT ![dockRequest[q].message] = @ + 1] ELSE failures
  /\ UNCHANGED <<dockFrame, dock, owed, drafted>>

\* Whatever comes back is shown: the last response, of whichever tenant.
ReceiveChat(q) ==
  /\ dockRequest[q].pc = "served" \/ (dockRequest[q].pc = "failed" /\ dockRequest[q].kind = "load")
  /\ dockRequest' = [dockRequest EXCEPT ![q] = NoRequest]
  /\ dock' = IF dockRequest[q].orphan THEN dock
             ELSE [dock EXCEPT !.sending = @ /\ dockRequest[q].kind # "send"]
  /\ UNCHANGED <<dockFrame, stored, owed, drafted, failures, slips>>

\* Mutant: only the error is shown.
SendForgets(q) ==
  /\ dockRequest[q].pc = "failed" /\ dockRequest[q].kind = "send"
  /\ dockRequest' = [dockRequest EXCEPT ![q] = NoRequest]
  /\ dock' = IF dockRequest[q].orphan THEN dock ELSE [dock EXCEPT !.sending = FALSE]
  /\ UNCHANGED <<dockFrame, stored, owed, drafted, failures, slips>>

\* The message is back in the draft.
SendFails(q) ==
  /\ dockRequest[q].pc = "failed" /\ dockRequest[q].kind = "send"
  /\ dockRequest' = [dockRequest EXCEPT ![q] = NoRequest]
  /\ dock' = IF dockRequest[q].orphan THEN dock
             ELSE [dock EXCEPT !.draft = dockRequest[q].message, !.sending = FALSE]
  /\ UNCHANGED <<dockFrame, stored, owed, drafted, failures, slips>>

\* The panel is taken down and put up again: its draft is gone, its requests
\* come back to nobody.
CloseDock ==
  /\ Slip /\ dock' = NewDock /\ owed' = {}
  /\ dockRequest' = [q \in DockRequest |-> IF dockRequest[q].pc = "idle" THEN NoRequest
                                           ELSE [dockRequest[q] EXCEPT !.orphan = TRUE]]
  /\ UNCHANGED <<dockFrame, stored, drafted, failures>>

-----------------------------------------------------------------------------
PageMoves == SwitchElsewhere \/ Revisit \/ LoadPage \/ Arrive

ToolStep ==
  \/ PageMoves \/ NavigateTool \/ PortalTool \/ CheckoutTool \/ SwitchTool \/ SetTheme
  \/ \E form \in Path : FillForm(form) \/ SubmitForm(form)
  \/ \E c \in ToolUse : CallerAbort(c) \/ ServeCall(c) \/ FailCall(c) \/ AnswerCall(c) \/ HearAnswer(c)

DockStep ==
  \/ PageMoves \/ LoadOnChange \/ LoadChat \/ WriteMessage \/ SendDraft \/ CloseDock
  \/ \E q \in DockRequest : ServeDock(q) \/ FailDock(q) \/ ReceiveChat(q) \/ SendFails(q)

-----------------------------------------------------------------------------
(* Properties                                                              *)

\* A message the user has sent, or still has in front of him, is in the draft,
\* on its way, or stored; it is stored at most once more than sending it has
\* failed; and one message at a time is on its way.
DockKeepsMessages ==
  LET sends == {q \in DockRequest : dockRequest[q].kind = "send" /\ ~dockRequest[q].orphan} IN
  /\ \A m \in owed :
       \/ dock.draft = m \/ \E q \in sends : dockRequest[q].message = m
       \/ stored[m].in # {}
  /\ \A m \in Message : stored[m].times <= 1 + failures[m]
  /\ Cardinality(sends) <= 1 /\ (dock.sending <=> sends # {})

\* A tool of the shell answers with success only what the server has done for
\* that call, which nobody has aborted, and while the page it was called on
\* is still the one shown.
TrulyAnswered ==
  \A c \in ToolUse :
    toolCall[c].pc # "answered" /\ toolCall'[c].pc = "answered" =>
      toolCall[c].acted \in Workspace /\ ~toolCall[c].aborted /\ toolCall[c].from = shown

\* The tools answer truly, the dock keeps messages, and what the shell says to
\* have done it did while it showed the tenant that it shows.
ShellIsSound ==
  [][TrulyAnswered /\ DockKeepsMessages' /\ ack'.tenant = shown'.tenant]_shellVars
=============================================================================
