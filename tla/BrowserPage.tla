----------------------------- MODULE BrowserPage -----------------------------
(***************************************************************************)
(* The other end of the web application: what a page of it keeps while its *)
(* requests are under way.  The panel of the report operations             *)
(* (ReportOperations.svelte) and the tools that an agent in the browser    *)
(* calls (operation-tool.ts, WebMcpShellBridge.svelte, with the lifetime   *)
(* of shell-request-lifetime.ts) share the list of operations, the tenant  *)
(* shown and the server's session, which a switch of tenant changes before *)
(* the page knows.                                                         *)
(*                                                                         *)
(* A request is sent, dealt with by the server, and its response handled:  *)
(* three steps, and between them anything.  Aborting a request drops its   *)
(* response; the server may deal with it all the same.                     *)
(***************************************************************************)
EXTENDS WebProcess, FiniteSets

CONSTANTS
  Tenant,    \* tenants of the user
  Fetch,     \* requests under way
  RequestId, \* ids that make the creation of an operation repeatable
  Upsets     \* bound: failures, aborts by callers, pages left, and switches

Panel == {"refresh", "create"}
Tool == {"submit", "switch"}

ASSUME BrowserPageAssumption ==
  /\ Tenant # {} /\ Upsets \in Nat
  /\ None \notin Tenant \cup Fetch \cup RequestId \cup Panel \cup Tool

VARIABLES
  page,    \* the tenant it shows, and which time it is mounted
  server,  \* the tenant of the session, and the operations
  panel,   \* the panel of the operations
  fetch,   \* requests
  ids,     \* request ids taken
  settled, \* history: ids whose creation the panel has shown, or forgotten
  upsets

pageVars == <<page, server, panel, fetch, ids, settled, upsets>>

Operation == [id : RequestId, tenant : Tenant]
NoFetch == [pc |-> "idle", kind |-> None, asked |-> None, id |-> None, to |-> None,
            life |-> 0, aborted |-> FALSE, body |-> {}]
FetchState ==
  [pc : {"idle", "sent", "served", "failed", "shown", "acknowledged", "answered"},
   kind : Panel \cup Tool \cup {None}, asked : Tenant \cup {None}, id : RequestId \cup {None},
   to : Tenant \cup {None}, life : 0 .. Upsets, aborted : BOOLEAN, body : SUBSET RequestId]
NewPanel == [active |-> None, busy |-> FALSE, list |-> {}, creating |-> None]

PageTypeOK ==
  /\ page \in [tenant : Tenant, mounted : BOOLEAN, life : 0 .. Upsets]
  /\ server \in [tenant : Tenant, operations : SUBSET Operation]
  /\ panel \in [active : Fetch \cup {None}, busy : BOOLEAN, creating : RequestId \cup {None},
                list : SUBSET [id : RequestId, asked : Tenant]]
  /\ fetch \in [Fetch -> FetchState]
  /\ ids \subseteq RequestId /\ settled \subseteq RequestId /\ upsets \in 0 .. Upsets

PageInit ==
  /\ Init
  /\ LET t == CHOOSE t \in Tenant : TRUE IN
     page = [tenant |-> t, mounted |-> TRUE, life |-> 0] /\ server = [tenant |-> t, operations |-> {}]
  /\ panel = NewPanel /\ fetch = [f \in Fetch |-> NoFetch]
  /\ ids = {} /\ settled = {} /\ upsets = 0

IdleFetches == {f \in Fetch : fetch[f].pc = "idle"}
NewFetch == CHOOSE f \in IdleFetches : TRUE
FreshIds == RequestId \ ids
NewId == CHOOSE i \in FreshIds : TRUE
Upset == upsets < Upsets /\ upsets' = upsets + 1

Sent(kind, id, to, t, life) ==
  [pc |-> "sent", kind |-> kind, asked |-> t, id |-> id, to |-> to, life |-> life,
   aborted |-> FALSE, body |-> {}]

\* AbortController.abort: no response comes any more, the server may still
\* act; of a response that is there already the page knows it was aborted.
Aborted(f) ==
  IF fetch[f].kind = "refresh" /\ fetch[f].pc = "sent" THEN NoFetch
  ELSE [fetch[f] EXCEPT !.aborted = TRUE]

AbortActive ==
  IF panel.active = None THEN fetch ELSE [fetch EXCEPT ![panel.active] = Aborted(panel.active)]

-----------------------------------------------------------------------------
(* The panel                                                               *)

\* What is under way is aborted, and this becomes the active command.
Command(kind, id) ==
  /\ IdleFetches # {}
  /\ fetch' = [AbortActive EXCEPT ![NewFetch] = Sent(kind, id, None, page.tenant, page.life)]
  /\ panel' = [panel EXCEPT !.active = NewFetch, !.busy = TRUE, !.creating = IF id = None THEN @ ELSE id]

Refresh ==
  /\ page.mounted /\ ~panel.busy /\ Command("refresh", None)
  /\ UNCHANGED <<page, server, ids, settled, upsets>>

\* Mutant: every attempt has an id of its own.
CreateAnew ==
  /\ page.mounted /\ ~panel.busy /\ FreshIds # {}
  /\ Command("create", NewId) /\ ids' = ids \cup {NewId}
  /\ UNCHANGED <<page, server, settled, upsets>>

\* create: an id whose creation has not been shown is used again.
Create ==
  /\ page.mounted /\ ~panel.busy
  /\ \/ /\ panel.creating # None /\ Command("create", panel.creating) /\ UNCHANGED ids
     \/ /\ panel.creating = None /\ FreshIds # {}
        /\ Command("create", NewId) /\ ids' = ids \cup {NewId}
  /\ UNCHANGED <<page, server, settled, upsets>>

Listed(f) == {[id |-> i, asked |-> fetch[f].asked] : i \in fetch[f].body}
Ends(f) == fetch' = [fetch EXCEPT ![f] = NoFetch]
FinallyOf(f, p) == IF panel.active = f THEN [p EXCEPT !.active = None, !.busy = FALSE] ELSE p
Dropped(f) == fetch[f].aborted \/ page.tenant # fetch[f].asked

\* The response: shown unless the request was aborted, or the page has come to
\* another tenant; and only the active command ends the wait.
Apply(f) ==
  LET shows == fetch[f].pc = "served" /\ ~Dropped(f) IN
  /\ fetch[f].pc \in {"served", "failed"} /\ fetch[f].kind \in Panel
  /\ panel' = FinallyOf(f,
       CASE shows /\ fetch[f].kind = "refresh" -> [panel EXCEPT !.list = Listed(f)]
         [] shows /\ fetch[f].kind = "create" ->
              [panel EXCEPT !.list = @ \cup Listed(f), !.creating = None]
         [] OTHER -> panel)
  /\ settled' = IF shows /\ fetch[f].kind = "create" THEN settled \cup {fetch[f].id} ELSE settled
  /\ Ends(f) /\ UNCHANGED <<page, server, ids, upsets>>

-----------------------------------------------------------------------------
(* The server                                                              *)

\* createReportOperation, in the tenant of the session: an id it knows there
\* gives the operation there is.
Created(id) == [id |-> id, tenant |-> server.tenant]

Act(f) ==
  /\ fetch[f].pc = "sent"
  /\ server' = CASE fetch[f].kind = "switch" -> [server EXCEPT !.tenant = fetch[f].to]
                 [] fetch[f].kind \in {"create", "submit"} ->
                      [server EXCEPT !.operations = @ \cup {Created(fetch[f].id)}]
                 [] OTHER -> server

Serve(f) ==
  /\ Act(f)
  /\ fetch' = IF fetch[f].aborted THEN [fetch EXCEPT ![f] = NoFetch] ELSE
       [fetch EXCEPT ![f].pc = "served", ![f].body =
       CASE fetch[f].kind = "refresh" -> {o.id : o \in {p \in server.operations : p.tenant = server.tenant}}
         [] fetch[f].kind \in {"create", "submit"} -> {fetch[f].id}
         [] OTHER -> {}]
  /\ UNCHANGED <<page, panel, ids, settled, upsets>>

\* The request fails, before the server has acted or after.
Fail(f) ==
  /\ Upset /\ fetch[f].pc = "sent"
  /\ Act(f) \/ UNCHANGED server
  /\ fetch' = IF fetch[f].aborted THEN [fetch EXCEPT ![f] = NoFetch]
              ELSE [fetch EXCEPT ![f].pc = "failed"]
  /\ UNCHANGED <<page, panel, ids, settled>>

-----------------------------------------------------------------------------
(* The tools of the agent                                                  *)

ToolCall(kind, id, to) ==
  /\ IdleFetches # {}
  /\ fetch' = [fetch EXCEPT ![NewFetch] = Sent(kind, id, to, page.tenant, page.life)]
  /\ UNCHANGED <<page, server, panel>>

\* executeOperationTool; the id is the agent's
SubmitTool ==
  /\ page.mounted /\ FreshIds # {} /\ ToolCall("submit", NewId, None)
  /\ ids' = ids \cup {NewId} /\ settled' = settled \cup {NewId} /\ UNCHANGED upsets

\* starter_shell_switch_tenant, a tool of the shell around the page
Switch ==
  /\ \E t \in Tenant \ {page.tenant} : Upset /\ ToolCall("switch", None, t)
  /\ UNCHANGED <<ids, settled>>

\* AbortSignal of the one who called
CallerAborts(f) ==
  /\ Upset /\ fetch[f].kind = "submit" /\ ~fetch[f].aborted
  /\ fetch' = [fetch EXCEPT ![f] = Aborted(f)]
  /\ UNCHANGED <<page, server, panel, ids, settled>>

\* The operation is shown in the panel, and the page is left time to render.
Show(f) ==
  /\ fetch[f].pc = "served" /\ fetch[f].kind = "submit"
  /\ IF Dropped(f) THEN Ends(f) /\ UNCHANGED panel
     ELSE /\ panel' = [panel EXCEPT !.list = @ \cup Listed(f)]
          /\ fetch' = [fetch EXCEPT ![f].pc = "shown"]
  /\ UNCHANGED <<page, server, ids, settled, upsets>>

\* Mutant: the page is not looked at again after it has rendered.
AcknowledgeAnyway(f) ==
  /\ fetch[f].pc = "shown" /\ fetch' = [fetch EXCEPT ![f].pc = "acknowledged"]
  /\ UNCHANGED <<page, server, panel, ids, settled, upsets>>

\* Then it is acknowledged, and the page rendered again.
Acknowledge(f) ==
  /\ fetch[f].pc = "shown"
  /\ IF Dropped(f) THEN Ends(f) ELSE fetch' = [fetch EXCEPT ![f].pc = "acknowledged"]
  /\ UNCHANGED <<page, server, panel, ids, settled, upsets>>

\* run of the lifetime has the last word: "cancelled" if it was aborted.
Answer(f) ==
  /\ fetch[f].pc = "acknowledged" \/ (fetch[f].pc = "failed" /\ fetch[f].kind = "submit")
  /\ fetch' = [fetch EXCEPT ![f] = IF fetch[f].pc = "failed" \/ fetch[f].aborted THEN NoFetch
                                   ELSE [@ EXCEPT !.pc = "answered"]]
  /\ UNCHANGED <<page, server, panel, ids, settled, upsets>>

\* The switch is acknowledged and answered at once, and so is its failure.
Switched(f) ==
  /\ fetch[f].pc \in {"served", "failed"} /\ fetch[f].kind = "switch" /\ Ends(f)
  /\ UNCHANGED <<page, server, panel, ids, settled, upsets>>

Heard(f) ==
  /\ fetch[f].pc = "answered" /\ Ends(f)
  /\ UNCHANGED <<page, server, panel, ids, settled, upsets>>

-----------------------------------------------------------------------------
(* The page                                                                *)

\* Mutant: the list is kept when the tenant changes.
ReloadKeeping ==
  /\ page.mounted /\ page.tenant # server.tenant /\ IdleFetches # {}
  /\ page' = [page EXCEPT !.tenant = server.tenant]
  /\ fetch' = [AbortActive EXCEPT ![NewFetch] = Sent("refresh", None, None, server.tenant, page.life)]
  /\ panel' = [panel EXCEPT !.active = NewFetch, !.busy = TRUE]
  /\ UNCHANGED <<server, ids, settled, upsets>>

\* invalidateAll, or any navigation, brings the tenant of the session: the
\* effect of the panel aborts, empties the list and refreshes.
Reload ==
  /\ page.mounted /\ page.tenant # server.tenant /\ IdleFetches # {}
  /\ page' = [page EXCEPT !.tenant = server.tenant]
  /\ fetch' = [AbortActive EXCEPT ![NewFetch] = Sent("refresh", None, None, server.tenant, page.life)]
  /\ panel' = [panel EXCEPT !.list = {}, !.active = NewFetch, !.busy = TRUE]
  /\ UNCHANGED <<server, ids, settled, upsets>>

\* onDestroy of the panel and of the tools of its page: the panel is gone
\* with the id it kept, and what either has under way is aborted.
Leave ==
  /\ Upset /\ page.mounted
  /\ page' = [page EXCEPT !.mounted = FALSE]
  /\ fetch' = [f \in Fetch |-> IF fetch[f].kind \in {"refresh", "create", "submit"}
                               THEN Aborted(f) ELSE fetch[f]]
  /\ panel' = NewPanel
  /\ settled' = settled \cup ({panel.creating} \ {None})
  /\ UNCHANGED <<server, ids>>

\* onMount
Mount ==
  /\ ~page.mounted /\ IdleFetches # {}
  /\ page' = [tenant |-> server.tenant, mounted |-> TRUE, life |-> page.life + 1]
  /\ fetch' = [fetch EXCEPT ![NewFetch] = Sent("refresh", None, None, server.tenant, page.life + 1)]
  /\ panel' = [NewPanel EXCEPT !.active = NewFetch, !.busy = TRUE]
  /\ UNCHANGED <<server, ids, settled, upsets>>

-----------------------------------------------------------------------------
PageStep ==
  \/ Refresh \/ Create \/ SubmitTool \/ Switch \/ Reload \/ Leave \/ Mount
  \/ \E f \in Fetch :
       \/ Apply(f) \/ Serve(f) \/ Fail(f) \/ CallerAborts(f)
       \/ Show(f) \/ Acknowledge(f) \/ Answer(f) \/ Switched(f) \/ Heard(f)

PageNext ==
  \/ Next /\ UNCHANGED pageVars
  \/ use = "page" /\ PageStep /\ UNCHANGED vars

PageSpec == PageInit /\ [][PageNext]_<<vars, pageVars>> /\ Fairness

-----------------------------------------------------------------------------
(* Properties                                                              *)

\* The panel lists only what was asked for while the page showed the tenant it
\* shows now; of its commands only the latest can still be shown, and the panel
\* is busy exactly as long as that one is under way.
PanelIsCurrent ==
  /\ \A o \in panel.list : o.asked = page.tenant
  /\ panel.busy <=> panel.active # None
  /\ \A f \in Fetch : fetch[f].pc # "idle" /\ fetch[f].kind \in Panel =>
       (f = panel.active <=> ~fetch[f].aborted)

\* However often a creation fails, is aborted and is tried again, the panel
\* makes at most one operation in a tenant that it has not shown.
NoDoubleCreation ==
  \A t \in Tenant :
    Cardinality({o \in server.operations : o.tenant = t /\ o.id \notin settled}) <= 1

\* Both: the panel shows one tenant's operations, and does not multiply them.
PanelIsSound == PanelIsCurrent /\ NoDoubleCreation

\* A tool acknowledges only on the page it was called on, for the tenant it
\* was called for, what the server has done; and it answers with success only
\* what it has acknowledged and nobody has aborted.
ToolsAnswerTruly ==
  [][\A f \in Fetch :
       LET was == fetch[f] is == fetch'[f] IN
       /\ was.pc # "acknowledged" /\ is.pc = "acknowledged" =>
            /\ page.mounted /\ was.life = page.life /\ was.asked = page.tenant
            /\ \E t \in Tenant : [id |-> was.id, tenant |-> t] \in server.operations
       /\ was.pc # "answered" /\ is.pc = "answered" =>
            ~was.aborted /\ was.life = page.life]_<<vars, pageVars>>
=============================================================================
