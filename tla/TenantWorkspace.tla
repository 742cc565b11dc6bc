--------------------------- MODULE TenantWorkspace ---------------------------
(***************************************************************************)
(* A tenant's workspace from both sides: the chats, calls and quotas of    *)
(* the server (TenantUsage), and the shell with its tools and its dock     *)
(* (ShellPage), for which the server's side of a chat is one step.  They   *)
(* share no state that the other does not abstract from, so `screen` names *)
(* what is looked at of the shell, or "none", and the rest stands still.   *)
(***************************************************************************)
EXTENDS TenantUsage, ShellPage

VARIABLE screen

workspaceVars == <<vars, shellVars, screen>>

WorkspaceInit ==
  /\ Init /\ ShellInit /\ screen \in {"none", "tools", "dock"}
  /\ screen # "none" => situation.audit /\ plan = Feature /\ subscribed = {}

WorkspaceNext ==
  /\ \/ screen = "none" /\ Next /\ UNCHANGED shellVars
     \/ screen = "tools" /\ ToolStep /\ UNCHANGED vars
     \/ screen = "dock" /\ DockStep /\ UNCHANGED vars
  /\ UNCHANGED screen

WorkspaceSpec == WorkspaceInit /\ [][WorkspaceNext]_workspaceVars
=============================================================================
