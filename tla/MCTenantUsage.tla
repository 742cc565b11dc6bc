--------------------------- MODULE MCTenantUsage ---------------------------
(* Small instances of TenantUsage: three chats at once; two chats, or a    *)
(* chat and a call, with a change of plan or role or a failure; and an     *)
(* audit of four tenants of which two come or go; and the shell of a user  *)
(* of two tenants, one of them without a customer at the provider, with    *)
(* two calls of its tools or two requests of its dock under way.           *)
EXTENDS TenantWorkspace

CONSTANTS c1, c2, c3, m1

Comes(requested, written, granted, audited, troubles) ==
  [requests |-> requested, texts |-> written, grants |-> granted, audit |-> audited, faults |-> troubles]
Viewing == {"usageRead"}
Calling == {"usageRead", "mcpCall"}
Texts == {{"usage"}, {"cancel_report_operation", "report", "cancel"}, {"prepare_report"}}
Days == {Comes({c1, c2, c3}, {{}}, {Calling}, FALSE, 0),
         Comes({c1, c2}, Texts, {Viewing, Permission}, FALSE, 1),
         Comes({c1, m1}, Texts, {Calling, Permission}, FALSE, 1),
         Comes({}, {}, {}, TRUE, 2)}
Offers == {Feature, {"chat.agent", "mcp.read_tools"}}
Limit(what, kind, most) == [metric |-> what, window |-> kind, limit |-> most]
Limits == {Limit("chat.messages", "day", 1), Limit("chat.messages", "month", 2),
           Limit("mcp.calls", "month", 1)}
Interchangeable == Permutations({c1, c2})
=============================================================================
