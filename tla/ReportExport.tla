---------------------------- MODULE ReportExport ----------------------------
(***************************************************************************)
(* Refreshing the materialised activity report and exporting it as a file  *)
(* (report-actions.ts and activity-report.ts of apps/web,                  *)
(* report-refresh-runtime.ts of apps/worker), for one tenant.              *)
(*                                                                         *)
(* An export reads the report twice, in two read-only REPEATABLE READ      *)
(* transactions, and stores its file with a service outside the database.  *)
(* In between, refreshes replace the report and principals lose and regain *)
(* their role; the checks are repeated, and a check is one step.  The      *)
(* report package is external: applyReportExport authorizes, asserts the   *)
(* snapshot and audits, and a refresh replaces the rows of a tenant and    *)
(* their asOf in one transaction.                                          *)
(***************************************************************************)
EXTENDS Naturals, Sequences

CONSTANTS
  Principal,   \* user and profile of a membership
  Export,      \* export requests; a stored file is named after its request
  Download,    \* download requests
  Job,         \* refresh jobs
  PageLimit,   \* rows of a page
  MaxRows,     \* EXPORT_MAX_ROWS, 1000 in the code
  MaxSize,     \* bound on the rows of a report
  MaxRefresh,  \* bound on the refreshes
  None

ASSUME ReportExportAssumption ==
  /\ PageLimit \in Nat \ {0}
  /\ MaxRows \in Nat /\ MaxSize \in Nat /\ MaxRefresh \in Nat
  /\ None \notin Principal \cup Export

VARIABLES
  member,     \* principals whose role may refresh and export
  report,     \* the materialised report: its asOf, 0 before any, and its rows
  job,        \* refresh jobs with the principal they carry
  export,     \* export requests
  download,   \* download requests
  audit,      \* the audit log: action, principal and what it was about
  banned,     \* history: exports whose principal lost its role before the
              \* last check and has not had it back
  outdated    \* history: exports whose report was replaced before the last check

vars == <<member, report, job, export, download, audit, banned, outdated>>

Report == [asOf : 0 .. MaxRefresh, size : 0 .. MaxSize]
Row == [asOf : 0 .. MaxRefresh, index : 1 .. MaxRows]

\* steps of an export, in order; what it stored is in rows
Binding == {"capture", "bound", "authorized", "asserted", "verify", "verified",
            "render", "pages", "persist", "persisting"}
ExportState ==
  [pc : {"idle", "store", "previewed", "stored", "refused"} \cup Binding,
   phase : {"preview", "apply"},
   owner : Principal \cup {None},
   snapshot : Report,      \* the snapshot the request is bound to
   view : Report,          \* what the render transaction reads
   rows : Seq(Row)]
Idle == [pc |-> "idle", phase |-> "preview", owner |-> None,
         snapshot |-> [asOf |-> 0, size |-> 0],
         view |-> [asOf |-> 0, size |-> 0], rows |-> << >>]

Entry == {"refresh", "preview", "apply", "download"} \X Principal \X (Export \cup {None})

TypeOK ==
  /\ member \subseteq Principal
  /\ report \in Report
  /\ job \in [Job -> [pc : {"none", "pending", "running", "done", "denied"},
                      by : Principal \cup {None}]]
  /\ export \in [Export -> ExportState]
  /\ download \in [Download -> [pc : {"idle", "serve", "audit", "served", "refused"},
                                by : Principal \cup {None},
                                of : Export \cup {None}]]
  /\ audit \subseteq Entry
  /\ banned \subseteq Export
  /\ outdated \subseteq Export

-----------------------------------------------------------------------------
At(x, pc) == export[x].pc = pc
Goto(x, pc) == export' = [export EXCEPT ![x].pc = pc]
Owner(x) == export[x].owner
Record(action, p, x) == audit' = audit \cup {<<action, p, x>>}

-----------------------------------------------------------------------------
(* executeActivityReportRefresh, and the authority the worker asks again   *)
(* before it rebuilds.                                                     *)

RequestRefresh(j, p) ==
  /\ job[j].pc = "none"
  /\ p \in member
  /\ job' = [job EXCEPT ![j] = [pc |-> "pending", by |-> p]]
  /\ Record("refresh", p, None)
  /\ UNCHANGED <<member, report, export, download, banned, outdated>>

AuthorizeRefresh(j) ==
  /\ job[j].pc = "pending"
  /\ job' = [job EXCEPT ![j].pc = IF job[j].by \in member THEN "running" ELSE "denied"]
  /\ UNCHANGED <<member, report, export, download, audit, banned, outdated>>

Rebuild(j) ==
  /\ job[j].pc = "running"
  /\ report.asOf < MaxRefresh
  /\ \E n \in 0 .. MaxSize : report' = [asOf |-> report.asOf + 1, size |-> n]
  /\ job' = [job EXCEPT ![j].pc = "done"]
  /\ outdated' = outdated \cup {x \in Export : export[x].pc \in Binding \ {"capture"}}
  /\ UNCHANGED <<member, export, download, audit, banned>>

-----------------------------------------------------------------------------
(* executeActivityReportExport.                                            *)

StartExport(x, p, phase) ==
  /\ At(x, "idle")
  /\ p \in member
  /\ export' = [export EXCEPT ![x].pc = "capture", ![x].owner = p, ![x].phase = phase]
  /\ UNCHANGED <<member, report, job, download, audit, banned, outdated>>

\* captureExportQuerySnapshot: rows, total and asOf of one moment
Capture(x) ==
  /\ At(x, "capture")
  /\ export' = [export EXCEPT ![x].snapshot = report,
       ![x].pc = IF report.asOf = 0 \/ report.size > MaxRows THEN "refused" ELSE "bound"]
  /\ UNCHANGED <<member, report, job, download, audit, banned, outdated>>

(* Mutant: the role is asked for once, when the export is applied.         *)
AuthorizeOnce(x, from, to) ==
  /\ At(x, from)
  /\ Goto(x, IF from # "bound" \/ Owner(x) \in member THEN to ELSE "refused")
  /\ UNCHANGED <<member, report, job, download, audit, banned, outdated>>

\* host.authorize asks for the permission of the moment
Authorize(x, from, to) ==
  /\ At(x, from)
  /\ Goto(x, IF Owner(x) \in member THEN to ELSE "refused")
  /\ UNCHANGED <<member, report, job, download, audit, banned, outdated>>

(* Mutant: the binding is compared with itself, not with the report.       *)
AnySnapshot(x, r) == TRUE

\* assertCurrentSnapshot: r is the report a connection sees
CurrentSnapshot(x, r) == export[x].snapshot.asOf = r.asOf

AssertSnapshot(x, from, to) ==
  /\ At(x, from)
  /\ Goto(x, IF CurrentSnapshot(x, report) THEN to ELSE "refused")
  /\ UNCHANGED <<member, report, job, download, audit, banned, outdated>>

\* the last step of previewReportExport and of applyReportExport
AuditAction(x) ==
  /\ At(x, "asserted")
  /\ Goto(x, IF export[x].phase = "preview" THEN "previewed" ELSE "verify")
  /\ Record(export[x].phase, Owner(x), x)
  /\ UNCHANGED <<member, report, job, download, banned, outdated>>

\* renderExportInSnapshot: the transaction sees the report of its first query
OpenRender(x) ==
  /\ At(x, "render")
  /\ export' = [export EXCEPT ![x].view = report,
       ![x].pc = IF CurrentSnapshot(x, report) THEN "pages" ELSE "refused"]
  /\ UNCHANGED <<member, report, job, download, audit, banned, outdated>>

Offset(x) == Len(export[x].rows)
Least(a, b) == IF a < b THEN a ELSE b

\* one page: as many rows after the offset as the limit allows and r has
PageOf(r, offset) ==
  [i \in 1 .. (IF offset < r.size THEN Least(PageLimit, r.size - offset) ELSE 0) |->
     [asOf |-> r.asOf, index |-> offset + i]]

(* Mutant: the loop goes on while the offset is within the row count, and  *)
(* the first page is read again.                                           *)
OverlappingPage(x) ==
  /\ At(x, "pages")
  /\ Offset(x) < export[x].snapshot.size
  /\ export' = [export EXCEPT ![x].rows =
       @ \o PageOf(export[x].view, IF Offset(x) = 0 THEN 0 ELSE Offset(x) - 1)]
  /\ UNCHANGED <<member, report, job, download, audit, banned, outdated>>

ReadPage(x) ==
  /\ At(x, "pages")
  /\ Offset(x) < export[x].snapshot.size
  /\ export' = [export EXCEPT ![x].rows = @ \o PageOf(export[x].view, Offset(x))]
  /\ UNCHANGED <<member, report, job, download, audit, banned, outdated>>

CloseRender(x) ==
  /\ At(x, "pages")
  /\ Offset(x) >= export[x].snapshot.size
  /\ Goto(x, "persist")
  /\ UNCHANGED <<member, report, job, download, audit, banned, outdated>>

\* the deadline, the byte limit, or a lost connection
Fail(x) ==
  /\ export[x].pc \in Binding \cup {"store"}
  /\ Goto(x, "refused")
  /\ UNCHANGED <<member, report, job, download, audit, banned, outdated>>

Store(x) ==
  /\ At(x, "store")
  /\ Goto(x, "stored")
  /\ UNCHANGED <<member, report, job, download, audit, banned, outdated>>

-----------------------------------------------------------------------------
(* downloadActivityReportExport.                                           *)

StartDownload(d, p, x) ==
  /\ download[d].pc = "idle"
  /\ p \in member
  /\ download' = [download EXCEPT ![d] = [pc |-> "serve", by |-> p, of |-> x]]
  /\ UNCHANGED <<member, report, job, export, audit, banned, outdated>>

(* Mutant: any member of the tenant may fetch the file.                    *)
StoredForTenant(d, x) == At(x, "stored")

\* validateStoredExportAccess: the owner's file, bound to its own snapshot
Accessible(d, x) == At(x, "stored") /\ Owner(x) = download[d].by

Serve(d) ==
  /\ download[d].pc = "serve"
  /\ download' = [download EXCEPT ![d].pc =
       IF Accessible(d, download[d].of) THEN "audit" ELSE "refused"]
  /\ UNCHANGED <<member, report, job, export, audit, banned, outdated>>

AuditDownload(d) ==
  /\ download[d].pc = "audit"
  /\ download' = [download EXCEPT ![d].pc = "served"]
  /\ Record("download", download[d].by, download[d].of)
  /\ UNCHANGED <<member, report, job, export, banned, outdated>>

-----------------------------------------------------------------------------
(* Roles change by member administration.                                  *)

Revoke(p) ==
  /\ p \in member
  /\ member' = member \ {p}
  /\ banned' = banned \cup
       {x \in Export : Owner(x) = p /\ export[x].pc \in Binding \ {"persisting"}}
  /\ UNCHANGED <<report, job, export, download, audit, outdated>>

Regain(p) ==
  /\ p \notin member
  /\ member' = member \cup {p}
  /\ banned' = {x \in banned : Owner(x) # p}
  /\ UNCHANGED <<report, job, export, download, audit, outdated>>

-----------------------------------------------------------------------------
Init ==
  /\ member = Principal
  /\ report = [asOf |-> 0, size |-> 0]
  /\ job = [j \in Job |-> [pc |-> "none", by |-> None]]
  /\ export = [x \in Export |-> Idle]
  /\ download = [d \in Download |-> [pc |-> "idle", by |-> None, of |-> None]]
  /\ audit = {}
  /\ banned = {}
  /\ outdated = {}

Refreshing ==
  \E j \in Job :
    \/ \E p \in Principal : RequestRefresh(j, p)
    \/ AuthorizeRefresh(j) \/ Rebuild(j)

Exporting ==
  \E x \in Export :
    \/ \E p \in Principal, phase \in {"preview", "apply"} : StartExport(x, p, phase)
    \/ Capture(x)
    \/ Authorize(x, "bound", "authorized") \/ AssertSnapshot(x, "authorized", "asserted")
    \/ AuditAction(x)
    \/ Authorize(x, "verify", "verified") \/ AssertSnapshot(x, "verified", "render")
    \/ OpenRender(x) \/ ReadPage(x) \/ CloseRender(x)
    \/ Authorize(x, "persist", "persisting") \/ AssertSnapshot(x, "persisting", "store")
    \/ Store(x) \/ Fail(x)

Downloading ==
  \E d \in Download :
    \/ \E p \in Principal, x \in Export : StartDownload(d, p, x)
    \/ Serve(d) \/ AuditDownload(d)

Administering == \E p \in Principal : Revoke(p) \/ Regain(p)

Next == Refreshing \/ Exporting \/ Downloading \/ Administering

Spec == Init /\ [][Next]_vars

-----------------------------------------------------------------------------
(* A stored file is one materialisation, the one it is bound to: all its   *)
(* rows, each once, in order, and none of another refresh                  *)
(* (renderExportInSnapshot; "rejects a growing refresh after capturing the *)
(* initial count in one snapshot").                                        *)
StoredIsOneSnapshot ==
  \A x \in Export : At(x, "stored") =>
    export[x].rows =
      [i \in 1 .. export[x].snapshot.size |->
         [asOf |-> export[x].snapshot.asOf, index |-> i]]

(* A principal that lost its role while the file was being made, and did   *)
(* not get it back, has no file stored (the recheck at the persistence     *)
(* boundary in executeActivityReportExport).                               *)
RevokedPrincipalStoresNothing ==
  \A x \in banned : ~At(x, "stored")

(* A report that was replaced while the file was being made is not stored  *)
(* under its old asOf (the same boundary).                                 *)
OutdatedReportIsNotStored ==
  \A x \in outdated : ~At(x, "stored")

(* Both: what was overtaken while the pages were read, by a revocation or  *)
(* by a refresh, is not stored (executeActivityReportExport).              *)
OvertakenIsNotStored == RevokedPrincipalStoresNothing /\ OutdatedReportIsNotStored

(* Nothing leaves without a trace: a stored file has the audit entry of    *)
(* its export, a served one also that of its download, and only its owner  *)
(* was served (downloadActivityReportExport).                              *)
FilesAreOnRecord ==
  /\ \A x \in Export : At(x, "stored") => <<"apply", Owner(x), x>> \in audit
  /\ \A d \in Download : download[d].pc = "served" =>
       /\ <<"download", download[d].by, download[d].of>> \in audit
       /\ <<"apply", download[d].by, download[d].of>> \in audit
=============================================================================
