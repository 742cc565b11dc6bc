------------------------ MODULE ReportExport_proofs ------------------------
(***************************************************************************)
(* The safety of ReportExport for any number of principals, exports,       *)
(* downloads and refreshes, any page size and any report.                  *)
(*                                                                         *)
(* That a stored file is one materialisation follows from two facts that   *)
(* hold on the way: an asOf names one report for as long as the report     *)
(* carries it, so the check at the beginning of the render transaction     *)
(* makes its view equal to the snapshot; and the rows read so far are the  *)
(* first rows of that view.                                                *)
(***************************************************************************)
EXTENDS ReportExport, SequenceTheorems, TLAPS

\* where an export may be, by what is known of it there
Bound == (Binding \ {"capture"}) \cup {"store", "stored"}
Rendered == {"pages", "persist", "persisting", "store", "stored"}
Complete == Rendered \ {"pages"}
Applied == Rendered \cup {"verify", "verified", "render"}
Overtaken == {"previewed", "refused"}

Shape(e) ==
  /\ e \in ExportState
  /\ e.pc # "idle" => e.owner \in Principal

\* an asOf names one report; what has been read is a prefix of it
Prefix(s, r) == \A i \in 1 .. Len(s) : s[i] = [asOf |-> r.asOf, index |-> i]
Reading(e, r) ==
  /\ e.pc \in Bound =>
       /\ e.snapshot.size <= MaxRows
       /\ e.snapshot.asOf <= r.asOf
       /\ e.snapshot.asOf = r.asOf => e.snapshot = r
  /\ e.pc \in {"idle"} \cup (Binding \ Rendered) => e.rows = << >>
  /\ e.pc \in Rendered =>
       /\ e.view = e.snapshot
       /\ Len(e.rows) <= e.snapshot.size
       /\ Prefix(e.rows, e.snapshot)
  /\ e.pc \in Complete => Len(e.rows) = e.snapshot.size

Revoked(e, m) ==
  /\ e.owner \notin m
  /\ e.pc \in (Binding \ {"persisting"}) \cup Overtaken
Replaced(e, r) ==
  /\ e.snapshot.asOf < r.asOf
  /\ e.pc \in (Binding \ {"capture"}) \cup Overtaken
Audited(e, x, a) ==
  e.pc \in Applied => e.phase = "apply" /\ <<"apply", e.owner, x>> \in a
Fetched(d) ==
  /\ d.pc # "idle" => d.by \in Principal /\ d.of \in Export
  /\ d.pc \in {"audit", "served"} => At(d.of, "stored") /\ Owner(d.of) = d.by

IInv ==
  /\ TypeOK
  /\ \A j \in Job : job[j].pc # "none" => job[j].by \in Principal
  /\ \A x \in Export : Shape(export[x])
  /\ \A x \in Export : Reading(export[x], report)
  /\ \A x \in Export : Audited(export[x], x, audit)
  /\ \A x \in banned : Revoked(export[x], member)
  /\ \A x \in outdated : Replaced(export[x], report)
  /\ \A d \in Download : Fetched(download[d])
  /\ \A d \in Download : download[d].pc = "served" =>
       <<"download", download[d].by, download[d].of>> \in audit

-----------------------------------------------------------------------------
LEMMA InitIsGood == Init => IInv
<1> SUFFICES ASSUME Init PROVE IInv
  OBVIOUS
<1> USE DEF Init
<1>1. Idle \in ExportState /\ Idle.pc = "idle"
  <2>1. << >> \in Seq(Row)
    OBVIOUS
  <2> QED
    BY <2>1, ReportExportAssumption DEF Idle, ExportState, Report
<1>2. \A x \in Export : export[x] = Idle
  OBVIOUS
<1>3. TypeOK
  BY <1>1, ReportExportAssumption DEF TypeOK, Report
<1>4. \A x \in Export : Shape(export[x]) /\ Reading(export[x], report) /\ Audited(export[x], x, audit)
  BY <1>1, <1>2, Idle.rows = << >> DEF Shape, Reading, Audited, Bound, Rendered, Complete, Applied, Binding, Idle
<1>5. \A d \in Download : Fetched(download[d]) /\ download[d].pc = "idle"
  BY DEF Fetched
<1> QED
  BY <1>3, <1>4, <1>5 DEF IInv

-----------------------------------------------------------------------------
(* A step of one export.                                                   *)

LEMMA Advance ==
  ASSUME IInv, NEW x \in Export, NEW e, export' = [export EXCEPT ![x] = e],
         Shape(e), Reading(e, report), Audited(e, x, audit'),
         x \in banned => Revoked(e, member),
         x \in outdated => Replaced(e, report),
         At(x, "stored") => e = export[x],
         audit \subseteq audit', audit' \subseteq Entry,
         UNCHANGED <<member, report, job, download, banned, outdated>>
  PROVE  IInv'
<1>1. export' \in [Export -> ExportState]
  BY DEF IInv, TypeOK, Shape
<1>2. \A y \in Export : export'[y] = IF y = x THEN e ELSE export[y]
  BY DEF IInv, TypeOK
<1>3. TypeOK'
  BY <1>1 DEF IInv, TypeOK
<1>4. \A y \in Export : Shape(export'[y])
  BY <1>2 DEF IInv
<1>5. \A y \in Export : Reading(export'[y], report)
  BY <1>2 DEF IInv
<1>6. \A y \in Export : Audited(export'[y], y, audit')
  BY <1>2 DEF IInv, Audited
<1>7. \A y \in banned : Revoked(export'[y], member)
  BY <1>2 DEF IInv, TypeOK
<1>8. \A y \in outdated : Replaced(export'[y], report)
  BY <1>2 DEF IInv, TypeOK
<1>9. \A d \in Download : Fetched(download[d])'
  <2> SUFFICES ASSUME NEW d \in Download PROVE Fetched(download[d])'
    OBVIOUS
  <2>1. Fetched(download[d])
    BY DEF IInv
  <2>2. CASE download[d].pc \in {"audit", "served"}
    <3>1. download[d].of \in Export /\ export'[download[d].of] = export[download[d].of]
      BY <1>2, <2>1, <2>2 DEF Fetched, At
    <3> QED
      BY <2>1, <3>1 DEF Fetched, At, Owner
  <2>3. CASE download[d].pc \notin {"audit", "served"}
    BY <2>1, <2>3 DEF Fetched
  <2> QED
    BY <2>2, <2>3
<1>10. \A d \in Download : download[d].pc = "served" =>
         <<"download", download[d].by, download[d].of>> \in audit'
  BY DEF IInv
<1>11. \A j \in Job : job[j].pc # "none" => job[j].by \in Principal
  BY DEF IInv
<1> QED
  BY <1>3, <1>4, <1>5, <1>6, <1>7, <1>8, <1>9, <1>10, <1>11 DEF IInv

(* What a step that moves only the program counter leaves alone.           *)
LEMMA Move ==
  ASSUME NEW x \in Export, export[x] \in ExportState, NEW c,
         c \in {"idle", "store", "previewed", "stored", "refused"} \cup Binding
  PROVE  LET e == [export[x] EXCEPT !.pc = c] IN
         /\ e \in ExportState /\ e.pc = c
         /\ e.owner = export[x].owner /\ e.phase = export[x].phase
         /\ e.snapshot = export[x].snapshot /\ e.view = export[x].view
         /\ e.rows = export[x].rows
BY DEF ExportState

(* A move keeps the invariant when the step it goes to knows no more than  *)
(* the step it comes from.                                                 *)
LEMMA MoveOn ==
  ASSUME IInv, NEW x \in Export, NEW c, Goto(x, c),
         c \in {"previewed", "stored", "refused", "store"} \cup (Binding \ {"capture"}),
         export[x].pc \in Binding \cup {"store"},
         c \in Bound => export[x].pc \in Bound,
         c \in Binding \ Rendered => export[x].pc \in Binding \ Rendered,
         c \in Rendered => export[x].pc \in Rendered,
         c \in Complete => Len(export[x].rows) >= export[x].snapshot.size,
         c \in Applied => export[x].phase = "apply" /\ <<"apply", Owner(x), x>> \in audit',
         x \in banned => c \notin {"store", "stored", "persisting"},
         x \in outdated => c \notin {"store", "stored"},
         audit \subseteq audit', audit' \subseteq Entry,
         UNCHANGED <<member, report, job, download, banned, outdated>>
  PROVE  IInv'
<1> DEFINE e == [export[x] EXCEPT !.pc = c]
<1>1. export' = [export EXCEPT ![x] = e]
  BY DEF Goto
<1>2. export[x] \in ExportState /\ Shape(export[x]) /\ Reading(export[x], report)
  BY DEF IInv, Shape
<1>3. PICK f : f = e
  OBVIOUS
<1>4. /\ f \in ExportState /\ f.pc = c
      /\ f.owner = export[x].owner /\ f.phase = export[x].phase
      /\ f.snapshot = export[x].snapshot /\ f.view = export[x].view
      /\ f.rows = export[x].rows
  BY <1>2, <1>3, Move DEF Binding
<1>5. export' = [export EXCEPT ![x] = f]
  BY <1>1, <1>3
<1> HIDE DEF e
<1>6. Shape(f)
  BY <1>2, <1>4 DEF Shape, Binding
<1>7. Reading(f, report)
  <2>1. f.pc \in Bound => /\ f.snapshot.size <= MaxRows
                          /\ f.snapshot.asOf <= report.asOf
                          /\ f.snapshot.asOf = report.asOf => f.snapshot = report
    BY <1>2, <1>4 DEF Reading
  <2>2. f.pc \in {"idle"} \cup (Binding \ Rendered) => f.rows = << >>
    BY <1>2, <1>4 DEF Reading, Binding, Rendered
  <2>3. f.pc \in Rendered => /\ f.view = f.snapshot
                             /\ Len(f.rows) <= f.snapshot.size
                             /\ Prefix(f.rows, f.snapshot)
    BY <1>2, <1>4 DEF Reading
  <2>4. f.pc \in Complete => Len(f.rows) = f.snapshot.size
    <3> SUFFICES ASSUME f.pc \in Complete PROVE Len(f.rows) = f.snapshot.size
      OBVIOUS
    <3>1. Len(f.rows) >= f.snapshot.size
      BY <1>4
    <3>2. Len(f.rows) <= f.snapshot.size
      BY <2>3 DEF Complete
    <3>3. Len(f.rows) \in Nat /\ f.snapshot.size \in Nat
      BY <1>4, ReportExportAssumption DEF ExportState, Report
    <3> QED
      BY <3>1, <3>2, <3>3
  <2> QED
    BY <2>1, <2>2, <2>3, <2>4 DEF Reading
<1>8. Audited(f, x, audit')
  BY <1>4 DEF Audited, Owner
<1>9. x \in banned => Revoked(f, member)
  BY <1>2, <1>4 DEF IInv, Revoked, Binding, Overtaken
<1>10. x \in outdated => Replaced(f, report)
  BY <1>2, <1>4 DEF IInv, Replaced, Binding, Overtaken
<1>11. ~At(x, "stored")
  BY DEF At, Binding
<1> QED
  BY <1>5, <1>6, <1>7, <1>8, <1>9, <1>10, <1>11, Advance

LEMMA AuditKept == IInv => audit \subseteq Entry
BY DEF IInv, TypeOK

-----------------------------------------------------------------------------
(* One lemma per action.                                                   *)

LEMMA StartExportStep ==
  ASSUME IInv, NEW x \in Export, NEW p \in Principal, NEW phase \in {"preview", "apply"},
         StartExport(x, p, phase)
  PROVE  IInv'
<1> USE DEF StartExport
<1>1. export[x] \in ExportState /\ Reading(export[x], report) /\ export[x].pc = "idle"
  BY DEF IInv, Shape, At
<1>2. PICK f : f = [export[x] EXCEPT !.pc = "capture", !.owner = p, !.phase = phase]
  OBVIOUS
<1>3. export' = [export EXCEPT ![x] = f]
  BY <1>2
<1>4. /\ f \in ExportState /\ f.pc = "capture" /\ f.owner = p /\ f.rows = export[x].rows
  BY <1>1, <1>2 DEF ExportState, Binding
<1>5. Shape(f) /\ Reading(f, report) /\ Audited(f, x, audit')
  BY <1>1, <1>4 DEF Shape, Reading, Audited, Bound, Rendered, Complete, Applied, Binding
<1>6. x \notin banned /\ x \notin outdated
  BY <1>1 DEF IInv, Revoked, Replaced, Binding, Overtaken
<1>7. ~At(x, "stored")
  BY <1>1 DEF At
<1> QED
  BY <1>3, <1>5, <1>6, <1>7, Advance, AuditKept

LEMMA CaptureStep ==
  ASSUME IInv, NEW x \in Export, Capture(x)
  PROVE  IInv'
<1> USE DEF Capture
<1> DEFINE c == IF report.asOf = 0 \/ report.size > MaxRows THEN "refused" ELSE "bound"
<1>1. /\ export[x] \in ExportState /\ Shape(export[x]) /\ Reading(export[x], report)
      /\ export[x].pc = "capture" /\ report \in Report
  BY DEF IInv, Shape, At, TypeOK
<1>2. PICK f : f = [export[x] EXCEPT !.snapshot = report, !.pc = c]
  OBVIOUS
<1>3. export' = [export EXCEPT ![x] = f]
  BY <1>2
<1>4. /\ f \in ExportState /\ f.pc = c /\ f.owner = export[x].owner
      /\ f.rows = export[x].rows /\ f.snapshot = report
  BY <1>1, <1>2 DEF ExportState, Binding
<1>5. Shape(f) /\ Audited(f, x, audit')
  BY <1>1, <1>4 DEF Shape, Audited, Applied, Rendered
<1>6. Reading(f, report)
  BY <1>1, <1>4, ReportExportAssumption DEF Reading, Bound, Rendered, Complete, Binding, Report
<1>7. x \in banned => Revoked(f, member)
  BY <1>1, <1>4 DEF IInv, Revoked, Binding, Overtaken
<1>8. x \notin outdated
  BY <1>1 DEF IInv, Replaced, Binding, Overtaken
<1>9. ~At(x, "stored")
  BY <1>1 DEF At
<1> QED
  BY <1>3, <1>5, <1>6, <1>7, <1>8, <1>9, Advance, AuditKept

LEMMA AuthorizeStep ==
  ASSUME IInv, NEW x \in Export, NEW from, NEW to, Authorize(x, from, to),
         \/ from = "bound" /\ to = "authorized"
         \/ from = "verify" /\ to = "verified"
         \/ from = "persist" /\ to = "persisting"
  PROVE  IInv'
<1> DEFINE c == IF Owner(x) \in member THEN to ELSE "refused"
<1>1. Goto(x, c) /\ export[x].pc = from
  BY DEF Authorize, At
<1>2. Reading(export[x], report) /\ Audited(export[x], x, audit)
  BY DEF IInv
<1>3. x \in banned => c = "refused"
  BY DEF IInv, Revoked, Owner
<1>4. audit' = audit /\ UNCHANGED <<member, report, job, download, banned, outdated>>
  BY DEF Authorize
<1>5. /\ c \in {"refused", "authorized", "verified", "persisting"} /\ from \in {"bound", "verify", "persist"}
      /\ c = "authorized" => from = "bound"
      /\ c = "verified" => from = "verify"
      /\ c = "persisting" => from = "persist"
  OBVIOUS
<1>6. c \in Complete => Len(export[x].rows) >= export[x].snapshot.size
  <2> SUFFICES ASSUME c \in Complete PROVE Len(export[x].rows) >= export[x].snapshot.size
    OBVIOUS
  <2>1. Len(export[x].rows) = export[x].snapshot.size
    BY <1>1, <1>2, <1>5 DEF Reading, Complete, Rendered
  <2>2. export[x].snapshot.size \in Nat
    BY ReportExportAssumption DEF IInv, Shape, ExportState, Report
  <2> QED
    BY <2>1, <2>2
<1>7. c \in Applied => export[x].phase = "apply" /\ <<"apply", Owner(x), x>> \in audit'
  BY <1>1, <1>2, <1>4, <1>5 DEF Audited, Applied, Rendered, Owner
<1>8. /\ c \in {"previewed", "stored", "refused", "store"} \cup (Binding \ {"capture"})
      /\ export[x].pc \in Binding \cup {"store"}
      /\ c \in Bound => export[x].pc \in Bound
      /\ c \in Binding \ Rendered => export[x].pc \in Binding \ Rendered
      /\ c \in Rendered => export[x].pc \in Rendered
  BY <1>1, <1>5 DEF Binding, Bound, Rendered
<1> HIDE DEF c
<1> QED
  BY <1>1, <1>3, <1>4, <1>5, <1>6, <1>7, <1>8, MoveOn, AuditKept

LEMMA AssertStep ==
  ASSUME IInv, NEW x \in Export, NEW from, NEW to, AssertSnapshot(x, from, to),
         \/ from = "authorized" /\ to = "asserted"
         \/ from = "verified" /\ to = "render"
         \/ from = "persisting" /\ to = "store"
  PROVE  IInv'
<1> DEFINE c == IF CurrentSnapshot(x, report) THEN to ELSE "refused"
<1>1. Goto(x, c) /\ export[x].pc = from
  BY DEF AssertSnapshot, At
<1>2. Reading(export[x], report) /\ Audited(export[x], x, audit)
  BY DEF IInv
<1>3. x \in outdated => c = "refused"
  <2> SUFFICES ASSUME x \in outdated PROVE ~CurrentSnapshot(x, report)
    OBVIOUS
  <2>1. export[x].snapshot.asOf < report.asOf
    BY DEF IInv, Replaced
  <2>2. export[x].snapshot.asOf \in Nat /\ report.asOf \in Nat
    BY ReportExportAssumption DEF IInv, Shape, ExportState, TypeOK, Report
  <2> QED
    BY <2>1, <2>2 DEF CurrentSnapshot
<1>4. audit' = audit /\ UNCHANGED <<member, report, job, download, banned, outdated>>
  BY DEF AssertSnapshot
<1>5. /\ c \in {"refused", "asserted", "render", "store"} /\ from \in {"authorized", "verified", "persisting"}
      /\ c = "asserted" => from = "authorized"
      /\ c = "render" => from = "verified"
      /\ c = "store" => from = "persisting"
  OBVIOUS
<1>6. c \in Complete => Len(export[x].rows) >= export[x].snapshot.size
  <2> SUFFICES ASSUME c \in Complete PROVE Len(export[x].rows) >= export[x].snapshot.size
    OBVIOUS
  <2>1. Len(export[x].rows) = export[x].snapshot.size
    BY <1>1, <1>2, <1>5 DEF Reading, Complete, Rendered
  <2>2. export[x].snapshot.size \in Nat
    BY ReportExportAssumption DEF IInv, Shape, ExportState, Report
  <2> QED
    BY <2>1, <2>2
<1>7. c \in Applied => export[x].phase = "apply" /\ <<"apply", Owner(x), x>> \in audit'
  BY <1>1, <1>2, <1>4, <1>5 DEF Audited, Applied, Rendered, Owner
<1>8. /\ c \in {"previewed", "stored", "refused", "store"} \cup (Binding \ {"capture"})
      /\ export[x].pc \in Binding \cup {"store"}
      /\ c \in Bound => export[x].pc \in Bound
      /\ c \in Binding \ Rendered => export[x].pc \in Binding \ Rendered
      /\ c \in Rendered => export[x].pc \in Rendered
  BY <1>1, <1>5 DEF Binding, Bound, Rendered
<1>9. x \in banned => c # "store"
  BY <1>1, <1>5 DEF IInv, Revoked, Binding, Overtaken
<1> HIDE DEF c
<1> QED
  BY <1>1, <1>3, <1>4, <1>5, <1>6, <1>7, <1>8, <1>9, MoveOn, AuditKept

LEMMA AuditActionStep ==
  ASSUME IInv, NEW x \in Export, AuditAction(x)
  PROVE  IInv'
<1> DEFINE c == IF export[x].phase = "preview" THEN "previewed" ELSE "verify"
<1>1. Goto(x, c) /\ export[x].pc = "asserted"
  BY DEF AuditAction, At
<1>2. export[x].phase \in {"preview", "apply"} /\ Owner(x) \in Principal
  BY <1>1 DEF IInv, Shape, ExportState, Owner
<1>3. audit' = audit \cup {<<export[x].phase, Owner(x), x>>}
  BY DEF AuditAction, Record
<1>4. UNCHANGED <<member, report, job, download, banned, outdated>>
  BY DEF AuditAction
<1>5. audit \subseteq audit' /\ audit' \subseteq Entry
  BY <1>2, <1>3, AuditKept DEF Entry
<1>6. /\ c \in {"previewed", "verify"}
      /\ c = "verify" => export[x].phase = "apply" /\ <<"apply", Owner(x), x>> \in audit'
  BY <1>2, <1>3
<1>7. c \notin Complete /\ c \notin Rendered
  BY <1>6 DEF Complete, Rendered
<1> HIDE DEF c
<1>8. /\ c \in {"previewed", "stored", "refused", "store"} \cup (Binding \ {"capture"})
      /\ export[x].pc \in Binding \cup {"store"}
      /\ export[x].pc \in Bound
      /\ c \in Binding \ Rendered => export[x].pc \in Binding \ Rendered
      /\ c \notin {"store", "stored", "persisting"}
  BY <1>1, <1>6 DEF Binding, Bound, Rendered
<1>9. c \in Applied => c = "verify"
  BY <1>6, <1>7 DEF Applied
<1> QED
  BY <1>1, <1>4, <1>5, <1>6, <1>7, <1>8, <1>9, MoveOn

LEMMA OpenRenderStep ==
  ASSUME IInv, NEW x \in Export, OpenRender(x)
  PROVE  IInv'
<1> USE DEF OpenRender
<1> DEFINE c == IF CurrentSnapshot(x, report) THEN "pages" ELSE "refused"
<1>1. /\ export[x] \in ExportState /\ Shape(export[x]) /\ Reading(export[x], report)
      /\ Audited(export[x], x, audit)
      /\ export[x].pc = "render" /\ report \in Report
  BY DEF IInv, Shape, At, TypeOK
<1>2. PICK f : f = [export[x] EXCEPT !.view = report, !.pc = c]
  OBVIOUS
<1>3. export' = [export EXCEPT ![x] = f]
  BY <1>2
<1>4. /\ f \in ExportState /\ f.pc = c /\ f.owner = export[x].owner /\ f.phase = export[x].phase
      /\ f.rows = export[x].rows /\ f.snapshot = export[x].snapshot /\ f.view = report
  BY <1>1, <1>2 DEF ExportState, Binding
<1>5. Shape(f) /\ Audited(f, x, audit')
  BY <1>1, <1>4 DEF Shape, Audited, Applied, Rendered
<1>6. Reading(f, report)
  <2>1. export[x].rows = << >> /\ export[x].snapshot.size <= MaxRows
        /\ export[x].snapshot.asOf <= report.asOf
        /\ (export[x].snapshot.asOf = report.asOf => export[x].snapshot = report)
    BY <1>1 DEF Reading, Binding, Rendered, Bound
  <2>2. f.pc = "pages" => f.view = f.snapshot
    BY <2>1, <1>4 DEF CurrentSnapshot
  <2>3. Len(f.rows) = 0 /\ Prefix(f.rows, f.snapshot) /\ f.snapshot.size \in Nat
    BY <2>1, <1>4, ReportExportAssumption DEF Prefix, ExportState, Report
  <2>4. f.pc \in {"pages", "refused"}
    BY <1>4
  <2> QED
    BY <2>1, <2>2, <2>3, <2>4, <1>4 DEF Reading, Bound, Rendered, Complete, Binding
<1>7. x \in banned => Revoked(f, member)
  BY <1>1, <1>4 DEF IInv, Revoked, Binding, Overtaken
<1>8. x \in outdated => Replaced(f, report)
  BY <1>1, <1>4 DEF IInv, Replaced, Binding, Overtaken
<1>9. ~At(x, "stored")
  BY <1>1 DEF At
<1> QED
  BY <1>3, <1>5, <1>6, <1>7, <1>8, <1>9, Advance, AuditKept

(* A function on 1 .. n is a sequence of length n.                         *)
LEMMA FunctionIsSequence ==
  ASSUME NEW S, NEW n \in Nat, NEW g \in [1 .. n -> S]
  PROVE  g \in Seq(S) /\ Len(g) = n
OBVIOUS

(* A page continues the prefix: whatever the limit, the rows read are the  *)
(* first rows of the report, and no more than it has.                      *)
LEMMA PageContinues ==
  ASSUME NEW r \in Report, r.size <= MaxRows,
         NEW s \in Seq(Row), Prefix(s, r), Len(s) < r.size
  PROVE  LET t == s \o PageOf(r, Len(s)) IN
         /\ t \in Seq(Row)
         /\ Prefix(t, r)
         /\ Len(t) <= r.size
<1> DEFINE k == Least(PageLimit, r.size - Len(s))
           page == [i \in 1 .. k |-> [asOf |-> r.asOf, index |-> Len(s) + i]]
<1>1. r.size \in Nat /\ r.asOf \in 0 .. MaxRefresh /\ Len(s) \in Nat /\ MaxRows \in Nat
  BY ReportExportAssumption DEF Report
<1>2. k \in Nat /\ k <= r.size - Len(s)
  BY <1>1, ReportExportAssumption DEF Least
<1>3. PageOf(r, Len(s)) = page
  BY DEF PageOf
<1> HIDE DEF k
<1>4. \A i \in 1 .. k : [asOf |-> r.asOf, index |-> Len(s) + i] \in Row
  BY <1>1, <1>2 DEF Row
<1>5. page \in [1 .. k -> Row] /\ \A i \in 1 .. k : page[i] = [asOf |-> r.asOf, index |-> Len(s) + i]
  BY <1>4
<1> HIDE DEF page
<1>6. page \in Seq(Row) /\ Len(page) = k
  BY <1>2, <1>5, FunctionIsSequence
<1>cat. /\ s \o page \in Seq(Row) /\ Len(s \o page) = Len(s) + Len(page)
      /\ \A i \in 1 .. Len(s) + Len(page) :
           (s \o page)[i] = IF i <= Len(s) THEN s[i] ELSE page[i - Len(s)]
  BY <1>6, ConcatProperties
<1>rows. PICK t : t = s \o page
  OBVIOUS
<1>7. /\ t \in Seq(Row) /\ Len(t) = Len(s) + k
      /\ \A i \in 1 .. Len(t) : t[i] = IF i <= Len(s) THEN s[i] ELSE page[i - Len(s)]
  BY <1>6, <1>cat, <1>rows
<1>8. \A i \in 1 .. Len(t) : t[i] = [asOf |-> r.asOf, index |-> i]
  <2> SUFFICES ASSUME NEW i \in 1 .. Len(t) PROVE t[i] = [asOf |-> r.asOf, index |-> i]
    OBVIOUS
  <2>1. CASE i <= Len(s)
    <3>1. t[i] = s[i]
      BY <1>7, <2>1
    <3> QED
      BY <1>1, <2>1, <3>1 DEF Prefix
  <2>2. CASE i > Len(s)
    <3>1. i - Len(s) \in 1 .. k
      BY <1>1, <1>2, <1>7, <2>2
    <3>2. t[i] = page[i - Len(s)]
      BY <1>1, <1>7, <2>2
    <3>3. page[i - Len(s)] = [asOf |-> r.asOf, index |-> Len(s) + (i - Len(s))]
      BY <1>5, <3>1
    <3>4. Len(s) + (i - Len(s)) = i
      BY <1>1
    <3> QED
      BY <3>2, <3>3, <3>4
  <2> QED
    BY <1>1, <1>7, <2>1, <2>2
<1> QED
  BY <1>1, <1>2, <1>3, <1>rows, <1>7, <1>8 DEF Prefix

LEMMA ReadPageStep ==
  ASSUME IInv, NEW x \in Export, ReadPage(x)
  PROVE  IInv'
<1> USE DEF ReadPage
<1>1. /\ export[x] \in ExportState /\ Shape(export[x]) /\ Reading(export[x], report)
      /\ Audited(export[x], x, audit) /\ export[x].pc = "pages"
  BY DEF IInv, Shape, At
<1>2. /\ export[x].view = export[x].snapshot /\ export[x].snapshot \in Report
      /\ export[x].snapshot.size <= MaxRows
      /\ Prefix(export[x].rows, export[x].snapshot) /\ export[x].rows \in Seq(Row)
      /\ Len(export[x].rows) < export[x].snapshot.size
  BY <1>1 DEF Reading, Rendered, Bound, Binding, ExportState, Offset
<1>3. PICK t : t = export[x].rows \o PageOf(export[x].snapshot, Len(export[x].rows))
  OBVIOUS
<1>4. /\ t \in Seq(Row) /\ Prefix(t, export[x].snapshot) /\ Len(t) <= export[x].snapshot.size
  BY <1>2, <1>3, PageContinues
<1>5. PICK f : f = [export[x] EXCEPT !.rows = t]
  OBVIOUS
<1>6. export' = [export EXCEPT ![x] = f]
  BY <1>2, <1>3, <1>5 DEF Offset
<1>7. /\ f \in ExportState /\ f.pc = "pages" /\ f.owner = export[x].owner
      /\ f.phase = export[x].phase /\ f.rows = t
      /\ f.snapshot = export[x].snapshot /\ f.view = export[x].view
  BY <1>1, <1>4, <1>5 DEF ExportState
<1>8. Shape(f) /\ Audited(f, x, audit')
  BY <1>1, <1>7 DEF Shape, Audited
<1>9. Reading(f, report)
  BY <1>1, <1>2, <1>4, <1>7 DEF Reading, Complete, Rendered, Binding
<1>10. x \in banned => Revoked(f, member)
  BY <1>7 DEF IInv, Revoked, Binding, Overtaken
<1>11. x \in outdated => Replaced(f, report)
  BY <1>7 DEF IInv, Replaced, Binding, Overtaken
<1>12. ~At(x, "stored")
  BY <1>1 DEF At
<1> QED
  BY <1>6, <1>8, <1>9, <1>10, <1>11, <1>12, Advance, AuditKept

LEMMA CloseRenderStep ==
  ASSUME IInv, NEW x \in Export, CloseRender(x)
  PROVE  IInv'
<1>1. Goto(x, "persist") /\ export[x].pc = "pages" /\ Len(export[x].rows) >= export[x].snapshot.size
  BY DEF CloseRender, At, Offset
<1>2. Audited(export[x], x, audit) /\ audit' = audit
  BY DEF CloseRender, IInv
<1>3. UNCHANGED <<member, report, job, download, banned, outdated>>
  BY DEF CloseRender
<1>4. export[x].phase = "apply" /\ <<"apply", Owner(x), x>> \in audit'
  BY <1>1, <1>2 DEF Audited, Applied, Rendered, Owner
<1> QED
  BY <1>1, <1>2, <1>3, <1>4, MoveOn, AuditKept DEF Binding, Bound, Rendered

LEMMA FailStep ==
  ASSUME IInv, NEW x \in Export, Fail(x)
  PROVE  IInv'
<1>1. Goto(x, "refused") /\ export[x].pc \in Binding \cup {"store"} /\ audit' = audit
      /\ UNCHANGED <<member, report, job, download, banned, outdated>>
  BY DEF Fail
<1>2. "refused" \notin Bound /\ "refused" \notin Rendered /\ "refused" \notin Applied
      /\ "refused" \notin Complete /\ "refused" \notin Binding
  BY DEF Binding, Bound, Rendered, Applied, Complete
<1> QED
  BY <1>1, <1>2, MoveOn, AuditKept

LEMMA StoreStep ==
  ASSUME IInv, NEW x \in Export, Store(x)
  PROVE  IInv'
<1>1. Goto(x, "stored") /\ export[x].pc = "store" /\ audit' = audit
      /\ UNCHANGED <<member, report, job, download, banned, outdated>>
  BY DEF Store, At
<1>2. Audited(export[x], x, audit) /\ Reading(export[x], report) /\ Shape(export[x])
  BY DEF IInv
<1>3. export[x].phase = "apply" /\ <<"apply", Owner(x), x>> \in audit'
  BY <1>1, <1>2 DEF Audited, Applied, Rendered, Owner
<1>4. Len(export[x].rows) = export[x].snapshot.size /\ export[x].snapshot.size \in Nat
  BY <1>1, <1>2, ReportExportAssumption DEF Reading, Complete, Rendered, Shape, ExportState, Report
<1>5. x \notin banned /\ x \notin outdated
  BY <1>1 DEF IInv, Revoked, Replaced, Binding, Overtaken
<1>6. "stored" \notin Binding /\ "store" \in Bound /\ "store" \in Rendered
  BY DEF Binding, Bound, Rendered
<1> QED
  BY <1>1, <1>3, <1>4, <1>5, <1>6, MoveOn, AuditKept

(* A step that leaves the exports and what they depend on alone.           *)
LEMMA Elsewhere ==
  ASSUME IInv, TypeOK', audit \subseteq audit',
         \A j \in Job : job'[j].pc # "none" => job'[j].by \in Principal,
         \A d \in Download : Fetched(download[d])',
         \A d \in Download : download'[d].pc = "served" =>
           <<"download", download'[d].by, download'[d].of>> \in audit',
         UNCHANGED <<member, report, export, banned, outdated>>
  PROVE  IInv'
<1>1. /\ \A x \in Export : Shape(export'[x])
      /\ \A x \in Export : Reading(export'[x], report')
      /\ \A x \in banned' : Revoked(export'[x], member')
      /\ \A x \in outdated' : Replaced(export'[x], report')
  BY DEF IInv
<1>2. \A x \in Export : Audited(export'[x], x, audit')
  BY DEF IInv, Audited
<1> QED
  BY <1>1, <1>2 DEF IInv

LEMMA DownloadsKept ==
  ASSUME IInv, UNCHANGED <<export, download>>, audit \subseteq audit'
  PROVE  /\ \A d \in Download : Fetched(download[d])'
         /\ \A d \in Download : download'[d].pc = "served" =>
              <<"download", download'[d].by, download'[d].of>> \in audit'
BY DEF IInv, Fetched, At, Owner

LEMMA RequestRefreshStep ==
  ASSUME IInv, NEW j \in Job, NEW p \in Principal, RequestRefresh(j, p)
  PROVE  IInv'
<1> USE DEF RequestRefresh
<1>1. job' \in [Job -> [pc : {"none", "pending", "running", "done", "denied"},
                        by : Principal \cup {None}]]
  BY DEF IInv, TypeOK
<1>2. audit' = audit \cup {<<"refresh", p, None>>} /\ audit' \subseteq Entry
  BY AuditKept DEF Record, Entry
<1>3. TypeOK'
  BY <1>1, <1>2 DEF IInv, TypeOK
<1>4. \A i \in Job : job'[i].pc # "none" => job'[i].by \in Principal
  BY DEF IInv, TypeOK
<1> QED
  BY <1>2, <1>3, <1>4, Elsewhere, DownloadsKept

LEMMA AuthorizeRefreshStep ==
  ASSUME IInv, NEW j \in Job, AuthorizeRefresh(j)
  PROVE  IInv'
<1> USE DEF AuthorizeRefresh
<1>1. /\ job' \in [Job -> [pc : {"none", "pending", "running", "done", "denied"},
                           by : Principal \cup {None}]]
      /\ \A i \in Job : job'[i].by = job[i].by /\ (i # j => job'[i] = job[i])
  BY DEF IInv, TypeOK
<1>2. TypeOK'
  BY <1>1 DEF IInv, TypeOK
<1>3. \A i \in Job : job'[i].pc # "none" => job'[i].by \in Principal
  BY <1>1 DEF IInv
<1> QED
  BY <1>2, <1>3, Elsewhere, DownloadsKept

LEMMA RebuildStep ==
  ASSUME IInv, NEW j \in Job, Rebuild(j)
  PROVE  IInv'
<1> USE DEF Rebuild
<1>1. /\ job' \in [Job -> [pc : {"none", "pending", "running", "done", "denied"},
                           by : Principal \cup {None}]]
      /\ \A i \in Job : job'[i].by = job[i].by /\ (i # j => job'[i] = job[i])
      /\ job[j].pc # "none"
  BY DEF IInv, TypeOK
<1>2. PICK n \in 0 .. MaxSize : report' = [asOf |-> report.asOf + 1, size |-> n]
  OBVIOUS
<1>3. report.asOf \in Nat /\ report'.asOf = report.asOf + 1 /\ report' \in Report
  BY <1>2, ReportExportAssumption DEF IInv, TypeOK, Report
<1>4. TypeOK'
  BY <1>1, <1>3 DEF IInv, TypeOK
<1>5. \A i \in Job : job'[i].pc # "none" => job'[i].by \in Principal
  BY <1>1 DEF IInv
<1>6. \A x \in Export : Reading(export[x], report')
  <2> SUFFICES ASSUME NEW x \in Export PROVE Reading(export[x], report')
    OBVIOUS
  <2>1. Reading(export[x], report) /\ export[x].snapshot.asOf \in Nat
    BY ReportExportAssumption DEF IInv, Shape, ExportState, Report
  <2>2. export[x].snapshot.asOf <= report.asOf =>
          export[x].snapshot.asOf <= report'.asOf /\ export[x].snapshot.asOf # report'.asOf
    BY <1>3, <2>1
  <2> QED
    BY <2>1, <2>2 DEF Reading
<1>7. \A x \in outdated' : Replaced(export[x], report')
  <2> SUFFICES ASSUME NEW x \in outdated' PROVE Replaced(export[x], report')
    OBVIOUS
  <2>1. x \in Export /\ export[x].snapshot.asOf \in Nat
    BY ReportExportAssumption DEF IInv, TypeOK, Shape, ExportState, Report
  <2>2. CASE x \in outdated
    BY <1>3, <2>1, <2>2 DEF IInv, Replaced
  <2>3. CASE export[x].pc \in Binding \ {"capture"}
    <3>1. export[x].snapshot.asOf <= report.asOf
      BY <2>1, <2>3 DEF IInv, Reading, Bound
    <3> QED
      BY <1>3, <2>1, <2>3, <3>1 DEF Replaced
  <2> QED
    BY <2>2, <2>3
<1>8. /\ \A x \in Export : Shape(export'[x])
      /\ \A x \in Export : Audited(export'[x], x, audit')
      /\ \A x \in banned' : Revoked(export'[x], member')
  BY DEF IInv
<1>9. /\ \A d \in Download : Fetched(download[d])'
      /\ \A d \in Download : download'[d].pc = "served" =>
           <<"download", download'[d].by, download'[d].of>> \in audit'
  BY DownloadsKept
<1> QED
  BY <1>4, <1>5, <1>6, <1>7, <1>8, <1>9 DEF IInv

LEMMA StartDownloadStep ==
  ASSUME IInv, NEW d \in Download, NEW p \in Principal, NEW x \in Export,
         StartDownload(d, p, x)
  PROVE  IInv'
<1> USE DEF StartDownload
<1>1. PICK f : f = [pc |-> "serve", by |-> p, of |-> x]
  OBVIOUS
<1>2. \A i \in Download : download'[i] = IF i = d THEN f ELSE download[i]
  BY <1>1 DEF IInv, TypeOK
<1>3. f.pc = "serve" /\ f.by = p /\ f.of = x
  BY <1>1
<1>4. TypeOK'
  BY DEF IInv, TypeOK
<1>5. \A i \in Download : Fetched(download[i])'
  BY <1>2, <1>3 DEF IInv, Fetched, At, Owner
<1>6. \A i \in Download : download'[i].pc = "served" =>
        <<"download", download'[i].by, download'[i].of>> \in audit'
  BY <1>2, <1>3 DEF IInv
<1>7. \A j \in Job : job'[j].pc # "none" => job'[j].by \in Principal
  BY DEF IInv
<1> QED
  BY <1>4, <1>5, <1>6, <1>7, Elsewhere

LEMMA ServeStep ==
  ASSUME IInv, NEW d \in Download, Serve(d)
  PROVE  IInv'
<1> USE DEF Serve
<1>1. PICK f : f = [download[d] EXCEPT !.pc =
                      IF Accessible(d, download[d].of) THEN "audit" ELSE "refused"]
  OBVIOUS
<1>2. \A i \in Download : download'[i] = IF i = d THEN f ELSE download[i]
  BY <1>1 DEF IInv, TypeOK
<1>3. /\ f.pc = IF Accessible(d, download[d].of) THEN "audit" ELSE "refused"
      /\ f.by = download[d].by /\ f.of = download[d].of
  BY <1>1 DEF IInv, TypeOK
<1>4. TypeOK'
  BY DEF IInv, TypeOK
<1>5. Fetched(download[d]) /\ download[d].pc = "serve"
  BY DEF IInv
<1>6. Fetched(f)
  BY <1>3, <1>5 DEF Fetched, Accessible
<1>7. \A i \in Download : Fetched(download[i])'
  <2> SUFFICES ASSUME NEW i \in Download PROVE Fetched(download[i])'
    OBVIOUS
  <2>1. PICK g : g = download'[i]
    OBVIOUS
  <2>2. Fetched(g)
    BY <1>2, <1>6, <2>1 DEF IInv
  <2> QED
    BY <2>1, <2>2 DEF Fetched, At, Owner
<1>8. \A i \in Download : download'[i].pc = "served" =>
        <<"download", download'[i].by, download'[i].of>> \in audit'
  BY <1>2, <1>3 DEF IInv
<1>9. \A j \in Job : job'[j].pc # "none" => job'[j].by \in Principal
  BY DEF IInv
<1> QED
  BY <1>4, <1>7, <1>8, <1>9, Elsewhere

LEMMA AuditDownloadStep ==
  ASSUME IInv, NEW d \in Download, AuditDownload(d)
  PROVE  IInv'
<1> USE DEF AuditDownload
<1>1. PICK f : f = [download[d] EXCEPT !.pc = "served"]
  OBVIOUS
<1>2. \A i \in Download : download'[i] = IF i = d THEN f ELSE download[i]
  BY <1>1 DEF IInv, TypeOK
<1>3. f.pc = "served" /\ f.by = download[d].by /\ f.of = download[d].of
  BY <1>1 DEF IInv, TypeOK
<1>4. Fetched(download[d]) /\ download[d].pc = "audit"
  BY DEF IInv
<1>5. audit' = audit \cup {<<"download", download[d].by, download[d].of>>}
  BY DEF Record
<1>6. audit' \subseteq Entry
  BY <1>4, <1>5, AuditKept DEF Fetched, Entry
<1>7. TypeOK'
  BY <1>6 DEF IInv, TypeOK
<1>8. Fetched(f)
  BY <1>3, <1>4 DEF Fetched
<1>9. \A i \in Download : Fetched(download[i])'
  BY <1>2, <1>8 DEF IInv, Fetched, At, Owner
<1>10. \A i \in Download : download'[i].pc = "served" =>
         <<"download", download'[i].by, download'[i].of>> \in audit'
  BY <1>2, <1>3, <1>5 DEF IInv
<1>11. \A j \in Job : job'[j].pc # "none" => job'[j].by \in Principal
  BY DEF IInv
<1> QED
  BY <1>5, <1>7, <1>9, <1>10, <1>11, Elsewhere

(* What a change of the members leaves to show.                            *)
LEMMA RolesChange ==
  ASSUME IInv, member' \subseteq Principal, banned' \subseteq Export,
         \A x \in banned' : Revoked(export[x], member'),
         UNCHANGED <<report, job, export, download, audit, outdated>>
  PROVE  IInv'
<1>1. TypeOK'
  BY DEF IInv, TypeOK
<1>2. /\ \A d \in Download : Fetched(download[d])'
      /\ \A d \in Download : download'[d].pc = "served" =>
           <<"download", download'[d].by, download'[d].of>> \in audit'
  BY DownloadsKept
<1>3. /\ \A x \in Export : Shape(export'[x])
      /\ \A x \in Export : Reading(export'[x], report')
      /\ \A x \in Export : Audited(export'[x], x, audit')
      /\ \A x \in banned' : Revoked(export'[x], member')
      /\ \A x \in outdated' : Replaced(export'[x], report')
      /\ \A j \in Job : job'[j].pc # "none" => job'[j].by \in Principal
  BY DEF IInv
<1> QED
  BY <1>1, <1>2, <1>3 DEF IInv

LEMMA RevokeStep ==
  ASSUME IInv, NEW p \in Principal, Revoke(p)
  PROVE  IInv'
<1> USE DEF Revoke
<1>1. member' \subseteq Principal /\ banned' \subseteq Export
  BY DEF IInv, TypeOK
<1>2. \A x \in banned' : Revoked(export[x], member')
  BY DEF IInv, Revoked, Owner
<1> QED
  BY <1>1, <1>2, RolesChange

LEMMA RegainStep ==
  ASSUME IInv, NEW p \in Principal, Regain(p)
  PROVE  IInv'
<1> USE DEF Regain
<1>1. member' \subseteq Principal /\ banned' \subseteq Export
  BY DEF IInv, TypeOK
<1>2. \A x \in banned' : Revoked(export[x], member')
  BY DEF IInv, Revoked, Owner
<1> QED
  BY <1>1, <1>2, RolesChange

LEMMA StutterStep ==
  ASSUME IInv, UNCHANGED vars
  PROVE  IInv'
<1>1. UNCHANGED <<report, job, export, download, audit, outdated, member, banned>>
  BY DEF vars
<1>2. member' \subseteq Principal /\ banned' \subseteq Export
      /\ \A x \in banned' : Revoked(export[x], member')
  BY <1>1 DEF IInv, TypeOK
<1> QED
  BY <1>1, <1>2, RolesChange

-----------------------------------------------------------------------------
LEMMA StepKeeps == IInv /\ [Next]_vars => IInv'
<1> SUFFICES ASSUME IInv, [Next]_vars PROVE IInv'
  OBVIOUS
<1>1. CASE Refreshing
  BY <1>1, RequestRefreshStep, AuthorizeRefreshStep, RebuildStep DEF Refreshing
<1>2. CASE Exporting
  <2> PICK x \in Export :
        \/ \E p \in Principal, phase \in {"preview", "apply"} : StartExport(x, p, phase)
        \/ Capture(x)
        \/ Authorize(x, "bound", "authorized") \/ AssertSnapshot(x, "authorized", "asserted")
        \/ AuditAction(x)
        \/ Authorize(x, "verify", "verified") \/ AssertSnapshot(x, "verified", "render")
        \/ OpenRender(x) \/ ReadPage(x) \/ CloseRender(x)
        \/ Authorize(x, "persist", "persisting") \/ AssertSnapshot(x, "persisting", "store")
        \/ Store(x) \/ Fail(x)
    BY <1>2 DEF Exporting
  <2>1. CASE \E p \in Principal, phase \in {"preview", "apply"} : StartExport(x, p, phase)
    BY <2>1, StartExportStep
  <2>2. CASE Capture(x)
    BY <2>2, CaptureStep
  <2>3. CASE \/ Authorize(x, "bound", "authorized") \/ Authorize(x, "verify", "verified")
             \/ Authorize(x, "persist", "persisting")
    BY <2>3, AuthorizeStep
  <2>4. CASE \/ AssertSnapshot(x, "authorized", "asserted") \/ AssertSnapshot(x, "verified", "render")
             \/ AssertSnapshot(x, "persisting", "store")
    BY <2>4, AssertStep
  <2>5. CASE AuditAction(x)
    BY <2>5, AuditActionStep
  <2>6. CASE OpenRender(x) \/ ReadPage(x) \/ CloseRender(x)
    BY <2>6, OpenRenderStep, ReadPageStep, CloseRenderStep
  <2>7. CASE Store(x) \/ Fail(x)
    BY <2>7, StoreStep, FailStep
  <2> QED
    BY <2>1, <2>2, <2>3, <2>4, <2>5, <2>6, <2>7
<1>3. CASE Downloading
  BY <1>3, StartDownloadStep, ServeStep, AuditDownloadStep DEF Downloading
<1>4. CASE Administering
  BY <1>4, RevokeStep, RegainStep DEF Administering
<1>5. CASE UNCHANGED vars
  BY <1>5, StutterStep
<1> QED
  BY <1>1, <1>2, <1>3, <1>4, <1>5 DEF Next

LEMMA Invariance == Spec => []IInv
BY InitIsGood, StepKeeps, PTL DEF Spec

(* The state keeps its shape (the records of report-actions.ts).           *)
THEOREM TypeCorrect == Spec => []TypeOK
<1>1. IInv => TypeOK
  BY DEF IInv
<1> QED
  BY <1>1, Invariance, PTL

(* A stored file is all of one materialisation, whatever the page size,    *)
(* the report and the refreshes (renderExportInSnapshot).                  *)
THEOREM FilesAreOneSnapshot == Spec => []StoredIsOneSnapshot
<1>1. IInv => StoredIsOneSnapshot
  <2> SUFFICES ASSUME IInv, NEW x \in Export, At(x, "stored")
               PROVE  export[x].rows =
                        [i \in 1 .. export[x].snapshot.size |->
                           [asOf |-> export[x].snapshot.asOf, index |-> i]]
    BY DEF StoredIsOneSnapshot
  <2>1. /\ Prefix(export[x].rows, export[x].snapshot)
        /\ Len(export[x].rows) = export[x].snapshot.size
    BY DEF IInv, Reading, Complete, Rendered, At
  <2>2. export[x].rows \in Seq(Row)
    BY DEF IInv, Shape, ExportState
  <2>3. export[x].rows \in [1 .. Len(export[x].rows) -> Row]
    BY <2>2, LenProperties
  <2> QED
    BY <2>1, <2>3 DEF Prefix
<1> QED
  BY <1>1, Invariance, PTL

(* No file is stored for a principal that had lost its role before the     *)
(* last check and was not given it back, nor of a report that was replaced *)
(* before it (executeActivityReportExport, assertCurrentSnapshot).         *)
THEOREM NothingOvertaken == Spec => []OvertakenIsNotStored
<1>1. IInv => RevokedPrincipalStoresNothing
  BY DEF IInv, RevokedPrincipalStoresNothing, Revoked, Binding, Overtaken, At
<1>2. IInv => OutdatedReportIsNotStored
  BY DEF IInv, OutdatedReportIsNotStored, Replaced, Binding, Overtaken, At
<1>3. IInv => OvertakenIsNotStored
  BY <1>1, <1>2 DEF OvertakenIsNotStored
<1> QED
  BY <1>3, Invariance, PTL

(* Every stored and every served file has its audit entries, and only its  *)
(* owner is served (downloadActivityReportExport).                         *)
THEOREM EveryFileIsOnRecord == Spec => []FilesAreOnRecord
<1>1. IInv => FilesAreOnRecord
  <2> SUFFICES ASSUME IInv PROVE FilesAreOnRecord
    OBVIOUS
  <2>1. \A x \in Export : At(x, "stored") => <<"apply", Owner(x), x>> \in audit
    BY DEF IInv, Audited, Applied, Rendered, At, Owner
  <2>2. \A d \in Download : download[d].pc = "served" =>
          /\ <<"download", download[d].by, download[d].of>> \in audit
          /\ <<"apply", download[d].by, download[d].of>> \in audit
    BY <2>1 DEF IInv, Fetched
  <2> QED
    BY <2>1, <2>2 DEF FilesAreOnRecord
<1> QED
  BY <1>1, Invariance, PTL
=============================================================================
