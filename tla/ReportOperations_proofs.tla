----------------------- MODULE ReportOperations_proofs -----------------------
(***************************************************************************)
(* Machine-checked proofs about ReportOperations, for any number of        *)
(* operations, users, requests, workers, jobs and readers: the inductive   *)
(* invariant and what it gives, and that every behaviour keeps the         *)
(* contract (ReportOperationContract).                                     *)
(***************************************************************************)
EXTENDS ReportOperations, TLAPS

(***************************************************************************)
(* The inductive invariant, one predicate per object.                      *)
(***************************************************************************)

(* A stored row is complete, hashes to its fingerprint, has a receipt only *)
(* of a job made for it, and a result only when committed.                 *)
RowOK(o) ==
  /\ row[o].status = "absent" => row[o] = NoRow
  /\ row[o].status # "absent" =>
       /\ row[o].owner \in User /\ row[o].kind \in Kind /\ row[o].query \in Query
       /\ row[o].payload = Fingerprint(o, row[o].owner, row[o].kind, row[o].query)
  /\ row[o].status = "awaiting_approval" =>
       /\ row[o].kind = "approval-demo"
       /\ row[o].approved = None
       /\ row[o].job = None
  /\ row[o].kind = "prepare" => row[o].approved = None
  /\ row[o].status \in {"queued", "committed"} /\ row[o].kind = "approval-demo" =>
       row[o].approved = row[o].payload /\ row[o].decidedBy = row[o].owner
  /\ row[o].job # None => jobs[row[o].job].status # "absent" /\ jobs[row[o].job].op = o
  /\ row[o].status = "committed" <=> row[o].snapshot # None
  /\ row[o].status = "committed" <=> row[o].evidence # None

(* A job belongs to the row that holds its receipt.                        *)
JobOK(j) ==
  jobs[j].status # "absent" =>
    /\ jobs[j].op \in Op
    /\ row[jobs[j].op].job = j
    /\ row[jobs[j].op].status \notin {"absent", "awaiting_approval"}
    /\ jobs[j].user = row[jobs[j].op].owner
    /\ jobs[j].payload = row[jobs[j].op].payload

(* The framework's record is written by one execution only, and says of    *)
(* the operation what is true.                                             *)
ReservationOK(o) ==
  /\ reservation[o].status # "completed" => reservation[o].outcome = None
  /\ reservation[o].outcome \in Terminal => row[o].status = reservation[o].outcome
  /\ row[o].status = "committed" =>
       /\ reservation[o].status # "none"
       /\ reservation[o].token = row[o].evidence

(* What a request remembers between two transactions is still true of the  *)
(* store.                                                                  *)
CallFits(v) ==
  /\ v.pc # "idle" => v.op \in Op /\ v.user \in User
  /\ v.pc = "create" => v.kind \in Kind /\ v.query \in Query
  /\ v.pc \in {"enqueue", "submit"} =>
       /\ row[v.op].status \notin {"absent", "awaiting_approval"}
       /\ row[v.op].owner = v.user
  /\ v.pc = "link" => v.job \in Job /\ row[v.op].job = v.job

(* The operation a handler invocation works on.                            *)
Subject(v) == jobs[v.job].op

(* Between reserving and committing, a handler is the only one that        *)
(* executes its operation; afterwards it reports what it did.              *)
DeliveryFits(d, v) ==
  /\ v.pc # "idle" => v.job \in Job /\ jobs[v.job].status # "absent"
  /\ v.pc \in {"apply", "effect"} =>
       /\ reservation[Subject(v)].status = "reserved"
       /\ reservation[Subject(v)].token = d
       /\ row[Subject(v)].status # "committed"
  /\ v.pc = "effect" => row[Subject(v)].status = "queued"
  /\ v.pc = "complete" =>
       /\ reservation[Subject(v)].status # "none"
       /\ reservation[Subject(v)].token = d
       /\ v.outcome \in Terminal => row[Subject(v)].status = v.outcome

(* What a reader saw of an ended operation stays true.                     *)
ViewFits(v) ==
  /\ v.pc # "idle" => v.op \in Op
  /\ v.status \in Terminal => v.op \in Op /\ row[v.op].status = v.status

IInv ==
  /\ TypeOK
  /\ \A o \in Op : RowOK(o)
  /\ \A j \in Job : JobOK(j)
  /\ \A o \in Op : ReservationOK(o)
  /\ \A c \in Call : CallFits(call[c])
  /\ \A d \in Delivery : DeliveryFits(d, delivery[d])
  /\ \A r \in Reader : ViewFits(view[r])

(***************************************************************************)
(* Steps that change one process and nothing that is stored.               *)
(***************************************************************************)

(* A request moves on; what it now remembers is true of the store.         *)
LEMMA CallMoves ==
  ASSUME IInv, NEW c \in Call, NEW v \in CallType, CallFits(v),
         call' = [call EXCEPT ![c] = v],
         UNCHANGED <<row, jobs, reservation, authorized, version, delivery, view>>
  PROVE  IInv'
<1>1. TypeOK'
  BY DEF IInv, TypeOK
<1>2. \A x \in Call : CallFits(call[x])'
  BY DEF IInv, TypeOK, CallFits
<1>3. /\ \A o \in Op : RowOK(o)' /\ ReservationOK(o)'
      /\ \A j \in Job : JobOK(j)'
  BY DEF IInv, RowOK, ReservationOK, JobOK
<1>4. \A d \in Delivery : DeliveryFits(d, delivery[d])'
  BY DEF IInv, DeliveryFits, Subject
<1>5. \A r \in Reader : ViewFits(view[r])'
  BY DEF IInv, ViewFits
<1> QED
  BY <1>1, <1>2, <1>3, <1>4, <1>5 DEF IInv

(* A handler invocation moves on.                                          *)
LEMMA DeliveryMoves ==
  ASSUME IInv, NEW d \in Delivery, NEW v \in DeliveryType, DeliveryFits(d, v),
         delivery' = [delivery EXCEPT ![d] = v],
         UNCHANGED <<row, jobs, reservation, authorized, version, call, view>>
  PROVE  IInv'
<1>1. TypeOK'
  BY DEF IInv, TypeOK
<1>2. \A x \in Delivery : DeliveryFits(x, delivery[x])'
  BY DEF IInv, TypeOK, DeliveryFits, Subject
<1>3. /\ \A o \in Op : RowOK(o)' /\ ReservationOK(o)'
      /\ \A j \in Job : JobOK(j)'
  BY DEF IInv, RowOK, ReservationOK, JobOK
<1>4. \A c \in Call : CallFits(call[c])'
  BY DEF IInv, CallFits
<1>5. \A r \in Reader : ViewFits(view[r])'
  BY DEF IInv, ViewFits
<1> QED
  BY <1>1, <1>2, <1>3, <1>4, <1>5 DEF IInv

(* A status read moves on.                                                 *)
LEMMA ViewMoves ==
  ASSUME IInv, NEW r \in Reader, NEW v \in ViewType, ViewFits(v),
         view' = [view EXCEPT ![r] = v],
         UNCHANGED <<row, jobs, reservation, authorized, version, call, delivery>>
  PROVE  IInv'
<1>1. TypeOK'
  BY DEF IInv, TypeOK
<1>2. \A x \in Reader : ViewFits(view[x])'
  BY DEF IInv, TypeOK, ViewFits
<1>3. /\ \A o \in Op : RowOK(o)' /\ ReservationOK(o)'
      /\ \A j \in Job : JobOK(j)'
  BY DEF IInv, RowOK, ReservationOK, JobOK
<1>4. \A c \in Call : CallFits(call[c])'
  BY DEF IInv, CallFits
<1>5. \A d \in Delivery : DeliveryFits(d, delivery[d])'
  BY DEF IInv, DeliveryFits, Subject
<1> QED
  BY <1>1, <1>2, <1>3, <1>4, <1>5 DEF IInv

(* Authority and the live report are not mentioned by the invariant.       *)
LEMMA EnvironmentMoves ==
  ASSUME IInv, authorized' \in SUBSET User, version' \in Nat,
         UNCHANGED <<row, jobs, reservation, call, delivery, view>>
  PROVE  IInv'
<1>1. TypeOK'
  BY DEF IInv, TypeOK
<1>2. /\ \A o \in Op : RowOK(o)' /\ ReservationOK(o)'
      /\ \A j \in Job : JobOK(j)'
  BY DEF IInv, RowOK, ReservationOK, JobOK
<1>3. /\ \A c \in Call : CallFits(call[c])'
      /\ \A r \in Reader : ViewFits(view[r])'
  BY DEF IInv, CallFits, ViewFits
<1>4. \A d \in Delivery : DeliveryFits(d, delivery[d])'
  BY DEF IInv, DeliveryFits, Subject
<1> QED
  BY <1>1, <1>2, <1>3, <1>4 DEF IInv

(***************************************************************************)
(* Steps that change what is stored.                                       *)
(***************************************************************************)

(* A command rewrites one row under its lock, short of committing it: the  *)
(* request's identity and an existing receipt are kept, an ended operation *)
(* is left alone, nothing returns to an earlier stage.                     *)
LEMMA RowRewritten ==
  ASSUME IInv, NEW o \in Op, NEW v \in RowType, RowFree(o),
         row' = [row EXCEPT ![o] = v],
         UNCHANGED <<jobs, reservation, delivery, view>>,
         row[o].status # "absent" =>
           v.owner = row[o].owner /\ v.payload = row[o].payload,
         row[o].status \notin {"absent", "awaiting_approval"} =>
           v.status \notin {"absent", "awaiting_approval"},
         row[o].status \in Terminal => v.status = row[o].status /\ v.evidence = row[o].evidence,
         v.status = "committed" => row[o].status = "committed",
         v.job = row[o].job
  PROVE  /\ row' \in [Op -> RowType]
         /\ \A p \in Op \ {o} : RowOK(p)'
         /\ \A j \in Job : JobOK(j)'
         /\ \A p \in Op : ReservationOK(p)'
         /\ \A x \in CallType : CallFits(x) => CallFits(x)'
         /\ \A d \in Delivery : DeliveryFits(d, delivery[d])'
         /\ \A r \in Reader : ViewFits(view[r])'
<1>1. row' \in [Op -> RowType]
  BY DEF IInv, TypeOK
<1>2. \A p \in Op : p # o => row'[p] = row[p]
  BY DEF IInv, TypeOK
<1>3. row'[o] = v
  BY DEF IInv, TypeOK
<1>4. \A p \in Op \ {o} : RowOK(p)'
  BY <1>2 DEF IInv, RowOK
<1>5. \A j \in Job : JobOK(j)'
  BY <1>2, <1>3 DEF IInv, JobOK
<1>6. \A p \in Op : ReservationOK(p)'
  BY <1>2, <1>3 DEF IInv, ReservationOK, Terminal
<1>7. \A x \in CallType : CallFits(x) => CallFits(x)'
  BY <1>2, <1>3 DEF CallFits
<1>8. ASSUME NEW d \in Delivery PROVE DeliveryFits(d, delivery[d])'
  <2>1. DeliveryFits(d, delivery[d]) /\ (delivery[d].pc = "effect" => Subject(delivery[d]) # o)
    BY DEF IInv, RowFree, Subject
  <2>2. delivery[d].pc # "idle" => Subject(delivery[d]) \in Op
    BY <2>1 DEF IInv, DeliveryFits, JobOK, Subject
  <2> QED
    BY <2>1, <2>2, <1>2, <1>3 DEF DeliveryFits, Subject, Terminal
<1>9. \A r \in Reader : ViewFits(view[r])'
  BY <1>2, <1>3 DEF IInv, ViewFits
<1> QED
  BY <1>1, <1>4, <1>5, <1>6, <1>7, <1>8, <1>9

(* A job changes its status or its attempts, but still exists and is still *)
(* the same job.                                                           *)
LEMMA JobRewritten ==
  ASSUME IInv, NEW j \in Job, NEW v \in JobType, jobs[j].status # "absent",
         jobs' = [jobs EXCEPT ![j] = v],
         v.status # "absent", v.op = jobs[j].op, v.user = jobs[j].user,
         v.payload = jobs[j].payload,
         UNCHANGED <<row, reservation>>
  PROVE  /\ jobs' \in [Job -> JobType]
         /\ \A o \in Op : RowOK(o)' /\ ReservationOK(o)'
         /\ \A i \in Job : JobOK(i)'
         /\ \A d \in Delivery : \A x \in DeliveryType :
              DeliveryFits(d, x) => DeliveryFits(d, x)'
<1>1. jobs' \in [Job -> JobType]
  BY DEF IInv, TypeOK
<1>2. \A i \in Job : /\ jobs'[i].op = jobs[i].op
                     /\ jobs'[i].user = jobs[i].user
                     /\ jobs'[i].payload = jobs[i].payload
                     /\ jobs'[i].status = "absent" <=> jobs[i].status = "absent"
  BY DEF IInv, TypeOK
<1>3. \A o \in Op : row[o].job # None => row[o].job \in Job
  BY DEF IInv, TypeOK, RowType, OrNone
<1>4. \A o \in Op : RowOK(o)'
  BY <1>2, <1>3 DEF IInv, RowOK
<1>5. \A o \in Op : ReservationOK(o)'
  BY DEF IInv, ReservationOK
<1>6. \A i \in Job : JobOK(i)'
  BY <1>2 DEF IInv, JobOK
<1>7. \A d \in Delivery : \A x \in DeliveryType : DeliveryFits(d, x) => DeliveryFits(d, x)'
  BY <1>2 DEF DeliveryFits, Subject
<1> QED
  BY <1>1, <1>4, <1>5, <1>6, <1>7

(***************************************************************************)
(* Every value a request, a handler or a read may take is well typed.      *)
(***************************************************************************)
LEMMA IdleTypes ==
  /\ IdleCall \in CallType /\ CallFits(IdleCall)
  /\ IdleDelivery \in DeliveryType /\ \A d \in Delivery : DeliveryFits(d, IdleDelivery)
  /\ IdleView \in ViewType /\ ViewFits(IdleView)
<1>1. IdleCall \in CallType /\ CallFits(IdleCall)
  BY DEF IdleCall, CallType, OrNone, CallFits
<1>2. IdleDelivery \in DeliveryType /\ \A d \in Delivery : DeliveryFits(d, IdleDelivery)
  BY DEF IdleDelivery, DeliveryType, OrNone, DeliveryFits
<1>3. IdleView \in ViewType /\ ViewFits(IdleView)
  BY NoneAssumption DEF IdleView, ViewType, OrNone, ViewFits, Terminal
<1> QED
  BY <1>1, <1>2, <1>3

(* The invariant holds of an empty table and an idle worker.               *)
LEMMA InitInv == Init => IInv
<1> SUFFICES ASSUME Init PROVE IInv
  OBVIOUS
<1>1. TypeOK
  BY IdleTypes DEF Init, NoRow, NoJob, NoReservation, TypeOK, RowType, JobType,
     ReservationType, OrNone, Status, JobStatus
<1>2. \A o \in Op : RowOK(o) /\ ReservationOK(o)
  BY NoneAssumption DEF Init, NoRow, NoReservation, RowOK, ReservationOK, Terminal
<1>3. \A j \in Job : JobOK(j)
  BY DEF Init, NoJob, JobOK
<1>4. /\ \A c \in Call : CallFits(call[c])
      /\ \A d \in Delivery : DeliveryFits(d, delivery[d])
      /\ \A r \in Reader : ViewFits(view[r])
  BY IdleTypes DEF Init
<1> QED
  BY <1>1, <1>2, <1>3, <1>4 DEF IInv

(***************************************************************************)
(* HTTP commands.                                                          *)
(***************************************************************************)
LEMMA BeginCreateInv ==
  ASSUME IInv, NEW c \in Call, NEW u \in User, NEW o \in Op, NEW k \in Kind, NEW q \in Query,
         BeginCreate(c, u, o, k, q)
  PROVE  IInv'
<1> DEFINE v == [pc |-> "create", user |-> u, op |-> o, kind |-> k, query |-> q, job |-> None]
<1>1. v \in CallType /\ CallFits(v)
  BY DEF CallType, OrNone, CallFits
<1> QED
  BY <1>1, CallMoves DEF BeginCreate, stored

(* A request that goes on to enqueue an operation it may enqueue.          *)
LEMMA EnqueuingFits ==
  ASSUME NEW o \in Op, NEW u \in User,
         row[o].status \notin {"absent", "awaiting_approval"}, row[o].owner = u
  PROVE  Enqueuing(o, u) \in CallType /\ CallFits(Enqueuing(o, u))
BY DEF Enqueuing, IdleCall, CallType, CallFits, OrNone

(* A new operation: NewRow is a complete row.                              *)
LEMMA NewRowType ==
  ASSUME NEW o \in Op, NEW c \in Call, call[c].user \in User, call[c].kind \in Kind,
         call[c].query \in Query
  PROVE  /\ NewRow(o, c) \in RowType
         /\ NewRow(o, c).status =
              IF call[c].kind = "approval-demo" THEN "awaiting_approval" ELSE "queued"
         /\ NewRow(o, c).owner = call[c].user
         /\ NewRow(o, c).kind = call[c].kind
         /\ NewRow(o, c).query = call[c].query
         /\ NewRow(o, c).payload = Fingerprint(o, call[c].user, call[c].kind, call[c].query)
         /\ NewRow(o, c).approved = None /\ NewRow(o, c).job = None
         /\ NewRow(o, c).snapshot = None /\ NewRow(o, c).evidence = None
<1>1. PICK f \in Payload : f = Fingerprint(o, call[c].user, call[c].kind, call[c].query)
  BY DEF Fingerprint, Payload
<1>2. PICK s \in Status :
        s = IF call[c].kind = "approval-demo" THEN "awaiting_approval" ELSE "queued"
  BY DEF Status
<1>3. NewRow(o, c) =
        [NoRow EXCEPT !.status = s, !.owner = call[c].user, !.kind = call[c].kind,
                      !.query = call[c].query, !.payload = f]
  BY <1>1, <1>2 DEF NewRow
<1>4. NewRow(o, c) =
        [status |-> s, owner |-> call[c].user, kind |-> call[c].kind, query |-> call[c].query,
         payload |-> f, approved |-> None, decidedBy |-> None, job |-> None,
         snapshot |-> None, evidence |-> None]
  BY <1>3 DEF NoRow
<1>5. NewRow(o, c) \in RowType
  BY <1>4 DEF RowType, OrNone
<1> QED
  BY <1>1, <1>2, <1>4, <1>5

(* The insert of a submission keeps the invariant.                         *)
LEMMA InsertOperationInv ==
  ASSUME IInv, NEW c \in Call, InsertOperation(c)
  PROVE  IInv'
<1>1. PICK o \in Op : o = call[c].op
  BY DEF IInv, InsertOperation, CallFits
<1>2. PICK w \in RowType : w = NewRow(o, c)
  BY <1>1, NewRowType DEF IInv, InsertOperation, CallFits
<1>3. /\ w.status \in {"queued", "awaiting_approval"}
      /\ w.status = "awaiting_approval" => w.kind = "approval-demo"
      /\ w.kind = "approval-demo" => w.status = "awaiting_approval"
      /\ w.owner = call[c].user /\ w.owner \in User
      /\ w.kind = call[c].kind /\ w.kind \in Kind
      /\ w.query = call[c].query /\ w.query \in Query
      /\ w.payload = Fingerprint(o, w.owner, w.kind, w.query)
      /\ w.approved = None /\ w.job = None /\ w.snapshot = None /\ w.evidence = None
  BY <1>1, <1>2, NewRowType DEF IInv, InsertOperation, CallFits
<1>4. /\ row[o].status = "absent" /\ row[o].job = None
      /\ row' = [row EXCEPT ![o] = w] /\ row'[o] = w
  BY <1>1, <1>2 DEF IInv, TypeOK, InsertOperation, RowOK, NoRow
<1>5. RowFree(o)
  BY <1>4 DEF IInv, RowFree, DeliveryFits, Subject
<1>6. /\ row' \in [Op -> RowType]
      /\ \A p \in Op \ {o} : RowOK(p)'
      /\ \A j \in Job : JobOK(j)'
      /\ \A p \in Op : ReservationOK(p)'
      /\ \A x \in CallType : CallFits(x) => CallFits(x)'
      /\ \A d \in Delivery : DeliveryFits(d, delivery[d])'
      /\ \A r \in Reader : ViewFits(view[r])'
  BY <1>3, <1>4, <1>5, RowRewritten DEF InsertOperation, Terminal
<1>7. RowOK(o)'
  BY <1>3, <1>4 DEF RowOK
<1>8. PICK v \in CallType :
        /\ call' = [call EXCEPT ![c] = v]
        /\ \/ v = IdleCall
           \/ v = [call[c] EXCEPT !.pc = "enqueue"] /\ call[c].kind = "prepare"
  <2>1. call[c] \in CallType
    BY DEF IInv, TypeOK
  <2>2. [call[c] EXCEPT !.pc = "enqueue"] \in CallType
    BY <2>1 DEF CallType
  <2>3. CASE call[c].kind = "prepare"
    BY <2>2, <2>3 DEF InsertOperation
  <2>4. CASE call[c].kind # "prepare"
    BY <2>4, IdleTypes DEF InsertOperation
  <2> QED
    BY <2>3, <2>4
<1>9. CallFits(v)'
  <2>1. CASE v = IdleCall
    BY <2>1, IdleTypes, <1>6
  <2>2. CASE v = [call[c] EXCEPT !.pc = "enqueue"] /\ call[c].kind = "prepare"
    <3>1. v.pc = "enqueue" /\ v.op = o /\ v.user = w.owner /\ w.status = "queued"
      BY <2>2, <1>1, <1>3 DEF IInv, TypeOK, CallType
    <3> QED
      BY <3>1, <1>3, <1>4 DEF CallFits
  <2> QED
    BY <1>8, <2>1, <2>2
<1>10. call' \in [Call -> CallType] /\ \A x \in Call : CallFits(call[x])'
  BY <1>6, <1>8, <1>9 DEF IInv, TypeOK
<1>11. TypeOK'
  BY <1>6, <1>10 DEF IInv, TypeOK, InsertOperation
<1> QED
  BY <1>6, <1>7, <1>10, <1>11 DEF IInv

(* A resubmission that finds its row keeps the invariant.                  *)
LEMMA FindOperationInv ==
  ASSUME IInv, NEW c \in Call, FindOperation(c)
  PROVE  IInv'
<1> DEFINE o == call[c].op
           v == IF SameSubmission(o, c) /\ row[o].status = "queued" /\ row[o].job = None
                  THEN [call[c] EXCEPT !.pc = "enqueue"] ELSE IdleCall
<1>1. o \in Op /\ call[c].user \in User /\ call[c] \in CallType
  BY DEF IInv, TypeOK, FindOperation, CallFits
<1>2. v \in CallType /\ CallFits(v)
  BY <1>1, IdleTypes DEF CallType, OrNone, CallFits, SameSubmission
<1> QED
  BY <1>2, CallMoves DEF FindOperation, stored

(* Approval keeps the invariant.                                           *)
LEMMA ApproveInv ==
  ASSUME IInv, NEW c \in Call, NEW u \in User, NEW o \in Op, NEW f \in Payload,
         Approve(c, u, o, f)
  PROVE  IInv'
<1> DEFINE w == [row[o] EXCEPT !.status = "queued", !.decidedBy = u, !.approved = f]
           v == Enqueuing(o, u)
<1>1. /\ row[o] \in RowType /\ row[o].status = "awaiting_approval" /\ row[o].owner = u
      /\ row[o].kind = "approval-demo" /\ f = row[o].payload /\ RowFree(o)
      /\ row[o].job = None /\ row[o].snapshot = None /\ row[o].evidence = None
  BY DEF IInv, TypeOK, RowOK, Approve, Locked, Owns, PayloadIntact
<1>2. w \in RowType
  BY <1>1 DEF RowType, OrNone, Status
<1>3. /\ w.status = "queued" /\ w.decidedBy = u /\ w.approved = f
      /\ w.owner = row[o].owner /\ w.kind = row[o].kind /\ w.query = row[o].query
      /\ w.payload = row[o].payload /\ w.job = row[o].job
      /\ w.snapshot = row[o].snapshot /\ w.evidence = row[o].evidence
  BY <1>1 DEF RowType
<1>4. row' = [row EXCEPT ![o] = w] /\ call' = [call EXCEPT ![c] = v]
  BY DEF Approve
<1>5. row'[o] = w
  BY <1>4 DEF IInv, TypeOK
<1>6. /\ row' \in [Op -> RowType]
      /\ \A p \in Op \ {o} : RowOK(p)'
      /\ \A j \in Job : JobOK(j)'
      /\ \A p \in Op : ReservationOK(p)'
      /\ \A x \in CallType : CallFits(x) => CallFits(x)'
      /\ \A d \in Delivery : DeliveryFits(d, delivery[d])'
      /\ \A r \in Reader : ViewFits(view[r])'
  BY <1>1, <1>2, <1>3, <1>4, RowRewritten DEF Approve, Terminal
<1>7. RowOK(o)'
  BY <1>1, <1>3, <1>5 DEF IInv, RowOK
<1>8. v \in CallType /\ CallFits(v)'
  BY <1>1, <1>3, <1>5 DEF Enqueuing, IdleCall, CallType, CallFits, OrNone
<1>9. call' \in [Call -> CallType] /\ \A x \in Call : CallFits(call[x])'
  BY <1>4, <1>6, <1>8 DEF IInv, TypeOK
<1>10. TypeOK'
  BY <1>6, <1>9 DEF IInv, TypeOK, Approve
<1> QED
  BY <1>6, <1>7, <1>9, <1>10 DEF IInv

(* A repeated approval, which only enqueues again, keeps the invariant.    *)
LEMMA ResumeInv ==
  ASSUME IInv, NEW c \in Call, NEW u \in User, NEW o \in Op, NEW f \in Payload,
         Resume(c, u, o, f)
  PROVE  IInv'
<1>1. Enqueuing(o, u) \in CallType /\ CallFits(Enqueuing(o, u))
  BY EnqueuingFits DEF Resume, Locked, Owns
<1> QED
  BY <1>1, CallMoves DEF Resume, stored

(* Refusal keeps the invariant.                                            *)
LEMMA DeclineInv ==
  ASSUME IInv, NEW u \in User, NEW o \in Op, NEW f \in Payload, Decline(u, o, f)
  PROVE  IInv'
<1> DEFINE w == [row[o] EXCEPT !.status = "declined", !.decidedBy = u]
<1>1. /\ row[o] \in RowType /\ row[o].status = "awaiting_approval" /\ row[o].kind = "approval-demo"
      /\ RowFree(o) /\ row[o].snapshot = None /\ row[o].evidence = None
  BY DEF IInv, TypeOK, RowOK, Decline, Locked
<1>2. w \in RowType
  BY <1>1 DEF RowType, OrNone, Status, Terminal
<1>3. /\ w.status = "declined" /\ w.approved = row[o].approved
      /\ w.owner = row[o].owner /\ w.kind = row[o].kind /\ w.query = row[o].query
      /\ w.payload = row[o].payload /\ w.job = row[o].job
      /\ w.snapshot = row[o].snapshot /\ w.evidence = row[o].evidence
  BY <1>1 DEF RowType
<1>4. row' = [row EXCEPT ![o] = w] /\ row'[o] = w
  BY DEF IInv, TypeOK, Decline
<1>5. /\ row' \in [Op -> RowType]
      /\ \A p \in Op \ {o} : RowOK(p)'
      /\ \A j \in Job : JobOK(j)'
      /\ \A p \in Op : ReservationOK(p)'
      /\ \A x \in CallType : CallFits(x) => CallFits(x)'
      /\ \A d \in Delivery : DeliveryFits(d, delivery[d])'
      /\ \A r \in Reader : ViewFits(view[r])'
  BY <1>1, <1>2, <1>3, <1>4, RowRewritten DEF Decline, Terminal, actors
<1>6. RowOK(o)'
  BY <1>1, <1>3, <1>4 DEF IInv, RowOK
<1>7. TypeOK' /\ \A x \in Call : CallFits(call[x])'
  BY <1>5 DEF IInv, TypeOK, Decline, actors
<1> QED
  BY <1>5, <1>6, <1>7 DEF IInv

(* Cancellation keeps the invariant.                                       *)
LEMMA CancelInv ==
  ASSUME IInv, NEW u \in User, NEW o \in Op, Cancel(u, o)
  PROVE  IInv'
<1> DEFINE w == [row[o] EXCEPT !.status = "cancelled"]
<1>1. /\ row[o] \in RowType /\ row[o].status \notin Terminal /\ row[o].status # "absent"
      /\ RowFree(o) /\ row[o].snapshot = None /\ row[o].evidence = None
  BY DEF IInv, TypeOK, RowOK, Cancel, Locked, Owns, Withdrawable, Terminal
<1>2. w \in RowType
  BY <1>1 DEF RowType, Status, Terminal
<1>3. /\ w.status = "cancelled" /\ w.approved = row[o].approved
      /\ w.owner = row[o].owner /\ w.kind = row[o].kind /\ w.query = row[o].query
      /\ w.payload = row[o].payload /\ w.job = row[o].job
      /\ w.snapshot = row[o].snapshot /\ w.evidence = row[o].evidence
  BY <1>1 DEF RowType
<1>4. row' = [row EXCEPT ![o] = w] /\ row'[o] = w
  BY DEF IInv, TypeOK, Cancel
<1>5. /\ row' \in [Op -> RowType]
      /\ \A p \in Op \ {o} : RowOK(p)'
      /\ \A j \in Job : JobOK(j)'
      /\ \A p \in Op : ReservationOK(p)'
      /\ \A x \in CallType : CallFits(x) => CallFits(x)'
      /\ \A d \in Delivery : DeliveryFits(d, delivery[d])'
      /\ \A r \in Reader : ViewFits(view[r])'
  BY <1>1, <1>2, <1>3, <1>4, RowRewritten DEF Cancel, actors
<1>6. RowOK(o)'
  BY <1>1, <1>3, <1>4 DEF IInv, RowOK, Cancel, actors
<1>7. TypeOK' /\ \A x \in Call : CallFits(call[x])'
  BY <1>5 DEF IInv, TypeOK, Cancel, actors
<1> QED
  BY <1>5, <1>6, <1>7 DEF IInv

(***************************************************************************)
(* The enqueue.                                                            *)
(***************************************************************************)
LEMMA CheckBeforeSubmitInv ==
  ASSUME IInv, NEW c \in Call, CheckBeforeSubmit(c)
  PROVE  IInv'
<1>1. call[c] \in CallType /\ call[c].pc = "enqueue" /\ CallFits(call[c])
  BY DEF IInv, TypeOK, CheckBeforeSubmit
<1>2. PICK v \in CallType : v = [call[c] EXCEPT !.pc = "submit"]
  BY <1>1 DEF CallType
<1>3. CallFits(v)
  BY <1>1, <1>2 DEF CallFits, CallType
<1> QED
  BY <1>2, <1>3, CallMoves DEF CheckBeforeSubmit, stored

(* Finding the receipt of an earlier enqueue keeps the invariant.          *)
LEMMA ReuseReceiptInv ==
  ASSUME IInv, NEW c \in Call, ReuseReceipt(c)
  PROVE  IInv'
<1>1. call[c] \in CallType /\ call[c].pc = "submit" /\ CallFits(call[c])
  BY DEF IInv, TypeOK, ReuseReceipt
<1>2. PICK j \in Job : row[call[c].op].job = j
  BY <1>1 DEF IInv, TypeOK, RowType, OrNone, ReuseReceipt, HasReceipt, CallFits
<1>3. PICK v \in CallType : v = [call[c] EXCEPT !.pc = "link", !.job = j]
  BY <1>1 DEF CallType, OrNone
<1>4. CallFits(v)
  BY <1>1, <1>2, <1>3 DEF CallFits, CallType
<1> QED
  BY <1>2, <1>3, <1>4, CallMoves DEF ReuseReceipt, stored

(* The unlocked update writes the receipt that the row already holds.      *)
LEMMA LinkJobInv ==
  ASSUME IInv, NEW c \in Call, LinkJob(c)
  PROVE  IInv'
<1>1. PICK o \in Op : o = call[c].op /\ row[o].job = call[c].job
  BY DEF IInv, CallFits, LinkJob
<1>2. row[o] \in RowType
  BY DEF IInv, TypeOK
<1>3. [row[o] EXCEPT !.job = call[c].job] = row[o]
  BY <1>1, <1>2 DEF RowType
<1>4. row' = [row EXCEPT ![o] = row[o]]
  BY <1>1, <1>3 DEF LinkJob
<1>5. row' = row
  BY <1>4 DEF IInv, TypeOK
<1> QED
  BY <1>5, IdleTypes, CallMoves DEF LinkJob

(* A request that dies keeps the invariant.                                *)
LEMMA AbandonCallInv ==
  ASSUME IInv, NEW c \in Call, AbandonCall(c)
  PROVE  IInv'
BY IdleTypes, CallMoves DEF AbandonCall, stored

(***************************************************************************)
(* Worker steps that only move the handler on.                             *)
(***************************************************************************)

(* A claimed job names an operation, whose row holds its receipt.          *)
LEMMA SubjectIsOperation ==
  ASSUME IInv, NEW d \in Delivery, delivery[d].pc # "idle"
  PROVE  /\ delivery[d] \in DeliveryType /\ DeliveryFits(d, delivery[d])
         /\ delivery[d].job \in Job /\ jobs[delivery[d].job].status # "absent"
         /\ jobs[delivery[d].job] \in JobType
         /\ Subject(delivery[d]) \in Op /\ Subject(delivery[d]) = jobs[delivery[d].job].op
BY DEF IInv, TypeOK, DeliveryFits, JobOK, Subject

(* The checks made on a delivered envelope keep the invariant.             *)
LEMMA AuthorizeDeliveryInv ==
  ASSUME IInv, NEW d \in Delivery, AuthorizeDelivery(d)
  PROVE  IInv'
<1>1. delivery[d] \in DeliveryType /\ delivery[d].pc = "authorize" /\ DeliveryFits(d, delivery[d])
  BY DEF IInv, TypeOK, AuthorizeDelivery
<1>2. PICK v \in DeliveryType : v = [delivery[d] EXCEPT !.pc = "reserve"]
  BY <1>1 DEF DeliveryType
<1>3. DeliveryFits(d, v)
  BY <1>1, <1>2 DEF DeliveryFits, DeliveryType
<1> QED
  BY <1>2, <1>3, DeliveryMoves DEF AuthorizeDelivery, stored

(* Answering a duplicate from its completed reservation keeps the          *)
(* invariant.                                                              *)
LEMMA ReplayInv ==
  ASSUME IInv, NEW d \in Delivery, Replay(d)
  PROVE  IInv'
<1>1. delivery[d].pc = "reserve"
  BY DEF Replay
<1>2. PICK o \in Op : o = jobs[delivery[d].job].op
  BY <1>1, SubjectIsOperation
<1>3. reservation[o].outcome \in OrNone(Outcome) /\ delivery[d] \in DeliveryType
  BY <1>2 DEF IInv, TypeOK, ReservationType
<1>4. PICK v \in DeliveryType :
        v = [delivery[d] EXCEPT !.pc = "ack", !.outcome = reservation[o].outcome]
  BY <1>3 DEF DeliveryType
<1>5. DeliveryFits(d, v)
  BY <1>1, <1>4, SubjectIsOperation DEF DeliveryFits, DeliveryType
<1> QED
  BY <1>2, <1>4, <1>5, DeliveryMoves DEF Replay, stored

(* Entering the effect under the row lock keeps the invariant.             *)
LEMMA BeginEffectInv ==
  ASSUME IInv, NEW d \in Delivery, BeginEffect(d)
  PROVE  IInv'
<1>1. delivery[d].pc = "apply" /\ row[Subject(delivery[d])].status = "queued"
  BY DEF BeginEffect, Executable, Subject
<1>2. PICK v \in DeliveryType : v = [delivery[d] EXCEPT !.pc = "effect"]
  BY <1>1, SubjectIsOperation DEF DeliveryType
<1>3. DeliveryFits(d, v)
  BY <1>1, <1>2, SubjectIsOperation DEF DeliveryFits, DeliveryType, Subject
<1> QED
  BY <1>2, <1>3, DeliveryMoves DEF BeginEffect, stored

(* An effect that finds the operation withdrawn keeps the invariant.       *)
LEMMA ApplyNothingInv ==
  ASSUME IInv, NEW d \in Delivery, ApplyNothing(d)
  PROVE  IInv'
<1>1. delivery[d].pc = "apply" /\ row[Subject(delivery[d])].status \in Terminal
  BY DEF ApplyNothing, Subject
<1>2. PICK s \in Terminal : s = row[Subject(delivery[d])].status
  BY <1>1
<1>3. PICK v \in DeliveryType : v = [delivery[d] EXCEPT !.pc = "complete", !.outcome = s]
  BY <1>1, SubjectIsOperation DEF DeliveryType, OrNone, Outcome
<1>4. DeliveryFits(d, v)
  BY <1>1, <1>2, <1>3, SubjectIsOperation DEF DeliveryFits, DeliveryType, Subject
<1> QED
  BY <1>2, <1>3, <1>4, DeliveryMoves DEF ApplyNothing, stored, Subject

(* An effect that rolls back keeps the invariant.                          *)
LEMMA ApplyRollsBackInv ==
  ASSUME IInv, NEW d \in Delivery, ApplyRollsBack(d)
  PROVE  IInv'
<1>1. delivery[d].pc \in {"apply", "effect"}
  BY DEF ApplyRollsBack
<1>2. PICK v \in DeliveryType : v = [delivery[d] EXCEPT !.pc = "complete", !.outcome = "failed"]
  BY <1>1, SubjectIsOperation DEF DeliveryType, OrNone, Outcome
<1>3. DeliveryFits(d, v)
  BY <1>1, <1>2, SubjectIsOperation DEF DeliveryFits, DeliveryType, Subject, Terminal
<1> QED
  BY <1>2, <1>3, DeliveryMoves DEF ApplyRollsBack, stored

(* A crash of a worker, at any point, keeps the invariant.                 *)
LEMMA WorkerCrashInv ==
  ASSUME IInv, NEW d \in Delivery, WorkerCrash(d)
  PROVE  IInv'
BY IdleTypes, DeliveryMoves DEF WorkerCrash, stored

(***************************************************************************)
(* Worker steps that write the framework's record.                         *)
(***************************************************************************)

(* The record of one operation is rewritten and a handler moves on; no     *)
(* other handler is executing that operation.                              *)
LEMMA RecordRewritten ==
  ASSUME IInv, NEW o \in Op, NEW z \in ReservationType,
         reservation' = [reservation EXCEPT ![o] = z],
         UNCHANGED <<row, jobs, authorized, version, call, view>>,
         z.status # "none",
         z.status # "completed" => z.outcome = None,
         z.outcome \in Terminal => row[o].status = z.outcome,
         row[o].status = "committed" => z.token = row[o].evidence,
         delivery' \in [Delivery -> DeliveryType],
         \A d \in Delivery : DeliveryFits(d, delivery[d])'
  PROVE  IInv'
<1>1. TypeOK'
  BY DEF IInv, TypeOK
<1>2. \A p \in Op : ReservationOK(p)'
  BY DEF IInv, TypeOK, ReservationOK
<1>3. /\ \A p \in Op : RowOK(p)'
      /\ \A j \in Job : JobOK(j)'
      /\ \A c \in Call : CallFits(call[c])'
      /\ \A r \in Reader : ViewFits(view[r])'
  BY DEF IInv, RowOK, JobOK, CallFits, ViewFits
<1> QED
  BY <1>1, <1>2, <1>3 DEF IInv

(* Reserving the idempotency key keeps the invariant.                      *)
LEMMA ReserveInv ==
  ASSUME IInv, NEW d \in Delivery, Reserve(d)
  PROVE  IInv'
<1>1. PICK o \in Op : o = jobs[delivery[d].job].op
  BY SubjectIsOperation DEF Reserve
<1>2. PICK z \in ReservationType : z = [status |-> "reserved", token |-> d, outcome |-> None]
  BY DEF ReservationType, OrNone
<1>3. PICK v \in DeliveryType : v = [delivery[d] EXCEPT !.pc = "apply"]
  BY SubjectIsOperation DEF Reserve, DeliveryType
<1>4. v.pc = "apply" /\ v.job = delivery[d].job
  BY <1>3, SubjectIsOperation DEF Reserve, DeliveryType
<1>5. /\ reservation[o].status = "none"
      /\ reservation' = [reservation EXCEPT ![o] = z]
      /\ delivery' = [delivery EXCEPT ![d] = v]
  BY <1>1, <1>2, <1>3 DEF Reserve
<1>6. row[o].status # "committed"
  BY <1>5 DEF IInv, ReservationOK
<1>7. delivery' \in [Delivery -> DeliveryType]
  BY <1>5 DEF IInv, TypeOK
<1>8. ASSUME NEW x \in Delivery PROVE DeliveryFits(x, delivery[x])'
  <2>1. CASE x = d
    <3>1. delivery'[x] = v /\ reservation'[o] = z /\ UNCHANGED <<row, jobs>>
      BY <2>1, <1>5 DEF IInv, TypeOK, Reserve
    <3>2. v.job \in Job /\ jobs[v.job].status # "absent" /\ jobs[v.job].op = o
      BY <1>1, <1>4, SubjectIsOperation DEF Reserve
    <3> QED
      BY <2>1, <3>1, <3>2, <1>2, <1>4, <1>6 DEF DeliveryFits, Subject
  <2>2. CASE x # d
    <3>1. delivery'[x] = delivery[x] /\ UNCHANGED <<row, jobs>>
      BY <2>2, <1>5 DEF IInv, TypeOK, Reserve
    <3>2. \A p \in Op : p # o => reservation'[p] = reservation[p]
      BY <1>5 DEF IInv, TypeOK
    <3>3. delivery[x].pc # "idle" => Subject(delivery[x]) \in Op
      BY SubjectIsOperation
    <3> QED
      BY <3>1, <3>2, <3>3, <1>5 DEF IInv, DeliveryFits, Subject
  <2> QED
    BY <2>1, <2>2
<1>9. z.status = "reserved" /\ z.outcome = None /\ z.outcome \notin Terminal
  BY <1>2, NoneAssumption DEF Terminal
<1> QED
  BY <1>5, <1>6, <1>7, <1>8, <1>9, RecordRewritten DEF Reserve

(* Completing the reservation keeps the invariant.                         *)
LEMMA CompleteInv ==
  ASSUME IInv, NEW d \in Delivery, Complete(d)
  PROVE  IInv'
<1>1. PICK o \in Op : o = jobs[delivery[d].job].op
  BY SubjectIsOperation DEF Complete
<1>2. /\ delivery[d] \in DeliveryType /\ delivery[d].pc = "complete"
      /\ delivery[d].job \in Job /\ jobs[delivery[d].job].status # "absent"
      /\ reservation[o].status # "none" /\ reservation[o].token = d
      /\ delivery[d].outcome \in Terminal => row[o].status = delivery[d].outcome
      /\ reservation[o] \in ReservationType
  BY <1>1, SubjectIsOperation DEF Complete, DeliveryFits, Subject, IInv, TypeOK
<1>3. PICK v \in DeliveryType : v = [delivery[d] EXCEPT !.pc = "ack"]
  BY <1>2 DEF DeliveryType
<1>4. v.pc = "ack" /\ v.job = delivery[d].job
  BY <1>2, <1>3 DEF DeliveryType
<1>5. delivery' = [delivery EXCEPT ![d] = v]
  BY <1>3 DEF Complete
<1>6. CASE reservation[o].status = "reserved"
  <2>1. PICK z \in ReservationType :
          z = [reservation[o] EXCEPT !.status = "completed", !.outcome = delivery[d].outcome]
    BY <1>2 DEF ReservationType, DeliveryType, OrNone
  <2>2. z.status = "completed" /\ z.token = d /\ z.outcome = delivery[d].outcome
    BY <1>2, <2>1 DEF ReservationType
  <2>3. reservation' = [reservation EXCEPT ![o] = z]
    BY <1>1, <1>6, <2>1 DEF Complete
  <2>4. delivery' \in [Delivery -> DeliveryType]
    BY <1>5 DEF IInv, TypeOK
  <2>5. ASSUME NEW x \in Delivery PROVE DeliveryFits(x, delivery[x])'
    <3>1. CASE x = d
      <4>1. delivery'[x] = v /\ UNCHANGED <<row, jobs>>
        BY <3>1, <1>5 DEF IInv, TypeOK, Complete
      <4> QED
        BY <3>1, <4>1, <1>2, <1>4 DEF DeliveryFits, Subject
    <3>2. CASE x # d
      <4>1. delivery'[x] = delivery[x] /\ UNCHANGED <<row, jobs>>
        BY <3>2, <1>5 DEF IInv, TypeOK, Complete
      <4>2. \A p \in Op : reservation'[p] = IF p = o THEN z ELSE reservation[p]
        BY <2>3 DEF IInv, TypeOK
      <4>3. delivery[x].pc # "idle" => Subject(delivery[x]) \in Op
        BY SubjectIsOperation
      <4> QED
        BY <3>2, <4>1, <4>2, <4>3, <2>2, <1>2 DEF IInv, DeliveryFits, Subject
    <3> QED
      BY <3>1, <3>2
  <2>6. row[o].status = "committed" => z.token = row[o].evidence
    BY <1>2, <2>2 DEF IInv, ReservationOK
  <2> QED
    BY <1>2, <2>2, <2>3, <2>4, <2>5, <2>6, RecordRewritten DEF Complete
<1>7. CASE reservation[o].status # "reserved"
  <2>1. DeliveryFits(d, v)
    BY <1>2, <1>4 DEF DeliveryFits
  <2>2. reservation' = reservation
    BY <1>1, <1>7 DEF Complete
  <2> QED
    BY <2>1, <2>2, <1>5, DeliveryMoves DEF Complete
<1> QED
  BY <1>6, <1>7

(* Reconciling a committed row with its job keeps the invariant.           *)
LEMMA ReconcileInv ==
  ASSUME IInv, NEW u \in User, NEW o \in Op, Reconcile(u, o)
  PROVE  IInv'
<1>1. reservation[o] \in ReservationType /\ row[o].status = "committed"
  BY DEF IInv, TypeOK, Reconcile
<1>2. PICK z \in ReservationType :
        z = [reservation[o] EXCEPT !.status = "completed", !.outcome = "committed"]
  BY <1>1 DEF ReservationType, OrNone, Outcome, Terminal
<1>3. z.status = "completed" /\ z.token = reservation[o].token /\ z.outcome = "committed"
  BY <1>1, <1>2 DEF ReservationType
<1>4. reservation' = [reservation EXCEPT ![o] = z]
  BY <1>2 DEF Reconcile
<1>5. delivery' \in [Delivery -> DeliveryType]
  BY DEF IInv, TypeOK, Reconcile, actors
<1>6. ASSUME NEW x \in Delivery PROVE DeliveryFits(x, delivery[x])'
  <2>1. UNCHANGED <<row, jobs, delivery>>
    BY DEF Reconcile, actors
  <2>2. \A p \in Op : reservation'[p] = IF p = o THEN z ELSE reservation[p]
    BY <1>4 DEF IInv, TypeOK
  <2>3. delivery[x].pc # "idle" => Subject(delivery[x]) \in Op
    BY SubjectIsOperation
  <2> QED
    BY <2>1, <2>2, <2>3, <1>1, <1>3 DEF IInv, DeliveryFits, Subject
<1>7. z.token = row[o].evidence
  BY <1>3 DEF Reconcile
<1> QED
  BY <1>1, <1>3, <1>4, <1>5, <1>6, <1>7, RecordRewritten DEF Reconcile, actors

(***************************************************************************)
(* The commit of the effect.                                               *)
(***************************************************************************)
LEMMA CommitEffectInv ==
  ASSUME IInv, NEW d \in Delivery, NEW told \in {"committed", "failed"},
         CommitEffect(d, told)
  PROVE  IInv'
<1>1. PICK o \in Op : o = jobs[delivery[d].job].op
  BY SubjectIsOperation DEF CommitEffect
<1>2. /\ delivery[d] \in DeliveryType /\ delivery[d].pc = "effect"
      /\ delivery[d].job \in Job /\ jobs[delivery[d].job].status # "absent"
      /\ row[o] \in RowType /\ row[o].status = "queued" /\ version \in Nat
      /\ reservation[o].status = "reserved" /\ reservation[o].token = d
      /\ reservation[o].outcome \notin Terminal
  BY <1>1, SubjectIsOperation, NoneAssumption
     DEF CommitEffect, DeliveryFits, Subject, IInv, TypeOK, ReservationOK, Terminal
<1>3. PICK w \in RowType :
        w = [row[o] EXCEPT !.status = "committed", !.snapshot = version, !.evidence = d]
  <2>1. "committed" \in Status /\ d \in OrNone(Delivery)
    BY DEF Status, Terminal, OrNone
  <2>2. PICK n \in OrNone(Nat) : n = version
    BY <1>2 DEF OrNone
  <2>3. [row[o] EXCEPT !.status = "committed", !.snapshot = n, !.evidence = d] \in RowType
    BY <2>1, <1>2 DEF RowType
  <2> QED
    BY <2>2, <2>3
<1>4. /\ w.status = "committed" /\ w.snapshot = version /\ w.evidence = d
      /\ w.owner = row[o].owner /\ w.kind = row[o].kind /\ w.query = row[o].query
      /\ w.payload = row[o].payload /\ w.approved = row[o].approved
      /\ w.decidedBy = row[o].decidedBy /\ w.job = row[o].job
  BY <1>2, <1>3 DEF RowType
<1>5. PICK v \in DeliveryType :
        v = [delivery[d] EXCEPT !.pc = "complete", !.outcome = told]
  BY <1>2 DEF DeliveryType, OrNone, Outcome, Terminal
<1>6. v.pc = "complete" /\ v.job = delivery[d].job /\ v.outcome = told
  BY <1>2, <1>5 DEF DeliveryType
<1>7. /\ row' = [row EXCEPT ![o] = w]
      /\ delivery' = [delivery EXCEPT ![d] = v]
      /\ UNCHANGED <<jobs, reservation, authorized, version, call, view>>
  BY <1>1, <1>3, <1>5 DEF CommitEffect
<1>8. /\ row' \in [Op -> RowType] /\ row'[o] = w
      /\ \A p \in Op : p # o => row'[p] = row[p]
      /\ delivery' \in [Delivery -> DeliveryType] /\ delivery'[d] = v
      /\ \A x \in Delivery : x # d => delivery'[x] = delivery[x]
  BY <1>7 DEF IInv, TypeOK
<1>9. TypeOK'
  BY <1>7, <1>8 DEF IInv, TypeOK
<1>10. ASSUME NEW p \in Op PROVE RowOK(p)'
  <2>1. CASE p = o
    <3>1. version # None /\ d # None
      BY <1>2, NoneAssumption
    <3> QED
      BY <2>1, <3>1, <1>2, <1>4, <1>7, <1>8 DEF IInv, RowOK
  <2>2. CASE p # o
    BY <2>2, <1>7, <1>8 DEF IInv, RowOK
  <2> QED
    BY <2>1, <2>2
<1>11. \A j \in Job : JobOK(j)'
  BY <1>4, <1>7, <1>8 DEF IInv, JobOK
<1>12. \A p \in Op : ReservationOK(p)'
  BY <1>2, <1>4, <1>7, <1>8 DEF IInv, ReservationOK
<1>13. \A c \in Call : CallFits(call[c])'
  BY <1>4, <1>7, <1>8 DEF IInv, CallFits
<1>14. ASSUME NEW x \in Delivery PROVE DeliveryFits(x, delivery[x])'
  <2>1. CASE x = d
    BY <2>1, <1>1, <1>2, <1>4, <1>6, <1>7, <1>8 DEF DeliveryFits, Subject, Terminal
  <2>2. CASE x # d
    <3>1. delivery[x].pc # "idle" => Subject(delivery[x]) \in Op
      BY SubjectIsOperation
    <3> QED
      BY <2>2, <3>1, <1>2, <1>7, <1>8 DEF IInv, DeliveryFits, Subject, Terminal
  <2> QED
    BY <2>1, <2>2
<1>15. \A r \in Reader : ViewFits(view[r])'
  BY <1>2, <1>7, <1>8 DEF IInv, ViewFits, Terminal
<1> QED
  BY <1>9, <1>10, <1>11, <1>12, <1>13, <1>14, <1>15 DEF IInv

(***************************************************************************)
(* The queue.                                                              *)
(***************************************************************************)
LEMMA RedeliverableType ==
  ASSUME IInv, NEW j \in Job, jobs[j].status # "absent"
  PROVE  /\ Redeliverable(j) \in JobType /\ Redeliverable(j).status # "absent"
         /\ Redeliverable(j).op = jobs[j].op /\ Redeliverable(j).user = jobs[j].user
         /\ Redeliverable(j).payload = jobs[j].payload
<1>1. jobs[j] \in JobType
  BY DEF IInv, TypeOK
<1>2. PICK s \in {"pending", "failed"} :
        s = IF jobs[j].attempts < MaxAttempts THEN "pending" ELSE "failed"
  OBVIOUS
<1>3. Redeliverable(j) = [jobs[j] EXCEPT !.status = s]
  BY <1>2 DEF Redeliverable
<1> QED
  BY <1>1, <1>2, <1>3 DEF JobType, JobStatus

(* A job is rewritten and one handler moves on.                            *)
LEMMA JobAndHandlerMove ==
  ASSUME IInv, NEW d \in Delivery, NEW v \in DeliveryType, DeliveryFits(d, v),
         NEW j \in Job, NEW w \in JobType, jobs[j].status # "absent",
         jobs' = [jobs EXCEPT ![j] = w],
         w.status # "absent", w.op = jobs[j].op, w.user = jobs[j].user,
         w.payload = jobs[j].payload,
         delivery' = [delivery EXCEPT ![d] = v],
         UNCHANGED <<row, reservation, authorized, version, call, view>>
  PROVE  IInv'
<1>1. /\ jobs' \in [Job -> JobType]
      /\ \A o \in Op : RowOK(o)' /\ ReservationOK(o)'
      /\ \A i \in Job : JobOK(i)'
      /\ \A y \in Delivery : \A x \in DeliveryType :
           DeliveryFits(y, x) => DeliveryFits(y, x)'
  BY JobRewritten
<1>2. /\ delivery' \in [Delivery -> DeliveryType] /\ delivery'[d] = v
      /\ \A y \in Delivery : y # d => delivery'[y] = delivery[y]
  BY DEF IInv, TypeOK
<1>3. TypeOK'
  BY <1>1, <1>2 DEF IInv, TypeOK
<1>4. ASSUME NEW y \in Delivery PROVE DeliveryFits(y, delivery[y])'
  <2>1. PICK x \in DeliveryType : x = delivery'[y] /\ DeliveryFits(y, x)
    BY <1>2 DEF IInv, TypeOK
  <2>2. DeliveryFits(y, x)'
    BY <1>1, <2>1
  <2> QED
    BY <2>1, <2>2
<1>5. /\ \A c \in Call : CallFits(call[c])'
      /\ \A r \in Reader : ViewFits(view[r])'
  BY DEF IInv, CallFits, ViewFits
<1> QED
  BY <1>1, <1>3, <1>4, <1>5 DEF IInv

(* Taking a job from the queue keeps the invariant.                        *)
LEMMA ClaimInv ==
  ASSUME IInv, NEW d \in Delivery, NEW j \in Job, Claim(d, j)
  PROVE  IInv'
<1>1. jobs[j] \in JobType /\ jobs[j].status = "pending"
  BY DEF IInv, TypeOK, Claim
<1>2. PICK w \in JobType : w = [jobs[j] EXCEPT !.status = "running", !.attempts = jobs[j].attempts + 1]
  <2>1. PICK n \in Nat : n = jobs[j].attempts + 1
    BY <1>1 DEF JobType
  <2>2. [jobs[j] EXCEPT !.status = "running", !.attempts = n] \in JobType
    BY <1>1 DEF JobType, JobStatus
  <2> QED
    BY <2>1, <2>2
<1>3. /\ w.status = "running" /\ w.op = jobs[j].op /\ w.user = jobs[j].user
      /\ w.payload = jobs[j].payload
  BY <1>1, <1>2 DEF JobType
<1>4. PICK v \in DeliveryType : v = [pc |-> "authorize", job |-> j, outcome |-> None]
  BY DEF DeliveryType, OrNone
<1>5. DeliveryFits(d, v)
  BY <1>1, <1>4 DEF DeliveryFits
<1>6. jobs' = [jobs EXCEPT ![j] = w] /\ delivery' = [delivery EXCEPT ![d] = v]
  BY <1>2, <1>4 DEF Claim
<1> QED
  BY <1>1, <1>3, <1>5, <1>6, JobAndHandlerMove DEF Claim

(* Failing an attempt keeps the invariant.                                 *)
LEMMA AttemptFailsInv ==
  ASSUME IInv, NEW d \in Delivery, AttemptFails(d)
  PROVE  IInv'
<1>1. PICK j \in Job : j = delivery[d].job /\ jobs[j].status # "absent"
  BY SubjectIsOperation DEF AttemptFails
<1>2. CASE jobs[j].status = "running"
  <2>1. jobs' = [jobs EXCEPT ![j] = Redeliverable(j)]
    BY <1>1, <1>2 DEF AttemptFails
  <2> QED
    BY <2>1, <1>1, RedeliverableType, IdleTypes, JobAndHandlerMove DEF AttemptFails
<1>3. CASE jobs[j].status # "running"
  BY <1>1, <1>3, IdleTypes, DeliveryMoves DEF AttemptFails
<1> QED
  BY <1>2, <1>3

(* Acknowledging a job keeps the invariant.                                *)
LEMMA AckJobInv ==
  ASSUME IInv, NEW d \in Delivery, AckJob(d)
  PROVE  IInv'
<1>1. PICK j \in Job : j = delivery[d].job /\ jobs[j] \in JobType /\ jobs[j].status # "absent"
  BY SubjectIsOperation DEF AckJob
<1>2. CASE jobs[j].status \in {"pending", "running"}
  <2>1. PICK w \in JobType : w = [jobs[j] EXCEPT !.status = "completed"]
    BY <1>1 DEF JobType, JobStatus
  <2>2. /\ w.status = "completed" /\ w.op = jobs[j].op /\ w.user = jobs[j].user
        /\ w.payload = jobs[j].payload
    BY <1>1, <2>1 DEF JobType
  <2>3. jobs' = [jobs EXCEPT ![j] = w]
    BY <1>1, <1>2, <2>1 DEF AckJob
  <2> QED
    BY <2>2, <2>3, <1>1, IdleTypes, JobAndHandlerMove DEF AckJob
<1>3. CASE jobs[j].status \notin {"pending", "running"}
  BY <1>1, <1>3, IdleTypes, DeliveryMoves DEF AckJob
<1> QED
  BY <1>2, <1>3

(* The expiry of a lease keeps the invariant.                              *)
LEMMA LeaseExpiresInv ==
  ASSUME IInv, NEW j \in Job, LeaseExpires(j)
  PROVE  IInv'
<1>1. jobs[j].status # "absent" /\ jobs' = [jobs EXCEPT ![j] = Redeliverable(j)]
      /\ UNCHANGED <<row, reservation, authorized, version, call, delivery, view>>
  BY DEF LeaseExpires, actors
<1>2. /\ jobs' \in [Job -> JobType]
      /\ \A o \in Op : RowOK(o)' /\ ReservationOK(o)'
      /\ \A i \in Job : JobOK(i)'
      /\ \A y \in Delivery : \A x \in DeliveryType :
           DeliveryFits(y, x) => DeliveryFits(y, x)'
  BY <1>1, RedeliverableType, JobRewritten
<1>3. ASSUME NEW y \in Delivery PROVE DeliveryFits(y, delivery[y])'
  <2>1. PICK x \in DeliveryType : x = delivery'[y] /\ DeliveryFits(y, x)
    BY <1>1 DEF IInv, TypeOK
  <2>2. DeliveryFits(y, x)'
    BY <1>2, <2>1
  <2> QED
    BY <2>1, <2>2
<1>4. /\ \A c \in Call : CallFits(call[c])'
      /\ \A r \in Reader : ViewFits(view[r])'
  BY <1>1 DEF IInv, CallFits, ViewFits
<1> QED
  BY <1>1, <1>2, <1>3, <1>4 DEF IInv, TypeOK

(* A job and its receipt are stored together, when there is no receipt yet. *)
LEMMA InsertJobInv ==
  ASSUME IInv, NEW c \in Call, NEW j \in Job, InsertJob(c, j)
  PROVE  IInv'
<1>1. PICK o \in Op : o = call[c].op
  BY DEF IInv, InsertJob, CallFits
<1>2. /\ call[c] \in CallType /\ call[c].pc = "submit" /\ call[c].user \in User
      /\ row[o] \in RowType /\ row[o].job = None /\ row[o].status = "queued"
      /\ row[o].owner = call[c].user /\ row[o].payload \in OrNone(Payload)
      /\ jobs[j].status = "absent" /\ RowFree(o)
  BY <1>1 DEF IInv, TypeOK, InsertJob, CallFits, HasReceipt, Locked, Owns, RowType
<1>3. PICK z \in JobType : z = [status |-> "pending", op |-> o, user |-> call[c].user,
                                payload |-> row[o].payload, attempts |-> 0]
  BY <1>2 DEF JobType, JobStatus, OrNone
<1>4. /\ z.status = "pending" /\ z.op = o /\ z.user = row[o].owner
      /\ z.payload = row[o].payload
  BY <1>2, <1>3
<1>5. PICK w \in RowType : w = [row[o] EXCEPT !.job = j]
  <2>1. row[o] \in RowType /\ j \in OrNone(Job)
    BY <1>2 DEF OrNone
  <2> QED
    BY <2>1 DEF RowType
<1>6. /\ w.job = j /\ w.status = "queued"
      /\ w.owner = row[o].owner /\ w.kind = row[o].kind /\ w.query = row[o].query
      /\ w.payload = row[o].payload /\ w.approved = row[o].approved
      /\ w.decidedBy = row[o].decidedBy
      /\ w.snapshot = row[o].snapshot /\ w.evidence = row[o].evidence
  BY <1>2, <1>5 DEF RowType
<1>7. PICK v \in CallType : v = [call[c] EXCEPT !.pc = "link", !.job = j]
  BY <1>2 DEF CallType, OrNone
<1>8. v.pc = "link" /\ v.op = o /\ v.user = call[c].user /\ v.job = j
  BY <1>1, <1>2, <1>7 DEF CallType
<1>9. /\ jobs' = [jobs EXCEPT ![j] = z] /\ row' = [row EXCEPT ![o] = w]
      /\ call' = [call EXCEPT ![c] = v]
      /\ UNCHANGED <<reservation, authorized, version, delivery, view>>
  BY <1>1, <1>3, <1>5, <1>7 DEF InsertJob
<1>10. /\ row' \in [Op -> RowType] /\ row'[o] = w
       /\ \A p \in Op : p # o => row'[p] = row[p]
       /\ jobs' \in [Job -> JobType] /\ jobs'[j] = z
       /\ \A i \in Job : i # j => jobs'[i] = jobs[i]
       /\ call' \in [Call -> CallType] /\ call'[c] = v
       /\ \A x \in Call : x # c => call'[x] = call[x]
  BY <1>9 DEF IInv, TypeOK
<1>11. TypeOK'
  BY <1>9, <1>10 DEF IInv, TypeOK
<1>12. ASSUME NEW p \in Op PROVE RowOK(p)'
  <2>1. CASE p = o
    BY <2>1, <1>2, <1>4, <1>6, <1>9, <1>10 DEF IInv, RowOK
  <2>2. CASE p # o
    <3>1. row[p].job # None => row[p].job \in Job /\ row[p].job # j
      BY <1>2 DEF IInv, TypeOK, RowType, OrNone, RowOK
    <3> QED
      BY <2>2, <3>1, <1>9, <1>10 DEF IInv, RowOK
  <2> QED
    BY <2>1, <2>2
<1>13. ASSUME NEW i \in Job PROVE JobOK(i)'
  <2>1. CASE i = j
    BY <2>1, <1>2, <1>4, <1>6, <1>10 DEF JobOK
  <2>2. CASE i # j
    <3>1. JobOK(i)
      BY DEF IInv
    <3>2. jobs[i].status # "absent" => jobs[i].op # o
      BY <3>1, <1>2, NoneAssumption DEF JobOK
    <3> QED
      BY <2>2, <3>1, <3>2, <1>10 DEF JobOK
  <2> QED
    BY <2>1, <2>2
<1>14. \A p \in Op : ReservationOK(p)'
  BY <1>2, <1>6, <1>9, <1>10 DEF IInv, ReservationOK
<1>15. ASSUME NEW x \in Call PROVE CallFits(call[x])'
  <2>1. CASE x = c
    BY <2>1, <1>1, <1>2, <1>6, <1>8, <1>10 DEF CallFits
  <2>2. CASE x # c
    <3>1. CallFits(call[x]) /\ (call[x].pc = "link" => call[x].op # o)
      BY <1>2, NoneAssumption DEF IInv, CallFits
    <3> QED
      BY <2>2, <3>1, <1>2, <1>6, <1>10 DEF CallFits
  <2> QED
    BY <2>1, <2>2
<1>16. ASSUME NEW d \in Delivery PROVE DeliveryFits(d, delivery[d])'
  <2>1. delivery[d].pc # "idle" => /\ Subject(delivery[d]) \in Op
                                  /\ delivery[d].job \in Job /\ delivery[d].job # j
    BY <1>2, SubjectIsOperation
  <2>2. delivery[d].pc # "idle" => jobs'[delivery[d].job] = jobs[delivery[d].job]
    BY <2>1, <1>10
  <2>3. delivery[d].pc # "idle" =>
          row'[Subject(delivery[d])].status = row[Subject(delivery[d])].status
    BY <2>1, <1>2, <1>6, <1>10
  <2> QED
    BY <2>2, <2>3, <1>9 DEF IInv, DeliveryFits, Subject
<1>17. \A r \in Reader : ViewFits(view[r])'
  BY <1>2, <1>6, <1>9, <1>10 DEF IInv, ViewFits
<1> QED
  BY <1>11, <1>12, <1>13, <1>14, <1>15, <1>16, <1>17 DEF IInv

(***************************************************************************)
(* Status reads.                                                           *)
(***************************************************************************)
LEMMA ReadRowInv ==
  ASSUME IInv, NEW r \in Reader, NEW o \in Op, ReadRow(r, o)
  PROVE  IInv'
<1>1. row[o].status \in Status /\ row[o].job \in OrNone(Job)
  BY DEF IInv, TypeOK, RowType
<1>2. PICK v \in ViewType :
        v = [pc |-> "job", op |-> o, status |-> row[o].status, job |-> row[o].job]
  BY <1>1 DEF ViewType, OrNone
<1>3. ViewFits(v)
  BY <1>2 DEF ViewFits
<1> QED
  BY <1>2, <1>3, ViewMoves DEF ReadRow, stored

(* What is shown ended only if what was read had ended.                    *)
LEMMA ShownStatusType ==
  ASSUME NEW s \in OrNone(Status \cup {"running", "recovery_required"}), NEW j
  PROVE  /\ ShownStatus(s, j) \in OrNone(Status \cup {"running", "recovery_required"})
         /\ ShownStatus(s, j) \in Terminal => ShownStatus(s, j) = s
<1>1. CASE s = "queued" /\ j # None /\ jobs[j].status = "running"
  BY <1>1 DEF ShownStatus, OrNone, Terminal
<1>2. CASE s = "queued" /\ j # None /\ jobs[j].status \in EndedJob
  BY <1>2 DEF ShownStatus, OrNone, Terminal, EndedJob
<1>3. CASE /\ ~(s = "queued" /\ j # None /\ jobs[j].status = "running")
           /\ ~(s = "queued" /\ j # None /\ jobs[j].status \in EndedJob)
  BY <1>3 DEF ShownStatus
<1> QED
  BY <1>1, <1>2, <1>3

(* The second half of a status read keeps the invariant.                   *)
LEMMA ReadJobInv ==
  ASSUME IInv, NEW r \in Reader, ReadJob(r)
  PROVE  IInv'
<1>1. /\ view[r] \in ViewType /\ view[r].pc = "job" /\ ViewFits(view[r])
      /\ view[r].status \in OrNone(Status \cup {"running", "recovery_required"})
  BY DEF IInv, TypeOK, ReadJob, ViewType
<1>2. PICK s \in OrNone(Status \cup {"running", "recovery_required"}) :
        /\ s = ShownStatus(view[r].status, view[r].job)
        /\ s \in Terminal => s = view[r].status
  BY <1>1, ShownStatusType
<1>3. PICK v \in ViewType : v = [view[r] EXCEPT !.pc = "shown", !.status = s]
  BY <1>1 DEF ViewType
<1>4. ViewFits(v)
  BY <1>1, <1>2, <1>3 DEF ViewFits, ViewType
<1> QED
  BY <1>2, <1>3, <1>4, ViewMoves DEF ReadJob, stored

(* The end of a status read keeps the invariant.                           *)
LEMMA CloseViewInv ==
  ASSUME IInv, NEW r \in Reader, CloseView(r)
  PROVE  IInv'
BY IdleTypes, ViewMoves DEF CloseView, stored

(***************************************************************************)
(* The invariant is inductive.                                             *)
(***************************************************************************)
LEMMA CommandStepInv ==
  ASSUME IInv, NEW c \in Call, CommandStep(c)
  PROVE  IInv'
<1>1. CASE \E u \in User, o \in Op, k \in Kind, q \in Query : BeginCreate(c, u, o, k, q)
  BY <1>1, BeginCreateInv
<1>2. CASE InsertOperation(c)
  BY <1>2, InsertOperationInv
<1>3. CASE FindOperation(c)
  BY <1>3, FindOperationInv
<1>4. CASE \E u \in User, o \in Op, f \in Payload : Approve(c, u, o, f)
  BY <1>4, ApproveInv
<1>5. CASE \E u \in User, o \in Op, f \in Payload : Resume(c, u, o, f)
  BY <1>5, ResumeInv
<1>6. CASE CheckBeforeSubmit(c)
  BY <1>6, CheckBeforeSubmitInv
<1>7. CASE ReuseReceipt(c)
  BY <1>7, ReuseReceiptInv
<1>8. CASE \E j \in Job : InsertJob(c, j)
  BY <1>8, InsertJobInv
<1>9. CASE LinkJob(c)
  BY <1>9, LinkJobInv
<1>10. CASE AbandonCall(c)
  BY <1>10, AbandonCallInv
<1> QED
  BY <1>1, <1>2, <1>3, <1>4, <1>5, <1>6, <1>7, <1>8, <1>9, <1>10 DEF CommandStep

(* Every step of a worker keeps the invariant.                             *)
LEMMA WorkerStepInv ==
  ASSUME IInv, NEW d \in Delivery, WorkerStep(d)
  PROVE  IInv'
<1>1. CASE \E j \in Job : Claim(d, j)
  BY <1>1, ClaimInv
<1>2. CASE AuthorizeDelivery(d)
  BY <1>2, AuthorizeDeliveryInv
<1>3. CASE Reserve(d)
  BY <1>3, ReserveInv
<1>4. CASE Replay(d)
  BY <1>4, ReplayInv
<1>5. CASE AttemptFails(d)
  BY <1>5, AttemptFailsInv
<1>6. CASE BeginEffect(d)
  BY <1>6, BeginEffectInv
<1>7. CASE \E told \in {"committed", "failed"} : CommitEffect(d, told)
  BY <1>7, CommitEffectInv
<1>8. CASE ApplyNothing(d)
  BY <1>8, ApplyNothingInv
<1>9. CASE ApplyRollsBack(d)
  BY <1>9, ApplyRollsBackInv
<1>10. CASE Complete(d)
  BY <1>10, CompleteInv
<1>11. CASE AckJob(d)
  BY <1>11, AckJobInv
<1>12. CASE WorkerCrash(d)
  BY <1>12, WorkerCrashInv
<1> QED
  BY <1>1, <1>2, <1>3, <1>4, <1>5, <1>6, <1>7, <1>8, <1>9, <1>10, <1>11, <1>12
     DEF WorkerStep, HandlerStep

(* Every step, and stuttering, keeps the invariant.                        *)
LEMMA NextInv == IInv /\ [Next]_vars => IInv'
<1> SUFFICES ASSUME IInv, [Next]_vars PROVE IInv'
  OBVIOUS
<1>1. ASSUME NEW c \in Call, CommandStep(c) PROVE IInv'
  BY <1>1, CommandStepInv
<1>2. ASSUME NEW u \in User, NEW o \in Op, UserStep(u, o) PROVE IInv'
  BY <1>2, CancelInv, DeclineInv, ReconcileInv DEF UserStep
<1>3. ASSUME NEW d \in Delivery, WorkerStep(d) PROVE IInv'
  BY <1>3, WorkerStepInv
<1>4. ASSUME NEW j \in Job, LeaseExpires(j) PROVE IInv'
  BY <1>4, LeaseExpiresInv
<1>5. ASSUME NEW r \in Reader, ViewStep(r) PROVE IInv'
  BY <1>5, ReadRowInv, ReadJobInv, CloseViewInv DEF ViewStep
<1>6. CASE EnvironmentStep
  <2>1. /\ authorized' \in SUBSET User /\ version' \in Nat
        /\ UNCHANGED <<row, jobs, reservation, call, delivery, view>>
    BY <1>6 DEF IInv, TypeOK, EnvironmentStep, Revoke, Restore, ReportChanges, stored, actors
  <2> QED
    BY <2>1, EnvironmentMoves
<1>7. CASE UNCHANGED vars
  BY <1>7, EnvironmentMoves DEF vars, IInv, TypeOK
<1> QED
  BY <1>1, <1>2, <1>3, <1>4, <1>5, <1>6, <1>7 DEF Next

(* The inductive invariant holds in every reachable state: what each of    *)
(* the theorems below rests on.                                            *)
THEOREM Invariance == Spec => []IInv
BY InitInv, NextInv, PTL DEF Spec

(***************************************************************************)
(* What follows from it.                                                   *)
(***************************************************************************)

(* Every variable has its type (TypeOK), whatever the number of actors.    *)
THEOREM TypeCorrect == Spec => []TypeOK
<1>1. IInv => TypeOK
  BY DEF IInv
<1> QED
  BY <1>1, Invariance, PTL

(* No operation ever has two jobs, however many requests enqueue it and    *)
(* wherever they fail.                                                     *)
THEOREM OneJob == Spec => []OneJobPerOperation
<1>1. IInv => OneJobPerOperation
  BY DEF IInv, JobOK, OneJobPerOperation
<1> QED
  BY <1>1, Invariance, PTL

(* Nothing that needs a human approval runs without the requester's own,   *)
(* given for exactly the stored payload.                                   *)
THEOREM ConsentHolds == Spec => []Consent
<1>1. IInv => Consent
  BY DEF IInv, RowOK, Consent
<1> QED
  BY <1>1, Invariance, PTL

(* Snapshot and evidence are stored exactly for committed operations.      *)
THEOREM ResultIsAtomic == Spec => []ResultExactlyWhenCommitted
<1>1. IInv => ResultExactlyWhenCommitted
  BY DEF IInv, RowOK, ResultExactlyWhenCommitted
<1> QED
  BY <1>1, Invariance, PTL

(* The outcome the framework replays is the one the operation came to, and *)
(* the evidence of a committed operation names the execution on record.    *)
THEOREM RecordsAreTrue == Spec => []RecordsAgree
<1>1. IInv => RecordedOutcomeIsTrue
  BY DEF IInv, ReservationOK, RecordedOutcomeIsTrue
<1>2. IInv => EvidenceMatchesReservation
  BY DEF IInv, ReservationOK, EvidenceMatchesReservation
<1>3. IInv => RecordsAgree
  BY <1>1, <1>2 DEF RecordsAgree
<1> QED
  BY <1>3, Invariance, PTL

(* An end shown on the status page is the end that is stored.              *)
THEOREM ShownIsStored == Spec => []ShownEndIsStored
<1>1. IInv => ShownEndIsStored
  BY DEF IInv, ViewFits, ShownEndIsStored
<1> QED
  BY <1>1, Invariance, PTL

(* A finished operation never changes again.                               *)
LEMMA TerminalStep ==
  ASSUME IInv, [Next]_vars, NEW o \in Op, row[o].status \in Terminal
  PROVE  row'[o] = row[o]
<1>1. row \in [Op -> RowType]
  BY DEF IInv, TypeOK
<1>2. row[o].status \notin {"absent", "awaiting_approval", "queued"}
  BY DEF Terminal
<1>3. ASSUME NEW c \in Call, CommandStep(c) PROVE row'[o] = row[o]
  <2>1. CASE InsertOperation(c)
    BY <2>1, <1>1, <1>2 DEF InsertOperation
  <2>2. CASE \E u \in User, p \in Op, f \in Payload : Approve(c, u, p, f)
    BY <2>2, <1>1, <1>2 DEF Approve
  <2>3. CASE \E j \in Job : InsertJob(c, j)
    BY <2>3, <1>1, <1>2 DEF InsertJob
  <2>4. CASE LinkJob(c)
    <3>1. row[call[c].op].job = call[c].job /\ row[call[c].op] \in RowType
      BY <2>4, <1>1 DEF IInv, CallFits, LinkJob
    <3>2. [row[call[c].op] EXCEPT !.job = call[c].job] = row[call[c].op]
      BY <3>1 DEF RowType
    <3> QED
      BY <3>2, <2>4, <1>1 DEF LinkJob
  <2>5. CASE \/ \E u \in User, p \in Op, k \in Kind, q \in Query : BeginCreate(c, u, p, k, q)
             \/ FindOperation(c)
             \/ \E u \in User, p \in Op, f \in Payload : Resume(c, u, p, f)
             \/ CheckBeforeSubmit(c) \/ ReuseReceipt(c) \/ AbandonCall(c)
    BY <2>5 DEF BeginCreate, FindOperation, Resume, CheckBeforeSubmit, ReuseReceipt,
       AbandonCall, stored
  <2> QED
    BY <1>3, <2>1, <2>2, <2>3, <2>4, <2>5 DEF CommandStep
<1>4. ASSUME NEW u \in User, NEW p \in Op, UserStep(u, p) PROVE row'[o] = row[o]
  BY <1>4, <1>1, <1>2 DEF UserStep, Cancel, Withdrawable, Decline, Reconcile
<1>5. ASSUME NEW d \in Delivery, WorkerStep(d) PROVE row'[o] = row[o]
  <2>1. CASE \E told \in {"committed", "failed"} : CommitEffect(d, told)
    <3>1. jobs[delivery[d].job].op # o
      BY <2>1, <1>2 DEF CommitEffect, IInv, DeliveryFits, Subject
    <3> QED
      BY <2>1, <3>1, <1>1 DEF CommitEffect
  <2>2. CASE ~\E told \in {"committed", "failed"} : CommitEffect(d, told)
    BY <1>5, <2>2 DEF WorkerStep, HandlerStep, Claim, AuthorizeDelivery, Reserve, Replay,
       AttemptFails, BeginEffect, ApplyNothing, ApplyRollsBack, Complete, AckJob,
       WorkerCrash, stored
  <2> QED
    BY <2>1, <2>2
<1>6. ASSUME NEW j \in Job, LeaseExpires(j) PROVE row'[o] = row[o]
  BY <1>6 DEF LeaseExpires
<1>7. ASSUME NEW r \in Reader, ViewStep(r) PROVE row'[o] = row[o]
  BY <1>7 DEF ViewStep, ReadRow, ReadJob, CloseView, stored
<1>8. CASE EnvironmentStep \/ UNCHANGED vars
  BY <1>8 DEF EnvironmentStep, Revoke, Restore, ReportChanges, stored, vars
<1> QED
  BY <1>3, <1>4, <1>5, <1>6, <1>7, <1>8 DEF Next

(* TerminalIsFinal: no approval, delivery, retry or reconciliation moves   *)
(* a row that a command or an effect has settled.                          *)
THEOREM TerminalOperationsAreFinal == Spec => TerminalIsFinal
<1>1. IInv /\ [Next]_vars =>
        [\A o \in Op : row[o].status \in Terminal => row'[o] = row[o]]_row
  BY TerminalStep
<1> QED
  BY <1>1, Invariance, PTL DEF Spec, TerminalIsFinal

-----------------------------------------------------------------------------
(***************************************************************************)
(* The refinement of the contract.                                         *)
(***************************************************************************)

(* The handlers keep hold of exactly the operations they held.             *)
HoldsKept ==
  \A d \in Delivery :
    /\ delivery'[d].pc = "effect" <=> delivery[d].pc = "effect"
    /\ delivery[d].pc = "effect" => jobs'[delivery'[d].job].op = jobs[delivery[d].job].op

(* Whether a row is free depends on the held operations only.              *)
LEMMA RowFreeKept ==
  ASSUME HoldsKept, NEW o \in Op
  PROVE  RowFree(o)' <=> RowFree(o)
BY DEF HoldsKept, RowFree

(* What the contract speaks of is unchanged when the rows keep the columns *)
(* it sees and the handlers keep their holds.                              *)
LEMMA Unseen ==
  ASSUME HoldsKept, UNCHANGED <<authorized, version>>,
         \A o \in Op : /\ row'[o].status = row[o].status
                       /\ row'[o].owner = row[o].owner
                       /\ row'[o].kind = row[o].kind
                       /\ row'[o].approved = row[o].approved
                       /\ row'[o].snapshot = row[o].snapshot
  PROVE  UNCHANGED Contract!contractVars
<1>1. phase' = phase
  BY RowFreeKept DEF phase
<1>2. UNCHANGED <<owner, demo, consent, result>>
  BY DEF owner, demo, consent, result
<1> QED
  BY <1>1, <1>2 DEF Contract!contractVars

(* A step that stores nothing and holds what was held is a stutter.        *)
LEMMA NothingStored ==
  ASSUME HoldsKept, UNCHANGED <<row, authorized, version>>
  PROVE  UNCHANGED Contract!contractVars
BY Unseen

(* A function that differs from another at one point.                      *)
LEMMA OnePoint ==
  ASSUME NEW S, NEW o \in S, NEW v, NEW f, NEW g,
         f = [x \in S |-> f[x]], g = [x \in S |-> g[x]],
         g[o] = v, \A x \in S \ {o} : g[x] = f[x]
  PROVE  g = [f EXCEPT ![o] = v]
OBVIOUS

(* A command rewrites a free row: the contract sees its new columns.       *)
LEMMA RowSeen ==
  ASSUME IInv, NEW o \in Op, NEW w \in RowType, RowFree(o),
         row' = [row EXCEPT ![o] = w], UNCHANGED <<jobs, delivery>>
  PROVE  /\ phase' = [phase EXCEPT ![o] = w.status] /\ phase[o] = row[o].status
         /\ owner' = [owner EXCEPT ![o] = w.owner] /\ owner[o] = row[o].owner
         /\ w.owner = row[o].owner => owner' = owner
         /\ \A isDemo \in BOOLEAN :
              isDemo = (w.kind = "approval-demo") => demo' = [demo EXCEPT ![o] = isDemo]
         /\ w.kind = row[o].kind => demo' = demo
         /\ w.approved # None => consent' = [consent EXCEPT ![o] = TRUE]
         /\ w.approved = row[o].approved => consent' = consent
         /\ w.snapshot = row[o].snapshot => result' = result
<1>1. row'[o] = w /\ \A p \in Op : p # o => row'[p] = row[p]
  BY DEF IInv, TypeOK
<1>2. \A p \in Op : RowFree(p)' <=> RowFree(p)
  BY RowFreeKept DEF HoldsKept
<1>3. phase' = [phase EXCEPT ![o] = w.status] /\ phase[o] = row[o].status
  <2>1. phase = [p \in Op |-> phase[p]] /\ phase' = [p \in Op |-> phase'[p]]
    BY DEF phase
  <2>2. /\ phase[o] = row[o].status /\ phase'[o] = w.status
        /\ \A p \in Op \ {o} : phase'[p] = phase[p]
    BY <1>1, <1>2 DEF phase
  <2> QED
    BY <2>1, <2>2, OnePoint
<1>4. owner' = [owner EXCEPT ![o] = w.owner] /\ owner[o] = row[o].owner
  <2>1. owner = [p \in Op |-> owner[p]] /\ owner' = [p \in Op |-> owner'[p]]
    BY DEF owner
  <2>2. /\ owner[o] = row[o].owner /\ owner'[o] = w.owner
        /\ \A p \in Op \ {o} : owner'[p] = owner[p]
    BY <1>1 DEF owner
  <2> QED
    BY <2>1, <2>2, OnePoint
<1>5. w.owner = row[o].owner => owner' = owner
  BY <1>1 DEF owner
<1>6. ASSUME NEW isDemo \in BOOLEAN, isDemo = (w.kind = "approval-demo")
      PROVE  demo' = [demo EXCEPT ![o] = isDemo]
  <2>1. demo = [p \in Op |-> demo[p]] /\ demo' = [p \in Op |-> demo'[p]]
    BY DEF demo
  <2>2. demo'[o] = isDemo /\ \A p \in Op \ {o} : demo'[p] = demo[p]
    BY <1>1, <1>6 DEF demo
  <2> QED
    BY <2>1, <2>2, OnePoint
<1>7. w.kind = row[o].kind => demo' = demo
  BY <1>1 DEF demo
<1>8. w.approved # None => consent' = [consent EXCEPT ![o] = TRUE]
  <2>1. consent = [p \in Op |-> consent[p]] /\ consent' = [p \in Op |-> consent'[p]]
    BY DEF consent
  <2>2. /\ w.approved # None => consent'[o] = TRUE
        /\ \A p \in Op \ {o} : consent'[p] = consent[p]
    BY <1>1 DEF consent
  <2> QED
    BY <2>1, <2>2, OnePoint
<1>9. w.approved = row[o].approved => consent' = consent
  BY <1>1 DEF consent
<1>10. w.snapshot = row[o].snapshot => result' = result
  BY <1>1 DEF result
<1> QED
  BY <1>3, <1>4, <1>5, <1>6, <1>7, <1>8, <1>9, <1>10

(***************************************************************************)
(* Commands.                                                               *)
(***************************************************************************)
LEMMA InsertRefines ==
  ASSUME IInv, NEW c \in Call, InsertOperation(c)
  PROVE  \E o \in Op, u \in User, isDemo \in BOOLEAN : Contract!Submit(o, u, isDemo)
<1>1. PICK o \in Op : o = call[c].op
  BY DEF IInv, InsertOperation, CallFits
<1>2. PICK w \in RowType : w = NewRow(o, c)
  BY <1>1, NewRowType DEF IInv, InsertOperation, CallFits
<1>3. /\ w.status = IF w.kind = "approval-demo" THEN "awaiting_approval" ELSE "queued"
      /\ w.owner \in User /\ w.approved = None /\ w.snapshot = None
  BY <1>1, <1>2, NewRowType DEF IInv, InsertOperation, CallFits
<1>4. /\ row[o].status = "absent" /\ row[o].approved = None /\ row[o].snapshot = None
      /\ row' = [row EXCEPT ![o] = w]
      /\ UNCHANGED <<jobs, delivery, authorized, version>>
  BY <1>1, <1>2 DEF IInv, InsertOperation, RowOK, NoRow
<1>5. RowFree(o)
  BY <1>4 DEF IInv, RowFree, DeliveryFits, Subject
<1>6. PICK isDemo \in BOOLEAN : isDemo = (w.kind = "approval-demo")
  OBVIOUS
<1>7. /\ phase' = [phase EXCEPT ![o] = w.status] /\ phase[o] = "absent"
      /\ owner' = [owner EXCEPT ![o] = w.owner]
      /\ demo' = [demo EXCEPT ![o] = isDemo]
      /\ UNCHANGED <<consent, result>>
  <2>1. consent' = consent
    <3>1. w.approved = row[o].approved
      BY <1>3, <1>4
    <3> QED
      BY <3>1, <1>4, <1>5, RowSeen
  <2>2. result' = result
    <3>1. w.snapshot = row[o].snapshot
      BY <1>3, <1>4
    <3> QED
      BY <3>1, <1>4, <1>5, RowSeen
  <2>3. demo' = [demo EXCEPT ![o] = isDemo]
    BY <1>4, <1>5, <1>6, RowSeen
  <2>4. /\ phase' = [phase EXCEPT ![o] = w.status] /\ phase[o] = "absent"
        /\ owner' = [owner EXCEPT ![o] = w.owner]
    BY <1>4, <1>5, RowSeen
  <2> QED
    BY <2>1, <2>2, <2>3, <2>4
<1>8. w.status = IF isDemo THEN "awaiting_approval" ELSE "queued"
  BY <1>3, <1>6
<1>9. Contract!Submit(o, w.owner, isDemo)
  BY <1>4, <1>7, <1>8 DEF Contract!Submit, Contract!Step
<1> QED
  BY <1>3, <1>6, <1>9

(* A person's approval is the contract's Consent.                          *)
LEMMA ApproveRefines ==
  ASSUME IInv, NEW c \in Call, NEW u \in User, NEW o \in Op, NEW f \in Payload,
         Approve(c, u, o, f)
  PROVE  Contract!Accept(o)
<1>1. /\ row[o] \in RowType /\ row[o].status = "awaiting_approval" /\ row[o].owner \in authorized
      /\ RowFree(o) /\ f # None
      /\ UNCHANGED <<jobs, delivery, authorized, version>>
  BY NoneAssumption DEF IInv, TypeOK, Approve, Locked, Owns
<1>2. PICK w \in RowType :
        w = [row[o] EXCEPT !.status = "queued", !.decidedBy = u, !.approved = f]
  <2>1. row[o] \in RowType /\ u \in OrNone(User) /\ f \in OrNone(Payload) /\ "queued" \in Status
    BY <1>1 DEF OrNone, Status
  <2> QED
    BY <2>1 DEF RowType
<1>3. /\ w.status = "queued" /\ w.approved = f /\ w.owner = row[o].owner
      /\ w.kind = row[o].kind /\ w.snapshot = row[o].snapshot
  BY <1>1, <1>2 DEF RowType
<1>4. row' = [row EXCEPT ![o] = w]
  BY <1>2 DEF Approve
<1>5. /\ phase' = [phase EXCEPT ![o] = "queued"] /\ phase[o] = "awaiting_approval"
      /\ consent' = [consent EXCEPT ![o] = TRUE]
      /\ owner[o] \in authorized /\ UNCHANGED <<owner, demo, result>>
  <2>1. phase' = [phase EXCEPT ![o] = w.status] /\ phase[o] = row[o].status
        /\ owner[o] = row[o].owner
    BY <1>1, <1>4, RowSeen
  <2>2. w.approved # None
    BY <1>3, NoneAssumption
  <2>3. consent' = [consent EXCEPT ![o] = TRUE]
    BY <1>1, <1>4, <2>2, RowSeen
  <2>4. UNCHANGED <<owner, demo, result>>
    BY <1>1, <1>3, <1>4, RowSeen
  <2> QED
    BY <2>1, <2>3, <2>4, <1>1, <1>3
<1> QED
  BY <1>1, <1>5 DEF Contract!Accept, Contract!Step

(* A person's refusal is the contract's Refuse.                            *)
LEMMA DeclineRefines ==
  ASSUME IInv, NEW u \in User, NEW o \in Op, NEW f \in Payload, Decline(u, o, f)
  PROVE  Contract!Refuse(o)
<1>1. /\ row[o] \in RowType /\ row[o].status = "awaiting_approval" /\ row[o].owner \in authorized
      /\ RowFree(o)
      /\ UNCHANGED <<jobs, delivery, authorized, version>>
  BY DEF IInv, TypeOK, Decline, Locked, Owns, actors
<1>2. PICK w \in RowType : w = [row[o] EXCEPT !.status = "declined", !.decidedBy = u]
  <2>1. row[o] \in RowType /\ u \in OrNone(User) /\ "declined" \in Status
    BY <1>1 DEF OrNone, Status, Terminal
  <2> QED
    BY <2>1 DEF RowType
<1>3. /\ w.status = "declined" /\ w.approved = row[o].approved /\ w.owner = row[o].owner
      /\ w.kind = row[o].kind /\ w.snapshot = row[o].snapshot
  BY <1>1, <1>2 DEF RowType
<1>4. row' = [row EXCEPT ![o] = w]
  BY <1>2 DEF Decline
<1>5. /\ phase' = [phase EXCEPT ![o] = "declined"] /\ phase[o] = "awaiting_approval"
      /\ owner[o] \in authorized
  <2>1. phase' = [phase EXCEPT ![o] = w.status] /\ phase[o] = row[o].status
        /\ owner[o] = row[o].owner
    BY <1>1, <1>4, RowSeen
  <2> QED
    BY <2>1, <1>1, <1>3
<1>6. UNCHANGED <<owner, demo, consent, result>>
  <2>1. consent' = consent
    BY <1>1, <1>3, <1>4, RowSeen
  <2>2. UNCHANGED <<owner, demo, result>>
    BY <1>1, <1>3, <1>4, RowSeen
  <2> QED
    BY <2>1, <2>2
<1> QED
  BY <1>1, <1>5, <1>6 DEF Contract!Refuse, Contract!Step

(* A cancellation is the contract's Withdraw.                              *)
LEMMA CancelRefines ==
  ASSUME IInv, NEW u \in User, NEW o \in Op, Cancel(u, o)
  PROVE  Contract!Withdraw(o)
<1>1. /\ row[o] \in RowType /\ row[o].status \in {"awaiting_approval", "queued"}
      /\ row[o].owner \in authorized /\ RowFree(o)
      /\ UNCHANGED <<jobs, delivery, authorized, version>>
  <2>1. row[o] \in RowType
    BY DEF IInv, TypeOK
  <2>2. row[o].status \in Status
    BY <2>1 DEF RowType
  <2> QED
    BY <2>1, <2>2 DEF Cancel, Locked, Owns, Withdrawable, Status, Terminal, actors
<1>2. PICK w \in RowType : w = [row[o] EXCEPT !.status = "cancelled"]
  BY <1>1 DEF RowType, Status, Terminal
<1>3. /\ w.status = "cancelled" /\ w.approved = row[o].approved /\ w.owner = row[o].owner
      /\ w.kind = row[o].kind /\ w.snapshot = row[o].snapshot
  BY <1>1, <1>2 DEF RowType
<1>4. row' = [row EXCEPT ![o] = w]
  BY <1>2 DEF Cancel
<1>5. /\ phase' = [phase EXCEPT ![o] = "cancelled"]
      /\ phase[o] \in {"awaiting_approval", "queued"}
      /\ owner[o] \in authorized
  <2>1. phase' = [phase EXCEPT ![o] = w.status] /\ phase[o] = row[o].status
        /\ owner[o] = row[o].owner
    BY <1>1, <1>4, RowSeen
  <2> QED
    BY <2>1, <1>1, <1>3
<1>6. UNCHANGED <<owner, demo, consent, result>>
  <2>1. consent' = consent
    BY <1>1, <1>3, <1>4, RowSeen
  <2>2. UNCHANGED <<owner, demo, result>>
    BY <1>1, <1>3, <1>4, RowSeen
  <2> QED
    BY <2>1, <2>2
<1> QED
  BY <1>1, <1>5, <1>6 DEF Contract!Withdraw, Contract!Step

(***************************************************************************)
(* The effect.                                                             *)
(***************************************************************************)

(* Two handlers never hold the same operation.                             *)
LEMMA SoleHolder ==
  ASSUME IInv, NEW d \in Delivery, NEW x \in Delivery,
         delivery[d].pc = "effect", delivery[x].pc = "effect",
         jobs[delivery[d].job].op = jobs[delivery[x].job].op
  PROVE  x = d
BY DEF IInv, DeliveryFits, Subject

(* A handler that begins its effect takes the row.                         *)
LEMMA BeginEffectRefines ==
  ASSUME IInv, NEW d \in Delivery, BeginEffect(d)
  PROVE  \E o \in Op : Contract!Start(o)
<1>1. PICK o \in Op : o = jobs[delivery[d].job].op
  BY SubjectIsOperation DEF BeginEffect
<1>2. /\ RowFree(o) /\ row[o].owner \in authorized /\ row[o].status = "queued"
      /\ row[o].kind = "approval-demo" => row[o].approved = row[o].payload
      /\ row[o].payload \in Payload /\ delivery[d].pc = "apply"
      /\ UNCHANGED <<row, jobs, authorized, version>>
  <2>1. row[o].owner \in User /\ row[o].kind \in Kind /\ row[o].query \in Query
        /\ row[o].payload = Fingerprint(o, row[o].owner, row[o].kind, row[o].query)
    BY <1>1 DEF BeginEffect, IInv, RowOK, Executable
  <2>2. row[o].payload \in Payload
    BY <2>1 DEF Fingerprint, Payload
  <2> QED
    BY <1>1, <2>2 DEF BeginEffect, Locked, Owns, Executable, Approved, stored
<1>3. /\ delivery'[d].pc = "effect" /\ delivery'[d].job = delivery[d].job
      /\ \A x \in Delivery \ {d} : delivery'[x] = delivery[x]
  <2>1. delivery[d] \in DeliveryType
    BY DEF IInv, TypeOK
  <2> QED
    BY <2>1 DEF BeginEffect, IInv, TypeOK, DeliveryType
<1>4. RowFree(o)' = FALSE /\ \A p \in Op \ {o} : RowFree(p)' = RowFree(p)
  BY <1>1, <1>2, <1>3 DEF RowFree
<1>5. phase' = [phase EXCEPT ![o] = "delivering"] /\ phase[o] = "queued"
  <2>1. phase = [p \in Op |-> phase[p]] /\ phase' = [p \in Op |-> phase'[p]]
    BY DEF phase
  <2>2. phase[o] = "queued" /\ phase'[o] = "delivering"
    BY <1>2, <1>4 DEF phase
  <2>3. \A p \in Op \ {o} : phase'[p] = phase[p]
    BY <1>2, <1>4 DEF phase
  <2> QED
    BY <2>1, <2>2, <2>3, OnePoint
<1>6. UNCHANGED <<owner, demo, consent, result>>
  BY <1>2 DEF owner, demo, consent, result
<1>7. owner[o] \in authorized /\ (demo[o] => consent[o])
  BY <1>2, NoneAssumption DEF owner, demo, consent
<1> QED
  BY <1>2, <1>5, <1>6, <1>7 DEF Contract!Start, Contract!Step

(* A handler that leaves its effect gives the row back.                    *)
LEMMA HolderLeaves ==
  ASSUME IInv, NEW d \in Delivery, delivery[d].pc = "effect",
         NEW v \in DeliveryType, v.pc # "effect", delivery' = [delivery EXCEPT ![d] = v],
         UNCHANGED jobs, NEW o \in Op, o = jobs[delivery[d].job].op
  PROVE  /\ RowFree(o) = FALSE /\ RowFree(o)' = TRUE
         /\ \A p \in Op \ {o} : RowFree(p)' = RowFree(p)
<1>1. delivery'[d] = v /\ \A x \in Delivery \ {d} : delivery'[x] = delivery[x]
  BY DEF IInv, TypeOK
<1>2. \A x \in Delivery \ {d} : delivery[x].pc = "effect" => jobs[delivery[x].job].op # o
  BY SoleHolder
<1> QED
  BY <1>1, <1>2 DEF RowFree

(* An effect that throws, or whose worker dies, is rolled back.            *)
LEMMA AbortRefines ==
  ASSUME IInv, NEW d \in Delivery, delivery[d].pc = "effect",
         NEW v \in DeliveryType, v.pc # "effect", delivery' = [delivery EXCEPT ![d] = v],
         UNCHANGED <<row, jobs, authorized, version>>
  PROVE  \E o \in Op : Contract!Abort(o)
<1>1. PICK o \in Op : o = jobs[delivery[d].job].op /\ row[o].status = "queued"
  BY SubjectIsOperation DEF DeliveryFits
<1>2. /\ RowFree(o) = FALSE /\ RowFree(o)' = TRUE
      /\ \A p \in Op \ {o} : RowFree(p)' = RowFree(p)
  BY <1>1, HolderLeaves
<1>3. phase' = [phase EXCEPT ![o] = "queued"] /\ phase[o] = "delivering"
  <2>1. phase = [p \in Op |-> phase[p]] /\ phase' = [p \in Op |-> phase'[p]]
    BY DEF phase
  <2>2. phase[o] = "delivering" /\ phase'[o] = "queued"
    BY <1>1, <1>2 DEF phase
  <2>3. \A p \in Op \ {o} : phase'[p] = phase[p]
    BY <1>2 DEF phase
  <2> QED
    BY <2>1, <2>2, <2>3, OnePoint
<1>4. UNCHANGED <<owner, demo, consent, result>>
  BY DEF owner, demo, consent, result
<1> QED
  BY <1>3, <1>4 DEF Contract!Abort, Contract!Step

(* The commit stores the report as it is then.                             *)
LEMMA CommitRefines ==
  ASSUME IInv, NEW d \in Delivery, NEW told \in {"committed", "failed"}, CommitEffect(d, told)
  PROVE  \E o \in Op : Contract!Deliver(o)
<1>1. PICK o \in Op : o = jobs[delivery[d].job].op
  BY SubjectIsOperation DEF CommitEffect
<1>2. row[o] \in RowType /\ delivery[d] \in DeliveryType /\ delivery[d].pc = "effect"
      /\ UNCHANGED <<jobs, authorized, version>>
  BY DEF IInv, TypeOK, CommitEffect
<1>3. /\ row'[o].status = "committed" /\ row'[o].snapshot = version
      /\ row'[o].owner = row[o].owner /\ row'[o].kind = row[o].kind
      /\ row'[o].approved = row[o].approved
      /\ \A p \in Op \ {o} : row'[p] = row[p]
  BY <1>1, <1>2 DEF IInv, TypeOK, CommitEffect, RowType
<1>4. PICK v \in DeliveryType : delivery' = [delivery EXCEPT ![d] = v] /\ v.pc # "effect"
  <2>1. PICK v \in DeliveryType : v = [delivery[d] EXCEPT !.pc = "complete", !.outcome = told]
    BY <1>2 DEF DeliveryType, OrNone, Outcome, Terminal
  <2>2. v.pc = "complete"
    BY <1>2, <2>1 DEF DeliveryType
  <2> QED
    BY <2>1, <2>2 DEF CommitEffect
<1>5. /\ RowFree(o) = FALSE /\ RowFree(o)' = TRUE
      /\ \A p \in Op \ {o} : RowFree(p)' = RowFree(p)
  BY <1>1, <1>2, <1>4, HolderLeaves
<1>6. phase' = [phase EXCEPT ![o] = "committed"] /\ phase[o] = "delivering"
  <2>1. phase = [p \in Op |-> phase[p]] /\ phase' = [p \in Op |-> phase'[p]]
    BY DEF phase
  <2>2. phase[o] = "delivering" /\ phase'[o] = "committed"
    BY <1>3, <1>5 DEF phase
  <2>3. \A p \in Op \ {o} : phase'[p] = phase[p]
    BY <1>3, <1>5 DEF phase
  <2> QED
    BY <2>1, <2>2, <2>3, OnePoint
<1>7. result' = [result EXCEPT ![o] = version]
  <2>1. result = [p \in Op |-> result[p]] /\ result' = [p \in Op |-> result'[p]]
    BY DEF result
  <2>2. result'[o] = version /\ \A p \in Op \ {o} : result'[p] = result[p]
    BY <1>3 DEF result
  <2> QED
    BY <2>1, <2>2, OnePoint
<1>8. UNCHANGED <<owner, demo, consent>>
  BY <1>3 DEF owner, demo, consent
<1> QED
  BY <1>2, <1>6, <1>7, <1>8 DEF Contract!Deliver, Contract!Step

(***************************************************************************)
(* Every step.                                                             *)
(***************************************************************************)

(* The two steps that rewrite job_id are invisible to the contract.        *)
LEMMA InsertJobUnseen ==
  ASSUME IInv, NEW c \in Call, NEW j \in Job, InsertJob(c, j)
  PROVE  UNCHANGED Contract!contractVars
<1>1. \A o \in Op : row[o] \in RowType
  BY DEF IInv, TypeOK
<1>2. \A o \in Op : /\ row'[o].status = row[o].status
                    /\ row'[o].owner = row[o].owner
                    /\ row'[o].kind = row[o].kind
                    /\ row'[o].approved = row[o].approved
                    /\ row'[o].snapshot = row[o].snapshot
  BY <1>1 DEF IInv, TypeOK, InsertJob, RowType
<1>3. \A d \in Delivery : delivery[d].pc = "effect" =>
        delivery[d].job \in Job /\ delivery[d].job # j
  BY SubjectIsOperation DEF InsertJob
<1>4. HoldsKept
  BY <1>3 DEF HoldsKept, InsertJob, IInv, TypeOK
<1> QED
  BY <1>2, <1>4, Unseen DEF InsertJob

(* Recording the job id on the row changes nothing the contract shows.     *)
LEMMA LinkJobUnseen ==
  ASSUME IInv, NEW c \in Call, LinkJob(c)
  PROVE  UNCHANGED Contract!contractVars
<1>1. \A o \in Op : row[o] \in RowType
  BY DEF IInv, TypeOK
<1>2. \A o \in Op : /\ row'[o].status = row[o].status
                    /\ row'[o].owner = row[o].owner
                    /\ row'[o].kind = row[o].kind
                    /\ row'[o].approved = row[o].approved
                    /\ row'[o].snapshot = row[o].snapshot
  BY <1>1 DEF IInv, TypeOK, LinkJob, RowType
<1>3. HoldsKept
  BY DEF HoldsKept, LinkJob
<1> QED
  BY <1>2, <1>3, Unseen DEF LinkJob

(* Every step of a command request is a contract step or a stutter.        *)
LEMMA CommandRefines ==
  ASSUME IInv, NEW c \in Call, CommandStep(c)
  PROVE  [Contract!ContractNext]_(Contract!contractVars)
<1>1. CASE InsertOperation(c)
  BY <1>1, InsertRefines DEF Contract!ContractNext
<1>2. CASE \E u \in User, o \in Op, f \in Payload : Approve(c, u, o, f)
  BY <1>2, ApproveRefines DEF Contract!ContractNext
<1>3. CASE \E j \in Job : InsertJob(c, j)
  BY <1>3, InsertJobUnseen
<1>4. CASE LinkJob(c)
  BY <1>4, LinkJobUnseen
<1>5. CASE \/ \E u \in User, o \in Op, k \in Kind, q \in Query : BeginCreate(c, u, o, k, q)
           \/ FindOperation(c)
           \/ \E u \in User, o \in Op, f \in Payload : Resume(c, u, o, f)
           \/ CheckBeforeSubmit(c) \/ ReuseReceipt(c) \/ AbandonCall(c)
  <2>1. UNCHANGED <<row, jobs, delivery, authorized, version>>
    BY <1>5 DEF BeginCreate, FindOperation, Resume, CheckBeforeSubmit, ReuseReceipt,
       AbandonCall, stored
  <2> QED
    BY <2>1, NothingStored DEF HoldsKept
<1> QED
  BY <1>1, <1>2, <1>3, <1>4, <1>5 DEF CommandStep

(* So is every step a signed-in person takes directly.                     *)
LEMMA UserStepRefines ==
  ASSUME IInv, NEW u \in User, NEW o \in Op, UserStep(u, o)
  PROVE  [Contract!ContractNext]_(Contract!contractVars)
<1>1. CASE Cancel(u, o)
  BY <1>1, CancelRefines DEF Contract!ContractNext
<1>2. CASE \E f \in Payload : Decline(u, o, f)
  BY <1>2, DeclineRefines DEF Contract!ContractNext
<1>3. CASE Reconcile(u, o)
  BY <1>3, NothingStored DEF Reconcile, actors, HoldsKept
<1> QED
  BY <1>1, <1>2, <1>3 DEF UserStep

(* A job may be rewritten, but it stays the job of the same operation.     *)
LEMMA SameJobs ==
  ASSUME IInv, NEW j \in Job, NEW w, w.op = jobs[j].op, jobs' = [jobs EXCEPT ![j] = w]
  PROVE  \A i \in Job : jobs'[i].op = jobs[i].op
BY DEF IInv, TypeOK

(* A handler that neither enters nor leaves an effect is invisible.        *)
LEMMA HandlerUnseen ==
  ASSUME IInv, NEW d \in Delivery, NEW v \in DeliveryType, delivery[d].pc # "effect",
         v.pc # "effect", delivery' = [delivery EXCEPT ![d] = v],
         \A i \in Job : jobs'[i].op = jobs[i].op,
         UNCHANGED <<row, authorized, version>>
  PROVE  UNCHANGED Contract!contractVars
<1>1. delivery'[d] = v /\ \A x \in Delivery \ {d} : delivery'[x] = delivery[x]
  BY DEF IInv, TypeOK
<1>2. \A x \in Delivery : delivery[x].pc = "effect" => delivery[x].job \in Job
  BY SubjectIsOperation
<1>3. HoldsKept
  BY <1>1, <1>2 DEF HoldsKept
<1> QED
  BY <1>3, NothingStored

(* Taking a job from the queue is a stutter.                               *)
LEMMA ClaimUnseen ==
  ASSUME IInv, NEW d \in Delivery, NEW j \in Job, Claim(d, j)
  PROVE  UNCHANGED Contract!contractVars
<1>1. jobs[j] \in JobType
  BY DEF IInv, TypeOK
<1>2. [jobs[j] EXCEPT !.status = "running", !.attempts = jobs[j].attempts + 1].op = jobs[j].op
  BY <1>1 DEF JobType
<1>3. \A i \in Job : jobs'[i].op = jobs[i].op
  BY <1>2, SameJobs DEF Claim
<1>4. PICK v \in DeliveryType : v = [pc |-> "authorize", job |-> j, outcome |-> None]
  BY DEF DeliveryType, OrNone
<1>5. v.pc # "effect" /\ delivery' = [delivery EXCEPT ![d] = v]
  BY <1>4 DEF Claim
<1> QED
  BY <1>3, <1>5, HandlerUnseen DEF Claim

(* Every step of a worker is a contract step or a stutter.                 *)
LEMMA WorkerRefines ==
  ASSUME IInv, NEW d \in Delivery, WorkerStep(d)
  PROVE  [Contract!ContractNext]_(Contract!contractVars)
<1>1. delivery[d] \in DeliveryType
  BY DEF IInv, TypeOK
<1>2. IdleDelivery \in DeliveryType /\ IdleDelivery.pc # "effect"
  BY IdleTypes DEF IdleDelivery
<1>3. CASE \E j \in Job : Claim(d, j)
  BY <1>3, ClaimUnseen
<1>4. CASE AuthorizeDelivery(d) \/ Reserve(d) \/ Complete(d)
  <2>1. \A pc \in {"reserve", "apply", "ack"} :
          /\ [delivery[d] EXCEPT !.pc = pc] \in DeliveryType
          /\ [delivery[d] EXCEPT !.pc = pc].pc # "effect"
    BY <1>1 DEF DeliveryType
  <2>2. \E pc \in {"reserve", "apply", "ack"} :
          delivery' = [delivery EXCEPT ![d] = [delivery[d] EXCEPT !.pc = pc]]
    BY <1>4 DEF AuthorizeDelivery, Reserve, Complete
  <2>3. delivery[d].pc # "effect" /\ UNCHANGED <<row, jobs, authorized, version>>
    BY <1>4 DEF AuthorizeDelivery, Reserve, Complete, stored
  <2> QED
    BY <2>1, <2>2, <2>3, HandlerUnseen
<1>5. CASE Replay(d) \/ ApplyNothing(d) \/ (ApplyRollsBack(d) /\ delivery[d].pc # "effect")
  <2>1. PICK pc \in {"ack", "complete"}, s \in OrNone(Outcome) :
          delivery' = [delivery EXCEPT ![d] = [delivery[d] EXCEPT !.pc = pc, !.outcome = s]]
    <3>1. CASE Replay(d)
      <4>1. reservation[jobs[delivery[d].job].op].outcome \in OrNone(Outcome)
        BY <3>1, SubjectIsOperation DEF Replay, IInv, TypeOK, ReservationType
      <4> QED
        BY <3>1, <4>1 DEF Replay
    <3>2. CASE ApplyNothing(d)
      BY <3>2 DEF ApplyNothing, OrNone, Outcome
    <3>3. CASE ApplyRollsBack(d)
      BY <3>3 DEF ApplyRollsBack, OrNone, Outcome
    <3> QED
      BY <1>5, <3>1, <3>2, <3>3
  <2>2. PICK v \in DeliveryType : v = [delivery[d] EXCEPT !.pc = pc, !.outcome = s]
    BY <1>1 DEF DeliveryType
  <2>3. v.pc # "effect"
    BY <1>1, <2>2 DEF DeliveryType
  <2>4. delivery[d].pc # "effect" /\ UNCHANGED <<row, jobs, authorized, version>>
    BY <1>5 DEF Replay, ApplyNothing, ApplyRollsBack, stored
  <2> QED
    BY <2>1, <2>2, <2>3, <2>4, HandlerUnseen
<1>6. CASE AttemptFails(d) \/ AckJob(d)
  <2>1. PICK j \in Job : j = delivery[d].job /\ jobs[j] \in JobType /\ jobs[j].status # "absent"
    BY <1>6, SubjectIsOperation DEF AttemptFails, AckJob
  <2>2. Redeliverable(j).op = jobs[j].op /\ [jobs[j] EXCEPT !.status = "completed"].op = jobs[j].op
    BY <2>1, RedeliverableType DEF JobType
  <2>3. \/ jobs' = jobs
        \/ jobs' = [jobs EXCEPT ![j] = Redeliverable(j)]
        \/ jobs' = [jobs EXCEPT ![j] = [jobs[j] EXCEPT !.status = "completed"]]
    BY <1>6, <2>1 DEF AttemptFails, AckJob
  <2>4. \A i \in Job : jobs'[i].op = jobs[i].op
    BY <2>2, <2>3, SameJobs
  <2>5. /\ delivery[d].pc # "effect" /\ UNCHANGED <<row, authorized, version>>
        /\ delivery' = [delivery EXCEPT ![d] = IdleDelivery]
    BY <1>6 DEF AttemptFails, AckJob
  <2> QED
    BY <1>2, <2>4, <2>5, HandlerUnseen
<1>7. CASE BeginEffect(d)
  BY <1>7, BeginEffectRefines DEF Contract!ContractNext
<1>8. CASE \E told \in {"committed", "failed"} : CommitEffect(d, told)
  BY <1>8, CommitRefines DEF Contract!ContractNext
<1>9. CASE ApplyRollsBack(d) /\ delivery[d].pc = "effect"
  <2>1. PICK v \in DeliveryType : v = [delivery[d] EXCEPT !.pc = "complete", !.outcome = "failed"]
    BY <1>1 DEF DeliveryType, OrNone, Outcome
  <2>2. v.pc # "effect"
    BY <1>1, <2>1 DEF DeliveryType
  <2> QED
    BY <1>9, <2>1, <2>2, AbortRefines DEF ApplyRollsBack, stored, Contract!ContractNext
<1>10. CASE WorkerCrash(d)
  <2>1. delivery' = [delivery EXCEPT ![d] = IdleDelivery] /\ UNCHANGED <<row, jobs, authorized, version>>
    BY <1>10 DEF WorkerCrash, stored
  <2>2. CASE delivery[d].pc = "effect"
    BY <1>2, <2>1, <2>2, AbortRefines DEF Contract!ContractNext
  <2>3. CASE delivery[d].pc # "effect"
    BY <1>2, <2>1, <2>3, HandlerUnseen
  <2> QED
    BY <2>2, <2>3
<1> QED
  BY <1>3, <1>4, <1>5, <1>6, <1>7, <1>8, <1>9, <1>10 DEF WorkerStep, HandlerStep

(* Losing the lease on a job is a stutter.                                 *)
LEMMA LeaseExpiresUnseen ==
  ASSUME IInv, NEW j \in Job, LeaseExpires(j)
  PROVE  UNCHANGED Contract!contractVars
<1>1. Redeliverable(j).op = jobs[j].op
  BY RedeliverableType DEF LeaseExpires
<1>2. \A i \in Job : jobs'[i].op = jobs[i].op
  BY <1>1, SameJobs DEF LeaseExpires
<1>3. \A d \in Delivery : delivery[d].pc = "effect" => delivery[d].job \in Job
  BY SubjectIsOperation
<1>4. HoldsKept
  BY <1>2, <1>3 DEF HoldsKept, LeaseExpires, actors
<1> QED
  BY <1>4, NothingStored DEF LeaseExpires

(* Publishing figures, changing authority and reading statuses keep the    *)
(* contract.                                                               *)
LEMMA EnvironmentRefines ==
  ASSUME IInv, EnvironmentStep
  PROVE  [Contract!ContractNext]_(Contract!contractVars)
<1>1. UNCHANGED <<row, jobs, delivery>>
  BY DEF EnvironmentStep, Revoke, Restore, ReportChanges, stored, actors
<1>2. UNCHANGED <<phase, owner, demo, consent, result>>
  BY <1>1, RowFreeKept DEF HoldsKept, phase, owner, demo, consent, result
<1>3. CASE \E u \in User : Revoke(u) \/ Restore(u)
  <2>1. authorized' \in SUBSET User /\ version' = version
    BY <1>3 DEF Revoke, Restore, IInv, TypeOK
  <2> QED
    BY <1>2, <2>1 DEF Contract!TrustChanges, Contract!ContractNext
<1>4. CASE ReportChanges
  BY <1>2, <1>4 DEF ReportChanges, Contract!ReportMoves, Contract!ContractNext
<1> QED
  BY <1>3, <1>4 DEF EnvironmentStep

(* Every step of the code is a contract step or a stutter.                 *)
LEMMA StepRefines ==
  ASSUME IInv, [Next]_vars
  PROVE  [Contract!ContractNext]_(Contract!contractVars)
<1>1. ASSUME NEW r \in Reader, ViewStep(r) PROVE UNCHANGED Contract!contractVars
  BY <1>1, NothingStored DEF ViewStep, ReadRow, ReadJob, CloseView, stored, HoldsKept
<1>2. CASE UNCHANGED vars
  BY <1>2, NothingStored DEF vars, HoldsKept
<1> QED
  BY <1>1, <1>2, CommandRefines, UserStepRefines, WorkerRefines, LeaseExpiresUnseen,
     EnvironmentRefines DEF Next

(* The code starts where the contract starts.                              *)
LEMMA InitRefines == Init => Contract!ContractInit
<1> SUFFICES ASSUME Init PROVE Contract!ContractInit
  OBVIOUS
<1>1. \A o \in Op : RowFree(o)
  BY DEF Init, IdleDelivery, RowFree
<1>2. phase = [o \in Op |-> "absent"]
  BY <1>1 DEF Init, NoRow, phase
<1>3. owner = [o \in Op |-> None] /\ result = [o \in Op |-> None]
  BY DEF Init, NoRow, owner, result
<1>4. demo = [o \in Op |-> FALSE]
  <2>1. \A o \in Op : (row[o].kind = "approval-demo") = FALSE
    BY NoneAssumption DEF Init, NoRow, Kind
  <2> QED
    BY <2>1 DEF demo
<1>5. consent = [o \in Op |-> FALSE]
  BY DEF Init, NoRow, consent
<1> QED
  BY <1>2, <1>3, <1>4, <1>5 DEF Init, Contract!ContractInit

(* Report operations keep their promise: whatever requests, workers, lease *)
(* expiries, crashes and revocations do, users only ever see steps of      *)
(* ReportOperationContract.                                                *)
THEOREM OperationsKeepTheContract == Spec => ImplementsContract
<1>1. IInv /\ [Next]_vars => [Contract!ContractNext]_(Contract!contractVars)
  BY StepRefines
<1> QED
  BY <1>1, InitRefines, Invariance, PTL DEF Spec, ImplementsContract, Contract!ContractSpec

=============================================================================
