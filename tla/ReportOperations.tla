------------------------- MODULE ReportOperations -------------------------
(***************************************************************************)
(* Durable report operations of one tenant: the HTTP commands of           *)
(* apps/web/src/lib/server/report-operations.ts, the worker effect of      *)
(* packages/app-objects/src/services/report-operation-runtime.ts, and, as  *)
(* external parts, the framework's job queue and its idempotency store.    *)
(*                                                                         *)
(* A step of this module is one database transaction (or one unlocked      *)
(* statement) of the code.  What a request or a worker remembers between   *)
(* two transactions is kept in call, delivery and view, so that every      *)
(* other actor may run in between, and a process may die there.            *)
(*                                                                         *)
(* An operation is named by its request id: (tenant_id, request_id) is a   *)
(* unique key and creation holds an advisory lock on it.                   *)
(***************************************************************************)
EXTENDS Naturals

CONSTANTS
  Op,           \* request ids
  User,         \* people who may hold an owner or admin membership
  Query,        \* normalised report queries
  Call,         \* HTTP requests in flight
  Delivery,     \* handler invocations of the workers' task runners
  Job,          \* job ids the queue may hand out
  Reader,       \* status reads in flight
  MaxAttempts,  \* maxAttempts of a queued job
  MaxVersion,   \* bound on the changes of the live report
  None          \* SQL NULL

Kind == {"prepare", "approval-demo"}

(* The hash of reportOperationPayloadFingerprint, taken as injective.      *)
Fingerprint(o, u, k, q) == [op |-> o, owner |-> u, kind |-> k, query |-> q]

Payload == [op : Op, owner : User, kind : Kind, query : Query]

ASSUME AttemptsAssumption == MaxAttempts \in Nat \ {0}
ASSUME VersionAssumption == MaxVersion \in Nat
ASSUME NoneAssumption ==
  /\ None \notin Job
  /\ None \notin Delivery
  /\ None \notin Payload
  /\ None \notin Nat
  /\ None \notin {"failed", "committed", "cancelled", "declined"} \cup Kind

VARIABLES
  row,         \* starter_report_operations
  jobs,        \* _smrt_jobs of the queue "reports"
  reservation, \* the framework's idempotency record of each execution
  authorized,  \* users authorizeReportOperationPrincipal accepts now
  version,     \* state of the live activity report
  call,        \* what each HTTP request holds between its transactions
  delivery,    \* what each handler invocation holds between its steps
  view         \* what each status read holds between its two reads

vars == <<row, jobs, reservation, authorized, version, call, delivery, view>>
stored == <<row, jobs, reservation>>
actors == <<call, delivery, view>>

Terminal == {"committed", "cancelled", "declined"}
Status == {"absent", "awaiting_approval", "queued"} \cup Terminal
Outcome == Terminal \cup {"failed"}
JobStatus == {"absent", "pending", "running", "completed", "failed"}
EndedJob == {"completed", "failed"}

NoRow ==
  [status |-> "absent", owner |-> None, kind |-> None, query |-> None,
   payload |-> None, approved |-> None, decidedBy |-> None, job |-> None,
   snapshot |-> None, evidence |-> None]
NoJob == [status |-> "absent", op |-> None, user |-> None, payload |-> None, attempts |-> 0]
NoReservation == [status |-> "none", token |-> None, outcome |-> None]
IdleCall ==
  [pc |-> "idle", user |-> None, op |-> None, kind |-> None, query |-> None, job |-> None]
IdleDelivery == [pc |-> "idle", job |-> None, outcome |-> None]
IdleView == [pc |-> "idle", op |-> None, status |-> None, job |-> None]

Init ==
  /\ row = [o \in Op |-> NoRow]
  /\ jobs = [j \in Job |-> NoJob]
  /\ reservation = [o \in Op |-> NoReservation]
  /\ authorized = User
  /\ version = 0
  /\ call = [c \in Call |-> IdleCall]
  /\ delivery = [d \in Delivery |-> IdleDelivery]
  /\ view = [r \in Reader |-> IdleView]

----------------------------------------------------------------------------
(* Guards the commands share.                                              *)

(* SELECT ... FOR UPDATE waits for the effect's transaction, the only one  *)
(* of this module that spans two steps.  Every other transaction reads the *)
(* row and writes it back under the same lock, so it is one step.          *)
RowFree(o) ==
  \A d \in Delivery : delivery[d].pc = "effect" => jobs[delivery[d].job].op # o

(* withLockedReportOperation: the row is found for this requester, and the *)
(* live membership still carries the authority, inside the row lock.       *)
Owns(o, u) == row[o].status # "absent" /\ row[o].owner = u
(* Mutant: authority is not re-checked under the lock.                     *)
LockedOnly(o, u) == RowFree(o) /\ Owns(o, u)
Locked(o, u) == RowFree(o) /\ Owns(o, u) /\ u \in authorized

(* The human decision an approval demonstration needs.                     *)
Approved(o, u) ==
  row[o].kind = "approval-demo" =>
    row[o].approved = row[o].payload /\ row[o].decidedBy = u

(* Mutant: the caller's fingerprint is not compared.                       *)
AnyPayloadIntact(o, supplied) ==
  Fingerprint(o, row[o].owner, row[o].kind, row[o].query) = row[o].payload

(* validateStoredPayload: the stored row still hashes to its fingerprint,  *)
(* and the job carries the same fingerprint.                               *)
PayloadIntact(o, supplied) ==
  /\ Fingerprint(o, row[o].owner, row[o].kind, row[o].query) = row[o].payload
  /\ supplied = row[o].payload

----------------------------------------------------------------------------
(* HTTP commands.                                                          *)

(* createReportOperation up to its transaction: input and permission are   *)
(* checked here, and not again when the row is inserted.                   *)
BeginCreate(c, u, o, k, q) ==
  /\ call[c].pc = "idle"
  /\ u \in authorized
  /\ call' = [call EXCEPT ![c] =
       [pc |-> "create", user |-> u, op |-> o, kind |-> k, query |-> q, job |-> None]]
  /\ UNCHANGED <<stored, authorized, version, delivery, view>>

SameSubmission(o, c) ==
  /\ row[o].owner = call[c].user
  /\ row[o].kind = call[c].kind
  /\ row[o].query = call[c].query

NewRow(o, c) ==
  [NoRow EXCEPT !.status = IF call[c].kind = "approval-demo" THEN "awaiting_approval" ELSE "queued",
                !.owner = call[c].user,
                !.kind = call[c].kind,
                !.query = call[c].query,
                !.payload = Fingerprint(o, call[c].user, call[c].kind, call[c].query)]

(* The transaction of createReportOperation when the request id is new.    *)
InsertOperation(c) ==
  LET o == call[c].op IN
  /\ call[c].pc = "create"
  /\ row[o].status = "absent"
  /\ row' = [row EXCEPT ![o] = NewRow(o, c)]
  /\ call' = [call EXCEPT ![c] =
       IF call[c].kind = "prepare" THEN [@ EXCEPT !.pc = "enqueue"] ELSE IdleCall]
  /\ UNCHANGED <<jobs, reservation, authorized, version, delivery, view>>

(* The same transaction when the request id is known: a retry goes on to   *)
(* enqueue an operation that has no job yet, a different submission is     *)
(* refused with 409.                                                       *)
FindOperation(c) ==
  LET o == call[c].op IN
  /\ call[c].pc = "create"
  /\ row[o].status # "absent"
  /\ call' = [call EXCEPT ![c] =
       IF SameSubmission(o, c) /\ row[o].status = "queued" /\ row[o].job = None
         THEN [@ EXCEPT !.pc = "enqueue"] ELSE IdleCall]
  /\ UNCHANGED <<stored, authorized, version, delivery, view>>

(* A call that goes on to enqueue operation o for user u.                  *)
Enqueuing(o, u) == [IdleCall EXCEPT !.pc = "enqueue", !.user = u, !.op = o]

(* decideReportOperation, "approve": the decision is committed first and   *)
(* the job is enqueued by later steps of the same request.                 *)
Approve(c, u, o, fingerprint) ==
  /\ call[c].pc = "idle"
  /\ Locked(o, u)
  /\ PayloadIntact(o, fingerprint)
  /\ row[o].kind = "approval-demo"
  /\ row[o].status = "awaiting_approval"
  /\ row' = [row EXCEPT ![o] =
       [@ EXCEPT !.status = "queued", !.decidedBy = u, !.approved = fingerprint]]
  /\ call' = [call EXCEPT ![c] = Enqueuing(o, u)]
  /\ UNCHANGED <<jobs, reservation, authorized, version, delivery, view>>

(* decideReportOperation, "approve", for an approval whose enqueue failed. *)
Resume(c, u, o, fingerprint) ==
  /\ call[c].pc = "idle"
  /\ Locked(o, u)
  /\ PayloadIntact(o, fingerprint)
  /\ row[o].kind = "approval-demo"
  /\ row[o].status = "queued"
  /\ row[o].job = None
  /\ Approved(o, u)
  /\ call' = [call EXCEPT ![c] = Enqueuing(o, u)]
  /\ UNCHANGED <<stored, authorized, version, delivery, view>>

(* decideReportOperation, "decline".                                       *)
Decline(u, o, fingerprint) ==
  /\ Locked(o, u)
  /\ PayloadIntact(o, fingerprint)
  /\ row[o].kind = "approval-demo"
  /\ row[o].status = "awaiting_approval"
  /\ row' = [row EXCEPT ![o] = [@ EXCEPT !.status = "declined", !.decidedBy = u]]
  /\ UNCHANGED <<jobs, reservation, authorized, version, actors>>

(* Mutant: a committed operation may be withdrawn as well.                 *)
AlwaysWithdrawable(o) == row[o].job # None => jobs[row[o].job].status \notin EndedJob

(* An operation cancelReportOperation may still withdraw: not terminal,    *)
(* and its job, if any, has not ended with an outcome nobody has read.     *)
Withdrawable(o) ==
  /\ row[o].status \notin Terminal
  /\ row[o].job # None => jobs[row[o].job].status \notin EndedJob

(* cancelReportOperation.  The job itself is left in the queue.            *)
Cancel(u, o) ==
  /\ Locked(o, u)
  /\ Withdrawable(o)
  /\ row' = [row EXCEPT ![o].status = "cancelled"]
  /\ UNCHANGED <<jobs, reservation, authorized, version, actors>>

----------------------------------------------------------------------------
(* The enqueue that create and decide run after their commit.              *)

(* First step of enqueue: the locked read, the approval check and the      *)
(* preview that yields a confirmation token.                               *)
CheckBeforeSubmit(c) ==
  LET o == call[c].op
      u == call[c].user
  IN
  /\ call[c].pc = "enqueue"
  /\ Locked(o, u)
  /\ row[o].status = "queued"
  /\ Approved(o, u)
  /\ call' = [call EXCEPT ![c].pc = "submit"]
  /\ UNCHANGED <<stored, authorized, version, delivery, view>>

(* Mutant: the receipt stored by an earlier enqueue is not looked up.      *)
NoReceipt(o) == FALSE

(* backgroundQueue.enqueue, run by the framework's apply: the row already  *)
(* holds the receipt of a job, so the same receipt is returned.            *)
HasReceipt(o) == row[o].job # None

ReuseReceipt(c) ==
  LET o == call[c].op IN
  /\ call[c].pc = "submit"
  /\ Locked(o, call[c].user)
  /\ HasReceipt(o)
  /\ call' = [call EXCEPT ![c] = [@ EXCEPT !.pc = "link", !.job = row[o].job]]
  /\ UNCHANGED <<stored, authorized, version, delivery, view>>

(* The same call when there is no receipt: job and receipt are stored in   *)
(* one transaction, under the row lock.                                    *)
InsertJob(c, j) ==
  LET o == call[c].op
      u == call[c].user
  IN
  /\ call[c].pc = "submit"
  /\ Locked(o, u)
  /\ ~HasReceipt(o)
  /\ row[o].status = "queued"
  /\ jobs[j].status = "absent"
  /\ jobs' = [jobs EXCEPT ![j] = [status |-> "pending", op |-> o, user |-> u,
                                  payload |-> row[o].payload, attempts |-> 0]]
  /\ row' = [row EXCEPT ![o].job = j]
  /\ call' = [call EXCEPT ![c] = [@ EXCEPT !.pc = "link", !.job = j]]
  /\ UNCHANGED <<reservation, authorized, version, delivery, view>>

(* The statement after apply in enqueue: an update of job_id without the   *)
(* lock and without looking at the status.                                 *)
LinkJob(c) ==
  /\ call[c].pc = "link"
  /\ RowFree(call[c].op)
  /\ row' = [row EXCEPT ![call[c].op].job = call[c].job]
  /\ call' = [call EXCEPT ![c] = IdleCall]
  /\ UNCHANGED <<jobs, reservation, authorized, version, delivery, view>>

(* A request that ends between two transactions: a guard above refused it, *)
(* the framework refused the submission, the connection was lost, the      *)
(* signing key is missing, or the process died.                            *)
AbandonCall(c) ==
  /\ call[c].pc # "idle"
  /\ call' = [call EXCEPT ![c] = IdleCall]
  /\ UNCHANGED <<stored, authorized, version, delivery, view>>

----------------------------------------------------------------------------
(* Worker.  The task runner delivers a job at least once; its lease may    *)
(* expire while a handler is still running.                                *)

Redeliverable(j) ==
  [jobs[j] EXCEPT !.status = IF jobs[j].attempts < MaxAttempts THEN "pending" ELSE "failed"]

Claim(d, j) ==
  /\ delivery[d].pc = "idle"
  /\ jobs[j].status = "pending"
  /\ jobs' = [jobs EXCEPT ![j] = [@ EXCEPT !.status = "running", !.attempts = jobs[j].attempts + 1]]
  /\ delivery' = [delivery EXCEPT ![d] = [pc |-> "authorize", job |-> j, outcome |-> None]]
  /\ UNCHANGED <<row, reservation, authorized, version, call, view>>

(* Mutant: only a job with attempts left is recovered.                     *)
LeaseExpiresWithAttemptsLeft(j) ==
  /\ jobs[j].status = "running"
  /\ jobs[j].attempts < MaxAttempts
  /\ jobs' = [jobs EXCEPT ![j] = Redeliverable(j)]
  /\ UNCHANGED <<row, reservation, authorized, version, actors>>

LeaseExpires(j) ==
  /\ jobs[j].status = "running"
  /\ jobs' = [jobs EXCEPT ![j] = Redeliverable(j)]
  /\ UNCHANGED <<row, reservation, authorized, version, actors>>

(* executeDeferred and resolveDeferredPrincipal: live authority is checked *)
(* before the framework may look at, or replay, the reservation.           *)
AuthorizeDelivery(d) ==
  /\ delivery[d].pc = "authorize"
  /\ jobs[delivery[d].job].user \in authorized
  /\ delivery' = [delivery EXCEPT ![d].pc = "reserve"]
  /\ UNCHANGED <<stored, authorized, version, call, view>>

(* Mutant: a reservation left behind is taken over.                        *)
TakeOver(d) ==
  LET o == jobs[delivery[d].job].op IN
  /\ delivery[d].pc = "reserve"
  /\ reservation[o].status # "completed"
  /\ reservation' = [reservation EXCEPT ![o] =
                       [status |-> "reserved", token |-> d, outcome |-> None]]
  /\ delivery' = [delivery EXCEPT ![d].pc = "apply"]
  /\ UNCHANGED <<row, jobs, authorized, version, call, view>>

(* reserveIdempotency: a fresh execution reserves the key and goes on to   *)
(* the effect.                                                             *)
Reserve(d) ==
  LET o == jobs[delivery[d].job].op IN
  /\ delivery[d].pc = "reserve"
  /\ reservation[o].status = "none"
  /\ reservation' = [reservation EXCEPT ![o] =
                       [status |-> "reserved", token |-> d, outcome |-> None]]
  /\ delivery' = [delivery EXCEPT ![d].pc = "apply"]
  /\ UNCHANGED <<row, jobs, authorized, version, call, view>>

(* A completed execution is replayed: its recorded result, no new effect.  *)
Replay(d) ==
  LET o == jobs[delivery[d].job].op IN
  /\ delivery[d].pc = "reserve"
  /\ reservation[o].status = "completed"
  /\ delivery' = [delivery EXCEPT ![d] =
       [@ EXCEPT !.pc = "ack", !.outcome = reservation[o].outcome]]
  /\ UNCHANGED <<stored, authorized, version, call, view>>

(* The handler throws: authority denied, a reservation some other attempt  *)
(* holds, no registered executor.  The task runner retries up to the limit. *)
AttemptFails(d) ==
  LET j == delivery[d].job IN
  /\ delivery[d].pc \in {"authorize", "reserve"}
  /\ jobs' = IF jobs[j].status = "running" THEN [jobs EXCEPT ![j] = Redeliverable(j)] ELSE jobs
  /\ delivery' = [delivery EXCEPT ![d] = IdleDelivery]
  /\ UNCHANGED <<row, reservation, authorized, version, call, view>>

(* The guard of the effect, evaluated under the row lock.                  *)
Executable(o, u) == row[o].status = "queued" /\ Approved(o, u)

(* The effect's transaction begins: row lock, live authority, payload and  *)
(* approval.  A membership may still be revoked before the commit below.   *)
BeginEffect(d) ==
  LET j == delivery[d].job
      o == jobs[j].op
      u == jobs[j].user
  IN
  /\ delivery[d].pc = "apply"
  /\ Locked(o, u)
  /\ PayloadIntact(o, jobs[j].payload)
  /\ Executable(o, u)
  /\ delivery' = [delivery EXCEPT ![d].pc = "effect"]
  /\ UNCHANGED <<stored, authorized, version, call, view>>

(* Its commit: snapshot, evidence and status are stored together.  told    *)
(* is what the adapter is told: the effect's own result, or "failed" when  *)
(* the commit went through but its acknowledgment was lost.                *)
CommitEffect(d, told) ==
  LET o == jobs[delivery[d].job].op IN
  /\ delivery[d].pc = "effect"
  /\ row' = [row EXCEPT ![o] =
       [@ EXCEPT !.status = "committed", !.snapshot = version, !.evidence = d]]
  /\ delivery' = [delivery EXCEPT ![d] = [@ EXCEPT !.pc = "complete", !.outcome = told]]
  /\ UNCHANGED <<jobs, reservation, authorized, version, call, view>>

(* The effect finds a terminal operation and reports its status.           *)
ApplyNothing(d) ==
  LET j == delivery[d].job
      o == jobs[j].op
  IN
  /\ delivery[d].pc = "apply"
  /\ Locked(o, jobs[j].user)
  /\ PayloadIntact(o, jobs[j].payload)
  /\ row[o].status \in Terminal
  /\ delivery' = [delivery EXCEPT ![d] =
       [@ EXCEPT !.pc = "complete", !.outcome = row[o].status]]
  /\ UNCHANGED <<stored, authorized, version, call, view>>

(* Mutant: a rolled-back effect is reported as done.                       *)
RollbackHidden(d) ==
  /\ delivery[d].pc \in {"apply", "effect"}
  /\ delivery' = [delivery EXCEPT ![d] = [@ EXCEPT !.pc = "complete", !.outcome = "committed"]]
  /\ UNCHANGED <<stored, authorized, version, call, view>>

(* The effect's transaction throws and is rolled back; the adapter turns   *)
(* it into a result with one failed row.                                   *)
ApplyRollsBack(d) ==
  /\ delivery[d].pc \in {"apply", "effect"}
  /\ delivery' = [delivery EXCEPT ![d] = [@ EXCEPT !.pc = "complete", !.outcome = "failed"]]
  /\ UNCHANGED <<stored, authorized, version, call, view>>

(* completeIdempotency: refused when the record is no longer reserved.     *)
Complete(d) ==
  LET o == jobs[delivery[d].job].op IN
  /\ delivery[d].pc = "complete"
  /\ reservation' = IF reservation[o].status = "reserved"
                      THEN [reservation EXCEPT ![o] =
                             [@ EXCEPT !.status = "completed", !.outcome = delivery[d].outcome]]
                      ELSE reservation
  /\ delivery' = [delivery EXCEPT ![d].pc = "ack"]
  /\ UNCHANGED <<row, jobs, authorized, version, call, view>>

(* The handler returns and the task runner marks the job completed.        *)
AckJob(d) ==
  LET j == delivery[d].job IN
  /\ delivery[d].pc = "ack"
  /\ jobs' = IF jobs[j].status \in {"pending", "running"}
               THEN [jobs EXCEPT ![j].status = "completed"] ELSE jobs
  /\ delivery' = [delivery EXCEPT ![d] = IdleDelivery]
  /\ UNCHANGED <<row, reservation, authorized, version, call, view>>

(* The worker process dies: its job stays running until the lease expires, *)
(* its reservation stays reserved.                                         *)
WorkerCrash(d) ==
  /\ delivery[d].pc # "idle"
  /\ delivery' = [delivery EXCEPT ![d] = IdleDelivery]
  /\ UNCHANGED <<stored, authorized, version, call, view>>

----------------------------------------------------------------------------
(* Status reads.                                                           *)

(* reconcile, run by a read of a committed operation: the framework record *)
(* of an interrupted execution is completed from the stored evidence.      *)
Reconcile(u, o) ==
  /\ Locked(o, u)
  /\ row[o].status = "committed"
  /\ row[o].snapshot # None
  /\ PayloadIntact(o, row[o].payload)
  /\ reservation[o].status = "reserved"
  /\ reservation[o].token = row[o].evidence
  /\ reservation' = [reservation EXCEPT ![o] =
       [@ EXCEPT !.status = "completed", !.outcome = "committed"]]
  /\ UNCHANGED <<row, jobs, authorized, version, actors>>

(* getReportOperation reads the row, then currentDto reads the job.        *)
ReadRow(r, o) ==
  /\ view[r].pc = "idle"
  /\ row[o].status # "absent"
  /\ view' = [view EXCEPT ![r] =
       [pc |-> "job", op |-> o, status |-> row[o].status, job |-> row[o].job]]
  /\ UNCHANGED <<stored, authorized, version, call, delivery>>

(* Mutant: a job that ended well stands for a committed operation.         *)
OptimisticStatus(status, job) ==
  CASE status = "queued" /\ job # None /\ jobs[job].status = "running" -> "running"
    [] status = "queued" /\ job # None /\ jobs[job].status = "completed" -> "committed"
    [] OTHER -> status

(* currentDto: the status shown is derived from the row as it was read and *)
(* the job as it is now.                                                   *)
ShownStatus(status, job) ==
  CASE status = "queued" /\ job # None /\ jobs[job].status = "running" -> "running"
    [] status = "queued" /\ job # None /\ jobs[job].status \in EndedJob -> "recovery_required"
    [] OTHER -> status

ReadJob(r) ==
  /\ view[r].pc = "job"
  /\ view' = [view EXCEPT ![r] =
       [@ EXCEPT !.pc = "shown", !.status = ShownStatus(view[r].status, view[r].job)]]
  /\ UNCHANGED <<stored, authorized, version, call, delivery>>

CloseView(r) ==
  /\ view[r].pc = "shown"
  /\ view' = [view EXCEPT ![r] = IdleView]
  /\ UNCHANGED <<stored, authorized, version, call, delivery>>

----------------------------------------------------------------------------
(* Environment: memberships are revoked and restored, the report changes.  *)

Revoke(u) ==
  /\ u \in authorized
  /\ authorized' = authorized \ {u}
  /\ UNCHANGED <<stored, version, actors>>

Restore(u) ==
  /\ u \in User \ authorized
  /\ authorized' = authorized \cup {u}
  /\ UNCHANGED <<stored, version, actors>>

ReportChanges ==
  /\ version < MaxVersion
  /\ version' = version + 1
  /\ UNCHANGED <<stored, authorized, actors>>

----------------------------------------------------------------------------
CommandStep(c) ==
  \/ \E u \in User, o \in Op, k \in Kind, q \in Query : BeginCreate(c, u, o, k, q)
  \/ InsertOperation(c)
  \/ FindOperation(c)
  \/ \E u \in User, o \in Op, f \in Payload : Approve(c, u, o, f)
  \/ \E u \in User, o \in Op, f \in Payload : Resume(c, u, o, f)
  \/ CheckBeforeSubmit(c)
  \/ ReuseReceipt(c)
  \/ \E j \in Job : InsertJob(c, j)
  \/ LinkJob(c)
  \/ AbandonCall(c)

UserStep(u, o) ==
  \/ Cancel(u, o)
  \/ \E f \in Payload : Decline(u, o, f)
  \/ Reconcile(u, o)

HandlerStep(d) ==
  \/ AuthorizeDelivery(d)
  \/ Reserve(d)
  \/ Replay(d)
  \/ AttemptFails(d)
  \/ BeginEffect(d)
  \/ \E told \in {"committed", "failed"} : CommitEffect(d, told)
  \/ ApplyNothing(d)
  \/ ApplyRollsBack(d)
  \/ Complete(d)
  \/ AckJob(d)

WorkerStep(d) ==
  \/ \E j \in Job : Claim(d, j)
  \/ HandlerStep(d)
  \/ WorkerCrash(d)

ViewStep(r) ==
  \/ \E o \in Op : ReadRow(r, o)
  \/ ReadJob(r)
  \/ CloseView(r)

EnvironmentStep ==
  \/ \E u \in User : Revoke(u)
  \/ \E u \in User : Restore(u)
  \/ ReportChanges

Next ==
  \/ \E c \in Call : CommandStep(c)
  \/ \E u \in User, o \in Op : UserStep(u, o)
  \/ \E d \in Delivery : WorkerStep(d)
  \/ \E j \in Job : LeaseExpires(j)
  \/ \E r \in Reader : ViewStep(r)
  \/ EnvironmentStep

Spec == Init /\ [][Next]_vars

(* The task runner polls for pending jobs, recovers stale leases and keeps *)
(* running the handlers it started; users and outages owe nothing.         *)
Fairness ==
  /\ \A d \in Delivery : WF_vars(HandlerStep(d))
  /\ \A d \in Delivery, j \in Job : WF_vars(Claim(d, j))
  /\ \A j \in Job : WF_vars(LeaseExpires(j))

FairSpec == Spec /\ Fairness
----------------------------------------------------------------------------
(* Properties.                                                             *)

OrNone(S) == S \cup {None}

RowType ==
  [status : Status, owner : OrNone(User), kind : OrNone(Kind), query : OrNone(Query),
   payload : OrNone(Payload), approved : OrNone(Payload), decidedBy : OrNone(User),
   job : OrNone(Job), snapshot : OrNone(Nat), evidence : OrNone(Delivery)]
JobType ==
  [status : JobStatus, op : OrNone(Op), user : OrNone(User), payload : OrNone(Payload),
   attempts : Nat]
ReservationType ==
  [status : {"none", "reserved", "completed"}, token : OrNone(Delivery),
   outcome : OrNone(Outcome)]
CallType ==
  [pc : {"idle", "create", "enqueue", "submit", "link"}, user : OrNone(User),
   op : OrNone(Op), kind : OrNone(Kind), query : OrNone(Query), job : OrNone(Job)]
DeliveryType ==
  [pc : {"idle", "authorize", "reserve", "apply", "effect", "complete", "ack"},
   job : OrNone(Job), outcome : OrNone(Outcome)]
ViewType ==
  [pc : {"idle", "job", "shown"}, op : OrNone(Op),
   status : OrNone(Status \cup {"running", "recovery_required"}), job : OrNone(Job)]

(* Every variable has its type.                                            *)
TypeOK ==
  /\ row \in [Op -> RowType]
  /\ jobs \in [Job -> JobType]
  /\ reservation \in [Op -> ReservationType]
  /\ authorized \in SUBSET User
  /\ version \in Nat
  /\ call \in [Call -> CallType]
  /\ delivery \in [Delivery -> DeliveryType]
  /\ view \in [Reader -> ViewType]

(* However many requests enqueue one operation, and wherever they fail,    *)
(* the queue never holds two jobs for it, and the operation's receipt      *)
(* names that job (backgroundQueue.enqueue and the update after apply).    *)
OneJobPerOperation ==
  \A j \in Job : jobs[j].status # "absent" => row[jobs[j].op].job = j

(* An approval demonstration that may run, or has run, was approved by its *)
(* own requester, for exactly the stored payload (decideReportOperation).  *)
Consent ==
  \A o \in Op :
    row[o].status \in {"queued", "committed"} /\ row[o].kind = "approval-demo" =>
      row[o].approved = row[o].payload /\ row[o].decidedBy = row[o].owner

(* A result is stored exactly for committed operations: neither a          *)
(* cancellation nor a refusal ever coexists with a snapshot.               *)
ResultExactlyWhenCommitted ==
  \A o \in Op :
    /\ row[o].status = "committed" <=> row[o].snapshot # None
    /\ row[o].status = "committed" <=> row[o].evidence # None

(* What the framework recorded of an execution, and will replay to every   *)
(* later delivery, never claims an end the operation did not come to.      *)
RecordedOutcomeIsTrue ==
  \A o \in Op :
    reservation[o].outcome \in Terminal => row[o].status = reservation[o].outcome

(* A committed operation can always be reconciled: its evidence names the  *)
(* execution whose record is on file, whichever worker crashed since.      *)
EvidenceMatchesReservation ==
  \A o \in Op :
    row[o].status = "committed" =>
      /\ reservation[o].status # "none"
      /\ reservation[o].token = row[o].evidence

(* Both: after any crash the framework's record and the operation's own    *)
(* say the same of an effect, whichever of them is asked                   *)
(* (reconcileReportOperation, and the replay of a recorded execution).     *)
RecordsAgree == RecordedOutcomeIsTrue /\ EvidenceMatchesReservation

(* A finished operation is final: no retry, late delivery, decision or     *)
(* unlocked job_id update changes any column of it.                        *)
TerminalIsFinal ==
  [][\A o \in Op : row[o].status \in Terminal => row'[o] = row[o]]_row

(* The status page never runs ahead of the store: an end it shows is the   *)
(* end the operation came to, although row and job are read separately.    *)
ShownEndIsStored ==
  \A r \in Reader :
    view[r].status \in Terminal => row[view[r].op].status = view[r].status

(* Every operation that got a job leaves the queue: it ends, or its job    *)
(* ends and the status page says so, whatever crashes on the way.          *)
JobbedOperationSettles ==
  \A o \in Op :
    row[o].status = "queued" /\ row[o].job # None ~>
      \/ row[o].status \in Terminal
      \/ row[o].job # None /\ jobs[row[o].job].status \in EndedJob

(* The promise to the users, and how this module's state stands for it:    *)
(* while the effect's transaction holds the row, the operation is being    *)
(* delivered, whatever its committed status column still says.             *)
phase == [o \in Op |-> IF RowFree(o) THEN row[o].status ELSE "delivering"]
owner == [o \in Op |-> row[o].owner]
demo == [o \in Op |-> row[o].kind = "approval-demo"]
consent == [o \in Op |-> row[o].approved # None]
result == [o \in Op |-> row[o].snapshot]

Contract == INSTANCE ReportOperationContract WITH
  Nobody <- None, trusted <- authorized, report <- version

(* Every step of the subsystem is a step of the contract or leaves what    *)
(* the contract speaks of unchanged.                                       *)
ImplementsContract == Contract!ContractSpec
=============================================================================
