------------------------------ MODULE RunJobs ------------------------------
(***************************************************************************)
(* The queue of backtest-preview jobs: the rows of assistant_runs and      *)
(* run_jobs, the API handlers that create and cancel a run, and the        *)
(* backtest workers that lease, execute, settle and retry its job.         *)
(*                                                                         *)
(* Every SQL statement of the worker commits by itself and every           *)
(* repository call of the API is a transaction of its own, so each of them *)
(* is one action; what the code does between two of them is local to the   *)
(* process.  A backtest run has one job, so a job is named by its run.     *)
(* All runs are of one workspace: leases are counted per workspace.        *)
(***************************************************************************)
EXTENDS Naturals, FiniteSets

CONSTANTS
    Run,                  \* runs that clients may submit
    Worker,               \* worker ids (hostname and pid: a restarted container keeps its id)
    MaxAttempts,          \* run_jobs.max_attempts
    ActiveLimit,          \* limits.workspace_active_limit
    LongRange,            \* runs whose date range exceeds 365 days
    LongRangeActiveLimit, \* how many of those may be leased at once
    AutoChain,            \* runs whose payload asks for a summary in the chat
    Environments,         \* what may happen in a behaviour, besides requests and work
    NoRun, NoWorker

ASSUME RunJobsAssumption ==
    /\ MaxAttempts \in Nat \ {0}
    /\ ActiveLimit \in Nat \ {0}
    /\ LongRangeActiveLimit \in Nat
    /\ LongRange \subseteq Run
    /\ AutoChain \subseteq Run
    /\ NoRun \notin Run
    /\ NoWorker \notin Worker
    /\ Environments \subseteq SUBSET {"peers", "error", "crash", "expiry", "heartbeat", "cancel"}

Attempt == 1 .. MaxAttempts

TerminalRunStatuses == {"completed", "failed", "cancelled"}
RunStatus == {"absent", "queued", "running"} \cup TerminalRunStatuses

\* Where the loop of a worker process stands: the next statement it issues.
LoopPcs    == {"idle", "claim"}
CheckPcs   == {"check", "cancelJob"}
ExecutePcs == {"start", "exec", "renew", "recheck"}
PublishPcs == {"persist", "index", "complete", "finish", "event", "enqueue"}
FailPcs    == {"getRun", "requeue", "requeueRun", "failJob", "failRun", "failEvent", "repair"}

VARIABLES
    run,         \* assistant_runs.status
    jobStatus,   \* run_jobs.status of the run's job
    attempts,    \* run_jobs.attempts
    leaseOwner,  \* run_jobs.lease_owner
    leasedUntil, \* run_jobs.leased_until: NULL, not before now(), or before it
    artifacts,   \* how many times each attempt inserted the artifacts of the run
    report,      \* whether the backtest_reports row of the run exists
    emitted,     \* terminal events appended to the run's event log
    followUp,    \* chat-worker jobs enqueued for the run
    pc,          \* the next statement of each worker process
    serves,      \* the run whose job it works on
    attempt,     \* job.attempts as its claim returned it
    heartbeat,   \* the state of startJobHeartbeat
    seen,        \* the candidates in the snapshot of its claim statement
    errorCode,   \* the classified error it reports
    submit,      \* the POST /v1/runs request that creates the run
    cancel,      \* the POST /v1/runs/{id}/cancel request in progress on the run
    faults       \* the environment of this behaviour

jobRow  == <<jobStatus, attempts, leaseOwner, leasedUntil>>
results == <<artifacts, report, emitted, followUp>>
process == <<pc, serves, attempt, heartbeat, seen, errorCode>>
api     == <<submit, cancel>>
state   == <<run, jobRow, results, process, api>>
vars    == <<state, faults>>

Init ==
    /\ faults \in Environments
    /\ run = [r \in Run |-> "absent"]
    /\ jobStatus = [r \in Run |-> "absent"]
    /\ attempts = [r \in Run |-> 0]
    /\ leaseOwner = [r \in Run |-> NoWorker]
    /\ leasedUntil = [r \in Run |-> "null"]
    /\ artifacts = [ra \in Run \X Attempt |-> 0]
    /\ report = [r \in Run |-> FALSE]
    /\ emitted = [r \in Run |-> {}]
    /\ followUp = [r \in Run |-> {}]
    /\ pc = [w \in Worker |-> "idle"]
    /\ serves = [w \in Worker |-> NoRun]
    /\ attempt = [w \in Worker |-> 0]
    /\ heartbeat = [w \in Worker |-> "off"]
    /\ seen = [w \in Worker |-> {}]
    /\ errorCode = [w \in Worker |-> "none"]
    /\ submit = [r \in Run |-> "none"]
    /\ cancel = [r \in Run |-> "none"]

-----------------------------------------------------------------------------
(* The rows.                                                               *)

\* setRunStatus and set_run_status: no status is refused.
SetRunStatus(r, s) == run' = [run EXCEPT ![r] = s]

\* completeJob and requeueJob: UPDATE ... WHERE id, which also ends the lease.
SetJobStatus(r, s) ==
    /\ jobStatus' = [jobStatus EXCEPT ![r] = s]
    /\ leaseOwner' = [leaseOwner EXCEPT ![r] = NoWorker]
    /\ leasedUntil' = [leasedUntil EXCEPT ![r] = "null"]
    /\ UNCHANGED attempts

AppendEvent(r, type) == emitted' = [emitted EXCEPT ![r] = @ \cup {type}]

-----------------------------------------------------------------------------
(* The API: submission and cancellation.                                   *)

\* create_run(status="queued") of POST /v1/runs.
CreateRun(r) ==
    /\ submit[r] = "none"
    /\ SetRunStatus(r, "queued")
    /\ submit' = [submit EXCEPT ![r] = "created"]
    /\ UNCHANGED <<jobRow, results, process, cancel>>

\* create_run_job, once the Pine source passed its validation.
CreateRunJob(r) ==
    /\ submit[r] = "created"
    /\ jobStatus' = [jobStatus EXCEPT ![r] = "queued"]
    /\ submit' = [submit EXCEPT ![r] = "accepted"]
    /\ UNCHANGED <<run, attempts, leaseOwner, leasedUntil, results, process, cancel>>

\* Validation answers 422, or the API stops here: the run keeps no job.
RejectRun(r) ==
    /\ submit[r] = "created"
    /\ submit' = [submit EXCEPT ![r] = "rejected"]
    /\ UNCHANGED <<run, jobRow, results, process, cancel>>

\* cancel_run reads the run and answers at once when it is terminal.
CancelGetRun(r) ==
    /\ "cancel" \in faults
    /\ cancel[r] = "none"
    /\ run[r] \in {"queued", "running"}
    /\ cancel' = [cancel EXCEPT ![r] = "set"]
    /\ UNCHANGED <<run, jobRow, results, process, submit>>

\* set_run_status(run, "cancelled"), whatever the status has become.
CancelSetRunStatus(r) ==
    /\ cancel[r] = "set"
    /\ SetRunStatus(r, "cancelled")
    /\ cancel' = [cancel EXCEPT ![r] = "select"]
    /\ UNCHANGED <<jobRow, results, process, submit>>

\* Selects queued jobs only.
CancelSelectQueuedJobs(r) ==
    /\ cancel[r] = "select"
    /\ cancel' = [cancel EXCEPT ![r] = IF jobStatus[r] = "queued" THEN "updateQueued" ELSE "event"]
    /\ UNCHANGED <<run, jobRow, results, process, submit>>

\* cancel_run_jobs selects the run's queued and running jobs ...
CancelSelectJobs(r) ==
    /\ cancel[r] = "select"
    /\ cancel' = [cancel EXCEPT ![r] = CASE jobStatus[r] = "queued"  -> "updateQueued"
                                         [] jobStatus[r] = "running" -> "updateRunning"
                                         [] OTHER                    -> "event"]
    /\ UNCHANGED <<run, jobRow, results, process, submit>>

\* ... and commits an UPDATE by primary key of the columns whose value differs
\* from the one it read: the lease columns of a queued row were already NULL.
CancelUpdateJobs(r) ==
    /\ \/ /\ cancel[r] = "updateQueued"
          /\ jobStatus' = [jobStatus EXCEPT ![r] = "cancelled"]
          /\ UNCHANGED <<attempts, leaseOwner, leasedUntil>>
       \/ /\ cancel[r] = "updateRunning"
          /\ SetJobStatus(r, "cancelled")
    /\ cancel' = [cancel EXCEPT ![r] = "event"]
    /\ UNCHANGED <<run, results, process, submit>>

CancelAppendEvent(r) ==
    /\ cancel[r] = "event"
    /\ AppendEvent(r, "run.cancelled")
    /\ cancel' = [cancel EXCEPT ![r] = "none"]
    /\ UNCHANGED <<run, jobRow, artifacts, report, followUp, process, submit>>

\* The API process stops, or a repository call fails, in the middle of a cancel.
CancelAbandoned(r) ==
    /\ "crash" \in faults
    /\ cancel[r] # "none"
    /\ cancel' = [cancel EXCEPT ![r] = "none"]
    /\ UNCHANGED <<run, jobRow, results, process, submit>>

-----------------------------------------------------------------------------
(* Leases.                                                                 *)

\* The claim, the heartbeat and the renewal set leased_until to now() plus the
\* lease; passing time takes it behind now().  A worker that heartbeats in time
\* keeps its lease, so a lease held by a working process lapses only where the
\* instance admits slow processes.
LeaseExpires(r) ==
    /\ jobStatus[r] = "running"
    /\ leasedUntil[r] = "future"
    /\ "expiry" \in faults \/ serves[leaseOwner[r]] # r
    /\ leasedUntil' = [leasedUntil EXCEPT ![r] = "past"]
    /\ UNCHANGED <<run, jobStatus, attempts, leaseOwner, results, process, api>>

\* Claims the row whatever its attempts.
ClaimableUnbounded(r) ==
    \/ jobStatus[r] = "queued"
    \/ jobStatus[r] = "running" /\ leasedUntil[r] = "past"

\* Leaves a row whose worker died.
ClaimableQueuedOnly(r) ==
    /\ attempts[r] < MaxAttempts
    /\ jobStatus[r] = "queued"

\* Takes a running row before its lease lapsed.
ClaimableLeased(r) ==
    /\ attempts[r] < MaxAttempts
    /\ jobStatus[r] \in {"queued", "running"}

\* The WHERE clause of claimJob that concerns the row itself.
Claimable(r) ==
    /\ attempts[r] < MaxAttempts
    /\ \/ jobStatus[r] = "queued"
       \/ jobStatus[r] = "running" /\ leasedUntil[r] = "past"

\* The rows its two count(*) subqueries count.
ActiveRuns == {r \in Run : jobStatus[r] = "running" /\ leasedUntil[r] = "future"}

WithinLimits(r) ==
    /\ Cardinality(ActiveRuns) < ActiveLimit
    /\ r \in LongRange => Cardinality(ActiveRuns \cap LongRange) < LongRangeActiveLimit

\* The WHERE clause of renewJobLeaseOrThrow.
HoldsLease(w, r) ==
    /\ jobStatus[r] = "running"
    /\ leaseOwner[r] = w
    /\ run[r] \notin TerminalRunStatuses

Renew(r) ==
    /\ leasedUntil' = [leasedUntil EXCEPT ![r] = "future"]
    /\ UNCHANGED <<jobStatus, attempts, leaseOwner>>

-----------------------------------------------------------------------------
(* The loop of a worker process.                                           *)

At(w, l) == pc[w] = l

Goto(w, l) ==
    /\ pc' = [pc EXCEPT ![w] = l]
    /\ UNCHANGED <<serves, attempt, heartbeat, seen, errorCode>>

\* Back to the loop: the job and all that is local to it are forgotten.
Return(w) ==
    /\ pc' = [pc EXCEPT ![w] = "idle"]
    /\ serves' = [serves EXCEPT ![w] = NoRun]
    /\ attempt' = [attempt EXCEPT ![w] = 0]
    /\ heartbeat' = [heartbeat EXCEPT ![w] = "off"]
    /\ seen' = [seen EXCEPT ![w] = {}]
    /\ errorCode' = [errorCode EXCEPT ![w] = "none"]

\* The rejection that main() catches and hands to markJobFailed.
Reject(w, e) ==
    /\ pc' = [pc EXCEPT ![w] = "getRun"]
    /\ heartbeat' = [heartbeat EXCEPT ![w] = "off"]
    /\ errorCode' = [errorCode EXCEPT ![w] = e]
    /\ UNCHANGED <<serves, attempt, seen>>

\* The statement of claimJob takes its snapshot: the candidates of this worker.
\* Without peers one process works at a time, as in a deployment with one worker.
ClaimSnapshot(w) ==
    /\ At(w, "idle")
    /\ "peers" \in faults \/ \A v \in Worker : At(v, "idle")
    /\ \E candidates \in {{r \in Run : Claimable(r) /\ WithinLimits(r)}} :
         /\ candidates # {}
         /\ seen' = [seen EXCEPT ![w] = candidates]
    /\ pc' = [pc EXCEPT ![w] = "claim"]
    /\ UNCHANGED <<serves, attempt, heartbeat, errorCode, run, jobRow, results, api>>

\* It locks one candidate that still matches, and updates it.  FOR UPDATE SKIP
\* LOCKED checks the row again in its last version; the counts keep the snapshot.
\* Any candidate may be the first that is not locked by another statement.
ClaimJob(w) ==
    /\ At(w, "claim")
    /\ \E r \in seen[w] :
         /\ Claimable(r)
         /\ jobStatus' = [jobStatus EXCEPT ![r] = "running"]
         /\ attempts' = [attempts EXCEPT ![r] = @ + 1]
         /\ leaseOwner' = [leaseOwner EXCEPT ![r] = w]
         /\ leasedUntil' = [leasedUntil EXCEPT ![r] = "future"]
         /\ serves' = [serves EXCEPT ![w] = r]
         /\ attempt' = [attempt EXCEPT ![w] = attempts[r] + 1]
    /\ pc' = [pc EXCEPT ![w] = "check"]
    /\ seen' = [seen EXCEPT ![w] = {}]
    /\ UNCHANGED <<heartbeat, errorCode, run, results, api>>

\* Nothing is left to claim: the worker sleeps.
ClaimNothing(w) ==
    /\ At(w, "claim")
    /\ \A r \in seen[w] : ~Claimable(r)
    /\ Return(w)
    /\ UNCHANGED <<run, jobRow, results, api>>

-----------------------------------------------------------------------------
(* processJob.                                                             *)

\* Starts whatever the status of the run.
CheckRunBlind(w) ==
    /\ At(w, "check")
    /\ Goto(w, "start")
    /\ UNCHANGED <<run, jobRow, results, api>>

\* getRun: a run that is already terminal is not executed.
CheckRun(w) ==
    /\ At(w, "check")
    /\ Goto(w, IF run[serves[w]] \in TerminalRunStatuses THEN "cancelJob" ELSE "start")
    /\ UNCHANGED <<run, jobRow, results, api>>

CompleteJobCancelled(w) ==
    /\ At(w, "cancelJob")
    /\ SetJobStatus(serves[w], "cancelled")
    /\ Return(w)
    /\ UNCHANGED <<run, results, api>>

\* setRunStatus(running) tests nothing; startJobHeartbeat follows.
StartRun(w) ==
    /\ At(w, "start")
    /\ SetRunStatus(serves[w], "running")
    /\ pc' = [pc EXCEPT ![w] = "exec"]
    /\ heartbeat' = [heartbeat EXCEPT ![w] = "on"]
    /\ UNCHANGED <<serves, attempt, seen, errorCode, jobRow, results, api>>

\* One tick of the heartbeat: it renews the lease or records that it is lost.
Heartbeat(w) ==
    /\ At(w, "exec")
    /\ heartbeat[w] = "on"
    /\ \/ /\ HoldsLease(w, serves[w])
          /\ Renew(serves[w])
          /\ UNCHANGED heartbeat
       \/ /\ ~HoldsLease(w, serves[w]) \/ "heartbeat" \in faults
          /\ heartbeat' = [heartbeat EXCEPT ![w] = "lost"]
          /\ UNCHANGED jobRow
    /\ UNCHANGED <<pc, serves, attempt, seen, errorCode, run, results, api>>

\* The execution succeeds, the heartbeat stops and assertLease() looks at its flag.
FinishExecution(w) ==
    /\ At(w, "exec")
    /\ \/ /\ heartbeat[w] = "on"
          /\ pc' = [pc EXCEPT ![w] = "renew"]
          /\ heartbeat' = [heartbeat EXCEPT ![w] = "off"]
          /\ UNCHANGED <<serves, attempt, seen, errorCode>>
       \/ /\ heartbeat[w] = "lost"
          /\ Return(w)
    /\ UNCHANGED <<run, jobRow, results, api>>

\* The execution fails or times out, or one of its events cannot be appended: a
\* repair may cure the error (preview_compatibility_limit) or not.  Nothing looks
\* at the lease.
FailExecution(w) ==
    /\ "error" \in faults
    /\ At(w, "exec")
    /\ \E e \in {"preview_compatibility_limit", "other"} : Reject(w, e)
    /\ UNCHANGED <<run, jobRow, results, api>>

\* renewJobLeaseOrThrow; a StaleJobLeaseError is only logged.
RenewLease(w) ==
    /\ At(w, "renew")
    /\ \/ /\ HoldsLease(w, serves[w])
          /\ Renew(serves[w])
          /\ Goto(w, "recheck")
       \/ /\ ~HoldsLease(w, serves[w])
          /\ Return(w)
          /\ UNCHANGED jobRow
    /\ UNCHANGED <<run, results, api>>

RecheckRun(w) ==
    /\ At(w, "recheck")
    /\ Goto(w, IF run[serves[w]] \in TerminalRunStatuses THEN "cancelJob" ELSE "persist")
    /\ UNCHANGED <<run, jobRow, results, api>>

\* persistArtifacts: one transaction that inserts rows with fresh ids.
PersistArtifacts(w) ==
    /\ At(w, "persist")
    /\ artifacts' = [artifacts EXCEPT ![<<serves[w], attempt[w]>>] = @ + 1]
    /\ Goto(w, "index")
    /\ UNCHANGED <<run, jobRow, report, emitted, followUp, api>>

\* Goes on when the index could not be written.
PersistIndexesBestEffort(w) ==
    /\ At(w, "index")
    /\ \E ok \in BOOLEAN : report' = [report EXCEPT ![serves[w]] = @ \/ ok]
    /\ Goto(w, "complete")
    /\ UNCHANGED <<run, jobRow, artifacts, emitted, followUp, api>>

\* persistBacktestIndexes: one transaction that upserts the report of the run.
PersistIndexes(w) ==
    /\ At(w, "index")
    /\ report' = [report EXCEPT ![serves[w]] = TRUE]
    /\ Goto(w, "complete")
    /\ UNCHANGED <<run, jobRow, artifacts, emitted, followUp, api>>

\* completeJob updates by id: neither the owner nor the status is tested.
CompleteJob(w) ==
    /\ At(w, "complete")
    /\ SetJobStatus(serves[w], "completed")
    /\ Goto(w, "finish")
    /\ UNCHANGED <<run, results, api>>

FinishRun(w) ==
    /\ At(w, "finish")
    /\ SetRunStatus(serves[w], "completed")
    /\ Goto(w, "event")
    /\ UNCHANGED <<jobRow, results, api>>

AppendRunCompleted(w) ==
    /\ At(w, "event")
    /\ AppendEvent(serves[w], "run.completed")
    /\ Goto(w, "enqueue")
    /\ UNCHANGED <<run, jobRow, artifacts, report, followUp, api>>

\* enqueueChatBacktestSummaryJob, unless the run has such a job already.
EnqueueSummary(w) ==
    /\ At(w, "enqueue")
    /\ followUp' = [followUp EXCEPT ![serves[w]] =
                      @ \cup (IF serves[w] \in AutoChain THEN {"summary"} ELSE {})]
    /\ Return(w)
    /\ UNCHANGED <<run, jobRow, artifacts, report, emitted, api>>

-----------------------------------------------------------------------------
(* markJobFailed.                                                          *)

\* After the execution, what can throw is an event whose sequence number another
\* writer took first, a file that cannot be written or a unique row inserted by
\* another worker.  A lost connection also fails markJobFailed: that is Crash.
Throw(w) ==
    /\ "error" \in faults
    /\ pc[w] \in {"persist", "index", "complete", "event"}
    /\ Reject(w, "other")
    /\ UNCHANGED <<run, jobRow, results, api>>

\* The branch on the attempt this worker was given when it claimed the job.
DecideRetry(w) ==
    /\ At(w, "getRun")
    /\ Goto(w, IF attempt[w] < MaxAttempts THEN "requeue" ELSE "failJob")
    /\ UNCHANGED <<run, jobRow, results, api>>

\* Starts the count of attempts over.
RequeueJobAfresh(w) ==
    /\ At(w, "requeue")
    /\ jobStatus' = [jobStatus EXCEPT ![serves[w]] = "queued"]
    /\ attempts' = [attempts EXCEPT ![serves[w]] = 0]
    /\ leaseOwner' = [leaseOwner EXCEPT ![serves[w]] = NoWorker]
    /\ leasedUntil' = [leasedUntil EXCEPT ![serves[w]] = "null"]
    /\ Goto(w, "requeueRun")
    /\ UNCHANGED <<run, results, api>>

\* requeueJob updates by id and keeps the attempts.
RequeueJob(w) ==
    /\ At(w, "requeue")
    /\ SetJobStatus(serves[w], "queued")
    /\ Goto(w, "requeueRun")
    /\ UNCHANGED <<run, results, api>>

RequeueRun(w) ==
    /\ At(w, "requeueRun")
    /\ SetRunStatus(serves[w], "queued")
    /\ Return(w)
    /\ UNCHANGED <<jobRow, results, api>>

\* Fails the job and leaves its run.
FailJobOnly(w) ==
    /\ At(w, "failJob")
    /\ SetJobStatus(serves[w], "failed")
    /\ Return(w)
    /\ UNCHANGED <<run, results, api>>

FailJob(w) ==
    /\ At(w, "failJob")
    /\ SetJobStatus(serves[w], "failed")
    /\ Goto(w, "failRun")
    /\ UNCHANGED <<run, results, api>>

FailRun(w) ==
    /\ At(w, "failRun")
    /\ SetRunStatus(serves[w], "failed")
    /\ Goto(w, "failEvent")
    /\ UNCHANGED <<jobRow, results, api>>

AppendRunFailed(w) ==
    /\ At(w, "failEvent")
    /\ AppendEvent(serves[w], "run.failed")
    /\ Goto(w, "repair")
    /\ UNCHANGED <<run, jobRow, artifacts, report, followUp, api>>

\* enqueuePreviewCompatibilityRepairJob, for the one error it may cure.
EnqueueRepair(w) ==
    /\ At(w, "repair")
    /\ followUp' = [followUp EXCEPT ![serves[w]] =
                      @ \cup (IF errorCode[w] = "preview_compatibility_limit"
                              THEN {"repair"} ELSE {})]
    /\ Return(w)
    /\ UNCHANGED <<run, jobRow, artifacts, report, emitted, api>>

\* The process dies while it works on a job (an error inside markJobFailed ends
\* it too); it comes back idle, under the same id.
Crash(w) ==
    /\ "crash" \in faults
    /\ pc[w] \notin LoopPcs
    /\ Return(w)
    /\ UNCHANGED <<run, jobRow, results, api>>

-----------------------------------------------------------------------------
ClaimStep(w) == ClaimSnapshot(w) \/ ClaimJob(w) \/ ClaimNothing(w)

ProcessStep(w) ==
    \/ CheckRun(w) \/ CompleteJobCancelled(w) \/ StartRun(w)
    \/ FinishExecution(w) \/ RenewLease(w) \/ RecheckRun(w)
    \/ PersistArtifacts(w) \/ PersistIndexes(w) \/ CompleteJob(w)
    \/ FinishRun(w) \/ AppendRunCompleted(w) \/ EnqueueSummary(w)

FailStep(w) ==
    \/ DecideRetry(w) \/ RequeueJob(w) \/ RequeueRun(w)
    \/ FailJob(w) \/ FailRun(w) \/ AppendRunFailed(w) \/ EnqueueRepair(w)

SubmitStep(r) == CreateRun(r) \/ CreateRunJob(r) \/ RejectRun(r)

CancelStep(r) ==
    \/ CancelSetRunStatus(r) \/ CancelSelectJobs(r) \/ CancelUpdateJobs(r)
    \/ CancelAppendEvent(r)

Next ==
    /\ \/ \E r \in Run : SubmitStep(r) \/ CancelGetRun(r) \/ CancelStep(r)
                           \/ CancelAbandoned(r) \/ LeaseExpires(r)
       \/ \E w \in Worker : ClaimStep(w) \/ ProcessStep(w) \/ FailStep(w)
                           \/ Heartbeat(w) \/ FailExecution(w) \/ Throw(w) \/ Crash(w)
    /\ UNCHANGED faults

\* A worker process polls and goes on with the job it holds (the execution is
\* bounded by WORKER_TIMEOUT_MS), time passes, and a handler runs to its end.
\* Nothing makes a client submit or cancel, or an execution fail.
Fairness ==
    /\ \A w \in Worker : WF_state(ClaimStep(w) \/ ProcessStep(w) \/ FailStep(w))
    /\ \A r \in Run : WF_state(LeaseExpires(r)) /\ WF_state(CancelStep(r))

Spec == Init /\ [][Next]_vars /\ Fairness

-----------------------------------------------------------------------------
(* What is true of every behaviour.                                        *)

\* The type of every variable: the rows, the worker processes, the handlers.
TypeOK ==
    /\ run \in [Run -> RunStatus]
    /\ jobStatus \in [Run -> RunStatus]
    /\ attempts \in [Run -> 0 .. MaxAttempts]
    /\ leaseOwner \in [Run -> Worker \cup {NoWorker}]
    /\ leasedUntil \in [Run -> {"null", "future", "past"}]
    /\ artifacts \in [Run \X Attempt -> Nat]
    /\ report \in [Run -> BOOLEAN]
    /\ emitted \in [Run -> SUBSET {"run.completed", "run.failed", "run.cancelled"}]
    /\ followUp \in [Run -> SUBSET {"summary", "repair"}]
    /\ pc \in [Worker -> LoopPcs \cup CheckPcs \cup ExecutePcs \cup PublishPcs \cup FailPcs]
    /\ serves \in [Worker -> Run \cup {NoRun}]
    /\ attempt \in [Worker -> 0 .. MaxAttempts]
    /\ heartbeat \in [Worker -> {"off", "on", "lost"}]
    /\ seen \in [Worker -> SUBSET Run]
    /\ errorCode \in [Worker -> {"none", "preview_compatibility_limit", "other"}]
    /\ submit \in [Run -> {"none", "created", "accepted", "rejected"}]
    /\ cancel \in [Run -> {"none", "set", "select", "updateQueued", "updateRunning", "event"}]

\* An attempt number is a fencing token.  Two workers that work on one job, one
\* of them past its lease, were given different attempt numbers, and the owner
\* named in a running row was given the last one: claimJob counts up and no path
\* of retry, cancellation or completion ever counts down or starts over.
AttemptsAreTokens ==
    \A w \in Worker : serves[w] \in Run =>
        /\ attempt[w] \in 1 .. attempts[serves[w]]
        /\ \A v \in Worker \ {w} : serves[v] = serves[w] => attempt[v] # attempt[w]
        /\ jobStatus[serves[w]] = "running" /\ leaseOwner[serves[w]] = w
             => attempt[w] = attempts[serves[w]]

\* An attempt inserts the artifacts of its run at most once, whatever crash,
\* retry or second worker comes in between: re-execution is always a new attempt,
\* so max_attempts bounds the copies a run can collect.
ArtifactsOncePerAttempt ==
    \A r \in Run, a \in Attempt :
        artifacts[<<r, a>>] <= (IF a <= attempts[r] THEN 1 ELSE 0)

\* What tells a reader that a preview succeeded -- the completed status, the
\* run.completed event, the summary job for the chat -- is written after the report
\* it points to, also when stale and current workers interleave their writes.
SuccessHasReport ==
    \A r \in Run :
        (run[r] = "completed" \/ "run.completed" \in emitted[r] \/ "summary" \in followUp[r])
            => report[r]

\* A run is reported as failed, and offered for repair, only when all its attempts
\* are spent, although markJobFailed decides on the count it was given at its
\* claim while other workers claim and requeue the same job.
FailureSpendsAllAttempts ==
    \A r \in Run :
        (run[r] = "failed" \/ "run.failed" \in emitted[r] \/ "repair" \in followUp[r])
            => attempts[r] = MaxAttempts

\* What readers are shown of a run is backed: one copy of the artifacts per attempt,
\* a report behind a success, and all attempts behind a failure (processJob,
\* markJobFailed).
PublicationIsSound == ArtifactsOncePerAttempt /\ SuccessHasReport /\ FailureSpendsAllAttempts

\* No one is about to write the status of r: no worker went past the first look at
\* the run, and no cancellation read it before it became terminal.
AtRest(r) ==
    /\ run[r] \in TerminalRunStatuses
    /\ cancel[r] # "set"
    /\ \A w \in Worker : serves[w] = r => pc[w] \in CheckPcs

\* A terminal run that nobody is working on stays as it is for good, even if its
\* job is still claimable (the cancel stopped between its two transactions):
\* every later claim ends in the job being cancelled.
RestingRunIsFinal ==
    [][\A r \in Run : AtRest(r) => AtRest(r)' /\ run'[r] = run[r]]_vars

\* Nobody works on r's job, no lease is left to lapse, and it is finished or has no
\* attempt left.
Settled(r) ==
    /\ \A w \in Worker : serves[w] # r
    /\ r \notin ActiveRuns
    /\ jobStatus[r] \in {"queued", "running"} => attempts[r] = MaxAttempts

\* The queue drains: whatever crashes, lapses and errors happen, every job is
\* settled in the end.  (It may be settled unfinished: see RunsFinish.)
JobsSettle == <>[](\A r \in Run : Settled(r))

\* Where one worker runs that never dies or stalls and nobody cancels, every run with a job
\* ends completed or failed: an execution that throws at any statement is retried
\* and the last attempt reports the failure.
RunsFinish ==
    \A r \in Run : faults \subseteq {"error"} /\ jobStatus[r] # "absent"
                      ~> run[r] \in {"completed", "failed"}

\* A worker whose execution ends after the cancellation of its run answered does
\* not go on to publish.  The claim may have raced the cancellation, and
\* setRunStatus(running) may have overwritten the cancelled status: then the job
\* row alone stops the worker.  It takes an execution that throws to bring the job
\* back (run job_cancel_race).
CancelledIsNotPublished ==
    []["error" \notin faults => \A w \in Worker :
         pc[w] = "renew" /\ pc'[w] = "recheck"
            => "run.cancelled" \notin emitted[serves[w]]]_vars

\* A cancelled job is not up for a claim again: what the cancel test asserts of a
\* job that no worker holds.
CancelledJobIsNotClaimable ==
    [][\A r \in Run : jobStatus[r] = "cancelled" => ~Claimable(r)']_vars

-----------------------------------------------------------------------------
(* The job rows are a LeaseQueue.                                          *)

queueState ==
    [r \in Run |->
        CASE jobStatus[r] \in {"absent", "queued"} -> jobStatus[r]
          [] jobStatus[r] = "running" /\ leasedUntil[r] = "future" -> "leased"
          [] jobStatus[r] = "running" /\ leasedUntil[r] # "future" -> "lapsed"
          [] OTHER -> "done"]

queueHolder == [r \in Run |-> IF jobStatus[r] = "running" THEN leaseOwner[r] ELSE NoWorker]

Queue == INSTANCE LeaseQueue WITH
    Job <- Run, Holder <- Worker, NoHolder <- NoWorker,
    state <- queueState, leases <- attempts, holder <- queueHolder

\* Every statement of the API and of the workers on a job row is a step of the
\* queue contract: a lease is granted only by a claim, from a waiting or a lapsed
\* row, and takes the next number; a renewal never takes a lease from another
\* holder nor revives a row that was released or finished.
ImplementsLeaseQueue == Queue!Spec
=============================================================================
