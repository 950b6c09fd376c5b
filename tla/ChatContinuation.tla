-------------------------- MODULE ChatContinuation -------------------------
(***************************************************************************)
(* What follows a backtest preview in the chat: the jobs that backtest     *)
(* workers enqueue when the preview ended, and the chat workers that post  *)
(* its summary, or repair its script and queue the preview again.          *)
(*                                                                         *)
(* The event log of the preview that began it is followed statement by     *)
(* statement (RunEvents).  The other logs - of the chat run the preview    *)
(* came from, and of repaired previews - are appended to in one step,      *)
(* since only chat workers append to them here, under the lock.            *)
(***************************************************************************)
EXTENDS RunEvents, Sequences

CONSTANTS
    Job,           \* ids of chat jobs, natural numbers in order of creation
    MaxClaims,     \* run_jobs.max_attempts of a chat job
    MaxRepairs,    \* PREVIEW_COMPATIBILITY_REPAIR_MAX_ATTEMPTS
    ActiveLimit,   \* workspace_active_limit
    Environments   \* what may happen in a behaviour besides the work

ASSUME ContinuationAssumption ==
    /\ Job \subseteq Nat \ {0}
    /\ ChatWorker # {} /\ BacktestWorker # {} /\ ChatWorker \cap BacktestWorker = {}
    /\ MaxClaims \in Nat \ {0} /\ MaxRepairs \in Nat \ {0} /\ ActiveLimit \in Nat \ {0}
    /\ Environments \subseteq SUBSET {"peers", "crash", "expiry", "error", "cascade", "read"}
    /\ {"run.completed", "run.failed", "run.progress", "summary.completed", "repair.started",
        "repair.completed", "repair.failed", "chain.failed"} \subseteq EventType

Kinds == {"summary", "repair"}
Level == 0 .. MaxRepairs

VARIABLES
    faults,     \* the environment of this behaviour
    preview,    \* how the preview that began it ended
    publisher,  \* where each backtest worker stands after its last event
    exists,     \* whether its NOT EXISTS found the job it is about to insert
    jobs,       \* the rows of run_jobs of the two chat types
    repaired,   \* the previews each repair created: without a job, queued, ended
    sourceLog,  \* events of the chat run
    posted,     \* summary messages each job has put into the conversation
    pc,         \* the next statement of each chat worker
    serves,     \* the job it works on
    candidates, \* the rows its claim found
    marked      \* whether it found the summary event in the log

queue   == <<jobs, repaired>>
worker  == <<pc, serves, candidates, marked>>
chat    == <<sourceLog, posted>>
setting == <<faults, preview>>
enqueue == <<publisher, exists>>
moving  == <<eventVars, enqueue, queue, worker, chat>>
vars    == <<moving, setting>>

NoJob == 0
Absent == [kind |-> "summary", of |-> NoJob, level |-> 0, status |-> "absent", claims |-> 0,
           owner |-> Nobody, leased |-> FALSE, marked |-> FALSE]

Init ==
    /\ EventsInit
    /\ faults \in Environments
    /\ preview \in {"completed", "failed"}
    /\ publisher = [b \in BacktestWorker |-> "publish"]
    /\ exists = [b \in BacktestWorker |-> FALSE]
    /\ jobs = [j \in Job |-> Absent]
    /\ repaired = [j \in Job |-> [bare |-> 0, queued |-> 0, ended |-> 0]]
    /\ sourceLog = {} /\ posted = [j \in Job |-> 0]
    /\ pc = [w \in ChatWorker |-> "idle"]
    /\ serves = [w \in ChatWorker |-> NoJob]
    /\ candidates = [w \in ChatWorker |-> {}]
    /\ marked = [w \in ChatWorker |-> FALSE]

\* Without peers there is one worker of each kind, and they take turns.
AtRest ==
    /\ \A w \in ChatWorker : pc[w] = "idle"
    /\ \A b \in BacktestWorker : publisher[b] \in {"publish", "done"} /\ Idle(b)

MayStart(p) ==
    \/ "peers" \in faults
    \/ AtRest /\ p \in {CHOOSE w \in ChatWorker : TRUE, CHOOSE b \in BacktestWorker : TRUE}

-----------------------------------------------------------------------------
(* The end of a preview, as the backtest workers leave it.                 *)

FreeJobs == {j \in Job : jobs[j].status = "absent"}

\* INSERT ... SELECT ... WHERE NOT EXISTS: a job that failed does not count.
HasJob(kind, of) ==
    \E j \in Job : /\ jobs[j].kind = kind /\ jobs[j].of = of
                   /\ jobs[j].status \in {"queued", "running", "completed"}

InsertJob(kind, of, level) ==
    \E j \in FreeJobs :
        /\ \A i \in FreeJobs : j <= i
        /\ jobs' = [jobs EXCEPT ![j] = [Absent EXCEPT !.kind = kind, !.of = of, !.level = level,
                                                      !.status = "queued"]]

\* The worker appends its last event: run.completed or run.failed, or a progress
\* event of an execution that was given up.
Publish(b, type) ==
    /\ publisher[b] = "publish" /\ MayStart(b)
    /\ BeginAppend(b, type)
    /\ publisher' = [publisher EXCEPT ![b] = IF type = "run.progress" THEN "done" ELSE "append"]
    /\ UNCHANGED <<setting, exists, queue, worker, chat>>

\* Two workers may have completed one run; only one can have failed it for good.
PublishEnd(b) ==
    \/ preview = "completed" /\ Publish(b, "run.completed")
    \/ /\ preview = "failed" /\ ~Logged("run.failed")
       /\ \A a \in BacktestWorker \ {b} : publisher[a] # "append" /\ publisher[a] # "insert"
       /\ Publish(b, "run.failed")

\* An append that fails ends the publication; otherwise the job comes next.  The
\* statement looks for it in its snapshot.
LookForJob(b) ==
    /\ publisher[b] = "append" /\ Idle(b)
    /\ IF outcome[b] = "appended"
       THEN /\ exists' = [exists EXCEPT ![b] = HasJob(IF preview = "completed" THEN "summary" ELSE "repair", NoJob)]
            /\ publisher' = [publisher EXCEPT ![b] = "insert"]
       ELSE publisher' = [publisher EXCEPT ![b] = "done"] /\ UNCHANGED exists
    /\ UNCHANGED <<eventVars, setting, queue, worker, chat>>

\* enqueueChatBacktestSummaryJob, enqueuePreviewCompatibilityRepairJob.
Enqueue(b) ==
    /\ publisher[b] = "insert"
    /\ IF exists[b] THEN UNCHANGED jobs
       ELSE IF preview = "completed" THEN InsertJob("summary", NoJob, 0) ELSE InsertJob("repair", NoJob, 1)
    /\ publisher' = [publisher EXCEPT ![b] = "done"]
    /\ UNCHANGED <<eventVars, setting, exists, repaired, worker, chat>>

\* A repaired preview is run in turn.  When it fails for the same reason its
\* failure is repaired, unless that limit is reached; when it completes, its summary
\* is due.
RepairedPreviewEnds(j) ==
    /\ "cascade" \in faults
    /\ "peers" \in faults \/ AtRest
    /\ repaired[j].queued > 0
    /\ repaired' = [repaired EXCEPT ![j].queued = @ - 1, ![j].ended = @ + 1]
    /\ \E how \in {"failed", "completed"} :
         IF how = "completed" THEN InsertJob("summary", j, jobs[j].level)
         ELSE IF jobs[j].level < MaxRepairs THEN InsertJob("repair", j, jobs[j].level + 1)
         ELSE UNCHANGED jobs
    /\ UNCHANGED <<eventVars, setting, enqueue, worker, chat>>

-----------------------------------------------------------------------------
(* run_chat_worker.                                                        *)

\* Whether the job is about the preview whose log is followed.
Followed(j) == jobs[j].of = NoJob

At(w, l) == pc[w] = l /\ Idle(w) /\ outcome[w] = "none"

Goto(w, l) == pc' = [pc EXCEPT ![w] = l] /\ UNCHANGED <<serves, candidates, marked>>

Return(w) ==
    /\ pc' = [pc EXCEPT ![w] = "idle"]
    /\ serves' = [serves EXCEPT ![w] = NoJob]
    /\ candidates' = [candidates EXCEPT ![w] = {}]
    /\ marked' = [marked EXCEPT ![w] = FALSE]

\* Only what was never claimed can be: an abandoned job stays so.
ClaimableOnce(j) == jobs[j].status = "queued"

\* Claims are not counted.
ClaimableAlways(j) == jobs[j].status = "queued" \/ (jobs[j].status = "running" /\ ~jobs[j].leased)

Claimable(j) ==
    /\ jobs[j].claims < MaxClaims
    /\ jobs[j].status = "queued" \/ (jobs[j].status = "running" /\ ~jobs[j].leased)

Active(kind) == {j \in Job : jobs[j].kind = kind /\ jobs[j].status = "running" /\ jobs[j].leased}

\* claim_run_job reads the active leases and the candidates of a type, repairs
\* first.
SelectCandidates(w) ==
    /\ At(w, "idle") /\ MayStart(w)
    /\ LET found(kind) == {j \in Job : /\ jobs[j].kind = kind /\ Claimable(j)
                                       /\ Cardinality(Active(kind)) < ActiveLimit}
           kind == IF found("repair") # {} THEN "repair" ELSE "summary"
       IN /\ found(kind) # {}
          /\ candidates' = [candidates EXCEPT ![w] = found(kind)]
    /\ pc' = [pc EXCEPT ![w] = "lock"]
    /\ UNCHANGED <<eventVars, setting, enqueue, queue, serves, marked, chat>>

\* The row of a job that is claimed.
Leased(j, w) == [jobs[j] EXCEPT !.status = "running", !.claims = @ + 1, !.owner = w, !.leased = TRUE]

\* The oldest of them that can be locked and is still claimable, if there is one.
ClaimRunJob(w) ==
    /\ At(w, "lock")
    /\ LET open == {j \in candidates[w] : Claimable(j)}
       IN IF open = {} THEN Return(w) /\ UNCHANGED jobs
          ELSE \E j \in open :
                 /\ \A i \in open : j <= i
                 /\ jobs' = [jobs EXCEPT ![j] = Leased(j, w)]
                 /\ serves' = [serves EXCEPT ![w] = j]
                 /\ candidates' = [candidates EXCEPT ![w] = {}]
                 /\ pc' = [pc EXCEPT ![w] = IF jobs[j].kind = "summary" THEN "look" ELSE "started"]
                 /\ UNCHANGED marked
    /\ UNCHANGED <<eventVars, setting, enqueue, repaired, chat>>

\* complete_run_job: by id, whoever holds the lease and whatever the status.
CompleteRunJob(w, status) ==
    /\ jobs' = [jobs EXCEPT ![serves[w]].status = status, ![serves[w]].owner = Nobody,
                            ![serves[w]].leased = FALSE]
    /\ Return(w)
    /\ UNCHANGED <<eventVars, setting, enqueue, repaired, chat>>

Complete(w) == At(w, "complete") /\ CompleteRunJob(w, "completed")
FailJob(w)  == At(w, "failJob") /\ CompleteRunJob(w, "failed")

LeaseExpires(j) ==
    /\ jobs[j].leased
    /\ "expiry" \in faults \/ serves[jobs[j].owner] # j
    /\ jobs' = [jobs EXCEPT ![j].leased = FALSE]
    /\ UNCHANGED <<eventVars, setting, enqueue, repaired, worker, chat>>

-----------------------------------------------------------------------------
(* Events of the job's run, and their mirrors in the log of the chat run.  *)

\* What each statement appends, and where it goes on.
EventAt(w) ==
    CASE pc[w] = "started"      -> "repair.started"
      [] pc[w] = "repairFailed" -> "repair.failed"
      [] pc[w] = "event"        -> IF jobs[serves[w]].kind = "summary" THEN "summary.completed"
                                   ELSE "repair.completed"
      [] pc[w] = "autoFailed"   -> "chain.failed"

MirrorOf  == [started |-> "startedMirror", repairFailed |-> "repairFailedMirror",
              event |-> "eventMirror", autoFailed |-> "autoFailedMirror"]
EventPcs  == DOMAIN MirrorOf

BeginEvent(w) ==
    /\ pc[w] \in EventPcs /\ At(w, pc[w])
    /\ IF Followed(serves[w])
       THEN BeginAppend(w, EventAt(w)) /\ UNCHANGED <<worker, queue>>
       ELSE /\ Goto(w, MirrorOf[pc[w]])
            /\ jobs' = [jobs EXCEPT ![serves[w]].marked = @ \/ pc[w] = "event"]
            /\ UNCHANGED <<eventVars, repaired>>
    /\ UNCHANGED <<setting, enqueue, chat>>

\* An append that raises is caught like any other error, but for the event of the
\* failure itself: that one ends the process.
EventEnds(w) ==
    /\ pc[w] \in EventPcs /\ Idle(w) /\ outcome[w] # "none"
    /\ outcome' = [outcome EXCEPT ![w] = "none"]
    /\ IF outcome[w] = "appended" THEN Goto(w, MirrorOf[pc[w]])
       ELSE IF pc[w] = "autoFailed" THEN Return(w)
       ELSE Goto(w, "autoFailed")
    /\ UNCHANGED <<log, rowLock, pending, phase, base, tries, reading>>
    /\ UNCHANGED <<setting, enqueue, queue, chat>>

MirrorEvent(w) ==
    /\ \E event \in EventPcs :
         /\ At(w, MirrorOf[event])
         /\ sourceLog' = sourceLog \cup
              {CASE event = "started"      -> "repair.started"
                 [] event = "repairFailed" -> "repair.failed"
                 [] event = "autoFailed"   -> "chain.failed"
                 [] OTHER -> IF jobs[serves[w]].kind = "summary" THEN "summary.completed"
                             ELSE "repair.completed"}
         /\ Goto(w, CASE event = "started"      -> "model"
                      [] event = "autoFailed"   -> "failJob"
                      [] event = "event" /\ jobs[serves[w]].kind = "repair" -> "waiting"
                      [] OTHER                  -> "complete")
    /\ UNCHANGED <<eventVars, setting, enqueue, queue, posted>>

-----------------------------------------------------------------------------
(* _process_backtest_summary_job.                                          *)

\* A summary whose event is found is taken for complete.
LookForSummaryAndStop(w) ==
    /\ At(w, "look")
    /\ LET found == IF Followed(serves[w]) THEN Logged("summary.completed") ELSE jobs[serves[w]].marked
       IN /\ marked' = [marked EXCEPT ![w] = found]
          /\ pc' = [pc EXCEPT ![w] = IF found THEN "complete" ELSE "post"]
    /\ UNCHANGED <<eventVars, setting, enqueue, queue, serves, candidates, chat>>

\* _has_completed_summary_event.
LookForSummary(w) ==
    /\ At(w, "look")
    /\ marked' = [marked EXCEPT ![w] = IF Followed(serves[w]) THEN Logged("summary.completed")
                                       ELSE jobs[serves[w]].marked]
    /\ pc' = [pc EXCEPT ![w] = "post"]
    /\ UNCHANGED <<eventVars, setting, enqueue, queue, serves, candidates, chat>>

\* create_message, unless the event was found.
PostSummary(w) ==
    /\ At(w, "post")
    /\ posted' = [posted EXCEPT ![serves[w]] = IF marked[w] THEN @ ELSE @ + 1]
    /\ Goto(w, "event")
    /\ UNCHANGED <<eventVars, setting, enqueue, queue, sourceLog>>

-----------------------------------------------------------------------------
(* process_preview_compatibility_repair_job.                               *)

\* The model's script is there and valid, or it is not.
AskModel(w) ==
    /\ At(w, "model")
    /\ \E next \in {"createRun", "repairFailed"} : Goto(w, next)
    /\ UNCHANGED <<eventVars, setting, enqueue, queue, chat>>

\* create_run(status="queued"); the specification of the strategy follows.
CreateRepairedRun(w) ==
    /\ At(w, "createRun")
    /\ repaired' = [repaired EXCEPT ![serves[w]].bare = @ + 1]
    /\ Goto(w, "createJob")
    /\ UNCHANGED <<eventVars, setting, enqueue, jobs, chat>>

\* create_run_job, for the run this worker created.
CreateRepairedJob(w) ==
    /\ At(w, "createJob")
    /\ repaired' = [repaired EXCEPT ![serves[w]].bare = @ - 1, ![serves[w]].queued = @ + 1]
    /\ Goto(w, "event")
    /\ UNCHANGED <<eventVars, setting, enqueue, jobs, chat>>

\* backtest.queued in the log of the new run and, for the chain, waiting in the
\* chat run's.
AppendWaiting(w) ==
    /\ At(w, "waiting")
    /\ sourceLog' = sourceLog \cup {"chain.waiting"}
    /\ Goto(w, "complete")
    /\ UNCHANGED <<eventVars, setting, enqueue, queue, posted>>

-----------------------------------------------------------------------------
(* Failures.                                                               *)

FailurePcs == {"autoFailed", "autoFailedMirror", "failJob"}

\* The job is failed without a report.
RaiseSilently(w) ==
    /\ "error" \in faults
    /\ At(w, pc[w]) /\ pc[w] \notin {"idle", "lock"} \cup FailurePcs
    /\ Goto(w, "failJob")
    /\ UNCHANGED <<eventVars, setting, enqueue, queue, chat>>

\* A statement of the job raises: the failure branch reports it.
Raise(w) ==
    /\ "error" \in faults
    /\ At(w, pc[w]) /\ pc[w] \notin {"idle", "lock"} \cup FailurePcs
    /\ Goto(w, "autoFailed")
    /\ UNCHANGED <<eventVars, setting, enqueue, queue, chat>>

\* The process ends in the middle of a job, by a crash or because the failure
\* branch raised; it is started again.  One that dies in a claim leaves no trace.
Crash(w) ==
    /\ \/ "crash" \in faults /\ pc[w] \notin {"idle", "lock"}
       \/ "error" \in faults /\ pc[w] \in FailurePcs
    /\ AbortAppend(w)
    /\ Return(w)
    /\ UNCHANGED <<setting, enqueue, queue, chat>>

-----------------------------------------------------------------------------
WorkStep(w) ==
    \/ SelectCandidates(w) \/ ClaimRunJob(w) \/ Complete(w) \/ FailJob(w)
    \/ BeginEvent(w) \/ EventEnds(w) \/ MirrorEvent(w) \/ LookForSummary(w) \/ PostSummary(w)
    \/ AskModel(w) \/ CreateRepairedRun(w) \/ CreateRepairedJob(w) \/ AppendWaiting(w)

LogStep(a) == AppendStep(a) /\ UNCHANGED <<enqueue, queue, worker, chat>>

ReadStep(r) == "read" \in faults /\ Read(r) /\ UNCHANGED <<enqueue, queue, worker, chat>>

Next ==
    /\ \/ \E b \in BacktestWorker : PublishEnd(b) \/ Publish(b, "run.progress")
                                      \/ LookForJob(b) \/ Enqueue(b)
       \/ \E a \in Appender : LogStep(a)
       \/ \E r \in Reader : ReadStep(r) \/ ("read" \in faults /\ ReadSnapshot(r) /\ UNCHANGED <<enqueue, queue, worker, chat>>)
       \/ \E w \in ChatWorker : WorkStep(w) \/ Raise(w) \/ Crash(w)
       \/ \E j \in Job : LeaseExpires(j) \/ RepairedPreviewEnds(j)
    /\ UNCHANGED setting

\* Processes go on with what they do, statements end, time passes and clients read.
\* A preview need not end and a client need not lose its connection.
Fairness ==
    /\ \A w \in ChatWorker : WF_moving(WorkStep(w))
    /\ \A a \in Appender : WF_moving(LogStep(a))
    /\ \A j \in Job : WF_moving(LeaseExpires(j))
    /\ \A r \in Reader : WF_moving(ReadStep(r))

Spec == Init /\ [][Next]_vars /\ Fairness

-----------------------------------------------------------------------------
(* What is true of every behaviour.                                        *)

TypeOK ==
    /\ EventsTypeOK
    /\ \A j \in Job : /\ jobs[j].kind \in Kinds /\ jobs[j].level \in Level
                      /\ jobs[j].status \in {"absent", "queued", "running", "completed", "failed"}
                      /\ jobs[j].claims \in 0 .. MaxClaims
                      /\ jobs[j].owner \in ChatWorker \cup {Nobody}
                      /\ jobs[j].leased => jobs[j].status = "running"
    /\ repaired \in [Job -> [bare : Nat, queued : Nat, ended : Nat]]
    /\ serves \in [ChatWorker -> Job \cup {NoJob}]
    /\ posted \in [Job -> Nat]

\* The events of a run are numbered without gap or repetition, and a client that
\* resumes after the last event it received has missed none, although locked and
\* unlocked appends, deadlocks, rollbacks and retries meet in the log.
LogIsSound == LogIsGapless /\ NothingIsMissed

IsMarked(j) == IF Followed(j) THEN Logged("summary.completed") ELSE jobs[j].marked

Posted(j) == posted[j] > 0

\* The summary event of a preview and a completed summary job mean that the message
\* of such a job is in the conversation; a job posts at most once per claim; and if
\* processes neither die, fail, stall nor meet, one job posts it, once - although
\* whoever completes the preview enqueues a job, and whoever fails one, tries again.
SummaryIsPosted ==
    /\ \A j \in Job : jobs[j].kind = "summary" /\ jobs[j].status = "completed" =>
          IsMarked(j) /\ "summary.completed" \in sourceLog
    /\ \A j \in Job : jobs[j].kind = "summary" /\ ~Followed(j) /\ jobs[j].marked => Posted(j)
    /\ Logged("summary.completed") => \E j \in Job : Followed(j) /\ Posted(j)
    /\ \A j \in Job : posted[j] <= jobs[j].claims
    /\ faults = {} => \A i, j \in Job : Posted(i) /\ Posted(j) => i = j /\ posted[j] = 1

\* The cascade of repairs and previews is finite: a repair job queues a preview for
\* each of its claims at most, and the repairs of repairs end at the limit.  What
\* the log announces as repaired is queued, and what failed is reported in both.
RepairsAreBounded ==
    /\ \A j \in Job : repaired[j].bare + repaired[j].queued + repaired[j].ended <= jobs[j].claims
    /\ Logged("repair.completed") => \E j \in Job : Followed(j) /\ repaired[j].queued + repaired[j].ended > 0
    /\ \A j \in Job : jobs[j].status = "failed" =>
          "chain.failed" \in sourceLog /\ (Followed(j) => Logged("chain.failed"))

\* A chat job is at rest: finished, or spent.
Settled(j) ==
    /\ ~jobs[j].leased
    /\ jobs[j].status \in {"queued", "running"} => jobs[j].claims = MaxClaims

\* Every chat job is settled, and every client that goes on reading has all events.
ChatSettles ==
    <>[](/\ \A j \in Job : Settled(j)
         /\ "read" \in faults => \A r \in Reader : received[r] = log)
=============================================================================
