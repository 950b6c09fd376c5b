--------------------------- MODULE RunJobsProofs ---------------------------
(***************************************************************************)
(* The invariants of RunJobs, for every set of runs and of workers, every  *)
(* bound on the attempts and every set of faults.  Only CreateRunJob and   *)
(* the guards of the worker loop are needed: no fairness, no bound on the  *)
(* number of leases.                                                       *)
(*                                                                         *)
(* Each property is made inductive with what the code knows at a program   *)
(* counter: TypeInv ties a busy process to a job row, FreshInv,            *)
(* PublishInv and GiveUpInv say what a process has established by the time *)
(* it publishes or gives up.  CancelInv, last, says what a cancellation    *)
(* has brought about by the time it announces itself.                      *)
(***************************************************************************)
EXTENDS RunJobs, TLAPS

Busy(w) == pc[w] \notin LoopPcs

ProcessShape ==
    \A w \in Worker :
        /\ Busy(w) => serves[w] \in Run /\ attempt[w] \in Attempt
        /\ serves[w] \in Run => Busy(w) /\ jobStatus[serves[w]] # "absent"

RowShape ==
    \A r \in Run :
        /\ submit[r] = "none" => run[r] = "absent"
        /\ submit[r] # "accepted" => jobStatus[r] = "absent"
        /\ cancel[r] # "none" => submit[r] # "none"
        /\ cancel[r] \in {"updateQueued", "updateRunning"} => jobStatus[r] # "absent"

TypeInv == TypeOK /\ ProcessShape /\ RowShape

\* The artifacts of the attempt at work are not inserted yet.
FreshInv ==
    \A w \in Worker :
        pc[w] \in CheckPcs \cup ExecutePcs \cup {"persist"}
            => artifacts[<<serves[w], attempt[w]>>] = 0

\* A process that marks its run as completed has written the report.
PublishInv ==
    \A w \in Worker :
        pc[w] \in {"complete", "finish", "event", "enqueue"} => report[serves[w]]

\* A process that gives up was given the last attempt.
GiveUpInv ==
    \A w \in Worker :
        pc[w] \in {"failJob", "failRun", "failEvent", "repair"} => attempt[w] = MaxAttempts

-----------------------------------------------------------------------------
(* Types, and the shape of the rows and of the processes.                  *)

\* No process is busy and no row exists at the start.
LEMMA TypeInit == Init => TypeInv
  BY RunJobsAssumption DEF Init, TypeInv, TypeOK, ProcessShape, RowShape, Busy,
     RunStatus, TerminalRunStatuses, Attempt, LoopPcs, CheckPcs, ExecutePcs,
     PublishPcs, FailPcs

\* Every statement of a handler or of a worker keeps types and shape: a claim is the
\* only step that counts an attempt, and it tested attempts < max_attempts.
LEMMA TypeStep ==
    ASSUME TypeInv, [Next]_vars
    PROVE  TypeInv'
<1> USE RunJobsAssumption DEF TypeInv, TypeOK, ProcessShape, RowShape, Busy,
   RunStatus, TerminalRunStatuses, Attempt, LoopPcs, CheckPcs, ExecutePcs,
   PublishPcs, FailPcs
<1>1. ASSUME NEW r \in Run, CreateRun(r) PROVE TypeInv'
  BY <1>1 DEF CreateRun, SetRunStatus, jobRow, process, results
<1>2. ASSUME NEW r \in Run, CreateRunJob(r) PROVE TypeInv'
  BY <1>2 DEF CreateRunJob, process, results
<1>3. ASSUME NEW r \in Run, RejectRun(r) PROVE TypeInv'
  BY <1>3 DEF RejectRun, jobRow, process, results
<1>4. ASSUME NEW r \in Run, CancelGetRun(r) PROVE TypeInv'
  BY <1>4 DEF CancelGetRun, jobRow, process, results
<1>5. ASSUME NEW r \in Run, CancelSetRunStatus(r) PROVE TypeInv'
  BY <1>5 DEF CancelSetRunStatus, SetRunStatus, jobRow, process, results
<1>6. ASSUME NEW r \in Run, CancelSelectJobs(r) PROVE TypeInv'
  BY <1>6 DEF CancelSelectJobs, jobRow, process, results
<1>7. ASSUME NEW r \in Run, CancelUpdateJobs(r) PROVE TypeInv'
  <2>1. cancel' = [cancel EXCEPT ![r] = "event"] /\ UNCHANGED <<run, results, process, submit>>
    BY <1>7 DEF CancelUpdateJobs
  <2>2. CASE /\ cancel[r] = "updateQueued"
            /\ jobStatus' = [jobStatus EXCEPT ![r] = "cancelled"]
            /\ UNCHANGED <<attempts, leaseOwner, leasedUntil>>
    BY <2>1, <2>2 DEF results, process
  <2>3. CASE cancel[r] = "updateRunning" /\ SetJobStatus(r, "cancelled")
    BY <2>1, <2>3 DEF SetJobStatus, results, process
  <2> QED
    BY <1>7, <2>2, <2>3 DEF CancelUpdateJobs
<1>8. ASSUME NEW r \in Run, CancelAppendEvent(r) PROVE TypeInv'
  BY <1>8 DEF CancelAppendEvent, AppendEvent, jobRow, process
<1>9. ASSUME NEW r \in Run, CancelAbandoned(r) PROVE TypeInv'
  BY <1>9 DEF CancelAbandoned, jobRow, process, results
<1>10. ASSUME NEW r \in Run, LeaseExpires(r) PROVE TypeInv'
  BY <1>10 DEF LeaseExpires, api, process, results
<1>11. ASSUME NEW w \in Worker, ClaimSnapshot(w) PROVE TypeInv'
  BY <1>11 DEF ClaimSnapshot, Claimable, WithinLimits, At, api, jobRow, results
<1>12. ASSUME NEW w \in Worker, ClaimJob(w) PROVE TypeInv'
  BY <1>12 DEF ClaimJob, Claimable, At, api, results
<1>13. ASSUME NEW w \in Worker, ClaimNothing(w) PROVE TypeInv'
  BY <1>13 DEF ClaimNothing, Claimable, At, Return, api, jobRow, results
<1>14. ASSUME NEW w \in Worker, CheckRun(w) PROVE TypeInv'
  BY <1>14 DEF CheckRun, At, Goto, api, jobRow, results
<1>15. ASSUME NEW w \in Worker, CompleteJobCancelled(w) PROVE TypeInv'
  BY <1>15 DEF CompleteJobCancelled, SetJobStatus, At, Return, api, results
<1>16. ASSUME NEW w \in Worker, StartRun(w) PROVE TypeInv'
  BY <1>16 DEF StartRun, SetRunStatus, At, api, jobRow, results
<1>17. ASSUME NEW w \in Worker, Heartbeat(w) PROVE TypeInv'
  <2>1. At(w, "exec") /\ UNCHANGED <<pc, serves, attempt, seen, errorCode, run, results, api>>
    BY <1>17 DEF Heartbeat
  <2>2. CASE HoldsLease(w, serves[w]) /\ Renew(serves[w]) /\ UNCHANGED heartbeat
    BY <2>1, <2>2 DEF HoldsLease, Renew, At, results, api
  <2>3. CASE heartbeat' = [heartbeat EXCEPT ![w] = "lost"] /\ UNCHANGED jobRow
    BY <2>1, <2>3 DEF jobRow, results, api
  <2> QED
    BY <1>17, <2>2, <2>3 DEF Heartbeat
<1>18. ASSUME NEW w \in Worker, FinishExecution(w) PROVE TypeInv'
  <2>1. At(w, "exec") /\ UNCHANGED <<run, jobRow, results, api>>
    BY <1>18 DEF FinishExecution
  <2>2. CASE /\ pc' = [pc EXCEPT ![w] = "renew"]
            /\ heartbeat' = [heartbeat EXCEPT ![w] = "off"]
            /\ UNCHANGED <<serves, attempt, seen, errorCode>>
    BY <2>1, <2>2 DEF At, jobRow, results, api
  <2>3. CASE Return(w)
    BY <2>1, <2>3 DEF At, Return, jobRow, results, api
  <2> QED
    BY <1>18, <2>2, <2>3 DEF FinishExecution
<1>19. ASSUME NEW w \in Worker, FailExecution(w) PROVE TypeInv'
  BY <1>19 DEF FailExecution, At, Reject, api, jobRow, results
<1>20. ASSUME NEW w \in Worker, RenewLease(w) PROVE TypeInv'
  <2>1. At(w, "renew") /\ UNCHANGED <<run, results, api>>
    BY <1>20 DEF RenewLease
  <2>2. CASE HoldsLease(w, serves[w]) /\ Renew(serves[w]) /\ Goto(w, "recheck")
    BY <2>1, <2>2 DEF HoldsLease, Renew, At, Goto, results, api
  <2>3. CASE Return(w) /\ UNCHANGED jobRow
    BY <2>1, <2>3 DEF At, Return, jobRow, results, api
  <2> QED
    BY <1>20, <2>2, <2>3 DEF RenewLease
<1>21. ASSUME NEW w \in Worker, RecheckRun(w) PROVE TypeInv'
  BY <1>21 DEF RecheckRun, At, Goto, api, jobRow, results
<1>22. ASSUME NEW w \in Worker, PersistArtifacts(w) PROVE TypeInv'
  BY <1>22 DEF PersistArtifacts, At, Goto, api, jobRow
<1>23. ASSUME NEW w \in Worker, PersistIndexes(w) PROVE TypeInv'
  <2>1. report' \in [Run -> BOOLEAN]
    BY <1>23, Zenon DEF PersistIndexes
  <2> QED
    BY <1>23, <2>1 DEF PersistIndexes, At, Goto, api, jobRow
<1>24. ASSUME NEW w \in Worker, CompleteJob(w) PROVE TypeInv'
  BY <1>24, SMTT(20) DEF CompleteJob, SetJobStatus, At, Goto, api, results
<1>25. ASSUME NEW w \in Worker, FinishRun(w) PROVE TypeInv'
  BY <1>25 DEF FinishRun, SetRunStatus, At, Goto, api, jobRow, results
<1>26. ASSUME NEW w \in Worker, AppendRunCompleted(w) PROVE TypeInv'
  BY <1>26 DEF AppendRunCompleted, AppendEvent, At, Goto, api, jobRow
<1>27. ASSUME NEW w \in Worker, EnqueueSummary(w) PROVE TypeInv'
  BY <1>27 DEF EnqueueSummary, At, Return, api, jobRow
<1>28. ASSUME NEW w \in Worker, Throw(w) PROVE TypeInv'
  BY <1>28 DEF Throw, Reject, api, jobRow, results
<1>29. ASSUME NEW w \in Worker, DecideRetry(w) PROVE TypeInv'
  BY <1>29 DEF DecideRetry, At, Goto, api, jobRow, results
<1>30. ASSUME NEW w \in Worker, RequeueJob(w) PROVE TypeInv'
  BY <1>30 DEF RequeueJob, SetJobStatus, At, Goto, api, results
<1>31. ASSUME NEW w \in Worker, RequeueRun(w) PROVE TypeInv'
  BY <1>31 DEF RequeueRun, SetRunStatus, At, Return, api, jobRow, results
<1>32. ASSUME NEW w \in Worker, FailJob(w) PROVE TypeInv'
  BY <1>32, SMTT(20) DEF FailJob, SetJobStatus, At, Goto, api, results
<1>33. ASSUME NEW w \in Worker, FailRun(w) PROVE TypeInv'
  BY <1>33 DEF FailRun, SetRunStatus, At, Goto, api, jobRow, results
<1>34. ASSUME NEW w \in Worker, AppendRunFailed(w) PROVE TypeInv'
  BY <1>34 DEF AppendRunFailed, AppendEvent, At, Goto, api, jobRow
<1>35. ASSUME NEW w \in Worker, EnqueueRepair(w) PROVE TypeInv'
  <2>1. PICK S \in SUBSET {"repair"} : followUp' = [followUp EXCEPT ![serves[w]] = @ \cup S]
    BY <1>35 DEF EnqueueRepair
  <2>2. followUp' \in [Run -> SUBSET {"summary", "repair"}]
    BY <2>1
  <2> QED
    BY <1>35, <2>2 DEF EnqueueRepair, At, Return, api, jobRow
<1>36. ASSUME NEW w \in Worker, Crash(w) PROVE TypeInv'
  BY <1>36 DEF Crash, Return, api, jobRow, results
<1>37. CASE UNCHANGED vars
  BY <1>37 DEF vars, state, jobRow, results, process, api
<1> QED
  BY <1>1, <1>2, <1>3, <1>4, <1>5, <1>6, <1>7, <1>8, <1>9, <1>10, <1>11, <1>12,
     <1>13, <1>14, <1>15, <1>16, <1>17, <1>18, <1>19, <1>20, <1>21, <1>22, <1>23,
     <1>24, <1>25, <1>26, <1>27, <1>28, <1>29, <1>30, <1>31, <1>32, <1>33, <1>34,
     <1>35, <1>36, <1>37 DEF Next, SubmitStep, CancelStep, ClaimStep, ProcessStep,
     FailStep

-----------------------------------------------------------------------------
(* The safety invariants, one lemma for each.                              *)

\* A claim hands out attempts + 1, which no process has; the other steps keep the
\* count, and end a lease or a process's work on the job.
LEMMA TokensStep ==
    ASSUME TypeInv, TypeInv', AttemptsAreTokens, [Next]_vars
    PROVE  AttemptsAreTokens'
<1> USE RunJobsAssumption DEF TypeInv, TypeOK, ProcessShape, Busy, Attempt, LoopPcs,
   CheckPcs, ExecutePcs, PublishPcs, FailPcs, AttemptsAreTokens
<1>1. ASSUME NEW w \in Worker, ClaimJob(w) PROVE AttemptsAreTokens'
  BY <1>1 DEF ClaimJob, Claimable, At, api, results
<1>2. ASSUME NEW r \in Run, CreateRunJob(r) PROVE AttemptsAreTokens'
  BY <1>2 DEF CreateRunJob, process, results
<1>3. ASSUME NEW r \in Run, CancelUpdateJobs(r) PROVE AttemptsAreTokens'
  BY <1>3 DEF CancelUpdateJobs, SetJobStatus, process, results
<1>4. ASSUME NEW w \in Worker, CompleteJobCancelled(w) PROVE AttemptsAreTokens'
  BY <1>4 DEF CompleteJobCancelled, SetJobStatus, At, Return, api, results
<1>5. ASSUME NEW w \in Worker,
             CompleteJob(w) \/ RequeueJob(w) \/ FailJob(w)
      PROVE  AttemptsAreTokens'
  BY <1>5 DEF CompleteJob, RequeueJob, FailJob, SetJobStatus, At, Goto, api, results
<1>11. ASSUME NEW w \in Worker, Return(w), UNCHANGED jobRow PROVE AttemptsAreTokens'
  <2>1. serves' = [serves EXCEPT ![w] = NoRun] /\ attempt' = [attempt EXCEPT ![w] = 0]
    BY <1>11 DEF Return
  <2>2. UNCHANGED <<jobStatus, attempts, leaseOwner>>
    BY <1>11 DEF jobRow
  <2> QED
    BY <2>1, <2>2
<1>6. ASSUME NEW w \in Worker,
             ClaimNothing(w) \/ FinishExecution(w) \/ EnqueueSummary(w) \/
                RequeueRun(w) \/ EnqueueRepair(w) \/ Crash(w)
      PROVE  AttemptsAreTokens'
  <2>1. UNCHANGED jobRow /\ (Return(w) \/ UNCHANGED <<serves, attempt>>)
    BY <1>6 DEF ClaimNothing, FinishExecution, EnqueueSummary, RequeueRun,
       EnqueueRepair, Crash
  <2>2. CASE UNCHANGED <<serves, attempt>>
    BY <2>1, <2>2 DEF jobRow
  <2> QED
    BY <1>11, <2>1, <2>2
<1>7. ASSUME NEW w \in Worker, Heartbeat(w) \/ RenewLease(w) PROVE AttemptsAreTokens'
  BY <1>7 DEF Heartbeat, RenewLease, HoldsLease, Renew, At, api, jobRow, results,
     Goto, Return
<1>8. ASSUME NEW r \in Run,
             CreateRun(r) \/ RejectRun(r) \/ CancelGetRun(r) \/
                CancelSetRunStatus(r) \/ CancelSelectJobs(r) \/ CancelAppendEvent(r)
                \/ CancelAbandoned(r) \/ LeaseExpires(r)
      PROVE  AttemptsAreTokens'
  BY <1>8 DEF CreateRun, RejectRun, CancelGetRun, CancelSetRunStatus,
     CancelSelectJobs, CancelAppendEvent, CancelAbandoned, LeaseExpires,
     SetRunStatus, jobRow, process, results, AppendEvent, api
<1>9. ASSUME NEW w \in Worker,
             ClaimSnapshot(w) \/ CheckRun(w) \/ StartRun(w) \/ FailExecution(w) \/
                RecheckRun(w) \/ PersistArtifacts(w) \/ PersistIndexes(w) \/
                FinishRun(w) \/ AppendRunCompleted(w) \/ Throw(w) \/ DecideRetry(w)
                \/ FailRun(w) \/ AppendRunFailed(w)
      PROVE  AttemptsAreTokens'
  BY <1>9 DEF ClaimSnapshot, CheckRun, StartRun, FailExecution, RecheckRun,
     PersistArtifacts, PersistIndexes, FinishRun, AppendRunCompleted, Throw,
     DecideRetry, FailRun, AppendRunFailed, Claimable, WithinLimits, At, api,
     jobRow, results, Goto, SetRunStatus, Reject, AppendEvent
<1>10. CASE UNCHANGED vars
  BY <1>10 DEF vars, state, jobRow, results, process, api
<1> QED
  BY <1>1, <1>2, <1>3, <1>4, <1>5, <1>6, <1>7, <1>8, <1>9, <1>10, <1>11 DEF
     Next, SubmitStep, CancelStep, ClaimStep, ProcessStep, FailStep

\* No artifact has the number of a new attempt, and the processes that share a run
\* insert under different numbers.
LEMMA FreshStep ==
    ASSUME TypeInv, TypeInv', AttemptsAreTokens, ArtifactsOncePerAttempt, FreshInv, [Next]_vars
    PROVE  (FreshInv /\ ArtifactsOncePerAttempt)'
<1> USE RunJobsAssumption DEF TypeInv, TypeOK, ProcessShape, Busy, Attempt, LoopPcs,
   CheckPcs, ExecutePcs, PublishPcs, FailPcs, AttemptsAreTokens, FreshInv,
   ArtifactsOncePerAttempt
<1>1. ASSUME NEW w \in Worker,
             ClaimJob(w)
      PROVE  (FreshInv /\ ArtifactsOncePerAttempt)'
  BY <1>1 DEF ClaimJob, Claimable, At, api, results
<1>2. ASSUME NEW w \in Worker,
             PersistArtifacts(w)
      PROVE  (FreshInv /\ ArtifactsOncePerAttempt)'
  BY <1>2 DEF PersistArtifacts, At, Goto, api, jobRow
<1>3. ASSUME NEW w \in Worker,
             CheckRun(w) \/ StartRun(w) \/ RecheckRun(w)
      PROVE  (FreshInv /\ ArtifactsOncePerAttempt)'
  BY <1>3 DEF CheckRun, StartRun, RecheckRun, At, Goto, api, jobRow, results,
     SetRunStatus
<1>4. ASSUME NEW w \in Worker,
             Heartbeat(w) \/ FinishExecution(w) \/ RenewLease(w)
      PROVE  (FreshInv /\ ArtifactsOncePerAttempt)'
  BY <1>4 DEF Heartbeat, FinishExecution, RenewLease, HoldsLease, Renew, At, api,
     jobRow, results, Return, Goto
<1>10. ASSUME NEW w \in Worker, UNCHANGED <<attempts, artifacts>>,
              Return(w) \/ UNCHANGED <<serves, attempt, pc>>
                 \/ (pc' = [pc EXCEPT ![w] = "claim"] /\ UNCHANGED <<serves, attempt>>)
      PROVE  (FreshInv /\ ArtifactsOncePerAttempt)'
  <2>1. ArtifactsOncePerAttempt'
    BY <1>10
  <2>2. FreshInv'
    BY <1>10 DEF Return
  <2> QED
    BY <2>1, <2>2
<1>5. ASSUME NEW w \in Worker,
             ClaimSnapshot(w) \/ ClaimNothing(w) \/ CompleteJobCancelled(w) \/
                EnqueueSummary(w) \/ RequeueRun(w) \/ EnqueueRepair(w) \/ Crash(w)
      PROVE  (FreshInv /\ ArtifactsOncePerAttempt)'
  <2>1. CASE ClaimSnapshot(w)
    BY <1>10, <2>1 DEF ClaimSnapshot, jobRow, results
  <2>2. CASE CompleteJobCancelled(w)
    BY <1>10, <2>2 DEF CompleteJobCancelled, SetJobStatus, results
  <2>3. CASE ClaimNothing(w) \/ EnqueueSummary(w) \/ RequeueRun(w) \/ EnqueueRepair(w) \/ Crash(w)
    BY <1>10, <2>3 DEF ClaimNothing, EnqueueSummary, RequeueRun, EnqueueRepair,
       Crash, jobRow, results
  <2> QED
    BY <1>5, <2>1, <2>2, <2>3
<1>6. ASSUME NEW w \in Worker,
             FailExecution(w) \/ Throw(w)
      PROVE  (FreshInv /\ ArtifactsOncePerAttempt)'
  BY <1>6 DEF FailExecution, Throw, At, Reject, api, jobRow, results
<1>7. ASSUME NEW r \in Run,
             CreateRun(r) \/ CreateRunJob(r) \/ RejectRun(r) \/ CancelGetRun(r) \/
                CancelSetRunStatus(r) \/ CancelSelectJobs(r) \/ CancelUpdateJobs(r)
                \/ CancelAppendEvent(r) \/ CancelAbandoned(r) \/ LeaseExpires(r)
      PROVE  (FreshInv /\ ArtifactsOncePerAttempt)'
  BY <1>7 DEF CreateRun, CreateRunJob, RejectRun, CancelGetRun, CancelSetRunStatus,
     CancelSelectJobs, CancelUpdateJobs, CancelAppendEvent, CancelAbandoned,
     LeaseExpires, SetRunStatus, jobRow, process, results, SetJobStatus,
     AppendEvent, api
<1>8. ASSUME NEW w \in Worker,
             PersistIndexes(w) \/ CompleteJob(w) \/ FinishRun(w) \/
                AppendRunCompleted(w) \/ DecideRetry(w) \/ RequeueJob(w) \/
                FailJob(w) \/ FailRun(w) \/ AppendRunFailed(w)
      PROVE  (FreshInv /\ ArtifactsOncePerAttempt)'
  BY <1>8 DEF PersistIndexes, CompleteJob, FinishRun, AppendRunCompleted,
     DecideRetry, RequeueJob, FailJob, FailRun, AppendRunFailed, At, Goto, api,
     jobRow, SetJobStatus, results, SetRunStatus, AppendEvent
<1>9. CASE UNCHANGED vars
  BY <1>9 DEF vars, state, jobRow, results, process, api
<1> QED
  BY <1>1, <1>2, <1>3, <1>4, <1>5, <1>6, <1>7, <1>8, <1>9, <1>10 DEF Next,
     SubmitStep, CancelStep, ClaimStep, ProcessStep, FailStep

\* Reports are never deleted, and what announces success follows persistIndexes.
LEMMA ReportStep ==
    ASSUME TypeInv, SuccessHasReport, PublishInv, [Next]_vars
    PROVE  (PublishInv /\ SuccessHasReport)'
<1> USE RunJobsAssumption DEF TypeInv, TypeOK, ProcessShape, Busy, Attempt, LoopPcs,
   CheckPcs, ExecutePcs, PublishPcs, FailPcs, PublishInv, SuccessHasReport
<1>1. ASSUME NEW r \in Run,
             CreateRun(r) \/ CancelSetRunStatus(r) \/ CancelAppendEvent(r)
      PROVE  (PublishInv /\ SuccessHasReport)'
  BY <1>1 DEF CreateRun, CancelSetRunStatus, CancelAppendEvent, SetRunStatus,
     jobRow, process, results, AppendEvent
<1>2. ASSUME NEW w \in Worker,
             PersistIndexes(w)
      PROVE  (PublishInv /\ SuccessHasReport)'
  BY <1>2 DEF PersistIndexes, At, Goto, api, jobRow
<1>3. ASSUME NEW w \in Worker, CompleteJob(w) PROVE (PublishInv /\ SuccessHasReport)'
  BY <1>3 DEF CompleteJob, SetJobStatus, At, Goto, api, results
<1>4. ASSUME NEW w \in Worker, FinishRun(w) PROVE (PublishInv /\ SuccessHasReport)'
  BY <1>4 DEF FinishRun, SetRunStatus, At, Goto, api, jobRow, results
<1>5. ASSUME NEW w \in Worker,
             AppendRunCompleted(w)
      PROVE  (PublishInv /\ SuccessHasReport)'
  BY <1>5 DEF AppendRunCompleted, AppendEvent, At, Goto, api, jobRow
<1>6. ASSUME NEW w \in Worker,
             EnqueueSummary(w)
      PROVE  (PublishInv /\ SuccessHasReport)'
  BY <1>6 DEF EnqueueSummary, At, Return, api, jobRow
<1>7. ASSUME NEW w \in Worker,
             StartRun(w) \/ RequeueRun(w) \/ FailRun(w)
      PROVE  (PublishInv /\ SuccessHasReport)'
  BY <1>7 DEF StartRun, RequeueRun, FailRun, SetRunStatus, At, api, jobRow, results,
     Return, Goto
<1>8. ASSUME NEW w \in Worker,
             AppendRunFailed(w)
      PROVE  (PublishInv /\ SuccessHasReport)'
  BY <1>8 DEF AppendRunFailed, AppendEvent, At, Goto, api, jobRow
<1>9. ASSUME NEW w \in Worker,
             EnqueueRepair(w)
      PROVE  (PublishInv /\ SuccessHasReport)'
  BY <1>9 DEF EnqueueRepair, At, Return, api, jobRow
<1>10. ASSUME NEW r \in Run,
             CreateRunJob(r) \/ RejectRun(r) \/ CancelGetRun(r) \/
                CancelSelectJobs(r) \/ CancelUpdateJobs(r) \/ CancelAbandoned(r) \/
                LeaseExpires(r)
      PROVE  (PublishInv /\ SuccessHasReport)'
  BY <1>10 DEF CreateRunJob, RejectRun, CancelGetRun, CancelSelectJobs,
     CancelUpdateJobs, CancelAbandoned, LeaseExpires, process, results, jobRow,
     SetJobStatus, api
<1>11. ASSUME NEW w \in Worker,
             ClaimSnapshot(w) \/ ClaimJob(w) \/ ClaimNothing(w) \/ CheckRun(w) \/
                CompleteJobCancelled(w) \/ Heartbeat(w) \/ FinishExecution(w) \/
                FailExecution(w) \/ RenewLease(w) \/ RecheckRun(w) \/
                PersistArtifacts(w) \/ Throw(w) \/ DecideRetry(w) \/ RequeueJob(w)
                \/ FailJob(w) \/ Crash(w)
      PROVE  (PublishInv /\ SuccessHasReport)'
  BY <1>11 DEF ClaimSnapshot, ClaimJob, ClaimNothing, CheckRun,
     CompleteJobCancelled, Heartbeat, FinishExecution, FailExecution, RenewLease,
     RecheckRun, PersistArtifacts, Throw, DecideRetry, RequeueJob, FailJob, Crash,
     Claimable, WithinLimits, At, api, jobRow, results, Return, Goto, SetJobStatus,
     HoldsLease, Renew, Reject
<1>12. CASE UNCHANGED vars
  BY <1>12 DEF vars, state, jobRow, results, process, api
<1> QED
  BY <1>1, <1>2, <1>3, <1>4, <1>5, <1>6, <1>7, <1>8, <1>9, <1>10, <1>11, <1>12 DEF
     Next, SubmitStep, CancelStep, ClaimStep, ProcessStep, FailStep

\* An attempt that is not below the bound is the last one.
LEMMA LastAttempt == \A a \in Attempt : ~(a < MaxAttempts) => a = MaxAttempts
  BY RunJobsAssumption DEF Attempt

\* The attempt of a process that gives up is the last one, and the row has counted
\* at least as many.
LEMMA GiveUpStep ==
    ASSUME TypeInv, AttemptsAreTokens, FailureSpendsAllAttempts, GiveUpInv, [Next]_vars
    PROVE  (GiveUpInv /\ FailureSpendsAllAttempts)'
<1> USE RunJobsAssumption DEF TypeInv, TypeOK, ProcessShape, Busy, Attempt, LoopPcs,
   CheckPcs, ExecutePcs, PublishPcs, FailPcs, AttemptsAreTokens, GiveUpInv,
   FailureSpendsAllAttempts
<1>1. ASSUME NEW r \in Run,
             CreateRun(r) \/ CancelSetRunStatus(r) \/ CancelAppendEvent(r)
      PROVE  (GiveUpInv /\ FailureSpendsAllAttempts)'
  BY <1>1 DEF CreateRun, CancelSetRunStatus, CancelAppendEvent, SetRunStatus,
     jobRow, process, results, AppendEvent
<1>2. ASSUME NEW w \in Worker,
             ClaimJob(w)
      PROVE  (GiveUpInv /\ FailureSpendsAllAttempts)'
  BY <1>2 DEF ClaimJob, Claimable, At, api, results
<1>3. ASSUME NEW w \in Worker, DecideRetry(w) PROVE (GiveUpInv /\ FailureSpendsAllAttempts)'
  <2>1. /\ pc[w] = "getRun"
        /\ UNCHANGED <<run, attempts, emitted, followUp, serves, attempt>>
        /\ pc' = [pc EXCEPT ![w] = IF attempt[w] < MaxAttempts THEN "requeue" ELSE "failJob"]
    BY <1>3 DEF DecideRetry, At, Goto, jobRow, results
  <2>2. CASE attempt[w] < MaxAttempts
    BY <2>1, <2>2
  <2>3. CASE ~(attempt[w] < MaxAttempts)
    <3>1. attempt[w] \in Attempt
      BY <2>1
    <3>2. attempt[w] = MaxAttempts
      BY <2>3, <3>1, LastAttempt
    <3> QED
      BY <2>1, <2>3, <3>2
  <2> QED
    BY <2>1, <2>2, <2>3
<1>4. ASSUME NEW w \in Worker,
             FailJob(w)
      PROVE  (GiveUpInv /\ FailureSpendsAllAttempts)'
  BY <1>4 DEF FailJob, SetJobStatus, At, Goto, api, results
<1>5. ASSUME NEW w \in Worker,
             FailRun(w)
      PROVE  (GiveUpInv /\ FailureSpendsAllAttempts)'
  BY <1>5 DEF FailRun, SetRunStatus, At, Goto, api, jobRow, results
<1>6. ASSUME NEW w \in Worker,
             AppendRunFailed(w)
      PROVE  (GiveUpInv /\ FailureSpendsAllAttempts)'
  BY <1>6 DEF AppendRunFailed, AppendEvent, At, Goto, api, jobRow
<1>7. ASSUME NEW w \in Worker,
             EnqueueRepair(w)
      PROVE  (GiveUpInv /\ FailureSpendsAllAttempts)'
  BY <1>7 DEF EnqueueRepair, At, Return, api, jobRow
<1>8. ASSUME NEW w \in Worker,
             StartRun(w) \/ RequeueRun(w) \/ FinishRun(w)
      PROVE  (GiveUpInv /\ FailureSpendsAllAttempts)'
  BY <1>8 DEF StartRun, RequeueRun, FinishRun, SetRunStatus, At, api, jobRow,
     results, Return, Goto
<1>9. ASSUME NEW w \in Worker,
             AppendRunCompleted(w)
      PROVE  (GiveUpInv /\ FailureSpendsAllAttempts)'
  BY <1>9 DEF AppendRunCompleted, AppendEvent, At, Goto, api, jobRow
<1>10. ASSUME NEW w \in Worker,
             EnqueueSummary(w)
      PROVE  (GiveUpInv /\ FailureSpendsAllAttempts)'
  BY <1>10 DEF EnqueueSummary, At, Return, api, jobRow
<1>11. ASSUME NEW r \in Run,
             CreateRunJob(r) \/ RejectRun(r) \/ CancelGetRun(r) \/
                CancelSelectJobs(r) \/ CancelUpdateJobs(r) \/ CancelAbandoned(r) \/
                LeaseExpires(r)
      PROVE  (GiveUpInv /\ FailureSpendsAllAttempts)'
  BY <1>11 DEF CreateRunJob, RejectRun, CancelGetRun, CancelSelectJobs,
     CancelUpdateJobs, CancelAbandoned, LeaseExpires, process, results, jobRow,
     SetJobStatus, api
<1>12. ASSUME NEW w \in Worker,
             ClaimSnapshot(w) \/ ClaimNothing(w) \/ CheckRun(w) \/
                CompleteJobCancelled(w) \/ Heartbeat(w) \/ FinishExecution(w) \/
                FailExecution(w) \/ RenewLease(w) \/ RecheckRun(w) \/
                PersistArtifacts(w) \/ PersistIndexes(w) \/ CompleteJob(w) \/
                Throw(w) \/ RequeueJob(w) \/ Crash(w)
      PROVE  (GiveUpInv /\ FailureSpendsAllAttempts)'
  BY <1>12 DEF ClaimSnapshot, ClaimNothing, CheckRun, CompleteJobCancelled,
     Heartbeat, FinishExecution, FailExecution, RenewLease, RecheckRun,
     PersistArtifacts, PersistIndexes, CompleteJob, Throw, RequeueJob, Crash,
     Claimable, WithinLimits, At, api, jobRow, results, Return, Goto, SetJobStatus,
     HoldsLease, Renew, Reject
<1>13. CASE UNCHANGED vars
  BY <1>13 DEF vars, state, jobRow, results, process, api
<1> QED
  BY <1>1, <1>2, <1>3, <1>4, <1>5, <1>6, <1>7, <1>8, <1>9, <1>10, <1>11, <1>12,
     <1>13 DEF Next, SubmitStep, CancelStep, ClaimStep, ProcessStep, FailStep

-----------------------------------------------------------------------------
(* The theorems.                                                           *)

Inv ==
    /\ TypeInv
    /\ AttemptsAreTokens
    /\ FreshInv /\ ArtifactsOncePerAttempt
    /\ PublishInv /\ SuccessHasReport
    /\ GiveUpInv /\ FailureSpendsAllAttempts

\* The conjunction of the invariants and of what makes them inductive holds of every
\* state of the job queue.
THEOREM Invariance == Spec => []Inv
<1>1. Init => Inv
  <2> SUFFICES ASSUME Init PROVE Inv
    OBVIOUS
  <2>1. TypeInv
    BY TypeInit
  <2>2. AttemptsAreTokens /\ PublishInv /\ GiveUpInv /\ FreshInv
    BY RunJobsAssumption DEF Init, AttemptsAreTokens, PublishInv, GiveUpInv, FreshInv,
       CheckPcs, ExecutePcs
  <2>3. ArtifactsOncePerAttempt /\ SuccessHasReport /\ FailureSpendsAllAttempts
    BY RunJobsAssumption DEF Init, ArtifactsOncePerAttempt, SuccessHasReport,
       FailureSpendsAllAttempts, Attempt
  <2> QED
    BY <2>1, <2>2, <2>3 DEF Inv
<1>2. Inv /\ [Next]_vars => Inv'
  <2> SUFFICES ASSUME Inv, [Next]_vars PROVE Inv'
    OBVIOUS
  <2>1. TypeInv'
    BY TypeStep DEF Inv
  <2>2. AttemptsAreTokens'
    BY <2>1, TokensStep DEF Inv
  <2>3. (FreshInv /\ ArtifactsOncePerAttempt)'
    BY <2>1, FreshStep DEF Inv
  <2>4. (PublishInv /\ SuccessHasReport)'
    BY ReportStep DEF Inv
  <2>5. (GiveUpInv /\ FailureSpendsAllAttempts)'
    BY GiveUpStep DEF Inv
  <2> QED
    BY <2>1, <2>2, <2>3, <2>4, <2>5 DEF Inv
<1> QED
  BY <1>1, <1>2, PTL DEF Spec

\* Rows, processes and handlers keep their types: in particular attempts never
\* exceeds max_attempts, whoever claims, retries or cancels.
THEOREM TypeCorrect == Spec => []TypeOK
<1>1. Inv => TypeOK
  BY DEF Inv, TypeInv
<1> QED
  BY <1>1, Invariance, PTL

\* The attempt numbers that claimJob hands out are fencing tokens.
THEOREM TokensAreFences == Spec => []AttemptsAreTokens
<1>1. Inv => AttemptsAreTokens
  BY DEF Inv
<1> QED
  BY <1>1, Invariance, PTL

\* persistArtifacts inserts at most once under an attempt number.
THEOREM ArtifactsAreBounded == Spec => []ArtifactsOncePerAttempt
<1>1. Inv => ArtifactsOncePerAttempt
  BY DEF Inv
<1> QED
  BY <1>1, Invariance, PTL

\* A run that is reported as successful has its report.
THEOREM SuccessIsBacked == Spec => []SuccessHasReport
<1>1. Inv => SuccessHasReport
  BY DEF Inv
<1> QED
  BY <1>1, Invariance, PTL

\* markJobFailed reports a failure only when all the attempts are spent.
THEOREM FailureIsLast == Spec => []FailureSpendsAllAttempts
<1>1. Inv => FailureSpendsAllAttempts
  BY DEF Inv
<1> QED
  BY <1>1, Invariance, PTL

\* What readers are shown of a run is backed by what was done for it.
THEOREM PublicationsAreSound == Spec => []PublicationIsSound
<1>1. Inv => PublicationIsSound
  BY DEF Inv, PublicationIsSound
<1> QED
  BY <1>1, Invariance, PTL

-----------------------------------------------------------------------------
(* What one step may do: it leaves the status of a run at rest as it is, and *)
(* its effect on the job rows is a step of LeaseQueue.  Both need only the   *)
(* types and the shape of the rows (TypeInv).                                *)

\* A step of the API on r, or the passing of time.
HandlerStep(r) ==
    SubmitStep(r) \/ CancelGetRun(r) \/ CancelStep(r) \/ CancelAbandoned(r) \/ LeaseExpires(r)

\* A step of a process with a job.
WorkStep(w) ==
    \/ ProcessStep(w) \/ FailStep(w)
    \/ Heartbeat(w) \/ FailExecution(w) \/ Throw(w) \/ Crash(w)

\* The actors of the next-state relation.
LEMMA Actors ==
    ASSUME [Next]_vars
    PROVE  \/ \E r \in Run : HandlerStep(r)
           \/ \E w \in Worker : ClaimStep(w) \/ WorkStep(w)
           \/ UNCHANGED vars
  BY DEF Next, HandlerStep, WorkStep

-----------------------------------------------------------------------------
(* Runs at rest.                                                           *)

\* A process with a job writes the status of that run only, and leaves the other
\* processes and the handlers alone.
LEMMA WorkFrame ==
    ASSUME TypeInv, NEW w \in Worker, WorkStep(w)
    PROVE  /\ UNCHANGED api
           /\ \/ UNCHANGED run
              \/ SetRunStatus(serves[w], "running") \/ SetRunStatus(serves[w], "completed")
              \/ SetRunStatus(serves[w], "queued") \/ SetRunStatus(serves[w], "failed")
           /\ \A v \in Worker \ {w} : pc'[v] = pc[v] /\ serves'[v] = serves[v]
           /\ serves'[w] \in {serves[w], NoRun}
<1> USE DEF WorkStep, ProcessStep, FailStep, CheckRun, CompleteJobCancelled, StartRun,
       FinishExecution, RenewLease, RecheckRun, PersistArtifacts, PersistIndexes, CompleteJob,
       FinishRun, AppendRunCompleted, EnqueueSummary, DecideRetry, RequeueJob, RequeueRun,
       FailJob, FailRun, AppendRunFailed, EnqueueRepair, Heartbeat, FailExecution, Throw, Crash
<1>1. UNCHANGED api
  OBVIOUS
<1>2. \/ UNCHANGED run
      \/ SetRunStatus(serves[w], "running") \/ SetRunStatus(serves[w], "completed")
      \/ SetRunStatus(serves[w], "queued") \/ SetRunStatus(serves[w], "failed")
  OBVIOUS
<1>3. \A v \in Worker \ {w} : pc'[v] = pc[v]
  BY DEF Goto, Return, Reject, TypeInv, TypeOK
<1>4. \A v \in Worker \ {w} : serves'[v] = serves[v]
  BY DEF Goto, Return, Reject, TypeInv, TypeOK
<1>5. serves'[w] \in {serves[w], NoRun}
  BY DEF Goto, Return, Reject, TypeInv, TypeOK
<1> QED
  BY <1>1, <1>2, <1>3, <1>4, <1>5

\* Before its first look at the run, a process can only read it, cancel the job or die.
LEMMA CheckFrame ==
    ASSUME NEW w \in Worker, WorkStep(w), pc[w] \in CheckPcs
    PROVE  CheckRun(w) \/ CompleteJobCancelled(w) \/ Crash(w)
  BY DEF CheckPcs, WorkStep, ProcessStep, FailStep, StartRun, FinishExecution, RenewLease,
     RecheckRun, PersistArtifacts, PersistIndexes, CompleteJob, FinishRun,
     AppendRunCompleted, EnqueueSummary, DecideRetry, RequeueJob, RequeueRun, FailJob,
     FailRun, AppendRunFailed, EnqueueRepair, Heartbeat, FailExecution, Throw, At

\* A step keeps a run at rest as it is: nobody is past the test of its status.
LEMMA RestStep ==
    ASSUME TypeInv, [Next]_vars, NEW r \in Run, AtRest(r)
    PROVE  AtRest(r)' /\ run'[r] = run[r]
<1> USE DEF TypeInv, TypeOK, ProcessShape, RowShape, Busy, LoopPcs, CheckPcs
<1>1. SUFFICES /\ run'[r] = run[r]
               /\ cancel'[r] # "set"
               /\ \A v \in Worker : serves'[v] = r => pc'[v] \in CheckPcs
  BY DEF AtRest
<1>2. ASSUME NEW q \in Run, HandlerStep(q)
      PROVE  /\ run'[r] = run[r]
             /\ cancel'[r] # "set"
             /\ UNCHANGED process
  <2> USE DEF HandlerStep, SubmitStep, CancelStep
  <2>1. UNCHANGED process
    BY <1>2 DEF CreateRun, CreateRunJob, RejectRun, CancelGetRun, CancelSetRunStatus,
       CancelSelectJobs, CancelUpdateJobs, CancelAppendEvent, CancelAbandoned, LeaseExpires
  <2>2. run'[r] = run[r]
    <3>1. CASE CreateRun(q)
      BY <3>1 DEF AtRest, TerminalRunStatuses, CreateRun, SetRunStatus
    <3>2. CASE CancelSetRunStatus(q)
      BY <3>2 DEF AtRest, CancelSetRunStatus, SetRunStatus
    <3> QED
      BY <1>2, <3>1, <3>2 DEF CreateRunJob, RejectRun, CancelGetRun, CancelSelectJobs,
         CancelUpdateJobs, CancelAppendEvent, CancelAbandoned, LeaseExpires
  <2>3. cancel'[r] # "set"
    <3>1. CASE CancelGetRun(q)
      BY <3>1 DEF AtRest, TerminalRunStatuses, CancelGetRun
    <3>2. CASE CancelStep(q)
      BY <3>2 DEF AtRest, CancelSetRunStatus, CancelSelectJobs, CancelUpdateJobs,
         CancelAppendEvent
    <3> QED
      BY <1>2, <3>1, <3>2 DEF AtRest, CreateRun, CreateRunJob, RejectRun, CancelAbandoned,
         LeaseExpires, api
  <2> QED
    BY <2>1, <2>2, <2>3
<1>3. ASSUME NEW w \in Worker, ClaimStep(w)
      PROVE  /\ UNCHANGED <<run, cancel>>
             /\ \A v \in Worker : serves'[v] = r => pc'[v] \in CheckPcs
  <2> USE DEF ClaimStep, ClaimSnapshot, ClaimJob, ClaimNothing, Return
  <2>1. UNCHANGED <<run, cancel>>
    BY <1>3 DEF api
  <2>2. serves[w] = NoRun
    BY <1>3 DEF At
  <2>3. serves'[w] = r => pc'[w] = "check"
    BY <1>3, <2>2, RunJobsAssumption
  <2>4. \A v \in Worker \ {w} : serves'[v] = serves[v] /\ pc'[v] = pc[v]
    BY <1>3
  <2> QED
    BY <2>1, <2>3, <2>4 DEF AtRest
<1>4. ASSUME NEW w \in Worker, WorkStep(w), serves[w] = r
      PROVE  /\ UNCHANGED <<run, cancel>>
             /\ \A v \in Worker : serves'[v] = r => pc'[v] \in CheckPcs
  <2>1. CheckRun(w) \/ CompleteJobCancelled(w) \/ Crash(w)
    BY <1>4, CheckFrame DEF AtRest
  <2>2. CASE CheckRun(w)
    BY <1>4, <2>2 DEF AtRest, CheckRun, Goto, api
  <2>3. CASE CompleteJobCancelled(w) \/ Crash(w)
    BY <1>4, <2>3, RunJobsAssumption DEF AtRest, CompleteJobCancelled, Crash, Return, api
  <2> QED
    BY <2>1, <2>2, <2>3
<1>5. ASSUME NEW w \in Worker, WorkStep(w), serves[w] # r
      PROVE  /\ run'[r] = run[r]
             /\ UNCHANGED cancel
             /\ \A v \in Worker : serves'[v] = r => pc'[v] \in CheckPcs
  <2>1. run'[r] = run[r] /\ UNCHANGED cancel
    BY <1>5, WorkFrame DEF SetRunStatus, api
  <2>2. \A v \in Worker : serves'[v] = r => v # w /\ serves[v] = r /\ pc'[v] = pc[v]
    BY <1>5, WorkFrame, RunJobsAssumption
  <2> QED
    BY <2>1, <2>2 DEF AtRest
<1>6. CASE UNCHANGED vars
  BY <1>6 DEF vars, state, process, api, AtRest
<1>7. CASE \E q \in Run : HandlerStep(q)
  BY <1>2, <1>7 DEF AtRest, process
<1>8. CASE \E w \in Worker : ClaimStep(w) \/ WorkStep(w)
  BY <1>3, <1>4, <1>5, <1>8 DEF AtRest
<1> QED
  BY <1>6, <1>7, <1>8, Actors

\* The status of a terminal run that nobody works on is final, although its job may
\* still be claimed.
THEOREM RestingRunsStay == Spec => RestingRunIsFinal
<1>1. TypeInv /\ [Next]_vars => [\A r \in Run : AtRest(r) => AtRest(r)' /\ run'[r] = run[r]]_vars
  BY RestStep
<1>2. Inv => TypeInv
  BY DEF Inv
<1> QED
  BY <1>1, <1>2, Invariance, PTL DEF Spec, RestingRunIsFinal

-----------------------------------------------------------------------------
(* The job rows implement LeaseQueue.                                      *)

\* Completion, failure, cancellation and requeue take the row out of its lease.
LEMMA LeaveRow ==
    ASSUME TypeInv, NEW r \in Run, jobStatus[r] # "absent", 
           NEW s \in {"queued", "completed", "failed", "cancelled"}, SetJobStatus(r, s)
    PROVE  Queue!Next
<1> DEFINE t == IF s = "queued" THEN "queued" ELSE "done"
<1>1. queueState' = [queueState EXCEPT ![r] = t]
  BY DEF SetJobStatus, queueState, TypeInv, TypeOK
<1>2. queueHolder' = [queueHolder EXCEPT ![r] = NoWorker]
  BY DEF SetJobStatus, queueHolder, TypeInv, TypeOK
<1>3. queueState[r] # "absent"
  BY DEF queueState, TypeInv, TypeOK, RunStatus, TerminalRunStatuses
<1>4. Queue!Leave(r, t)
  BY <1>1, <1>2, <1>3 DEF Queue!Leave, SetJobStatus
<1> QED
  BY <1>4 DEF Queue!Next

\* A renewal is a stutter for a live lease and revives a lapsed one.
LEMMA RenewRow ==
    ASSUME TypeInv, NEW r \in Run, jobStatus[r] = "running", Renew(r)
    PROVE  [Queue!Next]_(Queue!vars)
<1>1. CASE leasedUntil[r] = "future"
  <2>1. leasedUntil' = leasedUntil
    BY <1>1 DEF Renew, TypeInv, TypeOK
  <2> QED
    BY <2>1 DEF Renew, queueState, queueHolder, Queue!vars
<1>2. CASE leasedUntil[r] # "future"
  <2>1. queueState' = [queueState EXCEPT ![r] = "leased"]
    BY <1>2 DEF Renew, queueState, TypeInv, TypeOK
  <2>2. queueHolder' = queueHolder
    BY DEF Renew, queueHolder
  <2>3. queueState[r] = "lapsed"
    BY <1>2 DEF queueState
  <2>4. Queue!Extend(r)
    BY <2>1, <2>2, <2>3 DEF Queue!Extend, Renew
  <2> QED
    BY <2>4 DEF Queue!Next
<1> QED
  BY <1>1, <1>2

\* A claim takes a row that still matches, under the next attempt number.
LEMMA TakeRow ==
    ASSUME TypeInv, NEW w \in Worker, ClaimJob(w)
    PROVE  Queue!Next
<1>1. PICK r \in seen[w] : 
         /\ Claimable(r)
         /\ jobStatus' = [jobStatus EXCEPT ![r] = "running"]
         /\ attempts' = [attempts EXCEPT ![r] = @ + 1]
         /\ leaseOwner' = [leaseOwner EXCEPT ![r] = w]
         /\ leasedUntil' = [leasedUntil EXCEPT ![r] = "future"]
  BY DEF ClaimJob
<1>2. r \in Run
  BY DEF TypeInv, TypeOK
<1>3. queueState' = [queueState EXCEPT ![r] = "leased"]
  BY <1>1, <1>2 DEF queueState, TypeInv, TypeOK
<1>4. queueHolder' = [queueHolder EXCEPT ![r] = w]
  BY <1>1, <1>2 DEF queueHolder, TypeInv, TypeOK
<1>5. queueState[r] \in {"queued", "lapsed"} /\ attempts[r] < MaxAttempts
  BY <1>1, <1>2 DEF queueState, Claimable
<1>6. Queue!Take(r, w)
  BY <1>1, <1>3, <1>4, <1>5 DEF Queue!Take
<1> QED
  BY <1>2, <1>6 DEF Queue!Next

\* create_run_job inserts the row.
LEMMA PutRow ==
    ASSUME TypeInv, NEW r \in Run, CreateRunJob(r)
    PROVE  Queue!Next
<1>0. jobStatus[r] = "absent"
  BY DEF CreateRunJob, TypeInv, RowShape
<1>1. queueState' = [queueState EXCEPT ![r] = "queued"]
  BY DEF CreateRunJob, queueState, TypeInv, TypeOK
<1>2. queueHolder' = queueHolder
  BY <1>0 DEF CreateRunJob, queueHolder, TypeInv, TypeOK
<1>3. Queue!Put(r)
  BY <1>0, <1>1, <1>2 DEF Queue!Put, CreateRunJob, queueState
<1> QED
  BY <1>3 DEF Queue!Next

\* Time takes leased_until behind now().
LEMMA LapseRow ==
    ASSUME TypeInv, NEW r \in Run, LeaseExpires(r)
    PROVE  Queue!Next
<1>1. queueState' = [queueState EXCEPT ![r] = "lapsed"]
  BY DEF LeaseExpires, queueState, TypeInv, TypeOK
<1>2. queueHolder' = queueHolder
  BY DEF LeaseExpires, queueHolder
<1>3. Queue!Lapse(r)
  BY <1>1, <1>2 DEF Queue!Lapse, LeaseExpires, queueState
<1> QED
  BY <1>3 DEF Queue!Next

\* cancel_run_jobs, from the status it read before.
LEMMA CancelRow ==
    ASSUME TypeInv, NEW r \in Run, CancelUpdateJobs(r)
    PROVE  Queue!Next
<1>1. jobStatus[r] # "absent"
  BY DEF CancelUpdateJobs, TypeInv, RowShape
<1>2. /\ jobStatus' = [jobStatus EXCEPT ![r] = "cancelled"]
      /\ leasedUntil' \in {leasedUntil, [leasedUntil EXCEPT ![r] = "null"]}
  BY DEF CancelUpdateJobs, SetJobStatus
<1>3. queueState' = [queueState EXCEPT ![r] = "done"]
  BY <1>2 DEF queueState, TypeInv, TypeOK
<1>4. queueHolder' = [queueHolder EXCEPT ![r] = NoWorker]
  <2>1. jobStatus \in [Run -> RunStatus] /\ leaseOwner \in [Run -> Worker \cup {NoWorker}]
    BY DEF TypeInv, TypeOK
  <2>2. \A q \in Run \ {r} : jobStatus'[q] = jobStatus[q] /\ leaseOwner'[q] = leaseOwner[q]
    BY <1>2, <2>1 DEF CancelUpdateJobs, SetJobStatus
  <2>3. jobStatus'[r] # "running"
    BY <1>2, <2>1
  <2> QED
    BY <2>2, <2>3 DEF queueHolder
<1>5. queueState[r] # "absent"
  BY <1>1 DEF queueState, TypeInv, TypeOK, RunStatus, TerminalRunStatuses
<1>6. Queue!Leave(r, "done")
  BY <1>3, <1>4, <1>5 DEF Queue!Leave, CancelUpdateJobs, SetJobStatus
<1> QED
  BY <1>6 DEF Queue!Next

\* Every step is a step of the queue contract or leaves the job rows alone.
LEMMA QueueStep ==
    ASSUME TypeInv, [Next]_vars
    PROVE  [Queue!Next]_(Queue!vars)
<1>1. UNCHANGED jobRow => UNCHANGED Queue!vars
  BY DEF jobRow, queueState, queueHolder, Queue!vars
<1>2. ASSUME NEW r \in Run, HandlerStep(r) PROVE [Queue!Next]_(Queue!vars)
  <2>1. CreateRunJob(r) \/ CancelUpdateJobs(r) \/ LeaseExpires(r) \/ UNCHANGED jobRow
    BY <1>2 DEF HandlerStep, SubmitStep, CancelStep, CreateRun, RejectRun, CancelGetRun,
       CancelSetRunStatus, CancelSelectJobs, CancelAppendEvent, CancelAbandoned
  <2> QED
    BY <1>1, <2>1, PutRow, CancelRow, LapseRow
<1>3. ASSUME NEW w \in Worker, ClaimStep(w) PROVE [Queue!Next]_(Queue!vars)
  BY <1>1, <1>3, TakeRow DEF ClaimStep, ClaimSnapshot, ClaimNothing
<1>4. ASSUME NEW w \in Worker, WorkStep(w) PROVE [Queue!Next]_(Queue!vars)
  <2>1. CASE Heartbeat(w) \/ RenewLease(w)
    <3>1. (HoldsLease(w, serves[w]) /\ Renew(serves[w])) \/ UNCHANGED jobRow
      BY <2>1 DEF Heartbeat, RenewLease
    <3>2. serves[w] \in Run
      BY <2>1 DEF Heartbeat, RenewLease, At, TypeInv, ProcessShape, Busy, LoopPcs
    <3> QED
      BY <1>1, <3>1, <3>2, RenewRow DEF HoldsLease
  <2>2. CASE CompleteJobCancelled(w) \/ CompleteJob(w) \/ RequeueJob(w) \/ FailJob(w)
    <3>1. serves[w] \in Run /\ jobStatus[serves[w]] # "absent"
      BY <2>2 DEF CompleteJobCancelled, CompleteJob, RequeueJob, FailJob, At, TypeInv,
         ProcessShape, Busy, LoopPcs
    <3>2. \E s \in {"queued", "completed", "failed", "cancelled"} : SetJobStatus(serves[w], s)
      BY <2>2 DEF CompleteJobCancelled, CompleteJob, RequeueJob, FailJob
    <3> QED
      BY <3>1, <3>2, LeaveRow
  <2>3. CASE UNCHANGED jobRow
    BY <1>1, <2>3
  <2> QED
    BY <1>4, <2>1, <2>2, <2>3 DEF WorkStep, ProcessStep, FailStep, CheckRun, StartRun,
       FinishExecution, RecheckRun, PersistArtifacts, PersistIndexes, FinishRun,
       AppendRunCompleted, EnqueueSummary, DecideRetry, RequeueRun, FailRun,
       AppendRunFailed, EnqueueRepair, FailExecution, Throw, Crash
<1>5. CASE UNCHANGED vars
  BY <1>1, <1>5 DEF vars, state, jobRow
<1> QED
  BY <1>2, <1>3, <1>4, <1>5, Actors

\* No job exists at the start.
LEMMA QueueInit == Init => Queue!Init
  BY DEF Init, Queue!Init, queueState, queueHolder

\* The run_jobs rows under the API, the workers and time are a queue of numbered leases.
THEOREM QueueRefinement == Spec => ImplementsLeaseQueue
<1>1. Inv /\ [Next]_vars => [Queue!Next]_(Queue!vars)
  BY QueueStep DEF Inv
<1> QED
  BY <1>1, QueueInit, Invariance, PTL DEF Spec, ImplementsLeaseQueue, Queue!Spec

-----------------------------------------------------------------------------
(* Cancelled runs.                                                         *)

\* Nobody can execute the run again: its job has ended, or the run has and whoever
\* holds its job has not read it yet.
Halted(r) ==
    \/ jobStatus[r] \in TerminalRunStatuses
    \/ run[r] \in TerminalRunStatuses /\ \A w \in Worker : serves[w] = r => pc[w] \in CheckPcs

\* Where no execution throws, a cancellation that announces itself has halted its run.
\* One that finds no job has cancelled a run whose job is inserted only afterwards.
CancelInv ==
    "error" \notin faults =>
       /\ \A w \in Worker : pc[w] \notin FailPcs
       /\ \A r \in Run :
            /\ cancel[r] = "select" /\ jobStatus[r] = "absent" => run[r] \in TerminalRunStatuses
            /\ cancel[r] = "event" \/ "run.cancelled" \in emitted[r] => Halted(r)

\* Nothing but an error leads to markJobFailed.
LEMMA NobodyFails ==
    ASSUME TypeInv, CancelInv, "error" \notin faults, [Next]_vars
    PROVE  \A w \in Worker : pc'[w] \notin FailPcs
<1> SUFFICES ASSUME NEW v \in Worker PROVE pc'[v] \notin FailPcs
  OBVIOUS
<1> USE DEF CancelInv, FailPcs
<1>1. CASE UNCHANGED pc
  BY <1>1
<1>2. ASSUME NEW r \in Run, HandlerStep(r) PROVE UNCHANGED pc
  BY <1>2 DEF HandlerStep, SubmitStep, CancelStep, CreateRun, CreateRunJob, RejectRun, CancelGetRun,
     CancelSetRunStatus, CancelSelectJobs, CancelUpdateJobs, CancelAppendEvent, CancelAbandoned,
     LeaseExpires, process
<1>3. ASSUME NEW w \in Worker, ClaimStep(w)
      PROVE  \E label \in {"idle", "claim", "check"} : pc' = [pc EXCEPT ![w] = label]
  BY <1>3 DEF ClaimStep, ClaimSnapshot, ClaimJob, ClaimNothing, Return
<1>4. ASSUME NEW w \in Worker, WorkStep(w)
      PROVE  \/ UNCHANGED pc
             \/ \E label \in {"idle"} \cup CheckPcs \cup ExecutePcs \cup PublishPcs : pc' = [pc EXCEPT ![w] = label]
  <2>1. ~FailStep(w) /\ ~FailExecution(w) /\ ~Throw(w)
    BY DEF FailStep, DecideRetry, RequeueJob, RequeueRun, FailJob, FailRun, AppendRunFailed,
       EnqueueRepair, FailExecution, Throw, At
  <2>2. CASE Crash(w)
    BY <2>2 DEF Crash, Return
  <2>3. CASE Heartbeat(w)
    BY <2>3 DEF Heartbeat
  <2>4. CASE ProcessStep(w)
    BY <2>4 DEF ProcessStep, CheckRun, CompleteJobCancelled, StartRun, FinishExecution, RenewLease,
       RecheckRun, PersistArtifacts, PersistIndexes, CompleteJob, FinishRun, AppendRunCompleted,
       EnqueueSummary, Return, Goto, CheckPcs, ExecutePcs, PublishPcs
  <2> QED
    BY <1>4, <2>1, <2>2, <2>3, <2>4 DEF WorkStep
<1>5. ASSUME NEW w \in Worker, NEW label, label \notin FailPcs, pc' = [pc EXCEPT ![w] = label]
      PROVE  pc'[v] \notin FailPcs
  BY <1>5 DEF TypeInv, TypeOK
<1>6. \A label \in {"idle", "claim", "check"} \cup CheckPcs \cup ExecutePcs \cup PublishPcs : label \notin FailPcs
  BY DEF CheckPcs, ExecutePcs, PublishPcs
<1>7. CASE UNCHANGED vars
  BY <1>1, <1>7 DEF vars, state, process
<1> QED
  BY <1>1, <1>2, <1>3, <1>4, <1>5, <1>6, <1>7, Actors

\* Without a failure a job that has ended stays so.
LEMMA EndedJobStays ==
    ASSUME TypeInv, [Next]_vars, \A w \in Worker : pc[w] \notin FailPcs,
           NEW r \in Run, jobStatus[r] \in TerminalRunStatuses
    PROVE  jobStatus'[r] \in TerminalRunStatuses
<1> USE DEF TerminalRunStatuses
<1>1. ASSUME NEW q \in Run, HandlerStep(q) PROVE jobStatus'[r] \in TerminalRunStatuses
  <2>1. CASE CreateRunJob(q)
    BY <2>1 DEF CreateRunJob, TypeInv, TypeOK, RowShape
  <2>2. CASE CancelUpdateJobs(q)
    BY <2>2 DEF CancelUpdateJobs, SetJobStatus, TypeInv, TypeOK
  <2> QED
    BY <1>1, <2>1, <2>2 DEF HandlerStep, SubmitStep, CancelStep, CreateRun, RejectRun, CancelGetRun,
       CancelSetRunStatus, CancelSelectJobs, CancelAppendEvent, CancelAbandoned, LeaseExpires, jobRow
<1>2. ASSUME NEW w \in Worker, ClaimStep(w) PROVE jobStatus'[r] = jobStatus[r]
  BY <1>2 DEF ClaimStep, ClaimSnapshot, ClaimJob, ClaimNothing, Claimable, jobRow, TypeInv, TypeOK
<1>3. ASSUME NEW w \in Worker, WorkStep(w) PROVE jobStatus'[r] \in TerminalRunStatuses
  <2>1. ~FailStep(w)
    BY DEF FailStep, DecideRetry, RequeueJob, RequeueRun, FailJob, FailRun, AppendRunFailed,
       EnqueueRepair, At, FailPcs
  <2>2. CASE CompleteJobCancelled(w) \/ CompleteJob(w)
    BY <2>2 DEF CompleteJobCancelled, CompleteJob, SetJobStatus, TypeInv, TypeOK
  <2>3. CASE Heartbeat(w) \/ FailExecution(w) \/ Throw(w) \/ Crash(w)
    BY <2>3 DEF Heartbeat, FailExecution, Throw, Crash, Renew, jobRow
  <2> QED
    BY <1>3, <2>1, <2>2, <2>3 DEF WorkStep, ProcessStep, CheckRun, StartRun, FinishExecution, RenewLease,
       RecheckRun, PersistArtifacts, PersistIndexes, FinishRun, AppendRunCompleted, EnqueueSummary,
       Renew, jobRow
<1>4. CASE UNCHANGED vars
  BY <1>4 DEF vars, state, jobRow
<1> QED
  BY <1>1, <1>2, <1>3, <1>4, Actors

\* The status of a run is written by the one who creates or cancels it, and by those
\* who serve it.
LEMMA RunFrame ==
    ASSUME TypeInv, [Next]_vars, NEW r \in Run, \A w \in Worker : serves[w] = r => pc[w] \in CheckPcs
    PROVE  \/ run'[r] = run[r]
           \/ CreateRun(r)
           \/ CancelSetRunStatus(r) /\ run'[r] = "cancelled"
<1>1. ASSUME NEW q \in Run, HandlerStep(q)
      PROVE  run'[r] = run[r] \/ CreateRun(r) \/ (CancelSetRunStatus(r) /\ run'[r] = "cancelled")
  <2>1. CASE CreateRun(q)
    BY <2>1 DEF CreateRun, SetRunStatus, TypeInv, TypeOK
  <2>2. CASE CancelSetRunStatus(q)
    BY <2>2 DEF CancelSetRunStatus, SetRunStatus, TypeInv, TypeOK
  <2> QED
    BY <1>1, <2>1, <2>2 DEF HandlerStep, SubmitStep, CancelStep, CreateRunJob, RejectRun, CancelGetRun,
       CancelSelectJobs, CancelUpdateJobs, CancelAppendEvent, CancelAbandoned, LeaseExpires
<1>2. ASSUME NEW w \in Worker, ClaimStep(w) PROVE run' = run
  BY <1>2 DEF ClaimStep, ClaimSnapshot, ClaimJob, ClaimNothing
<1>3. ASSUME NEW w \in Worker, WorkStep(w), serves[w] = r PROVE run' = run
  BY <1>3, CheckFrame DEF CheckRun, CompleteJobCancelled, Crash
<1>4. ASSUME NEW w \in Worker, WorkStep(w), serves[w] # r PROVE run'[r] = run[r]
  BY <1>4, WorkFrame DEF SetRunStatus, TypeInv, TypeOK
<1>5. CASE UNCHANGED vars
  BY <1>5 DEF vars, state
<1> QED
  BY <1>1, <1>2, <1>3, <1>4, <1>5, Actors

\* Whoever has not read a terminal run yet goes no further than to cancel its job.
LEMMA UnreadStays ==
    ASSUME TypeInv, [Next]_vars, NEW r \in Run, run[r] \in TerminalRunStatuses,
           \A w \in Worker : serves[w] = r => pc[w] \in CheckPcs
    PROVE  \A w \in Worker : serves'[w] = r => pc'[w] \in CheckPcs
<1> USE RunJobsAssumption DEF TypeInv, TypeOK, ProcessShape, Busy, LoopPcs, CheckPcs
<1>1. CASE UNCHANGED <<pc, serves>>
  BY <1>1
<1>2. ASSUME NEW q \in Run, HandlerStep(q) PROVE UNCHANGED <<pc, serves>>
  BY <1>2 DEF HandlerStep, SubmitStep, CancelStep, CreateRun, CreateRunJob, RejectRun, CancelGetRun,
     CancelSetRunStatus, CancelSelectJobs, CancelUpdateJobs, CancelAppendEvent, CancelAbandoned,
     LeaseExpires, process
<1>3. ASSUME NEW w \in Worker, ClaimStep(w)
      PROVE  \A v \in Worker : serves'[v] = r => pc'[v] \in CheckPcs
  <2> USE DEF ClaimStep, ClaimSnapshot, ClaimJob, ClaimNothing, Return
  <2>1. serves[w] = NoRun
    BY <1>3 DEF At
  <2>2. serves'[w] = r => pc'[w] = "check"
    BY <1>3, <2>1
  <2>3. \A v \in Worker \ {w} : serves'[v] = serves[v] /\ pc'[v] = pc[v]
    BY <1>3
  <2> QED
    BY <2>2, <2>3
<1>4. ASSUME NEW w \in Worker, WorkStep(w), serves[w] = r
      PROVE  \A v \in Worker : serves'[v] = r => pc'[v] \in CheckPcs
  <2>1. CheckRun(w) \/ CompleteJobCancelled(w) \/ Crash(w)
    BY <1>4, CheckFrame
  <2>2. CASE CheckRun(w)
    BY <1>4, <2>2 DEF CheckRun, Goto
  <2>3. CASE CompleteJobCancelled(w) \/ Crash(w)
    BY <1>4, <2>3 DEF CompleteJobCancelled, Crash, Return
  <2> QED
    BY <2>1, <2>2, <2>3
<1>5. ASSUME NEW w \in Worker, WorkStep(w), serves[w] # r
      PROVE  \A v \in Worker : serves'[v] = r => pc'[v] \in CheckPcs
  <2>1. \A v \in Worker : serves'[v] = r => v # w /\ serves[v] = r /\ pc'[v] = pc[v]
    BY <1>5, WorkFrame
  <2> QED
    BY <2>1
<1>6. CASE UNCHANGED vars
  BY <1>1, <1>6 DEF vars, state, process
<1> QED
  BY <1>1, <1>2, <1>3, <1>4, <1>5, <1>6, Actors

\* A halted run stays halted.
LEMMA HaltedStays ==
    ASSUME TypeInv, [Next]_vars, \A w \in Worker : pc[w] \notin FailPcs, NEW r \in Run, Halted(r)
    PROVE  Halted(r)'
<1>1. CASE jobStatus[r] \in TerminalRunStatuses
  BY <1>1, EndedJobStays DEF Halted
<1>2. CASE run[r] \in TerminalRunStatuses /\ \A w \in Worker : serves[w] = r => pc[w] \in CheckPcs
  <2>1. \A w \in Worker : serves'[w] = r => pc'[w] \in CheckPcs
    BY <1>2, UnreadStays
  <2>2. ~CreateRun(r)
    BY <1>2 DEF CreateRun, TypeInv, RowShape, TerminalRunStatuses
  <2>3. run'[r] \in TerminalRunStatuses
    BY <1>2, <2>2, RunFrame DEF TerminalRunStatuses
  <2> QED
    BY <2>1, <2>3 DEF Halted, TerminalRunStatuses
<1> QED
  BY <1>1, <1>2 DEF Halted

\* The handler that cancels has halted the run by the time it announces it.
LEMMA CancelHalts ==
    ASSUME TypeInv, CancelInv, "error" \notin faults, [Next]_vars, NEW r \in Run
    PROVE  /\ cancel'[r] = "select" /\ jobStatus'[r] = "absent" => run'[r] \in TerminalRunStatuses
           /\ cancel'[r] = "event" \/ "run.cancelled" \in emitted'[r] => Halted(r)'
<1>1. /\ cancel[r] = "select" /\ jobStatus[r] = "absent" => run[r] \in TerminalRunStatuses
      /\ cancel[r] = "event" \/ "run.cancelled" \in emitted[r] => Halted(r)
      /\ \A w \in Worker : pc[w] \notin FailPcs
  BY DEF CancelInv
<1>2. jobStatus[r] = "absent" => \A w \in Worker : serves[w] # r
  BY DEF TypeInv, ProcessShape
<1>3. jobStatus'[r] = "absent" => jobStatus[r] = "absent"
  <2>1. ASSUME NEW q \in Run, HandlerStep(q) PROVE jobStatus'[r] = "absent" => jobStatus[r] = "absent"
    BY <2>1 DEF HandlerStep, SubmitStep, CancelStep, CreateRun, CreateRunJob, RejectRun, CancelGetRun,
       CancelSetRunStatus, CancelSelectJobs, CancelUpdateJobs, CancelAppendEvent, CancelAbandoned,
       LeaseExpires, SetJobStatus, jobRow, TypeInv, TypeOK
  <2>2. ASSUME NEW w \in Worker, ClaimStep(w) PROVE jobStatus'[r] = "absent" => jobStatus[r] = "absent"
    BY <2>2 DEF ClaimStep, ClaimSnapshot, ClaimJob, ClaimNothing, jobRow, TypeInv, TypeOK
  <2>3. ASSUME NEW w \in Worker, WorkStep(w) PROVE jobStatus'[r] = "absent" => jobStatus[r] = "absent"
    BY <2>3 DEF WorkStep, ProcessStep, FailStep, CheckRun, CompleteJobCancelled, StartRun,
       FinishExecution, RenewLease, RecheckRun, PersistArtifacts, PersistIndexes, CompleteJob,
       FinishRun, AppendRunCompleted, EnqueueSummary, DecideRetry, RequeueJob, RequeueRun,
       FailJob, FailRun, AppendRunFailed, EnqueueRepair, Heartbeat, FailExecution, Throw, Crash,
       Renew, SetJobStatus, jobRow, TypeInv, TypeOK
  <2>4. CASE UNCHANGED vars
    BY <2>4 DEF vars, state, jobRow
  <2> QED
    BY <2>1, <2>2, <2>3, <2>4, Actors
<1> DEFINE Moves ==
       /\ cancel'[r] = "select" => cancel[r] = "select" \/ CancelSetRunStatus(r)
       /\ cancel'[r] = "event" => \/ cancel[r] = "event"
                                  \/ CancelUpdateJobs(r)
                                  \/ CancelSelectJobs(r) /\ jobStatus[r] \notin {"queued", "running"}
       /\ "run.cancelled" \in emitted'[r] => "run.cancelled" \in emitted[r] \/ cancel[r] = "event"
<1>4. Moves
  <2>1. ASSUME NEW q \in Run, HandlerStep(q) PROVE Moves
    <3> USE <2>1 DEF TypeInv, TypeOK
    <3>1. CASE SubmitStep(q) \/ CancelGetRun(q) \/ CancelAbandoned(q) \/ LeaseExpires(q)
      BY <3>1 DEF SubmitStep, CreateRun, CreateRunJob, RejectRun, CancelGetRun, CancelAbandoned,
         LeaseExpires, results, api
    <3>2. CASE CancelSetRunStatus(q)
      BY <3>2 DEF CancelSetRunStatus, results
    <3>3. CASE CancelSelectJobs(q)
      BY <3>3 DEF CancelSelectJobs, results
    <3>4. CASE CancelUpdateJobs(q)
      BY <3>4 DEF CancelUpdateJobs, results
    <3>5. CASE CancelAppendEvent(q)
      BY <3>5 DEF CancelAppendEvent, AppendEvent
    <3> QED
      BY <3>1, <3>2, <3>3, <3>4, <3>5 DEF HandlerStep, CancelStep
  <2>2. ASSUME NEW w \in Worker, ClaimStep(w) PROVE Moves
    BY <2>2 DEF ClaimStep, ClaimSnapshot, ClaimJob, ClaimNothing, results, api
  <2>3. ASSUME NEW w \in Worker, WorkStep(w) PROVE Moves
    <3>1. UNCHANGED api
      BY <2>3, WorkFrame
    <3>2. \/ UNCHANGED emitted
          \/ AppendEvent(serves[w], "run.completed") \/ AppendEvent(serves[w], "run.failed")
      BY <2>3 DEF WorkStep, ProcessStep, FailStep, CheckRun, CompleteJobCancelled, StartRun,
         FinishExecution, RenewLease, RecheckRun, PersistArtifacts, PersistIndexes, CompleteJob,
         FinishRun, AppendRunCompleted, EnqueueSummary, DecideRetry, RequeueJob, RequeueRun,
         FailJob, FailRun, AppendRunFailed, EnqueueRepair, Heartbeat, FailExecution, Throw, Crash,
         results
    <3>3. "run.cancelled" \in emitted'[r] => "run.cancelled" \in emitted[r]
      <4>1. CASE UNCHANGED emitted
        BY <4>1
      <4>2. CASE AppendEvent(serves[w], "run.completed") \/ AppendEvent(serves[w], "run.failed")
        <5>1. PICK type \in {"run.completed", "run.failed"} : AppendEvent(serves[w], type)
          BY <4>2
        <5>2. emitted'[r] \in {emitted[r], emitted[r] \cup {type}}
          BY <5>1 DEF AppendEvent, TypeInv, TypeOK
        <5> QED
          BY <5>1, <5>2
      <4> QED
        BY <3>2, <4>1, <4>2
    <3>4. cancel' = cancel
      BY <3>1 DEF api
    <3> QED
      BY <3>3, <3>4
  <2>4. CASE UNCHANGED vars
    BY <2>4 DEF vars, state, results, api
  <2> QED
    BY <2>1, <2>2, <2>3, <2>4, Actors
<1>5. ASSUME cancel'[r] = "select", jobStatus'[r] = "absent" PROVE run'[r] \in TerminalRunStatuses
  <2>1. CASE CancelSetRunStatus(r)
    BY <2>1 DEF CancelSetRunStatus, SetRunStatus, TerminalRunStatuses, TypeInv, TypeOK
  <2>2. CASE cancel[r] = "select"
    <3>1. run[r] \in TerminalRunStatuses /\ \A w \in Worker : serves[w] # r
      BY <1>1, <1>2, <1>3, <1>5, <2>2
    <3>2. ~CreateRun(r)
      BY <2>2 DEF CreateRun, TypeInv, RowShape
    <3> QED
      BY <3>1, <3>2, RunFrame DEF TerminalRunStatuses
  <2> QED
    BY <1>4, <1>5, <2>1, <2>2
<1>6. ASSUME cancel'[r] = "event" \/ "run.cancelled" \in emitted'[r] PROVE Halted(r)'
  <2>1. CASE Halted(r)
    BY <1>1, <2>1, HaltedStays
  <2>2. CASE CancelUpdateJobs(r)
    BY <2>2 DEF CancelUpdateJobs, SetJobStatus, Halted, TerminalRunStatuses, TypeInv, TypeOK
  <2>3. CASE CancelSelectJobs(r) /\ jobStatus[r] \notin {"queued", "running"}
    <3>1. cancel[r] = "select"
      BY <2>3 DEF CancelSelectJobs
    <3>2. jobStatus[r] \in TerminalRunStatuses \/ jobStatus[r] = "absent"
      BY <2>3 DEF TypeInv, TypeOK, RunStatus
    <3>3. Halted(r)
      BY <1>1, <1>2, <3>1, <3>2 DEF Halted
    <3> QED
      BY <1>1, <3>3, HaltedStays
  <2> QED
    BY <1>1, <1>4, <1>6, <2>1, <2>2, <2>3
<1> QED
  BY <1>5, <1>6

\* Where no execution throws, a worker whose execution ends after the cancellation of its
\* run answered does not go on to publish, although its claim may have raced the
\* cancellation: its renewal finds the job ended, or it never started (renewJobLeaseOrThrow).
THEOREM CancelledStaysUnpublished == Spec => CancelledIsNotPublished
<1>1. Init => CancelInv
  BY DEF Init, CancelInv, FailPcs
<1>2. TypeInv /\ CancelInv /\ [Next]_vars => CancelInv'
  <2>1. [Next]_vars => faults' = faults
    BY DEF Next, vars
  <2> QED
    BY <2>1, NobodyFails, CancelHalts DEF CancelInv
<1>3. TypeInv /\ CancelInv /\ [Next]_vars =>
         ["error" \notin faults => \A w \in Worker :
             pc[w] = "renew" /\ pc'[w] = "recheck"
                => "run.cancelled" \notin emitted[serves[w]]]_vars
  <2> SUFFICES ASSUME TypeInv, CancelInv, [Next]_vars, "error" \notin faults, NEW v \in Worker,
                      pc[v] = "renew", pc'[v] = "recheck"
               PROVE  "run.cancelled" \notin emitted[serves[v]]
    OBVIOUS
  <2>1. ASSUME NEW w \in Worker, RenewLease(w) PROVE v = w /\ HoldsLease(w, serves[w])
    BY <2>1 DEF RenewLease, Return, Goto, TypeInv, TypeOK
  <2>2. ASSUME NEW w \in Worker, ClaimStep(w) \/ (WorkStep(w) /\ ~RenewLease(w)) PROVE FALSE
    <3>1. pc'[v] = pc[v] \/ v = w
      BY <2>2, WorkFrame DEF ClaimStep, ClaimSnapshot, ClaimJob, ClaimNothing, Return, TypeInv, TypeOK
    <3>2. v = w /\ pc[w] = "renew"
      BY <3>1
    <3> QED
      BY <2>2, <3>2 DEF ClaimStep, ClaimSnapshot, ClaimJob, ClaimNothing, WorkStep, ProcessStep, FailStep,
         CheckRun, CompleteJobCancelled, StartRun, FinishExecution, RecheckRun, PersistArtifacts,
         PersistIndexes, CompleteJob, FinishRun, AppendRunCompleted, EnqueueSummary, DecideRetry,
         RequeueJob, RequeueRun, FailJob, FailRun, AppendRunFailed, EnqueueRepair, Heartbeat,
         FailExecution, Throw, Crash, At, Return, TypeInv, TypeOK
  <2>3. ASSUME NEW r \in Run, HandlerStep(r) PROVE FALSE
    BY <2>3 DEF HandlerStep, SubmitStep, CancelStep, CreateRun, CreateRunJob, RejectRun, CancelGetRun,
       CancelSetRunStatus, CancelSelectJobs, CancelUpdateJobs, CancelAppendEvent, CancelAbandoned,
       LeaseExpires, process
  <2>4. ~UNCHANGED vars
    BY DEF vars, state, process
  <2>5. HoldsLease(v, serves[v])
    BY <2>1, <2>2, <2>3, <2>4, Actors
  <2>6. serves[v] \in Run /\ pc[v] \notin CheckPcs
    BY DEF TypeInv, ProcessShape, Busy, LoopPcs, CheckPcs
  <2>7. ~Halted(serves[v])
    BY <2>5, <2>6 DEF Halted, HoldsLease, TerminalRunStatuses
  <2> QED
    BY <2>6, <2>7 DEF CancelInv
<1>4. Inv => TypeInv
  BY DEF Inv
<1> QED
  BY <1>1, <1>2, <1>3, <1>4, Invariance, PTL DEF Spec, CancelledIsNotPublished
=============================================================================
