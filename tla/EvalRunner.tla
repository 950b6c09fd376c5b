----------------------------- MODULE EvalRunner -----------------------------
(***************************************************************************)
(* A live evaluation with a time limit per case (run_live_eval,            *)
(* _run_cases_with_timeout): the runner forks a process per case, at most  *)
(* Concurrency at a time, and polls each one's queue, then whether it is   *)
(* alive, then the clock.  A process writes case-eval.json before it       *)
(* answers, and so does the runner for a case that gave no answer.         *)
(*                                                                         *)
(* All of them record their attempts at one model route in the table       *)
(* harness_route_health, by a SELECT and an upsert computed from it.       *)
(***************************************************************************)
EXTENDS Naturals, FiniteSets, FiniteSetsExt

CONSTANTS
    Cases,         \* how many cases the suite has
    Concurrency,   \* --concurrency
    MaxAttempts    \* bound: attempts at the route in all cases

ASSUME EvalRunnerAssumption ==
    /\ Cases \in Nat \ {0}
    /\ Concurrency \in Nat \ {0}
    /\ MaxAttempts \in Nat

Case   == 1 .. Cases
Runner == 0
Actor  == Case \cup {Runner}

Outcomes == {"pass", "timeout", "error"}
Reports  == {"none", "own", "error", "timeout"}
EmptyRow == [timeouts |-> 0, consecutive |-> 0, cooling |-> FALSE]
Settled  == {"exited", "killed"}

VARIABLES
    pending,   \* cases not started
    active,    \* cases the runner waits for
    todo,      \* of those, the ones this round has yet to poll
    parent,    \* what the runner does next
    proc,      \* what the process of each case does next
    queue,     \* what each process put into its queue
    report,    \* what the runner reports for each case
    file,      \* whose case-eval.json is in the case's directory
    started,   \* the case's attribution file holds a started attempt
    attempts,  \* attempts made so far
    outcome,   \* how the attempt being recorded ended
    row,       \* the columns of the route's row computed from a read of it ...
    counted,   \* ... success_count + failure_count, which the upsert increments
    recorded,  \* how many upserts were committed
    read       \* the row each actor has read

runnerVars == <<pending, active, todo, parent, report>>
caseVars   == <<proc, queue, started, attempts, outcome>>
table      == <<row, counted, recorded>>
vars       == <<runnerVars, caseVars, file, table, read>>

Init ==
    /\ pending = Case
    /\ active = {} /\ todo = {}
    /\ parent = "launch"
    /\ proc = [c \in Case |-> "none"]
    /\ queue = [c \in Case |-> "none"]
    /\ report = [c \in Case |-> "none"]
    /\ file = [c \in Case |-> "none"]
    /\ started = {}
    /\ attempts = 0
    /\ outcome = [c \in Case |-> "pass"]
    /\ row = EmptyRow
    /\ counted = 0 /\ recorded = 0
    /\ read = [a \in Actor |-> EmptyRow]

----------------------------------------------------------------------------
\* The route health table: _upsert_attempt.

SelectRow(a) == read' = [read EXCEPT ![a] = row] /\ UNCHANGED table

\* The columns computed from the row that was read; slow answers left out.
NextRow(old, how) ==
    LET timeouts    == IF how = "timeout" /\ old.timeouts < 2 THEN old.timeouts + 1 ELSE old.timeouts
        consecutive == IF how = "pass" THEN 0
                       ELSE IF old.consecutive < 2 THEN old.consecutive + 1 ELSE old.consecutive
    IN [timeouts    |-> timeouts,
        consecutive |-> consecutive,
        cooling     |-> old.cooling \/ timeouts >= 2 \/ consecutive >= 2]

\* The counts are computed from the read row like the rest.
UpsertFromRead(a, how) ==
    /\ row' = NextRow(read[a], how)
    /\ counted' = IF row = read[a] THEN counted + 1 ELSE counted
    /\ recorded' = recorded + 1
    /\ read' = [read EXCEPT ![a] = EmptyRow]

\* The counts are incremented in the statement, the rest is overwritten.
UpsertRow(a, how) ==
    /\ row' = NextRow(read[a], how)
    /\ counted' = counted + 1
    /\ recorded' = recorded + 1
    /\ read' = [read EXCEPT ![a] = EmptyRow]

----------------------------------------------------------------------------
\* The process of a case: _run_case_worker, _run_case.

StartAttempt(c) ==
    /\ proc[c] = "running"
    /\ attempts < MaxAttempts
    /\ attempts' = attempts + 1
    /\ started' = started \cup {c}
    /\ proc' = [proc EXCEPT ![c] = "calling"]
    /\ UNCHANGED <<runnerVars, queue, file, outcome, table, read>>

\* The provider may as well never answer.
EndAttempt(c) ==
    /\ proc[c] = "calling"
    /\ \E how \in Outcomes : outcome' = [outcome EXCEPT ![c] = how]
    /\ SelectRow(c)
    /\ proc' = [proc EXCEPT ![c] = "recording"]
    /\ UNCHANGED <<runnerVars, queue, file, started, attempts>>

RecordAttempt(c) ==
    /\ proc[c] = "recording"
    /\ UpsertRow(c, outcome[c])
    /\ proc' = [proc EXCEPT ![c] = "running"]
    /\ outcome' = [outcome EXCEPT ![c] = "pass"]
    /\ UNCHANGED <<runnerVars, queue, file, started, attempts>>

WriteReport(c) ==
    /\ proc[c] = "running"
    /\ file' = [file EXCEPT ![c] = "own"]
    /\ proc' = [proc EXCEPT ![c] = "putting"]
    /\ UNCHANGED <<runnerVars, queue, started, attempts, outcome, table, read>>

\* The answer is in the pipe before the process exits.
PutReport(c) ==
    /\ proc[c] = "putting"
    /\ queue' = [queue EXCEPT ![c] = "own"]
    /\ proc' = [proc EXCEPT ![c] = "exiting"]
    /\ UNCHANGED <<runnerVars, file, started, attempts, outcome, table, read>>

\* What _run_case does not catch.
PutException(c) ==
    /\ proc[c] = "running"
    /\ queue' = [queue EXCEPT ![c] = "error"]
    /\ proc' = [proc EXCEPT ![c] = "exiting"]
    /\ UNCHANGED <<runnerVars, file, started, attempts, outcome, table, read>>

\* What a process had read and not written is gone with it.
Forget(c) ==
    /\ outcome' = [outcome EXCEPT ![c] = "pass"]
    /\ read' = [read EXCEPT ![c] = EmptyRow]

\* The process ends: after its answer, or of a signal nobody handles.
Exit(c) ==
    /\ proc[c] \notin {"none"} \cup Settled
    /\ proc' = [proc EXCEPT ![c] = "exited"]
    /\ Forget(c)
    /\ UNCHANGED <<runnerVars, queue, file, started, attempts, table>>

CaseStep(c) ==
    \/ StartAttempt(c) \/ EndAttempt(c) \/ RecordAttempt(c)
    \/ WriteReport(c) \/ PutReport(c) \/ PutException(c) \/ Exit(c)

----------------------------------------------------------------------------
\* The runner.

Polled == Min(todo)

Launch ==
    /\ parent = "launch"
    /\ pending # {}
    /\ Cardinality(active) < Concurrency
    /\ LET c == Min(pending) IN
         /\ pending' = pending \ {c}
         /\ active' = active \cup {c}
         /\ proc' = [proc EXCEPT ![c] = "running"]
    /\ UNCHANGED <<todo, parent, report, queue, file, started, attempts, outcome, table, read>>

StartRound ==
    /\ parent = "launch"
    /\ pending = {} \/ Cardinality(active) >= Concurrency
    /\ todo' = active
    /\ parent' = IF active = {} THEN "done" ELSE "queue"
    /\ UNCHANGED <<pending, active, report, caseVars, file, table, read>>

\* Go on with the next case of the round.
PollNext ==
    /\ todo' = todo \ {Polled}
    /\ parent' = IF todo' = {} THEN "launch" ELSE "queue"

\* The polled case is over; an own report is already in its file.
Settle(what) ==
    /\ report' = [report EXCEPT ![Polled] = what]
    /\ file' = IF what = "own" THEN file ELSE [file EXCEPT ![Polled] = what]
    /\ active' = active \ {Polled}
    /\ PollNext
    /\ UNCHANGED pending

PollQueue ==
    /\ parent = "queue"
    /\ \/ queue[Polled] # "none" /\ Settle(queue[Polled])
       \/ /\ queue[Polled] = "none"
          /\ parent' = "alive"
          /\ UNCHANGED <<pending, active, todo, report, file>>
    /\ UNCHANGED <<caseVars, table, read>>

PollAlive ==
    /\ parent = "alive"
    /\ \/ proc[Polled] = "exited" /\ Settle("error")
       \/ /\ proc[Polled] # "exited"
          /\ parent' = "clock"
          /\ UNCHANGED <<pending, active, todo, report, file>>
    /\ UNCHANGED <<caseVars, table, read>>

\* Whether the time limit has passed is a choice.
InTime ==
    /\ parent = "clock"
    /\ PollNext
    /\ UNCHANGED <<pending, active, report, caseVars, file, table, read>>

\* The case is given up and its process runs on.
GiveUp ==
    /\ parent = "clock"
    /\ parent' = IF Polled \in started THEN "mirror" ELSE "timedOut"
    /\ UNCHANGED <<pending, active, todo, report, caseVars, file, table, read>>

\* Only a case that has started an attempt has a time limit.
TerminateStarted ==
    /\ parent = "clock"
    /\ Polled \in started
    /\ proc' = [proc EXCEPT ![Polled] = "killed"]
    /\ Forget(Polled)
    /\ parent' = "mirror"
    /\ UNCHANGED <<pending, active, todo, report, queue, started, attempts, file, table>>

Terminate ==
    /\ parent = "clock"
    /\ proc' = [proc EXCEPT ![Polled] = "killed"]
    /\ Forget(Polled)
    /\ parent' = IF Polled \in started THEN "mirror" ELSE "timedOut"
    /\ UNCHANGED <<pending, active, todo, report, queue, started, attempts, file, table>>

\* record_timeout_mirror_events: a timeout for the route of a started attempt,
\* whether or not the attempt was answered and recorded.
SelectMirror ==
    /\ parent = "mirror"
    /\ SelectRow(Runner)
    /\ parent' = "mirrorWrite"
    /\ UNCHANGED <<pending, active, todo, report, caseVars, file>>

UpsertMirror ==
    /\ parent = "mirrorWrite"
    /\ UpsertRow(Runner, "timeout")
    /\ parent' = "timedOut"
    /\ UNCHANGED <<pending, active, todo, report, caseVars, file>>

ReportTimeout ==
    /\ parent = "timedOut"
    /\ Settle("timeout")
    /\ UNCHANGED <<caseVars, table, read>>

RunnerStep ==
    \/ Launch \/ StartRound \/ PollQueue \/ PollAlive \/ InTime
    \/ Terminate \/ SelectMirror \/ UpsertMirror \/ ReportTimeout

Done == parent = "done" /\ UNCHANGED vars

Next ==
    \/ RunnerStep
    \/ \E c \in Case : CaseStep(c)
    \/ Done

\* The runner runs, and a time limit passes at last; no case has to get anywhere.
Fairness ==
    /\ WF_vars(RunnerStep)
    /\ SF_vars(Terminate)

Spec == Init /\ [][Next]_vars /\ Fairness

----------------------------------------------------------------------------
TypeOK ==
    /\ pending \subseteq Case /\ active \subseteq Case /\ todo \subseteq Case
    /\ parent \in {"launch", "queue", "alive", "clock", "mirror", "mirrorWrite", "timedOut", "done"}
    /\ proc \in [Case -> {"none", "running", "calling", "recording", "putting", "exiting"} \cup Settled]
    /\ started \subseteq Case
    /\ queue \in [Case -> {"none", "own", "error"}]
    /\ report \in [Case -> Reports] /\ file \in [Case -> Reports]
    /\ attempts \in 0 .. MaxAttempts
    /\ outcome \in [Case -> Outcomes]
    /\ row \in [timeouts : 0 .. 2, consecutive : 0 .. 2, cooling : BOOLEAN]
    /\ counted \in Nat /\ recorded \in Nat
    /\ read \in [Actor -> [timeouts : 0 .. 2, consecutive : 0 .. 2, cooling : BOOLEAN]]

(***************************************************************************)
(* The report of a case and the case-eval.json beside its artifacts agree  *)
(* once the case is reported, for good: a process that was about to write  *)
(* its own cannot do so after the runner gave the case up.                 *)
(***************************************************************************)
FilesMatchReports ==
    \A c \in Case : report[c] # "none" => file[c] = report[c]

(***************************************************************************)
(* Never more than Concurrency processes work on cases, with cases ending  *)
(* in every way: the process of a reported case works no more.             *)
(***************************************************************************)
WorksWithinConcurrency ==
    Cardinality({c \in Case : proc[c] \in {"running", "calling", "recording", "putting"}}) <= Concurrency

(***************************************************************************)
(* Processes that record attempts at once overwrite what they computed     *)
(* from their reads, but no attempt is missing from the counts, and a row  *)
(* that shows two failures in a row or two timeouts shows a cooldown.      *)
(***************************************************************************)
RowIsConsistent ==
    /\ counted = recorded
    /\ row.consecutive >= 2 \/ row.timeouts >= 2 => row.cooling

(***************************************************************************)
(* The evaluation ends with a report for every case, although a provider,  *)
(* and with it a case, may hang for good.                                  *)
(***************************************************************************)
EveryCaseIsReported ==
    <>(parent = "done" /\ \A c \in Case : report[c] # "none")

\* What is reported, on disk and in the health table, agrees with what happened.
ReportsAgree == TypeOK /\ FilesMatchReports /\ RowIsConsistent
=============================================================================
