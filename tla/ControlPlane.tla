---------------------------- MODULE ControlPlane ----------------------------
(***************************************************************************)
(* The write requests of the API that may be sent twice: answers to a      *)
(* workflow task, continuations of the answered task, the start of a bot   *)
(* proposal, and plain creations (messages, retries of runs).  Every       *)
(* request is served by a thread or a process of its own, statement by     *)
(* statement; clients repeat requests, leave, and processes die.           *)
(*                                                                         *)
(* The path is part of an idempotency key's digest, so keys of different   *)
(* kinds of requests never meet: one key per kind is enough to make two    *)
(* requests share it, and a request without a key shares nothing.          *)
(***************************************************************************)
EXTENDS Naturals, FiniteSets

CONSTANTS
    Requests,  \* bound: how many requests arrive
    Batches    \* bound: the sets of kinds that arrive in one behaviour

Kinds == {"respond", "resume", "confirm", "create"}

ASSUME ControlPlaneAssumption ==
    /\ Requests \in Nat
    /\ Batches \subseteq SUBSET Kinds

Request == 1 .. Requests
Nobody  == 0
Body    == {1, 2}     \* the account in a confirmation, the language elsewhere

\* open: pending_user or blocked; answered: completed or approved.
TaskStatus == {"open", "answered", "rejected"}
Resolved   == {"answered", "rejected"}

VARIABLES
    pc,        \* what each request does next
    kind, keyed, body,   \* what it asks for, and whether with the idempotency key
    seen,      \* whether it saw the task resolved, the proposal started, the runtime
    wish,      \* the status its answer gives the task
    answer,    \* the request whose answer it got: its own or the one replayed
    worked,    \* requests that created what they ask for
    gaveUp,    \* requests whose event lost every try to other writers
    idem,      \* kind -> the record under the idempotency key
    task,      \* status of the workflow task
    item,      \* the fold of the task's continuation events
    aged,      \* its started event is older than the stale limit
    run,       \* the run of each continuation
    built,     \* continuations whose run completed the step it was resumed for
    proposal,  \* the runtime the proposal was started on
    runtimes,  \* the runtime keys in the table
    loads      \* strategy_loaded events of the proposal per runtime

request == <<pc, kind, keyed, body, seen, wish, answer, worked, gaveUp>>
flow    == <<task, item, aged, run, built>>
bots    == <<proposal, runtimes, loads>>
vars    == <<request, idem, flow, bots>>

NoRecord == [status |-> "none", body |-> 1, by |-> Nobody]
Event(type, r) == [status |-> type, run |-> r]

Init ==
    /\ pc = [r \in Request |-> "idle"]
    /\ kind = [r \in Request |-> "none"]
    /\ keyed = [r \in Request |-> FALSE]
    /\ body = [r \in Request |-> 1]
    /\ seen = [r \in Request |-> FALSE]
    /\ wish = [r \in Request |-> "open"]
    /\ answer = [r \in Request |-> Nobody]
    /\ worked = {} /\ gaveUp = {}
    /\ idem = [k \in Kinds |-> NoRecord]
    /\ task = "open"
    /\ item = Event("none", Nobody)
    /\ aged = FALSE
    /\ run = [r \in Request |-> "none"]
    /\ built = {}
    /\ proposal = Nobody
    /\ runtimes = {}
    /\ loads = [b \in Body |-> 0]

Goto(r, label) == pc' = [pc EXCEPT ![r] = label]

\* The request is over and what it read is forgotten.
Forget(r) ==
    /\ Goto(r, "done")
    /\ seen' = [seen EXCEPT ![r] = FALSE]
    /\ wish' = [wish EXCEPT ![r] = "open"]

----------------------------------------------------------------------------
\* Admission: check_write, begin_idempotency, complete_idempotency.

\* Requests arrive in the order of their numbers.
Arrived(r) == pc[r] = "idle" /\ \A q \in Request : q < r => pc[q] # "idle"

\* A confirmation has read the proposal before the key is looked up.
Arrive(r) ==
    /\ Arrived(r)
    /\ \E batch \in Batches, withKey \in BOOLEAN, b \in Body : \E k \in batch :
          /\ \A q \in Request : kind[q] \in batch \cup {"none"}
          /\ k = "respond" => ~withKey
          /\ b = 1 \/ k = "confirm" \/ (k = "create" /\ withKey)
          /\ kind' = [kind EXCEPT ![r] = k]
          /\ keyed' = [keyed EXCEPT ![r] = withKey]
          /\ body' = [body EXCEPT ![r] = b]
          /\ seen' = [seen EXCEPT ![r] = k = "confirm" /\ proposal # Nobody]
          /\ Goto(r, IF withKey THEN "begin" ELSE k)
    /\ UNCHANGED <<wish, answer, worked, gaveUp, idem, flow, bots>>

\* A limit is exceeded or Redis is away: nothing is done.
Refuse(r) ==
    /\ Arrived(r)
    /\ Goto(r, "done")
    /\ UNCHANGED <<kind, keyed, body, seen, wish, answer, worked, gaveUp, idem, flow, bots>>

Replayable(record, r) == record.status = "completed" /\ record.body = body[r]

\* GET: a record of another body or a pending one refuses the request.
LookUpKey(r) ==
    /\ pc[r] = "begin"
    /\ LET record == idem[kind[r]] IN
          IF record.status = "none"
          THEN Goto(r, "claim") /\ answer' = answer
          ELSE /\ Goto(r, "done")
               /\ answer' = [answer EXCEPT ![r] = IF Replayable(record, r) THEN record.by ELSE Nobody]
    /\ UNCHANGED <<kind, keyed, body, seen, wish, worked, gaveUp, idem, flow, bots>>

\* SET without NX: the request that looked first is not noticed.
ClaimableAlways(record) == TRUE

Claimable(record) == record.status = "none"

\* SET NX.
ClaimKey(r) ==
    /\ pc[r] = "claim"
    /\ IF Claimable(idem[kind[r]])
       THEN /\ idem' = [idem EXCEPT ![kind[r]] = [status |-> "pending", body |-> body[r], by |-> r]]
            /\ Goto(r, kind[r])
       ELSE Goto(r, "done") /\ idem' = idem
    /\ UNCHANGED <<kind, keyed, body, seen, wish, answer, worked, gaveUp, flow, bots>>

\* A stream is answered with its first frame.
AnswerableAtFirstFrame(r) == pc[r] \in {"turn", "complete"}

\* A stream is answered when it is over.
Answerable(r) == pc[r] = "complete"

\* The answer is stored under the key.
Complete(r) ==
    /\ Answerable(r)
    /\ idem' = IF keyed[r] THEN [idem EXCEPT ![kind[r]].status = "completed", ![kind[r]].by = r] ELSE idem
    /\ answer' = [answer EXCEPT ![r] = r]
    /\ Goto(r, "done")
    /\ UNCHANGED <<kind, keyed, body, seen, wish, worked, gaveUp, flow, bots>>

\* The process that serves the request dies; a key it holds stays pending.
Die(r) ==
    /\ pc[r] \notin {"idle", "done"}
    /\ Forget(r)
    /\ UNCHANGED <<kind, keyed, body, answer, worked, gaveUp, idem, flow, bots>>

----------------------------------------------------------------------------
\* Plain creations: create_message, retry_run.

Create(r) ==
    /\ pc[r] = "create"
    /\ worked' = worked \cup {r}
    /\ Goto(r, "complete")
    /\ UNCHANGED <<kind, keyed, body, seen, wish, answer, gaveUp, idem, flow, bots>>

----------------------------------------------------------------------------
\* submit_workflow_task_response.

\* The answer is validated against the task as read, and may be partial, full,
\* a rejection or a block.
ReadTask(r) ==
    /\ pc[r] = "respond"
    /\ seen' = [seen EXCEPT ![r] = task \in Resolved]
    /\ \E status \in TaskStatus : wish' = [wish EXCEPT ![r] = status]
    /\ Goto(r, "write")
    /\ UNCHANGED <<kind, keyed, body, answer, worked, gaveUp, idem, flow, bots>>

\* resolve_workflow_task overwrites whatever status the task has by now.
WriteTask(r) ==
    /\ pc[r] = "write"
    /\ task' = wish[r]
    /\ Goto(r, IF wish[r] \in Resolved THEN "announce" ELSE "prompt")
    /\ UNCHANGED <<kind, keyed, body, seen, wish, answer, worked, gaveUp, idem, item, aged, run, built, bots>>

\* A partial answer asks the model for the next question and writes the task,
\* status included, back with it; without a new question nothing is written.
RefreshPrompt(r) ==
    /\ pc[r] = "prompt"
    /\ task' \in {task, wish[r]}
    /\ Forget(r)
    /\ UNCHANGED <<kind, keyed, body, answer, worked, gaveUp, idem, item, aged, run, built, bots>>

RequireContinuation(r) ==
    /\ pc[r] = "announce"
    /\ item' = IF ~seen[r] /\ wish[r] = "answered" THEN Event("required", Nobody) ELSE item
    /\ aged' = IF item' = item THEN aged ELSE FALSE
    /\ Forget(r)
    /\ UNCHANGED <<kind, keyed, body, answer, worked, gaveUp, idem, task, run, built, bots>>

\* sync_workflow_tasks, by any turn of the conversation: an open task is asked
\* again, blocked, or closed with its step; resolved tasks are left alone.
SyncTask ==
    /\ task \notin Resolved
    /\ task' \in {"open", "answered"}
    /\ UNCHANGED <<request, idem, item, aged, run, built, bots>>

----------------------------------------------------------------------------
\* continue_workflow_task and the stream it returns.

Materialized == item.run \in built

\* A started continuation is given up only when its run has ended.
StaleWhenEnded == run[item.run] = "ended"

StartedIsStale == run[item.run] = "ended" \/ aged

Retryable == ~Materialized /\ StartedIsStale

\* The handler's refusals: 409, "already started".
AlreadyStarted ==
    \/ item.status = "started" /\ ~Retryable
    \/ item.status \in {"failed", "completed"} /\ Materialized

Admissible == task = "answered" /\ ~AlreadyStarted

\* A refused request leaves its key pending.
CheckContinuation(r) ==
    /\ pc[r] = "resume"
    /\ Goto(r, IF Admissible THEN "open" ELSE "done")
    /\ UNCHANGED <<kind, keyed, body, seen, wish, answer, worked, gaveUp, idem, flow, bots>>

OpenRun(r) ==
    /\ pc[r] = "open"
    /\ run' = [run EXCEPT ![r] = "running"]
    /\ worked' = worked \cup {r}
    /\ Goto(r, "start")
    /\ UNCHANGED <<kind, keyed, body, seen, wish, answer, gaveUp, idem, task, item, aged, built, bots>>

StartContinuation(r) ==
    /\ pc[r] = "start"
    /\ item' = Event("started", r)
    /\ aged' = FALSE
    /\ Goto(r, "turn")
    /\ UNCHANGED <<kind, keyed, body, seen, wish, answer, worked, gaveUp, idem, task, run, built, bots>>

\* The turn completes the step it was resumed for.
Build(r) ==
    /\ pc[r] = "turn" /\ r \notin built
    /\ built' = built \cup {r}
    /\ UNCHANGED <<request, idem, task, item, aged, run, bots>>

\* The run ends: completed, or blocked (or failed, which is treated alike);
\* some paths of the turn close it without an event for the continuation.
EndRun(r) ==
    /\ pc[r] = "turn"
    /\ run' = [run EXCEPT ![r] = "ended"]
    /\ \E next \in {"completed", "blocked", "complete"} : Goto(r, next)
    /\ UNCHANGED <<kind, keyed, body, seen, wish, answer, worked, gaveUp, idem, task, item, aged, built, bots>>

EventType(status) == IF status = "completed" THEN "completed" ELSE "failed"

\* The event follows the run's status; then the stream is over.
EndContinuation(r) ==
    /\ pc[r] \in {"completed", "blocked"}
    /\ item' = Event(EventType(pc[r]), r)
    /\ aged' = FALSE
    /\ Goto(r, "complete")
    /\ UNCHANGED <<kind, keyed, body, seen, wish, answer, worked, gaveUp, idem, task, run, built, bots>>

\* The client leaves inside the turn: the run is cancelled, its continuation
\* fails, the key stays pending.  Before the turn nothing is cleaned up, as if
\* the process had died.
Leave(r) ==
    /\ pc[r] = "turn"
    /\ run' = [run EXCEPT ![r] = "ended"]
    /\ Goto(r, "left")
    /\ UNCHANGED <<kind, keyed, body, seen, wish, answer, worked, gaveUp, idem, task, item, aged, built, bots>>

FailLeft(r) ==
    /\ pc[r] = "left"
    /\ item' = Event("failed", r)
    /\ aged' = FALSE
    /\ Goto(r, "done")
    /\ UNCHANGED <<kind, keyed, body, seen, wish, answer, worked, gaveUp, idem, task, run, built, bots>>

\* cancel_run, by anybody.
CancelRun(r) ==
    /\ run[r] = "running"
    /\ run' = [run EXCEPT ![r] = "ended"]
    /\ UNCHANGED <<request, idem, task, item, aged, built, bots>>

\* WORKFLOW_CONTINUATION_STALE_SECONDS have passed since the event.
GrowOld ==
    /\ item.status = "started" /\ ~aged
    /\ aged' = TRUE
    /\ UNCHANGED <<request, idem, task, item, run, built, bots>>

----------------------------------------------------------------------------
\* confirm_start_bot_proposal: the runtime's key is that of the account.

CheckProposal(r) ==
    /\ pc[r] = "confirm"
    /\ IF seen[r]
       THEN Goto(r, "complete") /\ seen' = seen
       ELSE seen' = [seen EXCEPT ![r] = body[r] \in runtimes] /\ Goto(r, "upsert")
    /\ UNCHANGED <<kind, keyed, body, wish, answer, worked, gaveUp, idem, flow, bots>>

\* The event is appended for a runtime that was not in the table.
AfterUpsertOfNew(r) == IF seen[r] THEN "mark" ELSE "append"

AfterUpsert(r) == "append"

\* upsert_nautilus_runtime: of two inserts of a runtime key one is an error.
UpsertRuntime(r) ==
    /\ pc[r] = "upsert"
    /\ IF ~seen[r] /\ body[r] \in runtimes
       THEN Goto(r, "done") /\ UNCHANGED <<worked, runtimes>>
       ELSE /\ runtimes' = runtimes \cup {body[r]}
            /\ worked' = worked \cup {r}
            /\ Goto(r, AfterUpsert(r))
    /\ UNCHANGED <<kind, keyed, body, seen, wish, answer, gaveUp, idem, flow, proposal, loads>>

LoadsOnce(b) == loads[b] = 0

\* append_nautilus_runtime_event: a commit that collides is tried again, and
\* the retry finds the event of the same key; after three collisions the
\* append gives up and the handler goes on.
AppendLoaded(r) ==
    /\ pc[r] = "append"
    /\ \/ /\ loads' = IF LoadsOnce(body[r]) THEN [loads EXCEPT ![body[r]] = @ + 1] ELSE loads
          /\ gaveUp' = gaveUp
       \/ gaveUp' = gaveUp \cup {r} /\ loads' = loads
    /\ Goto(r, "mark")
    /\ UNCHANGED <<kind, keyed, body, seen, wish, answer, worked, idem, flow, proposal, runtimes>>

MarkStarted(r) ==
    /\ pc[r] = "mark"
    /\ proposal' = body[r]
    /\ Goto(r, "complete")
    /\ UNCHANGED <<kind, keyed, body, seen, wish, answer, worked, gaveUp, idem, flow, runtimes, loads>>

----------------------------------------------------------------------------
Serve(r) ==
    \/ Arrive(r) \/ Refuse(r) \/ LookUpKey(r) \/ ClaimKey(r) \/ Complete(r) \/ Create(r)
    \/ ReadTask(r) \/ WriteTask(r) \/ RefreshPrompt(r) \/ RequireContinuation(r)
    \/ CheckContinuation(r) \/ OpenRun(r) \/ StartContinuation(r)
    \/ Build(r) \/ EndRun(r) \/ EndContinuation(r) \/ FailLeft(r)
    \/ CheckProposal(r) \/ UpsertRuntime(r) \/ AppendLoaded(r) \/ MarkStarted(r)

Next ==
    \/ \E r \in Request : Serve(r) \/ Die(r) \/ Leave(r) \/ CancelRun(r)
    \/ SyncTask
    \/ GrowOld

\* Only time is fair: no request needs to be served to the end.
Spec == Init /\ [][Next]_vars /\ WF_vars(GrowOld)

----------------------------------------------------------------------------
\* Type invariant: requests, the key's records, the task with its continuation,
\* the proposal with its runtimes.
TypeOK ==
    /\ pc \in [Request -> Kinds \cup {"idle", "done", "begin", "claim", "complete", "write", "announce",
                             "prompt", "open", "start", "turn", "completed", "blocked", "left",
                             "upsert", "append", "mark"}]
    /\ kind \in [Request -> Kinds \cup {"none"}]
    /\ keyed \in [Request -> BOOLEAN] /\ body \in [Request -> Body]
    /\ seen \in [Request -> BOOLEAN] /\ wish \in [Request -> TaskStatus]
    /\ answer \in [Request -> Request \cup {Nobody}]
    /\ worked \subseteq Request /\ gaveUp \subseteq Request
    /\ idem \in [Kinds -> [status : {"none", "pending", "completed"}, body : Body,
                           by : Request \cup {Nobody}]]
    /\ task \in TaskStatus
    /\ item \in [status : {"none", "required", "started", "completed", "failed"},
                 run : Request \cup {Nobody}]
    /\ aged \in BOOLEAN
    /\ run \in [Request -> {"none", "running", "ended"}]
    /\ built \subseteq Request
    /\ proposal \in Body \cup {Nobody} /\ runtimes \subseteq Body
    /\ loads \in [Body -> Nat]

Shares(r, q) == r # q /\ keyed[r] /\ keyed[q] /\ kind[r] = kind[q]

\* Of the requests that carry one key at most one creates a message, a run or
\* a runtime, whatever order they look the key up in, and wherever the one
\* that holds it dies (begin_idempotency).
KeyWorksOnce == \A r, q \in worked : ~Shares(r, q)

\* What a repeated request is answered is the stored answer of the request that
\* did the work under the same key with the same body.
ReplaysOwnAnswer ==
    \A r \in Request :
        answer[r] \notin {Nobody, r} =>
            LET q == answer[r] IN Shares(r, q) /\ body[r] = body[q] /\ answer[q] = q

\* A continuation is answered from its key only when its run has ended: a
\* repeated request is never told of a run still in progress as of a finished
\* one (_idempotent_sse_stream).
AnsweredRunHasEnded ==
    \A r \in Request : kind[r] = "resume" /\ answer[r] # Nobody => run[answer[r]] = "ended"

\* However often and concurrently a proposal is confirmed, each runtime is told
\* once to load its strategy (append_nautilus_runtime_event).
LoadsAtMostOnce == \A b \in Body : loads[b] <= 1

\* A started proposal names a runtime in the table that was told to load its
\* strategy, unless an append of that event was given up.
StartedIsLoaded ==
    proposal # Nobody =>
        /\ proposal \in runtimes
        /\ loads[proposal] = 1 \/ \E r \in gaveUp : kind[r] = "confirm" /\ body[r] = proposal

\* While the task stays answered its continuation is, again and again, either
\* materialized or admissible: no crash, disconnect or late event of another
\* run blocks it for good (_workflow_continuation_started_is_stale).
ContinuationStaysOpen == <>[](task = "answered") => []<>(Materialized \/ Admissible)

\* An idempotency key does its work once, and answers with nothing else.
KeyIsSound == TypeOK /\ KeyWorksOnce /\ ReplaysOwnAnswer

\* A strategy is loaded exactly once into the runtime its proposal names.
LoadedOnce == LoadsAtMostOnce /\ StartedIsLoaded
=============================================================================
