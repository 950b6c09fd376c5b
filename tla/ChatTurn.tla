------------------------------ MODULE ChatTurn ------------------------------
(***************************************************************************)
(* One turn of the assistant: a chat message, the continuation of a        *)
(* workflow task (LLMOrchestrator.stream_chat with and without             *)
(* workflow_task_resume) or an agent run (execute_agent_run).              *)
(*                                                                         *)
(* A chat turn is a generator: the client may leave at every frame it is   *)
(* sent (GeneratorExit), and an action here runs from one frame to the     *)
(* next.  Meanwhile the API may cancel the run.  What the model, the tools *)
(* and the classifiers say is a choice.                                    *)
(***************************************************************************)
EXTENDS Naturals, Sequences, SequencesExt, FiniteSets

CONSTANTS
    MaxTools,   \* RunBudget.max_tool_calls
    MaxSteps,   \* STRATEGY_CODEBOT_BACKTEST_AUTO_CHAIN_MAX_STEPS
    Stages,     \* Len(STRATEGY_PROMPT_CHAIN_STAGES)
    MaxRounds,  \* AgentLoopBudget.max_iterations of the scout
    MaxScouts   \* AgentLoopBudget.max_tool_calls of the scout

ASSUME ChatTurnAssumption ==
    /\ MaxTools \in Nat
    /\ MaxSteps \in Nat \ {0}
    /\ Stages \in Nat \ {0}
    /\ MaxRounds \in Nat \ {0}
    /\ MaxScouts \in Nat

Kinds    == {"chat", "resume", "agent"}
Paths    == {"safety", "scope", "task", "guard", "evidence", "scout", "direct", "model"}
Terminal == {"completed", "blocked", "failed", "cancelled"}

\* The tools the chain tells apart; "other" stands for all the rest.
Tools     == {"generate_pine", "create_backtest_plan", "run_backtest_preview", "other"}
Allowlist == Tools \ {"other"}

VARIABLES
    kind,        \* what asked for the turn
    pc,          \* the frame the turn has reached
    path,        \* which of its answers the turn gives
    opened,      \* the turn is inside its try
    known,       \* terminal_status is set
    left,        \* the client is gone
    status,      \* status of the run
    event,       \* its last run.completed, run.failed or run.cancelled
    cancel,      \* how far a cancel request of the API is
    answer,      \* the last workflow.continuation event after started
    posts,       \* kinds of assistant messages stored
    text,        \* accumulated_text is not empty
    blocked,     \* RunBudget.blocked
    completed,   \* RunBudget.completed_tool_ids
    steps,       \* RunBudget.auto_chain_steps_completed
    chained,     \* RunBudget.auto_chain_allowed
    apology,     \* RunBudget.auto_chain_failure_text
    stack,       \* the tool calls in progress: a chat tool and a chain's step
    rows,        \* statuses of the tool_call rows of the calls that are over
    rounds,      \* iterations of the scout
    scouts,      \* its tool calls
    stage,       \* stages of the prompt chain that handed over
    retried      \* the stage was asked a second time

turn    == <<kind, path, opened>>
run     == <<status, event>>
reply   == <<posts, text, answer>>
tokens  == <<blocked, completed, steps, chained, apology>>
calls   == <<stack, rows>>
scout   == <<rounds, scouts>>
prompts == <<stage, retried>>
vars    == <<pc, turn, known, left, run, cancel, reply, tokens, calls, scout, prompts>>

Init ==
    /\ kind \in Kinds
    /\ pc = "gates"
    /\ path = "model"
    /\ opened = FALSE /\ known = FALSE /\ left = FALSE
    /\ status = "running" /\ event = "none" /\ cancel = "none"
    /\ answer = "none" /\ posts = {} /\ text = FALSE
    /\ blocked = FALSE /\ completed = <<>>
    /\ steps = 0 /\ chained = FALSE /\ apology = FALSE
    /\ stack = <<>> /\ rows = {}
    /\ rounds = 0 /\ scouts = 0
    /\ stage = 0 /\ retried = FALSE

Goto(next) == pc' = next

----------------------------------------------------------------------------
\* Before the try: safety, policy and domain gates, and the intent.

\* chat_safety_preflight or the semantic gate rejects the message.
RejectUnsafe ==
    /\ pc = "gates" /\ kind = "chat"
    /\ path' = "safety"
    /\ Goto("refusing")
    /\ UNCHANGED <<kind, opened, known, left, run, cancel, reply, tokens, calls, scout, prompts>>

\* The precheck, or the intent, finds the message off topic.
RejectOffTopic ==
    /\ pc \in {"gates", "decided"} /\ kind = "chat"
    /\ path' = "scope"
    /\ Goto("refusing")
    /\ UNCHANGED <<kind, opened, known, left, run, cancel, reply, tokens, calls, scout, prompts>>

ExplainRefusal ==
    /\ pc = "refusing"
    /\ posts' = posts \cup {"refusal"}
    /\ Goto("refused")
    /\ UNCHANGED <<turn, known, left, run, cancel, text, answer, tokens, calls, scout, prompts>>

CloseRefused ==
    /\ pc = "refused"
    /\ status' = IF path = "safety" THEN "blocked" ELSE "completed"
    /\ event' = "completed"
    /\ Goto("closing")
    /\ UNCHANGED <<turn, known, left, cancel, reply, tokens, calls, scout, prompts>>

\* What the intent may be: only a chat message's may start the chain.
Intents == IF kind = "chat" THEN BOOLEAN ELSE {FALSE}

\* The intent is classified, or fixed for a resumed turn; a timeout or failure
\* of the classifier leaves a fallback.
DecideIntent ==
    /\ pc = "gates" /\ kind # "agent"
    /\ chained' \in Intents
    /\ Goto("decided")
    /\ UNCHANGED <<turn, known, left, run, cancel, reply, blocked, completed, steps, apology,
                   calls, scout, prompts>>

\* A resumed turn is not asked for context it lacks, a chain is the model's.
Plans ==
    IF chained THEN {"task", "evidence", "scout", "model"}
    ELSE {"task", "evidence", "scout", "direct", "model"}
         \cup IF kind = "chat" THEN {"guard"} ELSE {}

\* The action plan, the workflow and the suggestions; then the try.
PlanActions ==
    /\ pc = "decided"
    /\ path' \in Plans
    /\ opened' = TRUE
    /\ Goto("opened")
    /\ UNCHANGED <<kind, known, left, run, cancel, reply, tokens, calls, scout, prompts>>

\* The first try of an agent run: the budget may block it, a rate limit
\* raises past everything.
StartAgent ==
    /\ pc = "gates" /\ kind = "agent"
    /\ \/ Goto("streaming") /\ opened' = TRUE /\ UNCHANGED blocked
       \/ Goto("replied") /\ blocked' = TRUE /\ UNCHANGED opened
    /\ UNCHANGED <<kind, path, known, left, run, cancel, reply, completed, steps, chained, apology,
                   calls, scout, prompts>>

RefuseAgent ==
    /\ pc = "gates" /\ kind = "agent"
    /\ Goto("ended")
    /\ UNCHANGED <<turn, known, left, run, cancel, reply, tokens, calls, scout, prompts>>

----------------------------------------------------------------------------
\* Answers that need no model stream.

\* The tasks are synchronised; a blocking one that waits for the user ends
\* the turn.
AskTask ==
    /\ pc = "opened" /\ path = "task"
    /\ status' = "completed" /\ event' = "completed"
    /\ known' = TRUE
    /\ Goto("closing")
    /\ UNCHANGED <<turn, left, cancel, reply, tokens, calls, scout, prompts>>

PostFixed ==
    /\ pc = "opened" /\ path \in {"guard", "evidence"}
    /\ posts' = posts \cup {"fixed"}
    /\ Goto("replied")
    /\ UNCHANGED <<turn, known, left, run, cancel, text, answer, tokens, calls, scout, prompts>>

\* The scout asks the model again as long as it calls tools.
ScoutRound ==
    /\ pc \in {"opened", "scouting"} /\ path = "scout"
    /\ rounds < MaxRounds
    /\ rounds' = rounds + 1
    /\ Goto("listening")
    /\ UNCHANGED <<turn, known, left, run, cancel, reply, tokens, calls, scouts, prompts>>

\* A call past the budget, or a blocked one, blocks the scout; a failed one ends it.
ScoutCall ==
    /\ pc \in {"listening", "called"}
    /\ IF scouts < MaxScouts
       THEN /\ scouts' = scouts + 1
            /\ \/ Goto("called") /\ UNCHANGED blocked
               \/ Goto("scoutReply") /\ blocked' \in BOOLEAN
       ELSE Goto("scoutReply") /\ blocked' = TRUE /\ UNCHANGED scouts
    /\ UNCHANGED <<turn, known, left, run, cancel, reply, completed, steps, chained, apology,
                   calls, rounds, prompts>>

\* The stream ends: after calls, with another round if there is one.
ScoutStreamEnds ==
    /\ pc \in {"listening", "called"}
    /\ \/ Goto("scoutReply")
       \/ pc = "called" /\ rounds < MaxRounds /\ Goto("scouting")
    /\ UNCHANGED <<turn, known, left, run, cancel, reply, tokens, calls, scout, prompts>>

\* A blocked scout says so instead of what the model wrote.
PostScout ==
    /\ pc = "scoutReply"
    /\ posts' = posts \cup {IF blocked THEN "refusal" ELSE "model"}
    /\ Goto("scouted")
    /\ UNCHANGED <<turn, known, left, run, cancel, text, answer, tokens, calls, scout, prompts>>

\* Its terminal_status is a local of _run_bounded_scout.
SettleScout ==
    /\ pc = "scouted"
    /\ status' = IF blocked THEN "blocked" ELSE "completed"
    /\ event' = "completed"
    /\ Goto("closing")
    /\ UNCHANGED <<turn, known, left, cancel, reply, tokens, calls, scout, prompts>>

----------------------------------------------------------------------------
\* The model stream.

\* provider.started; the limit on model calls raises.
StartModel ==
    /\ pc = "opened" /\ path = "model"
    /\ Goto("started")
    /\ UNCHANGED <<turn, known, left, run, cancel, reply, tokens, calls, scout, prompts>>

\* Strategy intents without web search go through the prompt chain first.
StartPrompts ==
    /\ pc = "started"
    /\ Goto("prompting")
    /\ UNCHANGED <<turn, known, left, run, cancel, reply, tokens, calls, scout, prompts>>

SkipPrompts ==
    /\ pc = "started"
    /\ Goto("streaming")
    /\ UNCHANGED <<turn, known, left, run, cancel, reply, tokens, calls, scout, prompts>>

\* The stage's payload parses: its context is handed to the next stage.
StageAnswers ==
    /\ pc = "prompting"
    /\ stage' = stage + 1 /\ retried' = FALSE
    /\ Goto(IF stage' = Stages THEN "prompted" ELSE "prompting")
    /\ UNCHANGED <<turn, known, left, run, cancel, reply, tokens, calls, scout>>

\* It does not: the stage is asked once more, then the chain hands over nothing.
StageUnparsed ==
    /\ pc = "prompting"
    /\ retried' = TRUE
    /\ Goto(IF retried THEN "streaming" ELSE "prompting")
    /\ UNCHANGED <<turn, known, left, run, cancel, reply, tokens, calls, scout, stage>>

\* The provider fails or sends what the chain does not know.
StageGivesUp ==
    /\ pc = "prompting"
    /\ Goto("streaming")
    /\ UNCHANGED <<turn, known, left, run, cancel, reply, tokens, calls, scout, prompts>>

\* Its usage is past the budget.
StageBlocked ==
    /\ pc = "prompting"
    /\ blocked' = TRUE
    /\ Goto("streamed")
    /\ UNCHANGED <<turn, known, left, run, cancel, reply, completed, steps, chained, apology,
                   calls, scout, prompts>>

\* The outputs make no text or no script: the model is streamed after all.
PromptsIncomplete ==
    /\ pc = "prompted"
    /\ Goto("streaming")
    /\ UNCHANGED <<turn, known, left, run, cancel, reply, tokens, calls, scout, prompts>>

\* The policy has its say on the text, then the artifact is stored.
PromptsComplete ==
    /\ pc = "prompted"
    /\ \/ text' = TRUE /\ UNCHANGED blocked
       \/ blocked' = TRUE /\ UNCHANGED text
    /\ Goto("streamed")
    /\ UNCHANGED <<turn, known, left, run, cancel, posts, answer, completed, steps, chained,
                   apology, calls, scout, prompts>>

TextDelta ==
    /\ pc = "streaming"
    /\ text' = TRUE
    /\ UNCHANGED <<pc, turn, known, left, run, cancel, posts, answer, tokens, calls, scout, prompts>>

\* A finding on the delta, or usage past the budget: the stream is left.
BlockStream ==
    /\ pc = "streaming"
    /\ blocked' = TRUE
    /\ Goto("streamed")
    /\ UNCHANGED <<turn, known, left, run, cancel, reply, completed, steps, chained, apology,
                   calls, scout, prompts>>

StreamEnds ==
    /\ pc = "streaming"
    /\ Goto("streamed")
    /\ UNCHANGED <<turn, known, left, run, cancel, reply, tokens, calls, scout, prompts>>

----------------------------------------------------------------------------
\* Tool calls: _gate_tool, _execute_tool_call, _run_backtest_auto_chain.

Depth == Len(stack)
Top   == stack[Depth]

Push(tool)     == stack' = Append(stack, [tool |-> tool, row |-> "none"])
SetRow(status_) == stack' = [stack EXCEPT ![Depth].row = status_]

\* The call is over; where the caller goes on.
Pop == stack' = Front(stack) /\ rows' = rows \cup {Top.row}

\* The action plan names the tool; such a call may not chain.
CallDirect ==
    /\ pc = "opened" /\ path = "direct"
    /\ \E tool \in Tools : Push(tool)
    /\ Goto("gating")
    /\ UNCHANGED <<turn, known, left, run, cancel, reply, tokens, rows, scout, prompts>>

\* A resumed turn offers the model no tools; a call discards the text so far.
CallTool ==
    /\ pc = "streaming" /\ kind # "resume"
    /\ \E tool \in Tools : Push(tool)
    /\ text' = FALSE
    /\ Goto("gating")
    /\ UNCHANGED <<turn, known, left, run, cancel, posts, answer, tokens, rows, scout, prompts>>

\* allow_tool is not asked.
GateWithoutBudget ==
    /\ pc = "gating"
    /\ SetRow("starting")
    /\ Goto("starting")
    /\ UNCHANGED <<turn, known, left, run, cancel, reply, tokens, rows, scout, prompts>>

\* The row is created before the try of the call.
GateAllows ==
    /\ pc = "gating"
    /\ Len(completed) < MaxTools
    /\ SetRow("starting")
    /\ Goto("starting")
    /\ UNCHANGED <<turn, known, left, run, cancel, reply, tokens, rows, scout, prompts>>

\* The allowlist, the schema, a limit or the policy may reject any call.
GateRejects ==
    /\ pc = "gating"
    /\ blocked' = TRUE
    /\ Goto("returning")
    /\ UNCHANGED <<turn, known, left, run, cancel, reply, completed, steps, chained, apology,
                   calls, scout, prompts>>

ExecuteTool ==
    /\ pc = "starting"
    /\ SetRow("executing")
    /\ Goto("executing")
    /\ UNCHANGED <<turn, known, left, run, cancel, reply, tokens, rows, scout, prompts>>

ToolSucceeds ==
    /\ pc = "executing"
    /\ SetRow("completed")
    /\ completed' = Append(completed, Top.tool)
    /\ Goto("executed")
    /\ UNCHANGED <<turn, known, left, run, cancel, reply, blocked, steps, chained, apology,
                   rows, scout, prompts>>

\* The row keeps the status it had.
ToolFailsSilently ==
    /\ \/ pc \in {"executing", "executed", "chaining"}
       \/ pc = "returning" /\ Top.row = "completed"
    /\ Goto("raising")
    /\ UNCHANGED <<turn, known, left, run, cancel, reply, tokens, calls, scout, prompts>>

\* An exception of the tool, or of what follows its success.
ToolFails ==
    /\ \/ pc \in {"executing", "executed", "chaining"}
       \/ pc = "returning" /\ Top.row = "completed"
    /\ SetRow("failed")
    /\ Goto("raising")
    /\ UNCHANGED <<turn, known, left, run, cancel, reply, tokens, rows, scout, prompts>>

\* Audit, workflow tasks and suggestions, then the chain if it is allowed;
\* its steps chain no further.
PostProcess ==
    /\ pc = "executed"
    /\ Goto(IF Depth = 1 /\ chained THEN "chaining" ELSE "returning")
    /\ UNCHANGED <<turn, known, left, run, cancel, reply, tokens, calls, scout, prompts>>

\* BacktestAutoChainPlanner.next_step has a step: the plan for a Pine script.
HasStep ==
    /\ Len(completed) < MaxTools
    /\ steps < MaxSteps
    /\ LET done == ToSet(completed)
       IN /\ "run_backtest_preview" \notin done
          /\ Last(completed) \in Allowlist
          /\ "generate_pine" \in done
          /\ "create_backtest_plan" \notin done

ChainStep ==
    /\ pc = "chaining"
    /\ HasStep
    /\ Push("create_backtest_plan")
    /\ Goto("gating")
    /\ UNCHANGED <<turn, known, left, run, cancel, reply, tokens, rows, scout, prompts>>

ChainEnds ==
    /\ pc = "chaining"
    /\ ~HasStep
    /\ Goto("returning")
    /\ UNCHANGED <<turn, known, left, run, cancel, reply, tokens, calls, scout, prompts>>

\* Only a step that was executed counts.
CountedIfExecuted ==
    /\ pc = "returning"
    /\ Pop
    /\ IF Depth = 2
       THEN /\ steps' = IF Top.row = "completed" THEN steps + 1 ELSE steps
            /\ Goto("chaining")
       ELSE /\ Goto(IF blocked \/ path = "direct" THEN "streamed" ELSE "streaming")
            /\ UNCHANGED steps
    /\ UNCHANGED <<turn, known, left, run, cancel, reply, blocked, completed, chained, apology,
                   scout, prompts>>

\* A step that was blocked counts like one that was executed.
Return ==
    /\ pc = "returning"
    /\ Pop
    /\ IF Depth = 2
       THEN Goto("chaining") /\ steps' = steps + 1
       ELSE /\ Goto(IF blocked \/ path = "direct" THEN "streamed" ELSE "streaming")
            /\ UNCHANGED steps
    /\ UNCHANGED <<turn, known, left, run, cancel, reply, blocked, completed, chained, apology,
                   scout, prompts>>

\* The chain catches what its step raises, also before the step's try; it
\* ends, and the tool that started it goes on.
StepRaises ==
    /\ Depth = 2
    /\ pc \in {"gating", "starting", "raising"}
    /\ Pop
    /\ apology' = TRUE
    /\ Goto("returning")
    /\ UNCHANGED <<turn, known, left, run, cancel, reply, blocked, completed, steps, chained,
                   scout, prompts>>

----------------------------------------------------------------------------
\* The reply and the end of the turn.

\* The text is posted even if the turn was blocked after it.
ReplyUnlessEmpty ==
    /\ pc = "streamed" /\ kind # "agent"
    /\ posts' = IF text THEN posts \cup {"model"}
                ELSE IF completed # <<>> THEN posts \cup {IF apology THEN "apology" ELSE "tools"}
                ELSE posts
    /\ Goto("replied")
    /\ UNCHANGED <<turn, known, left, run, cancel, text, answer, tokens, calls, scout, prompts>>

\* The model's text or, after tools, a fixed one; nothing if blocked.
Reply ==
    /\ pc = "streamed" /\ kind # "agent"
    /\ posts' = IF blocked THEN posts
                ELSE IF text THEN posts \cup {"model"}
                ELSE IF completed # <<>> THEN posts \cup {IF apology THEN "apology" ELSE "tools"}
                ELSE posts
    /\ Goto("replied")
    /\ UNCHANGED <<turn, known, left, run, cancel, text, answer, tokens, calls, scout, prompts>>

\* An agent run that is not blocked goes on as a dry run of the strategy.
DryRun ==
    /\ pc = "streamed" /\ kind = "agent"
    /\ Goto("replied")
    /\ UNCHANGED <<turn, known, left, run, cancel, reply, tokens, calls, scout, prompts>>

\* An agent run, blocked or run as a dry run.
SettleAgent ==
    /\ pc = "replied" /\ kind = "agent"
    /\ status' = IF blocked THEN "blocked" ELSE "completed"
    /\ event' = "completed"
    /\ Goto("closing")
    /\ UNCHANGED <<turn, known, left, cancel, reply, tokens, calls, scout, prompts>>

\* Status, and for a continued task the continuation's end before the turn's.
Settle ==
    /\ pc = "replied" /\ kind # "agent"
    /\ status' = IF blocked THEN "blocked" ELSE "completed"
    /\ known' = TRUE
    /\ IF kind = "resume" /\ path \in {"direct", "model"}
       THEN /\ answer' = IF blocked THEN "failed" ELSE "completed"
            /\ Goto("answered")
            /\ UNCHANGED event
       ELSE /\ event' = "completed"
            /\ Goto("closing")
            /\ UNCHANGED answer
    /\ UNCHANGED <<turn, left, cancel, posts, text, tokens, calls, scout, prompts>>

Complete ==
    /\ pc = "answered"
    /\ event' = "completed"
    /\ Goto("closing")
    /\ UNCHANGED <<turn, known, left, status, cancel, reply, tokens, calls, scout, prompts>>

\* What follows run.completed: compaction and lessons, or nothing.
Close ==
    /\ pc = "closing"
    /\ Goto("ended")
    /\ UNCHANGED <<turn, known, left, run, cancel, reply, tokens, calls, scout, prompts>>

\* except Exception: whatever the turn was doing, run.completed included.
Fail ==
    /\ opened
    /\ pc \notin {"failing", "failed", "ended"}
    /\ Depth = 0 \/ (Depth = 1 /\ pc \in {"gating", "starting", "raising"})
    /\ status' = "failed"
    /\ known' = TRUE
    /\ stack' = <<>>
    /\ rows' = rows \cup {stack[i].row : i \in 1 .. Depth}
    /\ posts' = IF kind = "agent" THEN posts ELSE posts \cup {"failure"}
    /\ Goto("failing")
    /\ UNCHANGED <<turn, left, event, cancel, text, answer, tokens, scout, prompts>>

\* The continuation's end is left out.
FailUnanswered ==
    /\ pc = "failing"
    /\ Goto("failed")
    /\ UNCHANGED <<turn, known, left, run, cancel, reply, tokens, calls, scout, prompts>>

AnswerFailed ==
    /\ pc = "failing"
    /\ answer' = IF kind = "resume" THEN "failed" ELSE answer
    /\ Goto("failed")
    /\ UNCHANGED <<turn, known, left, run, cancel, posts, text, tokens, calls, scout, prompts>>

CloseFailed ==
    /\ pc = "failed"
    /\ event' = "failed"
    /\ Goto("ended")
    /\ UNCHANGED <<turn, known, left, status, cancel, reply, tokens, calls, scout, prompts>>

\* except GeneratorExit: inside the try, a turn without a terminal_status is
\* cancelled.  Outside it, or in its own except, the turn just stops.
Leave ==
    /\ kind # "agent"
    /\ pc \notin {"gates", "ended"}
    /\ left' = TRUE
    /\ IF opened /\ ~known
       THEN /\ status' = "cancelled" /\ event' = "cancelled"
            /\ answer' = IF kind = "resume" THEN "failed" ELSE answer
       ELSE UNCHANGED <<status, event, answer>>
    /\ stack' = <<>>
    /\ rows' = rows \cup {stack[i].row : i \in 1 .. Depth}
    /\ Goto("ended")
    /\ UNCHANGED <<turn, known, cancel, posts, text, tokens, scout, prompts>>

\* The cancel request of the API: status, then event; jobs are RunJobs' business.
RequestCancel ==
    /\ cancel = "none"
    /\ status \notin Terminal
    /\ status' = "cancelled"
    /\ cancel' = "marked"
    /\ UNCHANGED <<pc, turn, known, left, event, reply, tokens, calls, scout, prompts>>

ReportCancel ==
    /\ cancel = "marked"
    /\ event' = "cancelled"
    /\ cancel' = "done"
    /\ UNCHANGED <<pc, turn, known, left, status, reply, tokens, calls, scout, prompts>>

----------------------------------------------------------------------------
Gates  == RejectUnsafe \/ RejectOffTopic \/ ExplainRefusal \/ CloseRefused \/ DecideIntent
          \/ PlanActions \/ StartAgent \/ RefuseAgent
Fixed  == AskTask \/ PostFixed
Scout  == ScoutRound \/ ScoutCall \/ ScoutStreamEnds \/ PostScout \/ SettleScout
Prompts == StartPrompts \/ SkipPrompts \/ StageAnswers \/ StageUnparsed \/ StageGivesUp
           \/ StageBlocked \/ PromptsIncomplete \/ PromptsComplete
Stream == StartModel \/ TextDelta \/ BlockStream \/ StreamEnds
Call   == CallDirect \/ CallTool \/ GateAllows \/ GateRejects \/ ExecuteTool \/ ToolSucceeds
          \/ ToolFails \/ PostProcess \/ ChainStep \/ ChainEnds \/ Return \/ StepRaises
Ending == Reply \/ DryRun \/ SettleAgent \/ Settle \/ Complete \/ Close \/ Fail \/ AnswerFailed
          \/ CloseFailed

Turn == Gates \/ Fixed \/ Scout \/ Prompts \/ Stream \/ Call \/ Ending

Ended == pc = "ended" /\ cancel # "marked" /\ UNCHANGED vars

Next == Turn \/ Leave \/ RequestCancel \/ ReportCancel \/ Ended

\* Providers, classifiers and tools have time limits: a turn goes on, and so
\* does the handler of a cancel request.
Fairness == WF_vars(Turn) /\ WF_vars(ReportCancel)

Spec == Init /\ [][Next]_vars /\ Fairness

----------------------------------------------------------------------------
PCs == {"gates", "decided", "refusing", "refused", "opened", "scouting", "listening", "called", "scoutReply",
        "scouted", "started", "prompting", "prompted", "streaming", "gating", "starting",
        "executing", "executed",
        "raising", "chaining", "returning", "streamed", "replied", "answered", "closing",
        "failing", "failed", "ended"}
Rows  == {"none", "starting", "executing", "completed", "failed"}
Frames == [tool : Tools, row : Rows]
Posts == {"refusal", "fixed", "model", "tools", "apology", "failure"}

\* Every variable has its type, a chain nests once, and neither the chain nor
\* the scout passes its limits, whatever is rejected or raised on the way.
TypeOK ==
    /\ kind \in Kinds /\ pc \in PCs /\ path \in Paths
    /\ opened \in BOOLEAN /\ known \in BOOLEAN /\ left \in BOOLEAN
    /\ status \in Terminal \cup {"running"}
    /\ event \in {"none", "completed", "failed", "cancelled"}
    /\ cancel \in {"none", "marked", "done"}
    /\ answer \in {"none", "completed", "failed"}
    /\ posts \subseteq Posts /\ text \in BOOLEAN
    /\ blocked \in BOOLEAN /\ completed \in Seq(Tools)
    /\ steps \in 0 .. MaxSteps /\ chained \in BOOLEAN /\ apology \in BOOLEAN
    /\ stack \in Seq(Frames) /\ Depth <= 2
    /\ rows \subseteq Rows
    /\ rounds \in 0 .. MaxRounds /\ scouts \in 0 .. MaxScouts
    /\ stage \in 0 .. Stages /\ retried \in BOOLEAN

\* A turn that got inside its try leaves its run in a terminal status, wherever
\* the client left, whatever was raised and whenever the API cancelled it.
EndsTerminal == pc = "ended" /\ opened => status \in Terminal

\* In a turn the policy or the budget has blocked, at whatever depth, nothing
\* the model or its tools said is stored as the assistant's message.
BlockedSaysNothing == blocked => posts \cap {"model", "tools", "apology"} = {}

\* When a turn is over and the client stayed, each row of a tool that began
\* to execute says completed or failed; also when a chain's step raised.
RowsSettle == pc = "ended" /\ ~left => "executing" \notin rows

\* No turn completes more tools than its budget has, the chain's included.
WithinBudget == Len(completed) <= MaxTools

\* The last of run.completed, run.failed and run.cancelled tells the run's
\* status when the turn is over, unless the API cancelled the run meanwhile.
EventTellsStatus ==
    pc = "ended" /\ cancel = "none" =>
        CASE event = "none"      -> TRUE
          [] event = "completed" -> status \in {"completed", "blocked"} \/ (left /\ status = "failed")
          [] OTHER               -> status = event

\* A continued task is answered if its turn reached the model or a tool and
\* the client stayed, and it is answered completed only if the run is.
ContinuationIsAnswered ==
    kind = "resume" /\ pc = "ended" =>
        /\ path \in {"direct", "model"} /\ ~left => answer # "none"
        /\ answer = "completed" /\ cancel = "none" => status = "completed" \/ left
        /\ status = "completed" /\ cancel = "none" => answer # "failed"

\* A turn comes to its end: the chain gives up on a step that keeps being
\* rejected.
TurnEnds == <>(pc = "ended")

\* What is left of a turn that is over is consistent: run, event and tool rows.
TurnIsSettled == EndsTerminal /\ EventTellsStatus /\ RowsSettle

\* Every count stays within what the turn may spend.
Bounded == TypeOK /\ WithinBudget
=============================================================================
