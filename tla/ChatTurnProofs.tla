--------------------------- MODULE ChatTurnProofs ---------------------------
(***************************************************************************)
(* For every budget, number of stages and limit of the chain and the       *)
(* scout: a turn leaves its run, its last event, its tool rows and the     *)
(* continuation it answers in agreement, wherever the client leaves, an    *)
(* exception is raised or the API cancels; a blocked turn says nothing.    *)
(***************************************************************************)
EXTENDS ChatTurn, SequenceTheorems, TLAPS

\* Where tool calls are in progress; where an answer may have been stored; the
\* frames of the scout.
Calling == {"gating", "starting", "executing", "executed", "raising", "chaining", "returning"}
Voiced  == {"scouted", "replied", "answered", "closing", "failing", "failed", "ended"}
Scouting == {"scouting", "listening", "called", "scoutReply", "scouted"}


\* The rows a call may have where the turn is.
RowsAt(p) ==
    CASE p = "gating"                  -> {"none"}
      [] p = "starting"                -> {"starting"}
      [] p = "executing"               -> {"executing"}
      [] p \in {"executed", "chaining"} -> {"completed"}
      [] p = "raising"                 -> {"failed"}
      [] OTHER                         -> {"none", "completed"}

\* A call is in progress where the turn calls; the chain's step is one of a tool
\* that succeeded, and only the client's leaving settles no row.
StackShape ==
    /\ pc \notin Calling => Depth = 0
    /\ pc \in Calling => Depth \in {1, 2} /\ Top.row \in RowsAt(pc)
    /\ pc = "chaining" => Depth = 1
    /\ Depth = 2 => stack[1].row = "completed" /\ steps < MaxSteps
    /\ "executing" \in rows => left
    /\ left => pc = "ended"

\* What was spent, also where more may be.
BudgetShape ==
    /\ Len(completed) <= MaxTools
    /\ pc \in {"starting", "executing"} => Len(completed) < MaxTools
    /\ pc = "prompting" => stage < Stages
    /\ pc \in {"gates", "decided", "opened", "started"} => stage = 0

\* Nothing was said that a block could not hold back.
VoiceShape ==
    posts \cap {"model", "tools", "apology"} # {} => ~blocked /\ pc \in Voiced

\* The frames each kind of turn can reach, and where a continuation is answered.
PathShape ==
    /\ pc \in {"refusing", "refused"} => kind = "chat"
    /\ pc \in Scouting => path = "scout"
    /\ pc = "answered" => kind = "resume"
    /\ answer # "none" => kind = "resume" /\ pc \in {"answered", "closing", "failing", "failed", "ended"}
    /\ kind = "resume" /\ path \in {"direct", "model"} /\ pc \in {"answered", "closing", "failed"}
         => answer # "none"
    /\ kind = "resume" /\ path \in {"direct", "model"} /\ pc = "ended" /\ ~left => answer # "none"

\* Where the status is terminal, and which one.
StatusShape ==
    /\ known \/ pc \in {"answered", "closing", "failing", "failed"} => status \in Terminal
    /\ pc = "ended" /\ opened => status \in Terminal
    /\ pc \in {"failing", "failed"} /\ cancel = "none" => status = "failed"
    /\ pc \in {"answered", "closing"} /\ cancel = "none" => status \in {"completed", "blocked"}
    /\ pc = "gates" => ~opened

\* Unless the API cancels: the status and the frame each last event implies ...
EventShape ==
    /\ event = "completed" =>
         \/ status \in {"completed", "blocked"} /\ pc \in {"closing", "ended"}
         \/ status = "failed" /\ pc \in {"failing", "failed"}
         \/ status = "failed" /\ pc = "ended" /\ left
    /\ event = "failed" => pc = "ended" /\ status = "failed"
    /\ event = "cancelled" => pc = "ended" /\ status = "cancelled"

\* ... and those of each end of the continuation.
AnswerShape ==
    /\ answer = "completed" =>
         \/ status = "completed" /\ pc \in {"answered", "closing", "ended"}
         \/ pc \in {"failing"}
         \/ pc = "ended" /\ left
    /\ answer = "failed" => status # "completed"

\* The inductive invariant.
TurnInv ==
    /\ TypeOK /\ StackShape /\ BudgetShape /\ VoiceShape /\ PathShape /\ StatusShape
    /\ cancel = "none" => EventShape /\ AnswerShape

----------------------------------------------------------------------------
\* The calls in progress after a call begins ...
LEMMA Pushed ==
    ASSUME stack \in Seq(Frames), NEW tool \in Tools, Push(tool)
    PROVE  /\ stack' \in Seq(Frames) /\ Len(stack') = Depth + 1 /\ stack'[Depth + 1].row = "none"
           /\ \A i \in 1 .. Depth : stack'[i] = stack[i]
<1>1. [tool |-> tool, row |-> "none"] \in Frames
  BY DEF Frames, Rows
<1> QED
  BY <1>1 DEF Push, Depth

\* ... after the row of the innermost one changes ...
LEMMA RowIsSet ==
    ASSUME stack \in Seq(Frames), Depth >= 1, NEW r \in Rows, SetRow(r)
    PROVE  /\ stack' \in Seq(Frames) /\ Len(stack') = Depth /\ stack'[Depth].row = r
           /\ \A i \in 1 .. Depth - 1 : stack'[i] = stack[i]
<1>1. Depth \in 1 .. Len(stack) /\ stack[Depth] \in Frames
  BY DEF Depth
<1>2. [stack[Depth] EXCEPT !.row = r] \in Frames /\ [stack[Depth] EXCEPT !.row = r].row = r
  BY <1>1 DEF Frames
<1> QED
  BY <1>1, <1>2 DEF SetRow, Depth

\* ... and after it is over.
LEMMA Popped ==
    ASSUME stack \in Seq(Frames), Depth >= 1, Pop
    PROVE  /\ stack' \in Seq(Frames) /\ Len(stack') = Depth - 1 /\ rows' = rows \cup {Top.row}
           /\ \A i \in 1 .. Depth - 1 : stack'[i] = stack[i]
<1> DEFINE n == Len(stack) - 1
           s == SubSeq(stack, 1, n)
<1>1. n \in Nat /\ Len(stack) = n + 1 /\ \A i \in 1 .. n : stack[i] \in Frames
  BY DEF Depth
<1>2. stack' = s
  BY DEF Pop, Front
<1> HIDE DEF n
<1>3. /\ s \in Seq(Frames) /\ Len(s) = IF 1 <= n THEN n - 1 + 1 ELSE 0
      /\ \A i \in 1 .. n - 1 + 1 : s[i] = stack[1 + i - 1]
  BY <1>1, SubSeqProperties
<1>4. (1 <= n => n - 1 + 1 = n) /\ (~(1 <= n) => n = 0) /\ n - 1 + 1 = n
  BY <1>1
<1> HIDE DEF s
<1>5. \A i \in 1 .. n : s[i] = stack[i]
  BY <1>1, <1>3, <1>4
<1>6. Len(s) = n
  BY <1>3, <1>4
<1>7. Depth - 1 = n
  BY DEF n, Depth
<1> QED
  BY <1>2, <1>3, <1>5, <1>6, <1>7 DEF Pop

\* The gates and the intent.
LEMMA GatesKeep ==
    ASSUME TurnInv, Gates
    PROVE  TurnInv'
<1> USE DEF TurnInv
<1>1. CASE RejectUnsafe
  <2>1. TypeOK'
    BY <1>1, ChatTurnAssumption
       DEF RejectUnsafe, Goto, run, reply, tokens, calls, scout, prompts, TypeOK, Paths, PCs,
           Depth
  <2>2. StackShape' /\ BudgetShape'
    BY <1>1, ChatTurnAssumption
       DEF RejectUnsafe, Goto, tokens, calls, prompts, TypeOK, StackShape, BudgetShape,
           Calling, Depth, Top
  <2>3. VoiceShape' /\ PathShape' /\ StatusShape'
    BY <1>1
       DEF RejectUnsafe, Goto, run, reply, tokens, StackShape, VoiceShape, Voiced, PathShape,
           Scouting, StatusShape, Terminal
  <2>4. (cancel = "none" => EventShape /\ AnswerShape)'
    BY <1>1 DEF RejectUnsafe, Goto, run, reply, PathShape, StatusShape, EventShape, AnswerShape
  <2> QED
    BY <2>1, <2>2, <2>3, <2>4
<1>2. CASE RejectOffTopic
  <2>1. TypeOK'
    BY <1>2, ChatTurnAssumption
       DEF RejectOffTopic, Goto, run, reply, tokens, calls, scout, prompts, TypeOK, Paths, PCs,
           Depth
  <2>2. StackShape' /\ BudgetShape'
    BY <1>2, ChatTurnAssumption
       DEF RejectOffTopic, Goto, tokens, calls, prompts, TypeOK, StackShape, BudgetShape,
           Calling, Depth, Top
  <2>3. VoiceShape' /\ PathShape' /\ StatusShape'
    BY <1>2
       DEF RejectOffTopic, Goto, run, reply, tokens, StackShape, VoiceShape, Voiced, PathShape,
           Scouting, StatusShape, Terminal
  <2>4. (cancel = "none" => EventShape /\ AnswerShape)'
    BY <1>2
       DEF RejectOffTopic, Goto, run, reply, PathShape, StatusShape, EventShape, AnswerShape
  <2> QED
    BY <2>1, <2>2, <2>3, <2>4
<1>3. CASE ExplainRefusal
  <2>1. TypeOK'
    BY <1>3, ChatTurnAssumption
       DEF ExplainRefusal, Goto, turn, run, tokens, calls, scout, prompts, TypeOK, Posts, PCs,
           Depth
  <2>2. StackShape' /\ BudgetShape'
    BY <1>3, ChatTurnAssumption
       DEF ExplainRefusal, Goto, tokens, calls, prompts, TypeOK, StackShape, BudgetShape,
           Calling, Depth, Top
  <2>3. VoiceShape' /\ PathShape' /\ StatusShape'
    BY <1>3
       DEF ExplainRefusal, Goto, turn, run, tokens, StackShape, VoiceShape, Voiced, PathShape,
           Scouting, StatusShape, Terminal
  <2>4. (cancel = "none" => EventShape /\ AnswerShape)'
    BY <1>3 DEF ExplainRefusal, Goto, turn, run, PathShape, StatusShape, EventShape, AnswerShape
  <2> QED
    BY <2>1, <2>2, <2>3, <2>4
<1>4. CASE CloseRefused
  <2>1. TypeOK'
    BY <1>4, ChatTurnAssumption
       DEF CloseRefused, Goto, turn, reply, tokens, calls, scout, prompts, TypeOK, Terminal,
           PCs, Depth
  <2>2. StackShape' /\ BudgetShape'
    BY <1>4, ChatTurnAssumption
       DEF CloseRefused, Goto, tokens, calls, prompts, TypeOK, StackShape, BudgetShape,
           Calling, Depth, Top
  <2>3. VoiceShape' /\ PathShape' /\ StatusShape'
    BY <1>4
       DEF CloseRefused, Goto, turn, reply, tokens, StackShape, VoiceShape, Voiced, PathShape,
           Scouting, StatusShape, Terminal
  <2>4. (cancel = "none" => EventShape /\ AnswerShape)'
    BY <1>4 DEF CloseRefused, Goto, turn, reply, PathShape, StatusShape, EventShape, AnswerShape
  <2> QED
    BY <2>1, <2>2, <2>3, <2>4
<1>5. CASE DecideIntent
  <2>1. TypeOK'
    <3>1. chained' \in BOOLEAN
      BY <1>5, ChatTurnAssumption DEF DecideIntent, Intents
    <3>2. pc' \in PCs
      BY <1>5 DEF DecideIntent, Goto, PCs
    <3> QED
      BY <1>5, <3>1, <3>2
         DEF DecideIntent, turn, run, reply, calls, scout, prompts, TypeOK, Depth
  <2>2. StackShape' /\ BudgetShape'
    BY <1>5, ChatTurnAssumption
       DEF DecideIntent, Goto, calls, prompts, TypeOK, StackShape, BudgetShape, Calling, Depth,
           Top
  <2>3. VoiceShape' /\ PathShape' /\ StatusShape'
    BY <1>5
       DEF DecideIntent, Goto, turn, run, reply, Intents, StackShape, VoiceShape, Voiced,
           PathShape, Scouting, StatusShape, Terminal
  <2>4. (cancel = "none" => EventShape /\ AnswerShape)'
    BY <1>5
       DEF DecideIntent, Goto, turn, run, reply, PathShape, StatusShape, EventShape,
           AnswerShape
  <2> QED
    BY <2>1, <2>2, <2>3, <2>4
<1>6. CASE PlanActions
  <2>1. TypeOK'
    BY <1>6, ChatTurnAssumption
       DEF PlanActions, Goto, run, reply, tokens, calls, scout, prompts, Plans, TypeOK, Paths,
           PCs, Depth
  <2>2. StackShape' /\ BudgetShape'
    BY <1>6, ChatTurnAssumption
       DEF PlanActions, Goto, tokens, calls, prompts, TypeOK, StackShape, BudgetShape, Calling,
           Depth, Top
  <2>3. VoiceShape' /\ PathShape' /\ StatusShape'
    BY <1>6
       DEF PlanActions, Goto, run, reply, tokens, Plans, StackShape, VoiceShape, Voiced,
           PathShape, Scouting, StatusShape, Terminal
  <2>4. (cancel = "none" => EventShape /\ AnswerShape)'
    BY <1>6 DEF PlanActions, Goto, run, reply, PathShape, StatusShape, EventShape, AnswerShape
  <2> QED
    BY <2>1, <2>2, <2>3, <2>4
<1>7. CASE StartAgent
  <2>1. TypeOK'
    <3>1. blocked' \in BOOLEAN /\ opened' \in BOOLEAN
      BY <1>7, ChatTurnAssumption DEF StartAgent, TypeOK
    <3>2. pc' \in PCs
      BY <1>7 DEF StartAgent, Goto, PCs
    <3> QED
      BY <1>7, <3>1, <3>2 DEF StartAgent, run, reply, calls, scout, prompts, TypeOK, Depth
  <2>2. StackShape' /\ BudgetShape'
    BY <1>7, ChatTurnAssumption
       DEF StartAgent, Goto, calls, prompts, TypeOK, StackShape, BudgetShape, Calling, Depth,
           Top
  <2>3. VoiceShape' /\ PathShape' /\ StatusShape'
    BY <1>7
       DEF StartAgent, Goto, run, reply, StackShape, VoiceShape, Voiced, PathShape, Scouting,
           StatusShape, Terminal
  <2>4. (cancel = "none" => EventShape /\ AnswerShape)'
    BY <1>7 DEF StartAgent, Goto, run, reply, PathShape, StatusShape, EventShape, AnswerShape
  <2> QED
    BY <2>1, <2>2, <2>3, <2>4
<1>8. CASE RefuseAgent
  <2>1. TypeOK'
    BY <1>8, ChatTurnAssumption
       DEF RefuseAgent, Goto, turn, run, reply, tokens, calls, scout, prompts, TypeOK, PCs,
           Depth
  <2>2. StackShape' /\ BudgetShape'
    BY <1>8, ChatTurnAssumption
       DEF RefuseAgent, Goto, tokens, calls, prompts, TypeOK, StackShape, BudgetShape, Calling,
           Depth, Top
  <2>3. VoiceShape' /\ PathShape' /\ StatusShape'
    BY <1>8
       DEF RefuseAgent, Goto, turn, run, reply, tokens, StackShape, VoiceShape, Voiced,
           PathShape, Scouting, StatusShape, Terminal
  <2>4. (cancel = "none" => EventShape /\ AnswerShape)'
    BY <1>8
       DEF RefuseAgent, Goto, turn, run, reply, PathShape, StatusShape, EventShape,
           AnswerShape
  <2> QED
    BY <2>1, <2>2, <2>3, <2>4
<1> QED
  BY <1>1, <1>2, <1>3, <1>4, <1>5, <1>6, <1>7, <1>8 DEF Gates

\* Answers that need no model.
LEMMA FixedKeeps ==
    ASSUME TurnInv, Fixed
    PROVE  TurnInv'
<1> USE DEF TurnInv
<1>1. CASE AskTask
  <2>1. TypeOK'
    BY <1>1, ChatTurnAssumption
       DEF AskTask, Goto, turn, reply, tokens, calls, scout, prompts, TypeOK, Terminal, PCs,
           Depth
  <2>2. StackShape' /\ BudgetShape'
    BY <1>1, ChatTurnAssumption
       DEF AskTask, Goto, tokens, calls, prompts, TypeOK, StackShape, BudgetShape, Calling,
           Depth, Top
  <2>3. VoiceShape' /\ PathShape' /\ StatusShape'
    BY <1>1
       DEF AskTask, Goto, turn, reply, tokens, StackShape, VoiceShape, Voiced, PathShape,
           Scouting, StatusShape, Terminal
  <2>4. (cancel = "none" => EventShape /\ AnswerShape)'
    BY <1>1 DEF AskTask, Goto, turn, reply, PathShape, StatusShape, EventShape, AnswerShape
  <2> QED
    BY <2>1, <2>2, <2>3, <2>4
<1>2. CASE PostFixed
  <2>1. TypeOK'
    BY <1>2, ChatTurnAssumption
       DEF PostFixed, Goto, turn, run, tokens, calls, scout, prompts, TypeOK, Posts, PCs,
           Depth
  <2>2. StackShape' /\ BudgetShape'
    BY <1>2, ChatTurnAssumption
       DEF PostFixed, Goto, tokens, calls, prompts, TypeOK, StackShape, BudgetShape, Calling,
           Depth, Top
  <2>3. VoiceShape' /\ PathShape' /\ StatusShape'
    BY <1>2
       DEF PostFixed, Goto, turn, run, tokens, StackShape, VoiceShape, Voiced, PathShape,
           Scouting, StatusShape, Terminal
  <2>4. (cancel = "none" => EventShape /\ AnswerShape)'
    BY <1>2 DEF PostFixed, Goto, turn, run, PathShape, StatusShape, EventShape, AnswerShape
  <2> QED
    BY <2>1, <2>2, <2>3, <2>4
<1> QED
  BY <1>1, <1>2 DEF Fixed

\* The scout.
LEMMA ScoutKeeps ==
    ASSUME TurnInv, Scout
    PROVE  TurnInv'
<1> USE DEF TurnInv
<1>1. CASE ScoutRound
  <2>1. TypeOK'
    BY <1>1, ChatTurnAssumption
       DEF ScoutRound, Goto, turn, run, reply, tokens, calls, prompts, TypeOK, PCs, Depth
  <2>2. StackShape' /\ BudgetShape'
    BY <1>1, ChatTurnAssumption
       DEF ScoutRound, Goto, tokens, calls, prompts, TypeOK, StackShape, BudgetShape, Calling,
           Depth, Top
  <2>3. VoiceShape' /\ PathShape' /\ StatusShape'
    BY <1>1
       DEF ScoutRound, Goto, turn, run, reply, tokens, StackShape, VoiceShape, Voiced,
           PathShape, Scouting, StatusShape, Terminal
  <2>4. (cancel = "none" => EventShape /\ AnswerShape)'
    BY <1>1
       DEF ScoutRound, Goto, turn, run, reply, PathShape, StatusShape, EventShape, AnswerShape
  <2> QED
    BY <2>1, <2>2, <2>3, <2>4
<1>2. CASE ScoutCall
  <2>1. TypeOK'
    <3>1. blocked' \in BOOLEAN
      BY <1>2, ChatTurnAssumption DEF ScoutCall, TypeOK
    <3>2. scouts' \in 0 .. MaxScouts
      BY <1>2, ChatTurnAssumption DEF ScoutCall, TypeOK
    <3>3. pc' \in PCs
      BY <1>2 DEF ScoutCall, Goto, PCs
    <3> QED
      BY <1>2, <3>1, <3>2, <3>3 DEF ScoutCall, turn, run, reply, calls, prompts, TypeOK, Depth
  <2>2. StackShape' /\ BudgetShape'
    BY <1>2, ChatTurnAssumption
       DEF ScoutCall, Goto, calls, prompts, TypeOK, StackShape, BudgetShape, Calling, Depth,
           Top
  <2>3. VoiceShape' /\ PathShape' /\ StatusShape'
    BY <1>2
       DEF ScoutCall, Goto, turn, run, reply, StackShape, VoiceShape, Voiced, PathShape,
           Scouting, StatusShape, Terminal
  <2>4. (cancel = "none" => EventShape /\ AnswerShape)'
    BY <1>2
       DEF ScoutCall, Goto, turn, run, reply, PathShape, StatusShape, EventShape, AnswerShape
  <2> QED
    BY <2>1, <2>2, <2>3, <2>4
<1>3. CASE ScoutStreamEnds
  <2>1. TypeOK'
    BY <1>3, ChatTurnAssumption
       DEF ScoutStreamEnds, Goto, turn, run, reply, tokens, calls, scout, prompts, TypeOK, PCs,
           Depth
  <2>2. StackShape' /\ BudgetShape'
    BY <1>3, ChatTurnAssumption
       DEF ScoutStreamEnds, Goto, tokens, calls, prompts, TypeOK, StackShape, BudgetShape,
           Calling, Depth, Top
  <2>3. VoiceShape' /\ PathShape' /\ StatusShape'
    BY <1>3
       DEF ScoutStreamEnds, Goto, turn, run, reply, tokens, StackShape, VoiceShape, Voiced,
           PathShape, Scouting, StatusShape, Terminal
  <2>4. (cancel = "none" => EventShape /\ AnswerShape)'
    BY <1>3
       DEF ScoutStreamEnds, Goto, turn, run, reply, PathShape, StatusShape, EventShape,
           AnswerShape
  <2> QED
    BY <2>1, <2>2, <2>3, <2>4
<1>4. CASE PostScout
  <2>1. TypeOK'
    BY <1>4, ChatTurnAssumption
       DEF PostScout, Goto, turn, run, tokens, calls, scout, prompts, TypeOK, Posts, PCs,
           Depth
  <2>2. StackShape' /\ BudgetShape'
    BY <1>4, ChatTurnAssumption
       DEF PostScout, Goto, tokens, calls, prompts, TypeOK, StackShape, BudgetShape, Calling,
           Depth, Top
  <2>3. VoiceShape' /\ PathShape' /\ StatusShape'
    BY <1>4
       DEF PostScout, Goto, turn, run, tokens, StackShape, VoiceShape, Voiced, PathShape,
           Scouting, StatusShape, Terminal
  <2>4. (cancel = "none" => EventShape /\ AnswerShape)'
    BY <1>4 DEF PostScout, Goto, turn, run, PathShape, StatusShape, EventShape, AnswerShape
  <2> QED
    BY <2>1, <2>2, <2>3, <2>4
<1>5. CASE SettleScout
  <2>1. TypeOK'
    BY <1>5, ChatTurnAssumption
       DEF SettleScout, Goto, turn, reply, tokens, calls, scout, prompts, TypeOK, Terminal,
           PCs, Depth
  <2>2. StackShape' /\ BudgetShape'
    BY <1>5, ChatTurnAssumption
       DEF SettleScout, Goto, tokens, calls, prompts, TypeOK, StackShape, BudgetShape, Calling,
           Depth, Top
  <2>3. VoiceShape' /\ PathShape' /\ StatusShape'
    BY <1>5
       DEF SettleScout, Goto, turn, reply, tokens, StackShape, VoiceShape, Voiced, PathShape,
           Scouting, StatusShape, Terminal
  <2>4. (cancel = "none" => EventShape /\ AnswerShape)'
    BY <1>5 DEF SettleScout, Goto, turn, reply, PathShape, StatusShape, EventShape, AnswerShape
  <2> QED
    BY <2>1, <2>2, <2>3, <2>4
<1> QED
  BY <1>1, <1>2, <1>3, <1>4, <1>5 DEF Scout

\* The prompt chain.
LEMMA PromptsKeep ==
    ASSUME TurnInv, Prompts
    PROVE  TurnInv'
<1> USE DEF TurnInv
<1>1. CASE StartPrompts
  <2>1. TypeOK'
    BY <1>1, ChatTurnAssumption
       DEF StartPrompts, Goto, turn, run, reply, tokens, calls, scout, prompts, TypeOK, PCs,
           Depth
  <2>2. StackShape' /\ BudgetShape'
    BY <1>1, ChatTurnAssumption
       DEF StartPrompts, Goto, tokens, calls, prompts, TypeOK, StackShape, BudgetShape,
           Calling, Depth, Top
  <2>3. VoiceShape' /\ PathShape' /\ StatusShape'
    BY <1>1
       DEF StartPrompts, Goto, turn, run, reply, tokens, StackShape, VoiceShape, Voiced,
           PathShape, Scouting, StatusShape, Terminal
  <2>4. (cancel = "none" => EventShape /\ AnswerShape)'
    BY <1>1
       DEF StartPrompts, Goto, turn, run, reply, PathShape, StatusShape, EventShape,
           AnswerShape
  <2> QED
    BY <2>1, <2>2, <2>3, <2>4
<1>2. CASE SkipPrompts
  <2>1. TypeOK'
    BY <1>2, ChatTurnAssumption
       DEF SkipPrompts, Goto, turn, run, reply, tokens, calls, scout, prompts, TypeOK, PCs,
           Depth
  <2>2. StackShape' /\ BudgetShape'
    BY <1>2, ChatTurnAssumption
       DEF SkipPrompts, Goto, tokens, calls, prompts, TypeOK, StackShape, BudgetShape, Calling,
           Depth, Top
  <2>3. VoiceShape' /\ PathShape' /\ StatusShape'
    BY <1>2
       DEF SkipPrompts, Goto, turn, run, reply, tokens, StackShape, VoiceShape, Voiced,
           PathShape, Scouting, StatusShape, Terminal
  <2>4. (cancel = "none" => EventShape /\ AnswerShape)'
    BY <1>2
       DEF SkipPrompts, Goto, turn, run, reply, PathShape, StatusShape, EventShape,
           AnswerShape
  <2> QED
    BY <2>1, <2>2, <2>3, <2>4
<1>3. CASE StageAnswers
  <2>1. TypeOK'
    <3>1. stage' \in 0 .. Stages
      BY <1>3, ChatTurnAssumption DEF StageAnswers, TypeOK, BudgetShape
    <3>2. retried' \in BOOLEAN
      BY <1>3, ChatTurnAssumption DEF StageAnswers
    <3>3. pc' \in PCs
      BY <1>3 DEF StageAnswers, Goto, PCs
    <3> QED
      BY <1>3, <3>1, <3>2, <3>3
         DEF StageAnswers, turn, run, reply, tokens, calls, scout, TypeOK, Depth
  <2>2. StackShape' /\ BudgetShape'
    BY <1>3, ChatTurnAssumption
       DEF StageAnswers, Goto, tokens, calls, TypeOK, StackShape, BudgetShape, Calling, Depth,
           Top
  <2>3. VoiceShape' /\ PathShape' /\ StatusShape'
    BY <1>3
       DEF StageAnswers, Goto, turn, run, reply, tokens, StackShape, VoiceShape, Voiced,
           PathShape, Scouting, StatusShape, Terminal
  <2>4. (cancel = "none" => EventShape /\ AnswerShape)'
    BY <1>3
       DEF StageAnswers, Goto, turn, run, reply, PathShape, StatusShape, EventShape,
           AnswerShape
  <2> QED
    BY <2>1, <2>2, <2>3, <2>4
<1>4. CASE StageUnparsed
  <2>1. TypeOK'
    BY <1>4, ChatTurnAssumption
       DEF StageUnparsed, Goto, turn, run, reply, tokens, calls, scout, TypeOK, PCs, Depth
  <2>2. StackShape' /\ BudgetShape'
    BY <1>4, ChatTurnAssumption
       DEF StageUnparsed, Goto, tokens, calls, TypeOK, StackShape, BudgetShape, Calling, Depth,
           Top
  <2>3. VoiceShape' /\ PathShape' /\ StatusShape'
    BY <1>4
       DEF StageUnparsed, Goto, turn, run, reply, tokens, StackShape, VoiceShape, Voiced,
           PathShape, Scouting, StatusShape, Terminal
  <2>4. (cancel = "none" => EventShape /\ AnswerShape)'
    BY <1>4
       DEF StageUnparsed, Goto, turn, run, reply, PathShape, StatusShape, EventShape,
           AnswerShape
  <2> QED
    BY <2>1, <2>2, <2>3, <2>4
<1>5. CASE StageGivesUp
  <2>1. TypeOK'
    BY <1>5, ChatTurnAssumption
       DEF StageGivesUp, Goto, turn, run, reply, tokens, calls, scout, prompts, TypeOK, PCs,
           Depth
  <2>2. StackShape' /\ BudgetShape'
    BY <1>5, ChatTurnAssumption
       DEF StageGivesUp, Goto, tokens, calls, prompts, TypeOK, StackShape, BudgetShape,
           Calling, Depth, Top
  <2>3. VoiceShape' /\ PathShape' /\ StatusShape'
    BY <1>5
       DEF StageGivesUp, Goto, turn, run, reply, tokens, StackShape, VoiceShape, Voiced,
           PathShape, Scouting, StatusShape, Terminal
  <2>4. (cancel = "none" => EventShape /\ AnswerShape)'
    BY <1>5
       DEF StageGivesUp, Goto, turn, run, reply, PathShape, StatusShape, EventShape,
           AnswerShape
  <2> QED
    BY <2>1, <2>2, <2>3, <2>4
<1>6. CASE StageBlocked
  <2>1. TypeOK'
    BY <1>6, ChatTurnAssumption
       DEF StageBlocked, Goto, turn, run, reply, calls, scout, prompts, TypeOK, PCs, Depth
  <2>2. StackShape' /\ BudgetShape'
    BY <1>6, ChatTurnAssumption
       DEF StageBlocked, Goto, calls, prompts, TypeOK, StackShape, BudgetShape, Calling, Depth,
           Top
  <2>3. VoiceShape' /\ PathShape' /\ StatusShape'
    BY <1>6
       DEF StageBlocked, Goto, turn, run, reply, StackShape, VoiceShape, Voiced, PathShape,
           Scouting, StatusShape, Terminal
  <2>4. (cancel = "none" => EventShape /\ AnswerShape)'
    BY <1>6
       DEF StageBlocked, Goto, turn, run, reply, PathShape, StatusShape, EventShape,
           AnswerShape
  <2> QED
    BY <2>1, <2>2, <2>3, <2>4
<1>7. CASE PromptsIncomplete
  <2>1. TypeOK'
    BY <1>7, ChatTurnAssumption
       DEF PromptsIncomplete, Goto, turn, run, reply, tokens, calls, scout, prompts, TypeOK,
           PCs, Depth
  <2>2. StackShape' /\ BudgetShape'
    BY <1>7, ChatTurnAssumption
       DEF PromptsIncomplete, Goto, tokens, calls, prompts, TypeOK, StackShape, BudgetShape,
           Calling, Depth, Top
  <2>3. VoiceShape' /\ PathShape' /\ StatusShape'
    BY <1>7
       DEF PromptsIncomplete, Goto, turn, run, reply, tokens, StackShape, VoiceShape, Voiced,
           PathShape, Scouting, StatusShape, Terminal
  <2>4. (cancel = "none" => EventShape /\ AnswerShape)'
    BY <1>7
       DEF PromptsIncomplete, Goto, turn, run, reply, PathShape, StatusShape, EventShape,
           AnswerShape
  <2> QED
    BY <2>1, <2>2, <2>3, <2>4
<1>8. CASE PromptsComplete
  <2>1. TypeOK'
    <3>1. blocked' \in BOOLEAN /\ text' \in BOOLEAN
      BY <1>8, ChatTurnAssumption DEF PromptsComplete, TypeOK, tokens, reply
    <3>2. pc' \in PCs
      BY <1>8 DEF PromptsComplete, Goto, PCs
    <3> QED
      BY <1>8, <3>1, <3>2 DEF PromptsComplete, turn, run, calls, scout, prompts, TypeOK, Depth
  <2>2. StackShape' /\ BudgetShape'
    BY <1>8, ChatTurnAssumption
       DEF PromptsComplete, Goto, calls, prompts, TypeOK, StackShape, BudgetShape, Calling,
           Depth, Top
  <2>3. VoiceShape' /\ PathShape' /\ StatusShape'
    BY <1>8
       DEF PromptsComplete, Goto, turn, run, StackShape, VoiceShape, Voiced, PathShape,
           Scouting, StatusShape, Terminal
  <2>4. (cancel = "none" => EventShape /\ AnswerShape)'
    BY <1>8
       DEF PromptsComplete, Goto, turn, run, PathShape, StatusShape, EventShape, AnswerShape
  <2> QED
    BY <2>1, <2>2, <2>3, <2>4
<1> QED
  BY <1>1, <1>2, <1>3, <1>4, <1>5, <1>6, <1>7, <1>8 DEF Prompts

\* The model stream.
LEMMA StreamKeeps ==
    ASSUME TurnInv, Stream
    PROVE  TurnInv'
<1> USE DEF TurnInv
<1>1. CASE StartModel
  <2>1. TypeOK'
    BY <1>1, ChatTurnAssumption
       DEF StartModel, Goto, turn, run, reply, tokens, calls, scout, prompts, TypeOK, PCs,
           Depth
  <2>2. StackShape' /\ BudgetShape'
    BY <1>1, ChatTurnAssumption
       DEF StartModel, Goto, tokens, calls, prompts, TypeOK, StackShape, BudgetShape, Calling,
           Depth, Top
  <2>3. VoiceShape' /\ PathShape' /\ StatusShape'
    BY <1>1
       DEF StartModel, Goto, turn, run, reply, tokens, StackShape, VoiceShape, Voiced,
           PathShape, Scouting, StatusShape, Terminal
  <2>4. (cancel = "none" => EventShape /\ AnswerShape)'
    BY <1>1
       DEF StartModel, Goto, turn, run, reply, PathShape, StatusShape, EventShape, AnswerShape
  <2> QED
    BY <2>1, <2>2, <2>3, <2>4
<1>2. CASE TextDelta
  <2>1. TypeOK'
    BY <1>2, ChatTurnAssumption
       DEF TextDelta, turn, run, tokens, calls, scout, prompts, TypeOK, Depth
  <2>2. StackShape' /\ BudgetShape'
    BY <1>2, ChatTurnAssumption
       DEF TextDelta, tokens, calls, prompts, TypeOK, StackShape, BudgetShape, Calling, Depth,
           Top
  <2>3. VoiceShape' /\ PathShape' /\ StatusShape'
    BY <1>2
       DEF TextDelta, turn, run, tokens, StackShape, VoiceShape, Voiced, PathShape, Scouting,
           StatusShape, Terminal
  <2>4. (cancel = "none" => EventShape /\ AnswerShape)'
    BY <1>2 DEF TextDelta, turn, run, PathShape, StatusShape, EventShape, AnswerShape
  <2> QED
    BY <2>1, <2>2, <2>3, <2>4
<1>3. CASE BlockStream
  <2>1. TypeOK'
    BY <1>3, ChatTurnAssumption
       DEF BlockStream, Goto, turn, run, reply, calls, scout, prompts, TypeOK, PCs, Depth
  <2>2. StackShape' /\ BudgetShape'
    BY <1>3, ChatTurnAssumption
       DEF BlockStream, Goto, calls, prompts, TypeOK, StackShape, BudgetShape, Calling, Depth,
           Top
  <2>3. VoiceShape' /\ PathShape' /\ StatusShape'
    BY <1>3
       DEF BlockStream, Goto, turn, run, reply, StackShape, VoiceShape, Voiced, PathShape,
           Scouting, StatusShape, Terminal
  <2>4. (cancel = "none" => EventShape /\ AnswerShape)'
    BY <1>3
       DEF BlockStream, Goto, turn, run, reply, PathShape, StatusShape, EventShape,
           AnswerShape
  <2> QED
    BY <2>1, <2>2, <2>3, <2>4
<1>4. CASE StreamEnds
  <2>1. TypeOK'
    BY <1>4, ChatTurnAssumption
       DEF StreamEnds, Goto, turn, run, reply, tokens, calls, scout, prompts, TypeOK, PCs,
           Depth
  <2>2. StackShape' /\ BudgetShape'
    BY <1>4, ChatTurnAssumption
       DEF StreamEnds, Goto, tokens, calls, prompts, TypeOK, StackShape, BudgetShape, Calling,
           Depth, Top
  <2>3. VoiceShape' /\ PathShape' /\ StatusShape'
    BY <1>4
       DEF StreamEnds, Goto, turn, run, reply, tokens, StackShape, VoiceShape, Voiced,
           PathShape, Scouting, StatusShape, Terminal
  <2>4. (cancel = "none" => EventShape /\ AnswerShape)'
    BY <1>4
       DEF StreamEnds, Goto, turn, run, reply, PathShape, StatusShape, EventShape, AnswerShape
  <2> QED
    BY <2>1, <2>2, <2>3, <2>4
<1> QED
  BY <1>1, <1>2, <1>3, <1>4 DEF Stream

\* Tool calls and the chain.
LEMMA CallKeeps ==
    ASSUME TurnInv, Call
    PROVE  TurnInv'
<1> USE DEF TurnInv
<1>1. CASE CallDirect
  <2>1. /\ stack' \in Seq(Frames) /\ Depth = 0 /\ Depth' = 1 /\ Top'.row = "none" /\ rows' = rows
    <3>1. Depth = 0
      BY <1>1 DEF CallDirect, StackShape, Calling
    <3>2. /\ stack' \in Seq(Frames) /\ Len(stack') = Depth + 1 /\ stack'[Depth + 1].row = "none"
          /\ \A i \in 1 .. Depth : stack'[i] = stack[i]
      BY <1>1, Pushed DEF CallDirect, TypeOK, Tools
    <3> QED
      BY <1>1, <3>1, <3>2 DEF CallDirect, Depth, Top
  <2>2. TypeOK'
    <3>1. pc' \in PCs
      BY <1>1 DEF CallDirect, Goto, PCs
    <3> QED
      BY <1>1, <2>1, <3>1 DEF CallDirect, turn, run, reply, tokens, scout, prompts, TypeOK
  <2>3. StackShape'
    BY <1>1, <2>1, ChatTurnAssumption
       DEF CallDirect, Goto, tokens, TypeOK, StackShape, Calling, RowsAt
  <2>4. BudgetShape'
    BY <1>1, ChatTurnAssumption DEF CallDirect, Goto, tokens, prompts, TypeOK, BudgetShape
  <2>5. VoiceShape' /\ PathShape' /\ StatusShape'
    BY <1>1
       DEF CallDirect, Goto, turn, run, reply, tokens, StackShape, VoiceShape, Voiced,
           PathShape, Scouting, StatusShape, Terminal
  <2>6. (cancel = "none" => EventShape /\ AnswerShape)'
    BY <1>1
       DEF CallDirect, Goto, turn, run, reply, PathShape, StatusShape, EventShape, AnswerShape
  <2> QED
    BY <2>2, <2>3, <2>4, <2>5, <2>6
<1>2. CASE CallTool
  <2>1. /\ stack' \in Seq(Frames) /\ Depth = 0 /\ Depth' = 1 /\ Top'.row = "none" /\ rows' = rows
    <3>1. Depth = 0
      BY <1>2 DEF CallTool, StackShape, Calling
    <3>2. /\ stack' \in Seq(Frames) /\ Len(stack') = Depth + 1 /\ stack'[Depth + 1].row = "none"
          /\ \A i \in 1 .. Depth : stack'[i] = stack[i]
      BY <1>2, Pushed DEF CallTool, TypeOK, Tools
    <3> QED
      BY <1>2, <3>1, <3>2 DEF CallTool, Depth, Top
  <2>2. text' \in BOOLEAN
    BY <1>2 DEF CallTool
  <2>3. TypeOK'
    <3>1. pc' \in PCs
      BY <1>2 DEF CallTool, Goto, PCs
    <3> QED
      BY <1>2, <2>1, <2>2, <3>1 DEF CallTool, turn, run, tokens, scout, prompts, TypeOK
  <2>4. StackShape'
    BY <1>2, <2>1, <2>2, ChatTurnAssumption
       DEF CallTool, Goto, tokens, TypeOK, StackShape, Calling, RowsAt
  <2>5. BudgetShape'
    BY <1>2, ChatTurnAssumption DEF CallTool, Goto, tokens, prompts, TypeOK, BudgetShape
  <2>6. VoiceShape' /\ PathShape' /\ StatusShape'
    BY <1>2
       DEF CallTool, Goto, turn, run, tokens, StackShape, VoiceShape, Voiced, PathShape,
           Scouting, StatusShape, Terminal
  <2>7. (cancel = "none" => EventShape /\ AnswerShape)'
    BY <1>2 DEF CallTool, Goto, turn, run, PathShape, StatusShape, EventShape, AnswerShape
  <2> QED
    BY <2>3, <2>4, <2>5, <2>6, <2>7
<1>3. CASE GateAllows
  <2>1. /\ stack' \in Seq(Frames) /\ Depth \in {1, 2} /\ Depth' = Depth /\ Top'.row = "starting" /\ rows' = rows
        /\ Depth = 2 => stack'[1].row = stack[1].row
    <3>1. Depth \in {1, 2}
      BY <1>3 DEF GateAllows, StackShape, Calling
    <3>2. /\ stack' \in Seq(Frames) /\ Len(stack') = Depth /\ stack'[Depth].row = "starting"
          /\ \A i \in 1 .. Depth - 1 : stack'[i] = stack[i]
      BY <1>3, <3>1, RowIsSet DEF GateAllows, TypeOK, Rows
    <3> QED
      BY <1>3, <3>1, <3>2 DEF GateAllows, Depth, Top
  <2>2. TypeOK'
    <3>1. pc' \in PCs
      BY <1>3 DEF GateAllows, Goto, PCs
    <3> QED
      BY <1>3, <2>1, <3>1 DEF GateAllows, turn, run, reply, tokens, scout, prompts, TypeOK
  <2>3. StackShape'
    BY <1>3, <2>1, ChatTurnAssumption
       DEF GateAllows, Goto, tokens, TypeOK, StackShape, Calling, RowsAt
  <2>4. BudgetShape'
    BY <1>3, ChatTurnAssumption DEF GateAllows, Goto, tokens, prompts, TypeOK, BudgetShape
  <2>5. VoiceShape' /\ PathShape' /\ StatusShape'
    BY <1>3
       DEF GateAllows, Goto, turn, run, reply, tokens, StackShape, VoiceShape, Voiced,
           PathShape, Scouting, StatusShape, Terminal
  <2>6. (cancel = "none" => EventShape /\ AnswerShape)'
    BY <1>3
       DEF GateAllows, Goto, turn, run, reply, PathShape, StatusShape, EventShape, AnswerShape
  <2> QED
    BY <2>2, <2>3, <2>4, <2>5, <2>6
<1>4. CASE GateRejects
  <2>1. /\ stack' = stack /\ stack' \in Seq(Frames) /\ rows' = rows /\ Depth \in {1, 2}
        /\ Depth' = Depth /\ Top' = Top
    BY <1>4 DEF GateRejects, TypeOK, StackShape, Calling, calls, Depth, Top
  <2>2. blocked' \in BOOLEAN
    BY <1>4 DEF GateRejects
  <2>3. TypeOK'
    <3>1. pc' \in PCs
      BY <1>4 DEF GateRejects, Goto, PCs
    <3> QED
      BY <1>4, <2>1, <2>2, <3>1 DEF GateRejects, turn, run, reply, calls, scout, prompts, TypeOK
  <2>4. StackShape'
    BY <1>4, <2>1, <2>2, ChatTurnAssumption
       DEF GateRejects, Goto, calls, TypeOK, StackShape, Calling, RowsAt
  <2>5. BudgetShape'
    BY <1>4, ChatTurnAssumption DEF GateRejects, Goto, prompts, TypeOK, BudgetShape
  <2>6. VoiceShape' /\ PathShape' /\ StatusShape'
    BY <1>4
       DEF GateRejects, Goto, turn, run, reply, StackShape, VoiceShape, Voiced, PathShape,
           Scouting, StatusShape, Terminal
  <2>7. (cancel = "none" => EventShape /\ AnswerShape)'
    BY <1>4
       DEF GateRejects, Goto, turn, run, reply, PathShape, StatusShape, EventShape,
           AnswerShape
  <2> QED
    BY <2>3, <2>4, <2>5, <2>6, <2>7
<1>5. CASE ExecuteTool
  <2>1. /\ stack' \in Seq(Frames) /\ Depth \in {1, 2} /\ Depth' = Depth /\ Top'.row = "executing" /\ rows' = rows
        /\ Depth = 2 => stack'[1].row = stack[1].row
    <3>1. Depth \in {1, 2}
      BY <1>5 DEF ExecuteTool, StackShape, Calling
    <3>2. /\ stack' \in Seq(Frames) /\ Len(stack') = Depth /\ stack'[Depth].row = "executing"
          /\ \A i \in 1 .. Depth - 1 : stack'[i] = stack[i]
      BY <1>5, <3>1, RowIsSet DEF ExecuteTool, TypeOK, Rows
    <3> QED
      BY <1>5, <3>1, <3>2 DEF ExecuteTool, Depth, Top
  <2>2. TypeOK'
    <3>1. pc' \in PCs
      BY <1>5 DEF ExecuteTool, Goto, PCs
    <3> QED
      BY <1>5, <2>1, <3>1 DEF ExecuteTool, turn, run, reply, tokens, scout, prompts, TypeOK
  <2>3. StackShape'
    BY <1>5, <2>1, ChatTurnAssumption
       DEF ExecuteTool, Goto, tokens, TypeOK, StackShape, Calling, RowsAt
  <2>4. BudgetShape'
    BY <1>5, ChatTurnAssumption DEF ExecuteTool, Goto, tokens, prompts, TypeOK, BudgetShape
  <2>5. VoiceShape' /\ PathShape' /\ StatusShape'
    BY <1>5
       DEF ExecuteTool, Goto, turn, run, reply, tokens, StackShape, VoiceShape, Voiced,
           PathShape, Scouting, StatusShape, Terminal
  <2>6. (cancel = "none" => EventShape /\ AnswerShape)'
    BY <1>5
       DEF ExecuteTool, Goto, turn, run, reply, PathShape, StatusShape, EventShape,
           AnswerShape
  <2> QED
    BY <2>2, <2>3, <2>4, <2>5, <2>6
<1>6. CASE ToolSucceeds
  <2>1. /\ stack' \in Seq(Frames) /\ Depth \in {1, 2} /\ Depth' = Depth /\ Top'.row = "completed" /\ rows' = rows
        /\ Depth = 2 => stack'[1].row = stack[1].row
    <3>1. Depth \in {1, 2}
      BY <1>6 DEF ToolSucceeds, StackShape, Calling
    <3>2. /\ stack' \in Seq(Frames) /\ Len(stack') = Depth /\ stack'[Depth].row = "completed"
          /\ \A i \in 1 .. Depth - 1 : stack'[i] = stack[i]
      BY <1>6, <3>1, RowIsSet DEF ToolSucceeds, TypeOK, Rows
    <3> QED
      BY <1>6, <3>1, <3>2 DEF ToolSucceeds, Depth, Top
  <2>2. completed' \in Seq(Tools)
    <3>1. stack[Depth] \in Frames /\ completed \in Seq(Tools)
      BY <2>1 DEF TypeOK, Depth
    <3>2. Top.tool \in Tools
      BY <3>1 DEF Top, Frames
    <3> QED
      BY <1>6, <3>1, <3>2 DEF ToolSucceeds
  <2>3. TypeOK'
    <3>1. pc' \in PCs
      BY <1>6 DEF ToolSucceeds, Goto, PCs
    <3> QED
      BY <1>6, <2>1, <2>2, <3>1 DEF ToolSucceeds, turn, run, reply, scout, prompts, TypeOK
  <2>4. StackShape'
    BY <1>6, <2>1, <2>2, ChatTurnAssumption
       DEF ToolSucceeds, Goto, TypeOK, StackShape, Calling, RowsAt
  <2>5. BudgetShape'
    BY <1>6, ChatTurnAssumption DEF ToolSucceeds, Goto, prompts, TypeOK, BudgetShape
  <2>6. VoiceShape' /\ PathShape' /\ StatusShape'
    BY <1>6
       DEF ToolSucceeds, Goto, turn, run, reply, StackShape, VoiceShape, Voiced, PathShape,
           Scouting, StatusShape, Terminal
  <2>7. (cancel = "none" => EventShape /\ AnswerShape)'
    BY <1>6
       DEF ToolSucceeds, Goto, turn, run, reply, PathShape, StatusShape, EventShape,
           AnswerShape
  <2> QED
    BY <2>3, <2>4, <2>5, <2>6, <2>7
<1>7. CASE ToolFails
  <2>1. /\ stack' \in Seq(Frames) /\ Depth \in {1, 2} /\ Depth' = Depth /\ Top'.row = "failed" /\ rows' = rows
        /\ Depth = 2 => stack'[1].row = stack[1].row
    <3>1. Depth \in {1, 2}
      BY <1>7 DEF ToolFails, StackShape, Calling
    <3>2. /\ stack' \in Seq(Frames) /\ Len(stack') = Depth /\ stack'[Depth].row = "failed"
          /\ \A i \in 1 .. Depth - 1 : stack'[i] = stack[i]
      BY <1>7, <3>1, RowIsSet DEF ToolFails, TypeOK, Rows
    <3> QED
      BY <1>7, <3>1, <3>2 DEF ToolFails, Depth, Top
  <2>2. TypeOK'
    <3>1. pc' \in PCs
      BY <1>7 DEF ToolFails, Goto, PCs
    <3> QED
      BY <1>7, <2>1, <3>1 DEF ToolFails, turn, run, reply, tokens, scout, prompts, TypeOK
  <2>3. StackShape'
    BY <1>7, <2>1, ChatTurnAssumption
       DEF ToolFails, Goto, tokens, TypeOK, StackShape, Calling, RowsAt
  <2>4. BudgetShape'
    BY <1>7, ChatTurnAssumption DEF ToolFails, Goto, tokens, prompts, TypeOK, BudgetShape
  <2>5. VoiceShape' /\ PathShape' /\ StatusShape'
    BY <1>7
       DEF ToolFails, Goto, turn, run, reply, tokens, StackShape, VoiceShape, Voiced,
           PathShape, Scouting, StatusShape, Terminal
  <2>6. (cancel = "none" => EventShape /\ AnswerShape)'
    BY <1>7
       DEF ToolFails, Goto, turn, run, reply, PathShape, StatusShape, EventShape, AnswerShape
  <2> QED
    BY <2>2, <2>3, <2>4, <2>5, <2>6
<1>8. CASE PostProcess
  <2>1. /\ stack' = stack /\ stack' \in Seq(Frames) /\ rows' = rows /\ Depth \in {1, 2}
        /\ Depth' = Depth /\ Top' = Top
    BY <1>8 DEF PostProcess, TypeOK, StackShape, Calling, calls, Depth, Top
  <2>2. TypeOK'
    <3>1. pc' \in PCs
      BY <1>8 DEF PostProcess, Goto, PCs
    <3> QED
      BY <1>8, <2>1, <3>1
         DEF PostProcess, turn, run, reply, tokens, calls, scout, prompts, TypeOK
  <2>3. StackShape'
    BY <1>8, <2>1, ChatTurnAssumption
       DEF PostProcess, Goto, tokens, calls, TypeOK, StackShape, Calling, RowsAt
  <2>4. BudgetShape'
    BY <1>8, ChatTurnAssumption DEF PostProcess, Goto, tokens, prompts, TypeOK, BudgetShape
  <2>5. VoiceShape' /\ PathShape' /\ StatusShape'
    BY <1>8
       DEF PostProcess, Goto, turn, run, reply, tokens, StackShape, VoiceShape, Voiced,
           PathShape, Scouting, StatusShape, Terminal
  <2>6. (cancel = "none" => EventShape /\ AnswerShape)'
    BY <1>8
       DEF PostProcess, Goto, turn, run, reply, PathShape, StatusShape, EventShape,
           AnswerShape
  <2> QED
    BY <2>2, <2>3, <2>4, <2>5, <2>6
<1>9. CASE ChainStep
  <2>1. /\ stack' \in Seq(Frames) /\ Depth = 1 /\ Depth' = 2 /\ Top'.row = "none" /\ rows' = rows
        /\ stack'[1].row = "completed"
    <3>1. Depth = 1 /\ stack[1].row = "completed"
      BY <1>9 DEF ChainStep, StackShape, Calling, Top, RowsAt
    <3>2. /\ stack' \in Seq(Frames) /\ Len(stack') = Depth + 1 /\ stack'[Depth + 1].row = "none"
          /\ \A i \in 1 .. Depth : stack'[i] = stack[i]
      BY <1>9, Pushed DEF ChainStep, TypeOK, Tools
    <3> QED
      BY <1>9, <3>1, <3>2 DEF ChainStep, Depth, Top
  <2>2. steps < MaxSteps
    BY <1>9 DEF ChainStep, HasStep
  <2>3. TypeOK'
    <3>1. pc' \in PCs
      BY <1>9 DEF ChainStep, Goto, PCs
    <3> QED
      BY <1>9, <2>1, <2>2, <3>1 DEF ChainStep, turn, run, reply, tokens, scout, prompts, TypeOK
  <2>4. StackShape'
    BY <1>9, <2>1, <2>2, ChatTurnAssumption
       DEF ChainStep, Goto, tokens, TypeOK, StackShape, Calling, RowsAt
  <2>5. BudgetShape'
    BY <1>9, ChatTurnAssumption DEF ChainStep, Goto, tokens, prompts, TypeOK, BudgetShape
  <2>6. VoiceShape' /\ PathShape' /\ StatusShape'
    BY <1>9
       DEF ChainStep, Goto, turn, run, reply, tokens, StackShape, VoiceShape, Voiced,
           PathShape, Scouting, StatusShape, Terminal
  <2>7. (cancel = "none" => EventShape /\ AnswerShape)'
    BY <1>9
       DEF ChainStep, Goto, turn, run, reply, PathShape, StatusShape, EventShape, AnswerShape
  <2> QED
    BY <2>3, <2>4, <2>5, <2>6, <2>7
<1>10. CASE ChainEnds
  <2>1. /\ stack' = stack /\ stack' \in Seq(Frames) /\ rows' = rows /\ Depth \in {1, 2}
        /\ Depth' = Depth /\ Top' = Top
    BY <1>10 DEF ChainEnds, TypeOK, StackShape, Calling, calls, Depth, Top
  <2>2. TypeOK'
    <3>1. pc' \in PCs
      BY <1>10 DEF ChainEnds, Goto, PCs
    <3> QED
      BY <1>10, <2>1, <3>1
         DEF ChainEnds, turn, run, reply, tokens, calls, scout, prompts, TypeOK
  <2>3. StackShape'
    BY <1>10, <2>1, ChatTurnAssumption
       DEF ChainEnds, Goto, tokens, calls, TypeOK, StackShape, Calling, RowsAt
  <2>4. BudgetShape'
    BY <1>10, ChatTurnAssumption DEF ChainEnds, Goto, tokens, prompts, TypeOK, BudgetShape
  <2>5. VoiceShape' /\ PathShape' /\ StatusShape'
    BY <1>10
       DEF ChainEnds, Goto, turn, run, reply, tokens, StackShape, VoiceShape, Voiced,
           PathShape, Scouting, StatusShape, Terminal
  <2>6. (cancel = "none" => EventShape /\ AnswerShape)'
    BY <1>10
       DEF ChainEnds, Goto, turn, run, reply, PathShape, StatusShape, EventShape, AnswerShape
  <2> QED
    BY <2>2, <2>3, <2>4, <2>5, <2>6
<1>11. CASE Return
  <2>1. /\ stack' \in Seq(Frames) /\ Depth \in {1, 2} /\ Depth' = Depth - 1
        /\ Depth = 2 => Top'.row = "completed"
        /\ rows' \subseteq Rows /\ ("executing" \in rows' => "executing" \in rows)
    <3>1. Depth \in {1, 2} /\ Top.row \in Rows \ {"executing"}
      BY <1>11 DEF Return, StackShape, Calling, RowsAt, Rows
    <3>2. /\ stack' \in Seq(Frames) /\ Len(stack') = Depth - 1 /\ rows' = rows \cup {Top.row}
          /\ \A i \in 1 .. Depth - 1 : stack'[i] = stack[i]
      BY <1>11, <3>1, Popped DEF Return, TypeOK
    <3>3. Depth' = Depth - 1 /\ (Depth = 2 => Top' = stack[1])
      BY <3>1, <3>2 DEF Depth, Top
    <3> QED
      BY <3>1, <3>2, <3>3 DEF StackShape, TypeOK
  <2>2. steps' \in 0 .. MaxSteps
    BY <1>11, <2>1, ChatTurnAssumption DEF Return, TypeOK, StackShape
  <2>3. TypeOK'
    <3>1. pc' \in PCs
      BY <1>11 DEF Return, Goto, PCs
    <3> QED
      BY <1>11, <2>1, <2>2, <3>1 DEF Return, turn, run, reply, scout, prompts, TypeOK
  <2>4. StackShape'
    BY <1>11, <2>1, <2>2, ChatTurnAssumption
       DEF Return, Goto, TypeOK, StackShape, Calling, RowsAt
  <2>5. BudgetShape'
    BY <1>11, ChatTurnAssumption DEF Return, Goto, prompts, TypeOK, BudgetShape
  <2>6. VoiceShape' /\ PathShape' /\ StatusShape'
    BY <1>11
       DEF Return, Goto, turn, run, reply, StackShape, VoiceShape, Voiced, PathShape, Scouting,
           StatusShape, Terminal
  <2>7. (cancel = "none" => EventShape /\ AnswerShape)'
    BY <1>11 DEF Return, Goto, turn, run, reply, PathShape, StatusShape, EventShape, AnswerShape
  <2> QED
    BY <2>3, <2>4, <2>5, <2>6, <2>7
<1>12. CASE StepRaises
  <2>1. /\ stack' \in Seq(Frames) /\ Depth \in {2} /\ Depth' = Depth - 1
        /\ Depth = 2 => Top'.row = "completed"
        /\ rows' \subseteq Rows /\ ("executing" \in rows' => "executing" \in rows)
    <3>1. Depth \in {2} /\ Top.row \in Rows \ {"executing"}
      BY <1>12 DEF StepRaises, StackShape, Calling, RowsAt, Rows
    <3>2. /\ stack' \in Seq(Frames) /\ Len(stack') = Depth - 1 /\ rows' = rows \cup {Top.row}
          /\ \A i \in 1 .. Depth - 1 : stack'[i] = stack[i]
      BY <1>12, <3>1, Popped DEF StepRaises, TypeOK
    <3>3. Depth' = Depth - 1 /\ (Depth = 2 => Top' = stack[1])
      BY <3>1, <3>2 DEF Depth, Top
    <3> QED
      BY <3>1, <3>2, <3>3 DEF StackShape, TypeOK
  <2>2. apology' \in BOOLEAN
    BY <1>12 DEF StepRaises
  <2>3. TypeOK'
    <3>1. pc' \in PCs
      BY <1>12 DEF StepRaises, Goto, PCs
    <3> QED
      BY <1>12, <2>1, <2>2, <3>1 DEF StepRaises, turn, run, reply, scout, prompts, TypeOK
  <2>4. StackShape'
    BY <1>12, <2>1, <2>2, ChatTurnAssumption
       DEF StepRaises, Goto, TypeOK, StackShape, Calling, RowsAt
  <2>5. BudgetShape'
    BY <1>12, ChatTurnAssumption DEF StepRaises, Goto, prompts, TypeOK, BudgetShape
  <2>6. VoiceShape' /\ PathShape' /\ StatusShape'
    BY <1>12
       DEF StepRaises, Goto, turn, run, reply, StackShape, VoiceShape, Voiced, PathShape,
           Scouting, StatusShape, Terminal
  <2>7. (cancel = "none" => EventShape /\ AnswerShape)'
    BY <1>12
       DEF StepRaises, Goto, turn, run, reply, PathShape, StatusShape, EventShape, AnswerShape
  <2> QED
    BY <2>3, <2>4, <2>5, <2>6, <2>7
<1> QED
  BY <1>1, <1>2, <1>3, <1>4, <1>5, <1>6, <1>7, <1>8, <1>9, <1>10, <1>11, <1>12 DEF Call

\* The reply and the end of the turn.
LEMMA EndingKeeps ==
    ASSUME TurnInv, Ending
    PROVE  TurnInv'
<1> USE DEF TurnInv
<1>1. CASE Reply
  <2>1. TypeOK'
    BY <1>1, ChatTurnAssumption
       DEF Reply, Goto, turn, run, tokens, calls, scout, prompts, TypeOK, Posts, PCs, Depth
  <2>2. StackShape' /\ BudgetShape'
    BY <1>1, ChatTurnAssumption
       DEF Reply, Goto, tokens, calls, prompts, TypeOK, StackShape, BudgetShape, Calling,
           Depth, Top
  <2>3. VoiceShape' /\ PathShape' /\ StatusShape'
    BY <1>1
       DEF Reply, Goto, turn, run, tokens, StackShape, VoiceShape, Voiced, PathShape, Scouting,
           StatusShape, Terminal
  <2>4. (cancel = "none" => EventShape /\ AnswerShape)'
    BY <1>1 DEF Reply, Goto, turn, run, PathShape, StatusShape, EventShape, AnswerShape
  <2> QED
    BY <2>1, <2>2, <2>3, <2>4
<1>2. CASE DryRun
  <2>1. TypeOK'
    BY <1>2, ChatTurnAssumption
       DEF DryRun, Goto, turn, run, reply, tokens, calls, scout, prompts, TypeOK, PCs, Depth
  <2>2. StackShape' /\ BudgetShape'
    BY <1>2, ChatTurnAssumption
       DEF DryRun, Goto, tokens, calls, prompts, TypeOK, StackShape, BudgetShape, Calling,
           Depth, Top
  <2>3. VoiceShape' /\ PathShape' /\ StatusShape'
    BY <1>2
       DEF DryRun, Goto, turn, run, reply, tokens, StackShape, VoiceShape, Voiced, PathShape,
           Scouting, StatusShape, Terminal
  <2>4. (cancel = "none" => EventShape /\ AnswerShape)'
    BY <1>2 DEF DryRun, Goto, turn, run, reply, PathShape, StatusShape, EventShape, AnswerShape
  <2> QED
    BY <2>1, <2>2, <2>3, <2>4
<1>3. CASE SettleAgent
  <2>1. TypeOK'
    BY <1>3, ChatTurnAssumption
       DEF SettleAgent, Goto, turn, reply, tokens, calls, scout, prompts, TypeOK, Terminal,
           PCs, Depth
  <2>2. StackShape' /\ BudgetShape'
    BY <1>3, ChatTurnAssumption
       DEF SettleAgent, Goto, tokens, calls, prompts, TypeOK, StackShape, BudgetShape, Calling,
           Depth, Top
  <2>3. VoiceShape' /\ PathShape' /\ StatusShape'
    BY <1>3
       DEF SettleAgent, Goto, turn, reply, tokens, StackShape, VoiceShape, Voiced, PathShape,
           Scouting, StatusShape, Terminal
  <2>4. (cancel = "none" => EventShape /\ AnswerShape)'
    BY <1>3 DEF SettleAgent, Goto, turn, reply, PathShape, StatusShape, EventShape, AnswerShape
  <2> QED
    BY <2>1, <2>2, <2>3, <2>4
<1>4. CASE Settle
  <2>1. TypeOK'
    BY <1>4, ChatTurnAssumption
       DEF Settle, Goto, turn, tokens, calls, scout, prompts, TypeOK, Terminal, PCs, Depth
  <2>2. StackShape' /\ BudgetShape'
    BY <1>4, ChatTurnAssumption
       DEF Settle, Goto, tokens, calls, prompts, TypeOK, StackShape, BudgetShape, Calling,
           Depth, Top
  <2>3. VoiceShape' /\ PathShape' /\ StatusShape'
    BY <1>4
       DEF Settle, Goto, turn, tokens, StackShape, VoiceShape, Voiced, PathShape, Scouting,
           StatusShape, Terminal
  <2>4. (cancel = "none" => EventShape /\ AnswerShape)'
    BY <1>4 DEF Settle, Goto, turn, PathShape, StatusShape, EventShape, AnswerShape
  <2> QED
    BY <2>1, <2>2, <2>3, <2>4
<1>5. CASE Complete
  <2>1. TypeOK'
    BY <1>5, ChatTurnAssumption
       DEF Complete, Goto, turn, reply, tokens, calls, scout, prompts, TypeOK, PCs, Depth
  <2>2. StackShape' /\ BudgetShape'
    BY <1>5, ChatTurnAssumption
       DEF Complete, Goto, tokens, calls, prompts, TypeOK, StackShape, BudgetShape, Calling,
           Depth, Top
  <2>3. VoiceShape' /\ PathShape' /\ StatusShape'
    BY <1>5
       DEF Complete, Goto, turn, reply, tokens, StackShape, VoiceShape, Voiced, PathShape,
           Scouting, StatusShape, Terminal
  <2>4. (cancel = "none" => EventShape /\ AnswerShape)'
    BY <1>5 DEF Complete, Goto, turn, reply, PathShape, StatusShape, EventShape, AnswerShape
  <2> QED
    BY <2>1, <2>2, <2>3, <2>4
<1>6. CASE Close
  <2>1. TypeOK'
    BY <1>6, ChatTurnAssumption
       DEF Close, Goto, turn, run, reply, tokens, calls, scout, prompts, TypeOK, PCs, Depth
  <2>2. StackShape' /\ BudgetShape'
    BY <1>6, ChatTurnAssumption
       DEF Close, Goto, tokens, calls, prompts, TypeOK, StackShape, BudgetShape, Calling,
           Depth, Top
  <2>3. VoiceShape' /\ PathShape' /\ StatusShape'
    BY <1>6
       DEF Close, Goto, turn, run, reply, tokens, StackShape, VoiceShape, Voiced, PathShape,
           Scouting, StatusShape, Terminal
  <2>4. (cancel = "none" => EventShape /\ AnswerShape)'
    BY <1>6 DEF Close, Goto, turn, run, reply, PathShape, StatusShape, EventShape, AnswerShape
  <2> QED
    BY <2>1, <2>2, <2>3, <2>4
<1>7. CASE Fail
  <2>1. stack' = <<>> /\ stack' \in Seq(Frames) /\ Depth' = 0 /\ rows' \subseteq Rows /\ ("executing" \in rows' => "executing" \in rows)
    BY <1>7 DEF Fail, TypeOK, StackShape, Calling, Frames, Rows, RowsAt, Top, Depth
  <2>2. posts' \subseteq Posts /\ known' \in BOOLEAN
    BY <1>7 DEF Fail, TypeOK, Posts
  <2>3. TypeOK'
    <3>1. pc' \in PCs
      BY <1>7 DEF Fail, Goto, PCs
    <3> QED
      BY <1>7, <2>1, <2>2, <3>1 DEF Fail, turn, tokens, scout, prompts, TypeOK, Terminal, Posts
  <2>4. StackShape'
    BY <1>7, <2>1, <2>2, ChatTurnAssumption
       DEF Fail, Goto, tokens, TypeOK, StackShape, Calling, RowsAt
  <2>5. BudgetShape'
    BY <1>7, ChatTurnAssumption DEF Fail, Goto, tokens, prompts, TypeOK, BudgetShape
  <2>6. VoiceShape' /\ PathShape' /\ StatusShape'
    BY <1>7
       DEF Fail, Goto, turn, tokens, StackShape, VoiceShape, Voiced, PathShape, Scouting,
           StatusShape, Terminal
  <2>7. (cancel = "none" => EventShape /\ AnswerShape)'
    BY <1>7 DEF Fail, Goto, turn, PathShape, StatusShape, EventShape, AnswerShape
  <2> QED
    BY <2>3, <2>4, <2>5, <2>6, <2>7
<1>8. CASE AnswerFailed
  <2>1. TypeOK'
    BY <1>8, ChatTurnAssumption
       DEF AnswerFailed, Goto, turn, run, tokens, calls, scout, prompts, TypeOK, PCs, Depth
  <2>2. StackShape' /\ BudgetShape'
    BY <1>8, ChatTurnAssumption
       DEF AnswerFailed, Goto, tokens, calls, prompts, TypeOK, StackShape, BudgetShape,
           Calling, Depth, Top
  <2>3. VoiceShape' /\ PathShape' /\ StatusShape'
    BY <1>8
       DEF AnswerFailed, Goto, turn, run, tokens, StackShape, VoiceShape, Voiced, PathShape,
           Scouting, StatusShape, Terminal
  <2>4. (cancel = "none" => EventShape /\ AnswerShape)'
    BY <1>8 DEF AnswerFailed, Goto, turn, run, PathShape, StatusShape, EventShape, AnswerShape
  <2> QED
    BY <2>1, <2>2, <2>3, <2>4
<1>9. CASE CloseFailed
  <2>1. TypeOK'
    BY <1>9, ChatTurnAssumption
       DEF CloseFailed, Goto, turn, reply, tokens, calls, scout, prompts, TypeOK, PCs, Depth
  <2>2. StackShape' /\ BudgetShape'
    BY <1>9, ChatTurnAssumption
       DEF CloseFailed, Goto, tokens, calls, prompts, TypeOK, StackShape, BudgetShape, Calling,
           Depth, Top
  <2>3. VoiceShape' /\ PathShape' /\ StatusShape'
    BY <1>9
       DEF CloseFailed, Goto, turn, reply, tokens, StackShape, VoiceShape, Voiced, PathShape,
           Scouting, StatusShape, Terminal
  <2>4. (cancel = "none" => EventShape /\ AnswerShape)'
    BY <1>9 DEF CloseFailed, Goto, turn, reply, PathShape, StatusShape, EventShape, AnswerShape
  <2> QED
    BY <2>1, <2>2, <2>3, <2>4
<1> QED
  BY <1>1, <1>2, <1>3, <1>4, <1>5, <1>6, <1>7, <1>8, <1>9 DEF Ending

\* The client and the API.
LEMMA OutsideKeeps ==
    ASSUME TurnInv, Leave \/ RequestCancel \/ ReportCancel
    PROVE  TurnInv'
<1> USE DEF TurnInv
<1>1. CASE Leave
  <2>1. stack' = <<>> /\ stack' \in Seq(Frames) /\ Depth' = 0 /\ rows' \subseteq Rows
    BY <1>1 DEF Leave, TypeOK, StackShape, Calling, Frames, Rows, RowsAt, Top, Depth
  <2>2. /\ status' \in Terminal \cup {"running"} /\ answer' \in {"none", "completed", "failed"}
        /\ event' \in {"none", "completed", "failed", "cancelled"}
    BY <1>1 DEF Leave, TypeOK, Terminal
  <2>3. TypeOK'
    <3>1. pc' \in PCs
      BY <1>1 DEF Leave, Goto, PCs
    <3> QED
      BY <1>1, <2>1, <2>2, <3>1 DEF Leave, turn, tokens, scout, prompts, TypeOK, Terminal
  <2>4. StackShape'
    BY <1>1, <2>1, <2>2, ChatTurnAssumption
       DEF Leave, Goto, tokens, TypeOK, StackShape, Calling, RowsAt
  <2>5. BudgetShape'
    BY <1>1, ChatTurnAssumption DEF Leave, Goto, tokens, prompts, TypeOK, BudgetShape
  <2>6. VoiceShape' /\ PathShape' /\ StatusShape'
    BY <1>1
       DEF Leave, Goto, turn, tokens, StackShape, VoiceShape, Voiced, PathShape, Scouting,
           StatusShape, Terminal
  <2>7. (cancel = "none" => EventShape /\ AnswerShape)'
    BY <1>1 DEF Leave, Goto, turn, PathShape, StatusShape, EventShape, AnswerShape
  <2> QED
    BY <2>3, <2>4, <2>5, <2>6, <2>7
<1>2. CASE RequestCancel
  <2>1. TypeOK'
    BY <1>2, ChatTurnAssumption
       DEF RequestCancel, turn, reply, tokens, calls, scout, prompts, TypeOK, Terminal, Depth
  <2>2. StackShape' /\ BudgetShape'
    BY <1>2, ChatTurnAssumption
       DEF RequestCancel, tokens, calls, prompts, TypeOK, StackShape, BudgetShape, Calling,
           Depth, Top
  <2>3. VoiceShape' /\ PathShape' /\ StatusShape'
    BY <1>2
       DEF RequestCancel, turn, reply, tokens, StackShape, VoiceShape, Voiced, PathShape,
           Scouting, StatusShape, Terminal
  <2>4. (cancel = "none" => EventShape /\ AnswerShape)'
    BY <1>2 DEF RequestCancel, turn, reply, PathShape, StatusShape, EventShape, AnswerShape
  <2> QED
    BY <2>1, <2>2, <2>3, <2>4
<1>3. CASE ReportCancel
  <2>1. TypeOK'
    BY <1>3, ChatTurnAssumption
       DEF ReportCancel, turn, reply, tokens, calls, scout, prompts, TypeOK, Depth
  <2>2. StackShape' /\ BudgetShape'
    BY <1>3, ChatTurnAssumption
       DEF ReportCancel, tokens, calls, prompts, TypeOK, StackShape, BudgetShape, Calling,
           Depth, Top
  <2>3. VoiceShape' /\ PathShape' /\ StatusShape'
    BY <1>3
       DEF ReportCancel, turn, reply, tokens, StackShape, VoiceShape, Voiced, PathShape,
           Scouting, StatusShape, Terminal
  <2>4. (cancel = "none" => EventShape /\ AnswerShape)'
    BY <1>3 DEF ReportCancel, turn, reply, PathShape, StatusShape, EventShape, AnswerShape
  <2> QED
    BY <2>1, <2>2, <2>3, <2>4
<1> QED
  BY <1>1, <1>2, <1>3

----------------------------------------------------------------------------
\* A turn begins in the invariant ...
LEMMA InitHolds ==
    Init => TurnInv
<1> SUFFICES ASSUME Init PROVE TurnInv
  OBVIOUS
<1>1. TypeOK
  <2>1. /\ steps \in 0 .. MaxSteps /\ rounds \in 0 .. MaxRounds
        /\ scouts \in 0 .. MaxScouts /\ stage \in 0 .. Stages
    BY ChatTurnAssumption DEF Init
  <2>2. stack \in Seq(Frames) /\ Depth <= 2 /\ completed \in Seq(Tools)
    BY DEF Init, Depth
  <2> QED
    BY <2>1, <2>2 DEF Init, TypeOK, Kinds, Paths, PCs
<1>2. StackShape /\ BudgetShape /\ VoiceShape /\ PathShape /\ StatusShape
  BY ChatTurnAssumption DEF Init, StackShape, Calling, Depth, BudgetShape, VoiceShape, PathShape, Scouting, StatusShape
<1>3. EventShape /\ AnswerShape
  BY DEF Init, EventShape, AnswerShape
<1> QED
  BY <1>1, <1>2, <1>3 DEF TurnInv

\* ... and no step leaves it.
LEMMA Invariance ==
    Spec => []TurnInv
<1>1. ASSUME TurnInv, [Next]_vars
      PROVE  TurnInv'
  <2>1. CASE Turn
    BY <1>1, <2>1, GatesKeep, FixedKeeps, ScoutKeeps, PromptsKeep, StreamKeeps, CallKeeps, EndingKeeps
       DEF Turn
  <2>2. CASE Leave \/ RequestCancel \/ ReportCancel
    BY <1>1, <2>2, OutsideKeeps
  <2>3. CASE UNCHANGED vars
    <3> USE DEF vars, turn, run, reply, tokens, calls, scout, prompts
    <3>1. TypeOK' /\ StackShape'
      BY <1>1, <2>3 DEF TurnInv, TypeOK, StackShape, Depth, Top
    <3>2. BudgetShape' /\ VoiceShape' /\ PathShape' /\ StatusShape'
      BY <1>1, <2>3 DEF TurnInv, BudgetShape, VoiceShape, PathShape, StatusShape
    <3>3. (cancel = "none" => EventShape /\ AnswerShape)'
      BY <1>1, <2>3 DEF TurnInv, EventShape, AnswerShape
    <3> QED
      BY <3>1, <3>2, <3>3 DEF TurnInv
  <2> QED
    BY <1>1, <2>1, <2>2, <2>3 DEF Next, Ended
<1> QED
  BY <1>1, InitHolds, PTL DEF Spec

\* For every budget: a turn that got inside its try ends with a terminal status,
\* the last event tells it unless the API cancelled, and rows that began to
\* execute are settled if the client stayed (stream_chat, execute_agent_run).
THEOREM TurnsAreSettled ==
    Spec => []TurnIsSettled
<1>1. TurnInv => TurnIsSettled
  BY DEF TurnInv, TypeOK, StatusShape, EventShape, StackShape, TurnIsSettled, EndsTerminal,
         EventTellsStatus, RowsSettle
<1> QED
  BY <1>1, Invariance, PTL

\* For every budget and depth of the chain: in a turn that was blocked nothing of
\* the model or the tools is stored as an answer (RunBudget.blocked).
THEOREM BlockedTurnsSayNothing ==
    Spec => []BlockedSaysNothing
<1>1. TurnInv => BlockedSaysNothing
  BY DEF TurnInv, VoiceShape, BlockedSaysNothing
<1> QED
  BY <1>1, Invariance, PTL

\* For every limit: tools, chain steps, scout rounds and calls, and stages of the
\* prompt chain stay within it (RunBudget, AgentLoopBudget).
THEOREM TurnsAreBounded ==
    Spec => []Bounded
<1>1. TurnInv => Bounded
  BY DEF TurnInv, BudgetShape, Bounded, WithinBudget
<1> QED
  BY <1>1, Invariance, PTL

\* For every way a resumed turn may go: it answers its continuation if it reached
\* the model or a tool and the client stayed, and never at odds with the run
\* (workflow.continuation.completed and .failed).
THEOREM ContinuationsAreAnswered ==
    Spec => []ContinuationIsAnswered
<1>1. TurnInv => ContinuationIsAnswered
  BY DEF TurnInv, PathShape, AnswerShape, ContinuationIsAnswered
<1> QED
  BY <1>1, Invariance, PTL
=============================================================================
