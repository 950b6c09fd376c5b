-------------------------- MODULE EvaluationProofs --------------------------
(***************************************************************************)
(* The runner of the live suite, and the generation that each of its case  *)
(* processes runs (run_live_eval calls generate_live).                     *)
(*                                                                         *)
(* For every number of cases and slots: reports, files and the health      *)
(* table agree, and no more than Concurrency processes work.  For every    *)
(* table of routes, retries and budgets: what a generation returns is what *)
(* was validated and reviewed, within its budgets, and no call goes to a   *)
(* route that cools down.                                                  *)
(***************************************************************************)
EXTENDS EvalRunner, LiveWorkflow, WellFoundedInduction, FiniteSetTheorems, TLAPS

Polling  == {"queue", "alive", "clock", "mirror", "mirrorWrite", "timedOut"}
GivenUp  == {"mirror", "mirrorWrite", "timedOut"}
Ended    == {"exiting"} \cup Settled
Row      == [timeouts : 0 .. 2, consecutive : 0 .. 2, cooling : BOOLEAN]

\* The runner polls cases it waits for, and reports a timeout of dead ones.
RoundShape ==
    /\ todo \subseteq active
    /\ active \cap pending = {}
    /\ parent \in Polling => todo # {}
    /\ parent \in GivenUp => proc[Polled] = "killed"
    /\ Cardinality(active) <= Concurrency

\* A case works while the runner waits for it.  Its file is written before its
\* answer, and after the answer, or its end, the case writes nothing.
CaseShape(c) ==
    /\ c \in pending => proc[c] = "none"
    /\ proc[c] \notin {"none"} \cup Ended => c \in active
    /\ c \in pending \cup active => report[c] = "none"
    /\ queue[c] # "none" => proc[c] \in Ended
    /\ queue[c] = "own" /\ report[c] = "none" => file[c] = "own"
    /\ proc[c] = "putting" => file[c] = "own"
    /\ report[c] # "none" => file[c] = report[c] /\ proc[c] \in Ended

EvalInv == TypeOK /\ RowIsConsistent /\ RoundShape /\ \A c \in Case : CaseShape(c)

----------------------------------------------------------------------------
\* The least of the cases to poll is one of them.
LEMMA PolledIsActive ==
    ASSUME todo \subseteq Case, todo # {}
    PROVE  Polled \in todo
<1>1. todo \subseteq Nat
  BY EvalRunnerAssumption DEF Case
<1>2. PICK x \in todo : \A y \in todo : ~ (<<y, x>> \in OpToRel(<, Nat))
  BY <1>1, NatLessThanWellFounded, WFMin
<1>3. \A y \in todo : x =< y
  <2> SUFFICES ASSUME NEW y \in todo PROVE x =< y
    OBVIOUS
  <2>1. x \in Nat /\ y \in Nat
    BY <1>1
  <2>2. ~ (y < x)
    BY <1>2, <2>1 DEF OpToRel
  <2> QED
    BY <2>1, <2>2
<1> QED
  BY <1>3 DEF Polled, Min

\* The same of the set of cases still to be launched.
LEMMA NextIsPending ==
    ASSUME pending \subseteq Case, pending # {}
    PROVE  Min(pending) \in pending
<1>1. pending \subseteq Nat
  BY EvalRunnerAssumption DEF Case
<1>2. PICK x \in pending : \A y \in pending : ~ (<<y, x>> \in OpToRel(<, Nat))
  BY <1>1, NatLessThanWellFounded, WFMin
<1>3. \A y \in pending : x =< y
  <2> SUFFICES ASSUME NEW y \in pending PROVE x =< y
    OBVIOUS
  <2>1. x \in Nat /\ y \in Nat
    BY <1>1
  <2>2. ~ (y < x)
    BY <1>2, <2>1 DEF OpToRel
  <2> QED
    BY <2>1, <2>2
<1> QED
  BY <1>3 DEF Min

\* Sets of cases are finite.
LEMMA CasesAreFinite ==
    ASSUME NEW S \in SUBSET Case
    PROVE  IsFiniteSet(S) /\ Cardinality(S) \in Nat
<1>1. IsFiniteSet(Case)
  BY EvalRunnerAssumption, FS_Interval DEF Case
<1> QED
  BY <1>1, FS_Subset, FS_CardinalityType

----------------------------------------------------------------------------
(* The health table.                                                       *)

\* What an upsert writes is a row that shows a cooldown where one is due.
LEMMA NextRowIsSound ==
    ASSUME NEW old \in Row, NEW how \in Outcomes
    PROVE  /\ NextRow(old, how) \in Row
           /\ NextRow(old, how).consecutive >= 2 \/ NextRow(old, how).timeouts >= 2
                 => NextRow(old, how).cooling
<1> DEFINE late == IF how = "timeout" /\ old.timeouts < 2 THEN old.timeouts + 1 ELSE old.timeouts
           fails == IF how = "pass" THEN 0
                          ELSE IF old.consecutive < 2 THEN old.consecutive + 1 ELSE old.consecutive
           rests == old.cooling \/ late >= 2 \/ fails >= 2
<1>1. late \in 0 .. 2 /\ fails \in 0 .. 2
  BY DEF Row
<1>2. rests \in BOOLEAN
  OBVIOUS
<1>3. NextRow(old, how) = [timeouts |-> late, consecutive |-> fails, cooling |-> rests]
  BY DEF NextRow
<1>4. fails >= 2 \/ late >= 2 => rests
  OBVIOUS
<1> HIDE DEF late, fails, rests
<1>5. NextRow(old, how) \in Row
  BY <1>1, <1>2, <1>3 DEF Row
<1>6. /\ NextRow(old, how).consecutive = fails /\ NextRow(old, how).timeouts = late
      /\ NextRow(old, how).cooling = rests
  BY <1>3
<1> QED
  BY <1>4, <1>5, <1>6

\* A read changes nothing in the table.
LEMMA SelectKeepsTable ==
    ASSUME TypeOK, RowIsConsistent, NEW a \in Actor, SelectRow(a)
    PROVE  RowIsConsistent' /\ row' \in Row /\ counted' \in Nat /\ recorded' \in Nat /\ read' \in [Actor -> Row]
<1>1. row \in Row /\ read \in [Actor -> Row]
  BY DEF TypeOK, Row
<1>2. read' = [read EXCEPT ![a] = row] /\ UNCHANGED <<row, counted, recorded>>
  BY DEF SelectRow, table
<1>3. read' \in [Actor -> Row]
  BY <1>1, <1>2
<1> QED
  BY <1>1, <1>2, <1>3 DEF TypeOK, RowIsConsistent

\* An upsert counts what it records.
LEMMA UpsertKeepsTable ==
    ASSUME TypeOK, RowIsConsistent, NEW a \in Actor, NEW how \in Outcomes, UpsertRow(a, how)
    PROVE  RowIsConsistent' /\ row' \in Row /\ counted' \in Nat /\ recorded' \in Nat /\ read' \in [Actor -> Row]
<1>1. read \in [Actor -> Row] /\ EmptyRow \in Row
  BY DEF TypeOK, Row, EmptyRow
<1>2. read[a] \in Row
  BY <1>1
<1>3. /\ row' = NextRow(read[a], how) /\ counted' = counted + 1 /\ recorded' = recorded + 1
      /\ read' = [read EXCEPT ![a] = EmptyRow]
  BY DEF UpsertRow
<1>4. row' \in Row /\ (row'.consecutive >= 2 \/ row'.timeouts >= 2 => row'.cooling)
  BY <1>2, <1>3, NextRowIsSound
<1>5. read' \in [Actor -> Row]
  BY <1>1, <1>3
<1>6. counted' = recorded' /\ counted' \in Nat
  BY <1>3 DEF TypeOK, RowIsConsistent
<1> QED
  BY <1>4, <1>5, <1>6 DEF RowIsConsistent

\* A process that ends leaves no half-recorded attempt.
LEMMA ForgetKeepsType ==
    ASSUME TypeOK, NEW c \in Case, Forget(c)
    PROVE  outcome' \in [Case -> Outcomes] /\ read' \in [Actor -> Row]
<1>1. EmptyRow \in Row /\ "pass" \in Outcomes
  BY DEF EmptyRow, Row, Outcomes
<1> QED
  BY <1>1 DEF TypeOK, Row, Forget

----------------------------------------------------------------------------
(* The process of a case.                                                  *)

\* A process changes its own state, and its file before it answers.  What holds
\* of every case's step is collected here.
LEMMA CaseActs ==
    ASSUME EvalInv, NEW c \in Case, proc[c] \notin {"none"} \cup Settled,
           UNCHANGED runnerVars, RowIsConsistent',
           row' \in Row, counted' \in Nat, recorded' \in Nat, read' \in [Actor -> Row],
           started' \subseteq Case, attempts' \in 0 .. MaxAttempts, outcome' \in [Case -> Outcomes],
           proc' = [proc EXCEPT ![c] = proc'[c]], queue' = [queue EXCEPT ![c] = queue'[c]],
           proc'[c] \in {"running", "calling", "recording", "putting", "exiting", "exited"},
           proc'[c] \in {"exiting", "exited"} \/ proc[c] # "exiting",
           queue'[c] \in {"none", "own", "error"},
           \/ queue'[c] = queue[c]
           \/ proc'[c] = "exiting" /\ (queue'[c] = "own" => file[c] = "own") /\ file' = file,
           \/ file' = file /\ proc'[c] # "putting"
           \/ file' = [file EXCEPT ![c] = "own"] /\ proc[c] = "running"
    PROVE  EvalInv'
<1>1. /\ proc \in [Case -> {"none", "running", "calling", "recording", "putting", "exiting"} \cup Settled]
      /\ queue \in [Case -> {"none", "own", "error"}] /\ file \in [Case -> Reports]
      /\ CaseShape(c)
  BY DEF EvalInv, TypeOK
<1>2. TypeOK'
  <2>1. proc' \in [Case -> {"none", "running", "calling", "recording", "putting", "exiting"} \cup Settled]
    BY <1>1 DEF Settled
  <2>2. queue' \in [Case -> {"none", "own", "error"}] /\ file' \in [Case -> Reports]
    BY <1>1 DEF Reports
  <2> QED
    BY <2>1, <2>2 DEF EvalInv, TypeOK, runnerVars, Row
<1>3. RoundShape'
  <2>1. todo \subseteq Case
    BY DEF EvalInv, TypeOK
  <2>2. ASSUME parent \in GivenUp PROVE proc[Polled] = "killed" /\ Polled \in Case
    BY <2>1, <2>2, PolledIsActive DEF EvalInv, RoundShape, GivenUp, Polling
  <2>3. parent \in GivenUp => proc'[Polled] = "killed"
    BY <1>1, <2>2 DEF Settled
  <2> QED
    BY <2>3 DEF EvalInv, RoundShape, runnerVars, Polled
<1>4. ASSUME NEW d \in Case, d # c PROVE CaseShape(d)'
  <2>1. proc'[d] = proc[d] /\ queue'[d] = queue[d] /\ file'[d] = file[d] /\ CaseShape(d)
    BY <1>1, <1>4 DEF EvalInv
  <2> QED
    BY <2>1 DEF CaseShape, runnerVars
<1>5. CaseShape(c)'
  <2>1. file'[c] = file[c] \/ (file'[c] = "own" /\ proc[c] = "running")
    BY <1>1
  <2>2. report[c] # "none" => proc'[c] \in {"exiting", "exited"} /\ file' = file
    BY <1>1 DEF CaseShape, Ended, Settled
  <2>3. c \notin pending /\ (proc'[c] \notin {"exiting", "exited"} => c \in active)
    BY <1>1 DEF CaseShape, Ended, Settled
  <2>4. queue'[c] # "none" => proc'[c] \in {"exiting", "exited"}
    BY <1>1 DEF CaseShape, Ended, Settled
  <2>5. queue'[c] = "own" /\ report[c] = "none" => file'[c] = "own"
    BY <1>1, <2>1 DEF CaseShape
  <2>6. proc'[c] = "putting" => file'[c] = "own"
    BY <1>1
  <2> QED
    BY <1>1, <2>1, <2>2, <2>3, <2>4, <2>5, <2>6 DEF CaseShape, Ended, Settled, runnerVars
<1> QED
  BY <1>2, <1>3, <1>4, <1>5 DEF EvalInv

\* Every step of a case is such an act.
LEMMA CaseKeeps ==
    ASSUME EvalInv, NEW c \in Case, CaseStep(c)
    PROVE  EvalInv'
<1>1. /\ c \in Actor /\ outcome[c] \in Outcomes /\ queue[c] \in {"none", "own", "error"}
      /\ queue = [queue EXCEPT ![c] = queue[c]] /\ CaseShape(c)
      /\ queue \in [Case -> {"none", "own", "error"}]
      /\ proc \in [Case -> {"none", "running", "calling", "recording", "putting", "exiting"} \cup Settled]
  BY DEF EvalInv, TypeOK, Actor
<1>2. /\ TypeOK /\ RowIsConsistent /\ row \in Row /\ counted \in Nat /\ recorded \in Nat
      /\ read \in [Actor -> Row] /\ started \subseteq Case /\ attempts \in 0 .. MaxAttempts
      /\ outcome \in [Case -> Outcomes] /\ MaxAttempts \in Nat
  BY EvalRunnerAssumption DEF EvalInv, TypeOK, Row
<1>3. UNCHANGED <<table, read>> =>
        /\ RowIsConsistent' /\ row' \in Row /\ counted' \in Nat /\ recorded' \in Nat
        /\ read' \in [Actor -> Row]
  BY <1>2 DEF RowIsConsistent, table
<1>a. CASE StartAttempt(c)
  <2>1. /\ UNCHANGED <<runnerVars, queue, file, outcome, table, read>> /\ proc[c] = "running"
        /\ proc' = [proc EXCEPT ![c] = "calling"] /\ attempts' = attempts + 1 /\ attempts < MaxAttempts
        /\ started' = started \cup {c}
    BY <1>a DEF StartAttempt
  <2>2. started' \subseteq Case /\ attempts' \in 0 .. MaxAttempts
    BY <1>2, <2>1
  <2>d. proc'[c] = "calling" /\ queue'[c] = queue[c]
    BY <1>1, <2>1
  <2> QED
    BY <1>1, <1>2, <1>3, <2>1, <2>2, <2>d, CaseActs DEF Settled
<1>b. CASE EndAttempt(c)
  <2>1. /\ UNCHANGED <<runnerVars, queue, file, started, attempts>> /\ proc[c] = "calling"
        /\ proc' = [proc EXCEPT ![c] = "recording"] /\ SelectRow(c)
        /\ \E how \in Outcomes : outcome' = [outcome EXCEPT ![c] = how]
    BY <1>b DEF EndAttempt
  <2>2. outcome' \in [Case -> Outcomes]
    BY <1>2, <2>1
  <2>3. RowIsConsistent' /\ row' \in Row /\ counted' \in Nat /\ recorded' \in Nat /\ read' \in [Actor -> Row]
    BY <1>1, <1>2, <2>1, SelectKeepsTable
  <2>d. proc'[c] = "recording" /\ queue'[c] = queue[c]
    BY <1>1, <2>1
  <2> QED
    BY <1>1, <1>2, <2>1, <2>2, <2>3, <2>d, CaseActs DEF Settled
<1>c. CASE RecordAttempt(c)
  <2>1. /\ UNCHANGED <<runnerVars, queue, file, started, attempts>> /\ proc[c] = "recording"
        /\ proc' = [proc EXCEPT ![c] = "running"] /\ UpsertRow(c, outcome[c])
        /\ outcome' = [outcome EXCEPT ![c] = "pass"]
    BY <1>c DEF RecordAttempt
  <2>2. outcome' \in [Case -> Outcomes]
    BY <1>2, <2>1 DEF Outcomes
  <2>3. RowIsConsistent' /\ row' \in Row /\ counted' \in Nat /\ recorded' \in Nat /\ read' \in [Actor -> Row]
    BY <1>1, <1>2, <2>1, UpsertKeepsTable
  <2>d. proc'[c] = "running" /\ queue'[c] = queue[c]
    BY <1>1, <2>1
  <2> QED
    BY <1>1, <1>2, <2>1, <2>2, <2>3, <2>d, CaseActs DEF Settled
<1>d. CASE WriteReport(c)
  <2>1. /\ UNCHANGED <<runnerVars, queue, started, attempts, outcome, table, read>> /\ proc[c] = "running"
        /\ proc' = [proc EXCEPT ![c] = "putting"] /\ file' = [file EXCEPT ![c] = "own"]
    BY <1>d DEF WriteReport
  <2>d. proc'[c] = "putting" /\ queue'[c] = queue[c]
    BY <1>1, <2>1
  <2> QED
    BY <1>1, <1>2, <1>3, <2>1, <2>d, CaseActs DEF Settled
<1>e. CASE PutReport(c)
  <2>1. /\ UNCHANGED <<runnerVars, file, started, attempts, outcome, table, read>> /\ proc[c] = "putting"
        /\ proc' = [proc EXCEPT ![c] = "exiting"] /\ queue' = [queue EXCEPT ![c] = "own"]
    BY <1>e DEF PutReport
  <2>2. file[c] = "own"
    BY <1>1, <2>1 DEF CaseShape
  <2>d. proc'[c] = "exiting" /\ queue'[c] = "own"
    BY <1>1, <2>1
  <2> QED
    BY <1>1, <1>2, <1>3, <2>1, <2>2, <2>d, CaseActs DEF Settled
<1>f. CASE PutException(c)
  <2>1. /\ UNCHANGED <<runnerVars, file, started, attempts, outcome, table, read>> /\ proc[c] = "running"
        /\ proc' = [proc EXCEPT ![c] = "exiting"] /\ queue' = [queue EXCEPT ![c] = "error"]
    BY <1>f DEF PutException
  <2>d. proc'[c] = "exiting" /\ queue'[c] = "error"
    BY <1>1, <2>1
  <2> QED
    BY <1>1, <1>2, <1>3, <2>1, <2>d, CaseActs DEF Settled
<1>g. CASE Exit(c)
  <2>1. /\ UNCHANGED <<runnerVars, queue, file, started, attempts, table>>
        /\ proc[c] \notin {"none"} \cup Settled /\ proc' = [proc EXCEPT ![c] = "exited"]
        /\ Forget(c)
    BY <1>g DEF Exit
  <2>2. outcome' \in [Case -> Outcomes] /\ read' \in [Actor -> Row]
    BY <1>2, <2>1, ForgetKeepsType DEF Actor
  <2>3. RowIsConsistent' /\ row' \in Row /\ counted' \in Nat /\ recorded' \in Nat
    BY <1>1, <1>2, <2>1 DEF RowIsConsistent, table
  <2>d. proc'[c] = "exited" /\ queue'[c] = queue[c]
    BY <1>1, <2>1
  <2> QED
    BY <1>1, <1>2, <2>1, <2>2, <2>3, <2>d, CaseActs
<1> QED
  BY <1>a, <1>b, <1>c, <1>d, <1>e, <1>f, <1>g DEF CaseStep

----------------------------------------------------------------------------
(* The runner.                                                             *)

\* A polled case that is over is reported as its file says.
LEMMA SettleKeeps ==
    ASSUME EvalInv, parent \in Polling,
           NEW what \in {"own", "error", "timeout"}, Settle(what),
           what = "own" => file[Polled] = "own", proc[Polled] \in Ended,
           UNCHANGED <<caseVars, table, read>>
    PROVE  EvalInv'
<1>1. PICK p : p = Polled
  OBVIOUS
<1>2. p \in todo /\ p \in active /\ p \in Case /\ p \notin pending
  BY <1>1, PolledIsActive DEF EvalInv, TypeOK, RoundShape
<1>3. /\ report' = [report EXCEPT ![p] = what] /\ active' = active \ {p} /\ todo' = todo \ {p}
      /\ parent' = IF todo' = {} THEN "launch" ELSE "queue"
      /\ file' = IF what = "own" THEN file ELSE [file EXCEPT ![p] = what]
      /\ UNCHANGED <<pending, proc, queue, started, attempts, outcome, row, counted, recorded, read>>
  BY <1>1 DEF Settle, PollNext, caseVars, table
<1>4. /\ report \in [Case -> Reports] /\ file \in [Case -> Reports]
      /\ active \in SUBSET Case /\ todo \in SUBSET Case
  BY DEF EvalInv, TypeOK
<1>5. report'[p] = what /\ file'[p] = what
  BY <1>1, <1>2, <1>3, <1>4
<1>6. TypeOK'
  <2>1. report' \in [Case -> Reports] /\ file' \in [Case -> Reports]
    BY <1>3, <1>4 DEF Reports
  <2>2. active' \subseteq Case /\ todo' \subseteq Case
    BY <1>3, <1>4
  <2> QED
    BY <1>3, <2>1, <2>2 DEF EvalInv, TypeOK
<1>7. RoundShape'
  <2>1. Cardinality(active') <= Cardinality(active)
    BY <1>3, <1>4, CasesAreFinite, FS_Subset
  <2>2. Cardinality(active') \in Nat /\ Cardinality(active) \in Nat
    BY <1>3, <1>4, CasesAreFinite
  <2>3. Cardinality(active') <= Concurrency
    BY <2>1, <2>2, EvalRunnerAssumption DEF EvalInv, RoundShape
  <2> QED
    BY <1>3, <2>3 DEF EvalInv, RoundShape, Polling, GivenUp
<1>8. ASSUME NEW c \in Case PROVE CaseShape(c)'
  <2>0. CaseShape(c) /\ UNCHANGED <<pending, proc, queue>>
    BY <1>3 DEF EvalInv
  <2>1. CASE c = p
    <3>1. report'[c] = what /\ file'[c] = what /\ c \notin active' /\ c \notin pending'
      BY <1>2, <1>3, <1>5, <2>1
    <3>2. proc[c] \in Ended /\ proc[c] # "putting" /\ proc[c] # "none"
      BY <1>1, <2>1 DEF Ended, Settled
    <3> QED
      BY <2>0, <3>1, <3>2 DEF CaseShape
  <2>2. CASE c # p
    <3>1. report'[c] = report[c] /\ file'[c] = file[c] /\ (c \in active' <=> c \in active)
      BY <1>3, <1>4, <2>2
    <3> QED
      BY <2>0, <3>1 DEF CaseShape
  <2> QED
    BY <2>1, <2>2
<1>9. RowIsConsistent'
  BY <1>3 DEF EvalInv, RowIsConsistent
<1> QED
  BY <1>6, <1>7, <1>8, <1>9 DEF EvalInv

\* Steps that change neither what is reported nor any process.
LEMMA RunnerGoesOn ==
    ASSUME EvalInv, UNCHANGED <<pending, active, report, caseVars, file>>,
           todo' \subseteq active,
           parent' \in {"launch", "queue", "alive", "clock", "mirror", "mirrorWrite", "timedOut", "done"},
           parent' \in Polling => todo' # {},
           parent' \in GivenUp => proc[Polled] = "killed" /\ todo' = todo,
           RowIsConsistent', row' \in Row, counted' \in Nat, recorded' \in Nat, read' \in [Actor -> Row]
    PROVE  EvalInv'
<1>1. UNCHANGED <<pending, active, report, proc, queue, started, attempts, outcome, file>>
  BY DEF caseVars
<1>2. TypeOK'
  BY <1>1 DEF EvalInv, TypeOK, Row
<1>3. RoundShape'
  BY <1>1 DEF EvalInv, RoundShape, Polled
<1>4. \A c \in Case : CaseShape(c)'
  BY <1>1 DEF EvalInv, CaseShape
<1> QED
  BY <1>2, <1>3, <1>4 DEF EvalInv

\* The least pending case gets a slot that is free.
LEMMA LaunchKeeps ==
    ASSUME EvalInv, Launch
    PROVE  EvalInv'
<1>1. PICK c : c = Min(pending)
  OBVIOUS
<1>2. /\ pending' = pending \ {c} /\ active' = active \cup {c} /\ proc' = [proc EXCEPT ![c] = "running"]
      /\ UNCHANGED <<todo, parent, report, queue, file, started, attempts, outcome, row, counted, recorded, read>>
      /\ parent = "launch" /\ Cardinality(active) < Concurrency /\ pending # {}
  BY <1>1 DEF Launch, table
<1>3. c \in pending /\ c \in Case /\ c \notin active
  BY <1>1, <1>2, NextIsPending DEF EvalInv, TypeOK, RoundShape
<1>4. proc \in [Case -> {"none", "running", "calling", "recording", "putting", "exiting"} \cup Settled]
  BY DEF EvalInv, TypeOK
<1>5. TypeOK'
  <2>1. proc' \in [Case -> {"none", "running", "calling", "recording", "putting", "exiting"} \cup Settled]
    BY <1>2, <1>3, <1>4
  <2> QED
    BY <1>2, <1>3, <2>1 DEF EvalInv, TypeOK
<1>6. RoundShape'
  <2>1. active \in SUBSET Case
    BY DEF EvalInv, TypeOK
  <2>2. Cardinality(active') = Cardinality(active) + 1
    BY <1>2, <1>3, <2>1, CasesAreFinite, FS_AddElement
  <2>3. Cardinality(active) \in Nat
    BY <2>1, CasesAreFinite
  <2>4. Cardinality(active') <= Concurrency
    BY <1>2, <2>2, <2>3, EvalRunnerAssumption
  <2> QED
    BY <1>2, <1>3, <2>4 DEF EvalInv, RoundShape, Polling, GivenUp
<1>7. ASSUME NEW d \in Case PROVE CaseShape(d)'
  <2>0. CaseShape(d) /\ UNCHANGED <<report, queue, file>>
    BY <1>2 DEF EvalInv
  <2>1. CASE d = c
    <3>1. proc'[d] = "running" /\ d \in active' /\ d \notin pending' /\ report[d] = "none" /\ queue[d] = "none"
      BY <1>2, <1>3, <1>4, <2>0, <2>1 DEF CaseShape, Ended, Settled
    <3> QED
      BY <2>0, <3>1 DEF CaseShape, Ended, Settled
  <2>2. CASE d # c
    <3>1. proc'[d] = proc[d] /\ (d \in active' <=> d \in active) /\ (d \in pending' <=> d \in pending)
      BY <1>2, <1>4, <2>2
    <3> QED
      BY <2>0, <3>1 DEF CaseShape
  <2> QED
    BY <2>1, <2>2
<1>8. RowIsConsistent'
  BY <1>2 DEF EvalInv, RowIsConsistent
<1> QED
  BY <1>5, <1>6, <1>7, <1>8 DEF EvalInv

\* A case whose time is over is killed, wherever it stands.
LEMMA TerminateKeeps ==
    ASSUME EvalInv, Terminate
    PROVE  EvalInv'
<1>1. PICK p : p = Polled
  OBVIOUS
<1>2. /\ parent = "clock" /\ proc' = [proc EXCEPT ![p] = "killed"] /\ parent' \in {"mirror", "timedOut"}
      /\ UNCHANGED <<pending, active, todo, report, queue, started, attempts, file,
                     row, counted, recorded>>
      /\ Forget(p)
  BY <1>1 DEF Terminate, table
<1>3. todo # {} /\ p \in todo /\ p \in active /\ p \in Case
  BY <1>1, <1>2, PolledIsActive DEF EvalInv, TypeOK, RoundShape, Polling
<1>4. proc \in [Case -> {"none", "running", "calling", "recording", "putting", "exiting"} \cup Settled]
  BY DEF EvalInv, TypeOK
<1>5. proc'[p] = "killed" /\ \A d \in Case \ {p} : proc'[d] = proc[d]
  BY <1>2, <1>3, <1>4
<1>6. TypeOK'
  <2>1. proc' \in [Case -> {"none", "running", "calling", "recording", "putting", "exiting"} \cup Settled]
    BY <1>2, <1>4 DEF Settled
  <2>2. outcome' \in [Case -> Outcomes] /\ read' \in [Actor -> Row]
    BY <1>2, <1>3, ForgetKeepsType DEF EvalInv, Actor
  <2> QED
    BY <1>2, <2>1, <2>2 DEF EvalInv, TypeOK, Row
<1>7. RoundShape'
  BY <1>1, <1>2, <1>3, <1>5 DEF EvalInv, RoundShape, Polled
<1>8. ASSUME NEW d \in Case PROVE CaseShape(d)'
  <2>0. CaseShape(d) /\ UNCHANGED <<pending, active, report, queue, file>>
    BY <1>2 DEF EvalInv
  <2>1. CASE d = p
    <3>1. d \notin pending
      BY <1>3, <2>1 DEF EvalInv, RoundShape
    <3> QED
      BY <1>5, <2>0, <2>1, <3>1 DEF CaseShape, Ended, Settled
  <2>2. CASE d # p
    BY <1>5, <2>0, <2>2 DEF CaseShape
  <2> QED
    BY <2>1, <2>2
<1>9. RowIsConsistent'
  BY <1>2 DEF EvalInv, RowIsConsistent
<1> QED
  BY <1>6, <1>7, <1>8, <1>9 DEF EvalInv

\* The steps of the runner.
LEMMA RunnerKeeps ==
    ASSUME EvalInv, RunnerStep
    PROVE  EvalInv'
<1>1. /\ TypeOK /\ RowIsConsistent /\ todo \subseteq active /\ active \subseteq Case
      /\ row \in Row /\ counted \in Nat /\ recorded \in Nat /\ read \in [Actor -> Row]
      /\ Runner \in Actor
  BY DEF EvalInv, TypeOK, RoundShape, Row, Actor
<1>2. UNCHANGED <<table, read>> =>
        /\ RowIsConsistent' /\ row' \in Row /\ counted' \in Nat /\ recorded' \in Nat
        /\ read' \in [Actor -> Row]
  BY <1>1 DEF RowIsConsistent, table
<1>3. parent \in Polling => todo # {} /\ Polled \in todo /\ Polled \in Case
  BY <1>1, PolledIsActive DEF EvalInv, RoundShape
<1>4. parent \in GivenUp => proc[Polled] = "killed"
  BY DEF EvalInv, RoundShape
<1>a. CASE Launch
  BY <1>a, LaunchKeeps
<1>b. CASE StartRound
  BY <1>b, <1>1, <1>2, RunnerGoesOn DEF StartRound, Polling, GivenUp
<1>c. CASE PollQueue
  <2>1. parent = "queue" /\ UNCHANGED <<caseVars, table, read>>
    BY <1>c DEF PollQueue
  <2>2. CASE queue[Polled] # "none" /\ Settle(queue[Polled])
    <3>1. queue[Polled] \in {"own", "error"} /\ CaseShape(Polled) /\ report[Polled] = "none"
      BY <1>1, <1>3, <2>1, <2>2 DEF EvalInv, TypeOK, CaseShape, Polling
    <3>2. proc[Polled] \in Ended /\ (queue[Polled] = "own" => file[Polled] = "own")
      BY <3>1, <2>2 DEF CaseShape
    <3> QED
      BY <2>1, <2>2, <3>1, <3>2, SettleKeeps DEF Polling
  <2>3. CASE parent' = "alive" /\ UNCHANGED <<pending, active, todo, report, file>>
    BY <1>1, <1>2, <1>3, <2>1, <2>3, RunnerGoesOn DEF Polling, GivenUp
  <2> QED
    BY <1>c, <2>2, <2>3 DEF PollQueue
<1>d. CASE PollAlive
  <2>1. parent = "alive" /\ UNCHANGED <<caseVars, table, read>>
    BY <1>d DEF PollAlive
  <2>2. CASE proc[Polled] = "exited" /\ Settle("error")
    BY <2>1, <2>2, SettleKeeps DEF Polling, Ended, Settled
  <2>3. CASE parent' = "clock" /\ UNCHANGED <<pending, active, todo, report, file>>
    BY <1>1, <1>2, <1>3, <2>1, <2>3, RunnerGoesOn DEF Polling, GivenUp
  <2> QED
    BY <1>d, <2>2, <2>3 DEF PollAlive
<1>e. CASE InTime
  <2>1. /\ todo' = todo \ {Polled} /\ parent' = IF todo' = {} THEN "launch" ELSE "queue"
        /\ UNCHANGED <<pending, active, report, caseVars, file, table, read>>
    BY <1>e DEF InTime, PollNext
  <2>2. todo' \subseteq active
    BY <1>1, <2>1
  <2> QED
    BY <1>2, <2>1, <2>2, RunnerGoesOn DEF Polling, GivenUp
<1>f. CASE Terminate
  BY <1>f, TerminateKeeps
<1>g. CASE SelectMirror
  <2>1. /\ parent = "mirror" /\ SelectRow(Runner) /\ parent' = "mirrorWrite"
        /\ UNCHANGED <<pending, active, todo, report, caseVars, file>>
    BY <1>g DEF SelectMirror
  <2>2. RowIsConsistent' /\ row' \in Row /\ counted' \in Nat /\ recorded' \in Nat /\ read' \in [Actor -> Row]
    BY <1>1, <2>1, SelectKeepsTable
  <2> QED
    BY <1>1, <1>3, <1>4, <2>1, <2>2, RunnerGoesOn DEF Polling, GivenUp
<1>h. CASE UpsertMirror
  <2>1. /\ parent = "mirrorWrite" /\ UpsertRow(Runner, "timeout") /\ parent' = "timedOut"
        /\ UNCHANGED <<pending, active, todo, report, caseVars, file>>
    BY <1>h DEF UpsertMirror
  <2>2. RowIsConsistent' /\ row' \in Row /\ counted' \in Nat /\ recorded' \in Nat /\ read' \in [Actor -> Row]
    BY <1>1, <2>1, UpsertKeepsTable DEF Outcomes
  <2> QED
    BY <1>1, <1>3, <1>4, <2>1, <2>2, RunnerGoesOn DEF Polling, GivenUp
<1>i. CASE ReportTimeout
  <2>1. parent = "timedOut" /\ Settle("timeout") /\ UNCHANGED <<caseVars, table, read>>
    BY <1>i DEF ReportTimeout
  <2> QED
    BY <1>4, <2>1, SettleKeeps DEF Polling, GivenUp, Ended, Settled
<1> QED
  BY <1>a, <1>b, <1>c, <1>d, <1>e, <1>f, <1>g, <1>h, <1>i DEF RunnerStep

----------------------------------------------------------------------------
\* Before the first launch nothing is reported.
LEMMA InitHolds == Init => EvalInv
<1> SUFFICES ASSUME Init PROVE EvalInv
  OBVIOUS
<1>1. EmptyRow \in [timeouts : 0 .. 2, consecutive : 0 .. 2, cooling : BOOLEAN]
  BY DEF EmptyRow
<1>2. TypeOK
  BY <1>1, EvalRunnerAssumption DEF Init, TypeOK, Reports, Outcomes
<1>3. RowIsConsistent
  BY DEF Init, RowIsConsistent, EmptyRow
<1>4. RoundShape
  BY FS_EmptySet, EvalRunnerAssumption DEF Init, RoundShape, Polling, GivenUp
<1>5. \A c \in Case : CaseShape(c)
  BY DEF Init, CaseShape, Ended
<1> QED
  BY <1>2, <1>3, <1>4, <1>5 DEF EvalInv

\* Reports, files and health table agree, and the processes fit in the slots.
LEMMA Invariance == Spec => []EvalInv
<1>1. EvalInv /\ [Next]_vars => EvalInv'
  <2> SUFFICES ASSUME EvalInv, [Next]_vars PROVE EvalInv'
    OBVIOUS
  <2>1. CASE RunnerStep
    BY <2>1, RunnerKeeps
  <2>2. CASE \E c \in Case : CaseStep(c)
    BY <2>2, CaseKeeps
  <2>3. CASE UNCHANGED vars
    <3>1. UNCHANGED <<pending, active, todo, parent, report, proc, queue, started, attempts, outcome,
                      file, row, counted, recorded, read>>
      BY <2>3 DEF vars, runnerVars, caseVars, table
    <3>2. TypeOK' /\ RowIsConsistent'
      BY <3>1 DEF EvalInv, TypeOK, RowIsConsistent
    <3>3. RoundShape' /\ \A c \in Case : CaseShape(c)'
      BY <3>1 DEF EvalInv, RoundShape, CaseShape, Polled
    <3> QED
      BY <3>2, <3>3 DEF EvalInv
  <2> QED
    BY <2>1, <2>2, <2>3 DEF Next, Done
<1> QED
  BY <1>1, InitHolds, PTL DEF Spec

\* A reported case has the report the runner gives, on disk and for good, and the
\* health table counts every attempt and rests routes that failed twice, whenever
\* processes answer, die, hang or are killed (_run_cases_with_timeout).
THEOREM ReportsStayInAgreement == Spec => []ReportsAgree
<1>1. EvalInv => ReportsAgree
  BY DEF EvalInv, CaseShape, ReportsAgree, FilesMatchReports
<1> QED
  BY <1>1, Invariance, PTL

\* The processes at work are those of active cases, of which there are no more
\* than slots (--concurrency).
THEOREM WorkStaysWithinConcurrency == Spec => []WorksWithinConcurrency
<1>1. EvalInv => WorksWithinConcurrency
  <2> SUFFICES ASSUME EvalInv PROVE WorksWithinConcurrency
    OBVIOUS
  <2> DEFINE working == {c \in Case : proc[c] \in {"running", "calling", "recording", "putting"}}
  <2>1. working \subseteq active
    BY DEF EvalInv, CaseShape, Ended, Settled
  <2>2. active \in SUBSET Case /\ working \in SUBSET Case
    BY DEF EvalInv, TypeOK
  <2>3. Cardinality(working) <= Cardinality(active) /\ Cardinality(working) \in Nat /\ Cardinality(active) \in Nat
    BY <2>1, <2>2, CasesAreFinite, FS_Subset
  <2>4. Cardinality(active) <= Concurrency
    BY DEF EvalInv, RoundShape
  <2> QED
    BY <2>3, <2>4, EvalRunnerAssumption DEF WorksWithinConcurrency
<1> QED
  BY <1>1, Invariance, PTL

----------------------------------------------------------------------------
(* A live generation.                                                      *)

\* Where a model is waited for, and where none is.
Waiting   == {"research", "reasoning", "coding", "pine", "reviewing", "repairing", "compact", "single"}
Places    == {"start", "initial_repair", "review", "loop", "re_review", "gate", "done"}

\* Before there is code; before it is reviewed; only in the multi-agent workflow.
Unwritten == {"start", "research", "reasoning", "coding", "pine"}
Unread    == Unwritten \cup {"initial_repair", "review"}
InMulti   == {"research", "reasoning", "coding", "pine", "initial_repair", "review", "reviewing",
              "loop", "repairing", "re_review", "gate"}

\* A call belongs to a place that waits for it, and is at one of its routes.
CallShape ==
    /\ at \in Places <=> phase = "idle"
    /\ phase \in {"route", "calling", "answered"} => route \in 1 .. Len(Routes[stage])

\* Each workflow keeps to its places; it is over when it has a result.
PlaceShape ==
    /\ at \in InMulti => workflow = "multi"
    /\ at = "compact" => workflow = "compact"
    /\ at = "single" => workflow = "single"
    /\ at = "done" <=> result # "none"

\* In the multi-agent workflow a version is validated with the step that makes
\* it, and where the loop or the gate decides it was reviewed as well.
VersionShape ==
    /\ workflow = "multi" => validated = code
    /\ at \in {"loop", "gate"} =>
         reviewed = code /\ (~Allows(validation) => review.verdict # "pass")

\* What was asked so far, and what was counted for it.
SpendShape ==
    /\ asked["repair"] = llmRepairs /\ llmRepairs <= MaxLlmRepairs
    /\ postReviews <= MaxPostReviews /\ asked["review"] <= 1 + postReviews
    /\ at \in Unread => asked["review"] = 0 /\ postReviews = 0
    /\ at \in Unwritten \cup {"initial_repair"} => repairs = 0
    /\ repairs <= IF MaxRepairs = 0 THEN 1 ELSE MaxRepairs
    /\ workflow = "compact" => repairs <= MaxFreeRepairs /\ asked["compact"] <= 1 + repairs
    /\ workflow # "compact" => asked["compact"] = 0
    /\ at = "start" => \A s \in Stages : asked[s] = 0
    /\ at = "research" => asked["reasoning"] = 0
    /\ at \in {"research", "reasoning"} => asked["coding"] = 0
    /\ at \in {"research", "reasoning", "coding"} => asked["pine"] = 0
    /\ \A s \in Stages \ {"repair", "review", "compact"} : asked[s] <= 1

\* The inductive invariant.
LiveInv == LiveTypeOK /\ CallShape /\ PlaceShape /\ VersionShape /\ SpendShape /\ ReturnedArtifactIsSound

----------------------------------------------------------------------------
(* The call of a model.                                                    *)

\* The names of the stages are stages, the first stage is one.
LEMMA StageNames ==
    /\ {"research", "reasoning", "coding", "pine", "review", "repair", "compact", "single"} \subseteq Stages
    /\ (CHOOSE s \in Stages : TRUE) \in Stages
  BY LiveWorkflowAssumption

\* The route of a call in progress is one of the table.
LEMMA KeyIsRoute ==
    ASSUME CallTypeOK, CallShape, phase \in {"route", "calling", "answered"}
    PROVE  Model \in Models /\ Key \in Health /\ route \in 1 .. Len(Routes[stage])
  BY ModelCallsAssumption DEF CallTypeOK, CallShape, Model, Key, Health

\* A call begins at the first route, or fails for want of one.
LEMMA CallBegins ==
    ASSUME NEW s \in Stages, Call(s)
    PROVE  /\ stage' \in Stages /\ route' \in Nat /\ attempt' \in Nat /\ seen' = {}
           /\ phase' \in {"route", "failed"}
           /\ phase' = "route" => route' \in 1 .. Len(Routes[stage'])
<1>1. Routes[s] \in Seq(Models)
  BY ModelCallsAssumption
<1>2. Routes[s] # <<>> => 1 \in 1 .. Len(Routes[s])
  BY <1>1
<1> QED
  BY <1>2 DEF Call

\* The table of route health keeps its type.
LEMMA FailureIsRecorded ==
    ASSUME CallTypeOK, CallShape, phase \in {"route", "calling", "answered"}, NEW class, RecordFailure(class)
    PROVE  consecutive' \in [Health -> Nat] /\ cooling' \in [Health -> BOOLEAN]
<1>1. Key \in Health /\ consecutive \in [Health -> Nat] /\ cooling \in [Health -> BOOLEAN]
  BY KeyIsRoute DEF CallTypeOK
<1>2. AfterFailure(class) \in Nat
  BY <1>1 DEF AfterFailure
<1>3. cooling[Key] \/ CoolsDown(class) \in BOOLEAN
  BY DEF CoolsDown
<1> QED
  BY <1>1, <1>2, <1>3 DEF RecordFailure

\* A step of the call stays within the call.
LEMMA CallKeepsShape ==
    ASSUME LiveTypeOK, CallShape, CallStep, UNCHANGED at
    PROVE  CallTypeOK' /\ CallShape'
<1> USE DEF LiveTypeOK
<1>1. phase \in {"route", "calling"} /\ CallTypeOK
  BY DEF CallStep, SkipRoute, TryRoute, Accept, Refuse, AttemptFails, DiscardLateAnswer, Deadline, Running
<1>2. Model \in Models /\ Key \in Health /\ route \in 1 .. Len(Routes[stage]) /\ Routes[stage] \in Seq(Models)
  BY <1>1, KeyIsRoute, ModelCallsAssumption DEF CallTypeOK
<1>3. ASSUME NextRoute, stage' = stage
      PROVE  /\ phase' \in {"route", "failed"} /\ route' \in Nat /\ attempt' \in Nat
             /\ phase' = "route" => route' \in 1 .. Len(Routes[stage'])
  <2>1. Len(Routes[stage]) \in Nat
    BY <1>2
  <2> QED
    BY <1>1, <1>2, <1>3, <2>1 DEF NextRoute, CallTypeOK
<1>4. CASE SkipRoute
  BY <1>1, <1>3, <1>4 DEF SkipRoute, SkipReason, Skips, CallTypeOK, CallShape, health, Places
<1>5. CASE TryRoute
  BY <1>1, <1>2, <1>5 DEF TryRoute, CallTypeOK, CallShape, health, Places
<1>6. CASE Accept
  BY <1>1, <1>2, <1>6 DEF Accept, RecordSuccess, CallTypeOK, CallShape, Places
<1>7. CASE Refuse
  BY <1>1, <1>2, <1>7, FailureIsRecorded DEF Refuse, CallTypeOK, CallShape, Failures, Places
<1>8. ASSUME NEW class \in {"malformed", "schema", "error", "not_found", "other"}, AttemptFails(class)
      PROVE  CallTypeOK' /\ CallShape'
  <2>1. /\ phase' \in {"route", "calling", "failed"} /\ route' \in Nat /\ attempt' \in Nat /\ stage' = stage
        /\ phase' \in {"route", "calling"} => route' \in 1 .. Len(Routes[stage'])
    BY <1>1, <1>2, <1>3, <1>8 DEF AttemptFails, RetryOrNextRoute, CallTypeOK
  <2> QED
    BY <1>1, <1>8, <2>1, FailureIsRecorded
       DEF AttemptFails, CallTypeOK, CallShape, Failures, ProviderFailures, Places
<1>9. CASE DiscardLateAnswer
  BY <1>1, <1>3, <1>9, FailureIsRecorded
     DEF DiscardLateAnswer, CallTypeOK, CallShape, Failures, ProviderFailures, Places
<1>10. CASE Deadline
  BY <1>1, <1>3, <1>10, FailureIsRecorded
     DEF Deadline, Deferred, CallTypeOK, CallShape, Failures, ProviderFailures, Places
<1> QED
  BY <1>4, <1>5, <1>6, <1>7, <1>8, <1>9, <1>10 DEF CallStep

----------------------------------------------------------------------------
(* The steps of the workflow.                                              *)

\* A place that calls a model waits for a call of that stage.
LEMMA Asking ==
    ASSUME LiveTypeOK, NEW place \in Waiting, NEW s \in Stages, Ask(place, s), UNCHANGED <<missing, abandoned>>,
           consecutive' \in [Health -> Nat], cooling' \in [Health -> BOOLEAN]
    PROVE  /\ CallTypeOK' /\ CallShape' /\ at' = place
           /\ asked' = [asked EXCEPT ![s] = @ + 1] /\ asked' \in [Stages -> Nat]
<1>1. CallTypeOK'
  BY CallBegins DEF Ask, LiveTypeOK, CallTypeOK
<1>2. CallShape'
  BY CallBegins DEF Ask, CallShape, Waiting, Places
<1> QED
  BY <1>1, <1>2 DEF Ask, LiveTypeOK

\* Where nothing is asked no call is in progress.
LEMMA NotAsking ==
    ASSUME LiveTypeOK, at' \in Places, NoCall, UNCHANGED <<missing, abandoned>>,
           consecutive' \in [Health -> Nat], cooling' \in [Health -> BOOLEAN]
    PROVE  CallTypeOK' /\ CallShape'
BY DEF NoCall, CallShape, LiveTypeOK, CallTypeOK

\* What the reviews say of a version: a local review, and whatever a model
\* said once it is aligned, passes no version that the validation blocks.
LEMMA ReviewsAlign ==
    ASSUME LiveTypeOK, NEW r, r \in Verdicts \/ r = StaticReview, Reviewed(r)
    PROVE  /\ reviewed' = code /\ review' \in Verdicts
           /\ ~Allows(validation) => review'.verdict # "pass"
BY DEF Reviewed, Aligned, StaticReview, Verdicts, Allows, LiveTypeOK

\* The merged table of route health has its type.
LEMMA LoadedHealthIsTyped ==
    ASSUME CallTypeOK, LoadRouteHealth
    PROVE  consecutive' \in [Health -> Nat] /\ cooling' \in [Health -> BOOLEAN]
BY ModelCallsAssumption DEF CallTypeOK, LoadRouteHealth, Health

\* One step per action, and under it what the call, the place, the versions and
\* the budgets are afterwards.
LEMMA WorkflowKeepsInv ==
    ASSUME LiveInv, WorkflowStep
    PROVE  LiveInv'
<1> USE DEF LiveInv
<1>0. CallTypeOK /\ consecutive \in [Health -> Nat] /\ cooling \in [Health -> BOOLEAN]
  BY DEF LiveTypeOK, CallTypeOK
<1>1. CASE RejectMisconfigured
  <2>1. at' \in Places /\ NoCall /\ UNCHANGED <<missing, abandoned, health>>
    BY <1>1 DEF RejectMisconfigured, Finish, Places
  <2>2. CallTypeOK' /\ CallShape'
    BY <2>1, <1>0, NotAsking DEF health
  <2>3. LiveTypeOK' /\ PlaceShape'
    BY <2>1, <2>2, <1>1
       DEF RejectMisconfigured, Finish, artifact, verdict, budget, LiveTypeOK, PlaceShape,
           InMulti, Places
  <2>4. VersionShape' /\ ReturnedArtifactIsSound'
    BY <2>1, <2>2, <1>1, <2>3
       DEF RejectMisconfigured, Finish, artifact, verdict, budget, LiveTypeOK, PlaceShape,
           InMulti, VersionShape, ReturnedArtifactIsSound, Allows
  <2>5. SpendShape'
    BY <2>1, <2>2, <1>1, LiveWorkflowAssumption, StageNames
       DEF RejectMisconfigured, Finish, artifact, verdict, budget, LiveTypeOK, PlaceShape,
           InMulti, SpendShape, Unread, Unwritten, MaxFreeRepairs, Places
  <2> QED
    BY <2>2, <2>3, <2>4, <2>5
<1>2. CASE StartWorkflow
  <2>1. /\ CallTypeOK' /\ CallShape' /\ asked' \in [Stages -> Nat]
        /\ \/ at' = "research" /\ workflow = "multi" /\ asked' = [asked EXCEPT !["research"] = @ + 1]
           \/ at' = "reasoning" /\ workflow = "multi" /\ asked' = [asked EXCEPT !["reasoning"] = @ + 1]
           \/ at' = "compact" /\ workflow = "compact" /\ asked' = [asked EXCEPT !["compact"] = @ + 1]
           \/ at' = "single" /\ workflow = "single" /\ asked' = [asked EXCEPT !["single"] = @ + 1]
    <3>1. {"research", "reasoning", "compact", "single"} \subseteq Waiting
      BY DEF Waiting
    <3>2. UNCHANGED <<missing, abandoned>> /\ consecutive' \in [Health -> Nat] /\ cooling' \in [Health -> BOOLEAN]
      BY <1>0, <1>2, LoadedHealthIsTyped DEF StartWorkflow
    <3>3. CASE workflow = "multi" /\ Ask("research", "research")
      BY <3>1, <3>2, <3>3, StageNames, Asking
    <3>4. CASE workflow = "multi" /\ Ask("reasoning", "reasoning")
      BY <3>1, <3>2, <3>4, StageNames, Asking
    <3>5. CASE workflow = "compact" /\ Ask("compact", "compact")
      BY <3>1, <3>2, <3>5, StageNames, Asking
    <3>6. CASE workflow = "single" /\ Ask("single", "single")
      BY <3>1, <3>2, <3>6, StageNames, Asking
    <3> QED
      BY <3>3, <3>4, <3>5, <3>6, <1>2 DEF StartWorkflow
  <2>2. at = "start" /\ UNCHANGED <<workflow, artifact, verdict, budget, result>>
    BY <1>2 DEF StartWorkflow
  <2>3. LiveTypeOK' /\ PlaceShape'
    BY <2>1, <2>2 DEF artifact, verdict, budget, LiveTypeOK, PlaceShape, InMulti, Places
  <2>4. VersionShape' /\ ReturnedArtifactIsSound'
    BY <2>1, <2>2, <2>3
       DEF artifact, verdict, budget, LiveTypeOK, PlaceShape, InMulti, VersionShape,
           ReturnedArtifactIsSound, Allows
  <2>5. SpendShape'
    BY <2>1, <2>2, LiveWorkflowAssumption, StageNames
       DEF artifact, verdict, budget, LiveTypeOK, PlaceShape, InMulti, SpendShape, Unread,
           Unwritten, MaxFreeRepairs, Places
  <2> QED
    BY <2>1, <2>3, <2>4, <2>5
<1>3. CASE ResearchEnds
  <2>1. Ask("reasoning", "reasoning") /\ UNCHANGED <<missing, abandoned, health>> /\ "reasoning" \in Waiting
    BY <1>3 DEF ResearchEnds, Waiting
  <2>2. /\ CallTypeOK' /\ CallShape' /\ at' = "reasoning"
        /\ asked' = [asked EXCEPT !["reasoning"] = @ + 1] /\ asked' \in [Stages -> Nat]
    BY <2>1, <1>0, StageNames, Asking DEF health
  <2>3. LiveTypeOK' /\ PlaceShape'
    BY <2>1, <2>2, <1>3
       DEF ResearchEnds, artifact, verdict, budget, LiveTypeOK, PlaceShape, InMulti, Places
  <2>4. VersionShape' /\ ReturnedArtifactIsSound'
    BY <2>1, <2>2, <1>3, <2>3
       DEF ResearchEnds, artifact, verdict, budget, LiveTypeOK, PlaceShape, InMulti,
           VersionShape, ReturnedArtifactIsSound, Allows
  <2>5. SpendShape'
    BY <2>1, <2>2, <1>3, LiveWorkflowAssumption, StageNames
       DEF ResearchEnds, artifact, verdict, budget, LiveTypeOK, PlaceShape, InMulti, SpendShape,
           Unread, Unwritten, MaxFreeRepairs, Places
  <2> QED
    BY <2>2, <2>3, <2>4, <2>5
<1>4. CASE StrategyReasoned
  <2>1. Ask("coding", "coding") /\ UNCHANGED <<missing, abandoned, health>> /\ "coding" \in Waiting
    BY <1>4 DEF StrategyReasoned, Waiting
  <2>2. /\ CallTypeOK' /\ CallShape' /\ at' = "coding"
        /\ asked' = [asked EXCEPT !["coding"] = @ + 1] /\ asked' \in [Stages -> Nat]
    BY <2>1, <1>0, StageNames, Asking DEF health
  <2>3. LiveTypeOK' /\ PlaceShape'
    BY <2>1, <2>2, <1>4
       DEF StrategyReasoned, Answered, artifact, verdict, budget, LiveTypeOK, PlaceShape,
           InMulti, Places
  <2>4. VersionShape' /\ ReturnedArtifactIsSound'
    BY <2>1, <2>2, <1>4, <2>3
       DEF StrategyReasoned, Answered, artifact, verdict, budget, LiveTypeOK, PlaceShape,
           InMulti, VersionShape, ReturnedArtifactIsSound, Allows
  <2>5. SpendShape'
    BY <2>1, <2>2, <1>4, LiveWorkflowAssumption, StageNames
       DEF StrategyReasoned, Answered, artifact, verdict, budget, LiveTypeOK, PlaceShape,
           InMulti, SpendShape, Unread, Unwritten, MaxFreeRepairs, Places
  <2> QED
    BY <2>2, <2>3, <2>4, <2>5
<1>5. CASE StrategyCoded
  <2>1. UNCHANGED <<missing, abandoned, health, workflow, artifact, verdict, budget>> /\ at = "coding"
    BY <1>5 DEF StrategyCoded, Answered
  <2>2. /\ CallTypeOK' /\ CallShape'
        /\ \/ /\ at' = "pine" /\ UNCHANGED result
              /\ asked' = [asked EXCEPT !["pine"] = @ + 1] /\ asked' \in [Stages -> Nat]
           \/ at' = "done" /\ result' = "schema" /\ UNCHANGED asked
    <3>1. CASE Ask("pine", "pine") /\ UNCHANGED result
      BY <2>1, <3>1, <1>0, StageNames, Asking DEF health, Waiting
    <3>2. CASE Finish("schema")
      BY <2>1, <3>2, <1>0, NotAsking DEF health, Finish, Places
    <3> QED
      BY <1>5, <3>1, <3>2 DEF StrategyCoded
  <2>3. LiveTypeOK' /\ PlaceShape'
    BY <2>1, <2>2 DEF artifact, verdict, budget, LiveTypeOK, PlaceShape, InMulti, Places
  <2>4. VersionShape' /\ ReturnedArtifactIsSound'
    BY <2>1, <2>2, <2>3
       DEF artifact, verdict, budget, LiveTypeOK, PlaceShape, InMulti, VersionShape,
           ReturnedArtifactIsSound, Allows
  <2>5. SpendShape'
    BY <2>1, <2>2, LiveWorkflowAssumption, StageNames
       DEF artifact, verdict, budget, LiveTypeOK, PlaceShape, InMulti, SpendShape, Unread,
           Unwritten, MaxFreeRepairs, Places
  <2> QED
    BY <2>2, <2>3, <2>4, <2>5
<1>6. CASE PineGenerated
  <2>1. at' \in Places /\ NoCall /\ UNCHANGED <<missing, abandoned, health>>
    BY <1>6 DEF PineGenerated, Goto, Finish, Places
  <2>2. CallTypeOK' /\ CallShape'
    BY <2>1, <1>0, NotAsking DEF health
  <2>3. LiveTypeOK' /\ PlaceShape'
    BY <2>1, <2>2, <1>6
       DEF PineGenerated, Answered, NewArtifact, Goto, Finish, artifact, verdict, budget,
           LiveTypeOK, PlaceShape, InMulti, Places
  <2>4. VersionShape' /\ ReturnedArtifactIsSound'
    BY <2>1, <2>2, <1>6, <2>3
       DEF PineGenerated, Answered, NewArtifact, Goto, Finish, artifact, verdict, budget,
           LiveTypeOK, PlaceShape, InMulti, VersionShape, ReturnedArtifactIsSound, Allows
  <2>5. SpendShape'
    BY <2>1, <2>2, <1>6, LiveWorkflowAssumption, StageNames
       DEF PineGenerated, Answered, NewArtifact, Goto, Finish, artifact, verdict, budget,
           LiveTypeOK, PlaceShape, InMulti, SpendShape, Unread, Unwritten, MaxFreeRepairs,
           Places
  <2> QED
    BY <2>2, <2>3, <2>4, <2>5
<1>7. CASE InitialRepair
  <2>1. at' \in Places /\ NoCall /\ UNCHANGED <<missing, abandoned, health>>
    BY <1>7 DEF InitialRepair, Goto, Places
  <2>2. CallTypeOK' /\ CallShape'
    BY <2>1, <1>0, NotAsking DEF health
  <2>3. LiveTypeOK' /\ PlaceShape'
    BY <2>1, <2>2, <1>7
       DEF InitialRepair, DeterministicRepair, NewArtifact, Goto, artifact, verdict, budget,
           LiveTypeOK, PlaceShape, InMulti, Places
  <2>4. VersionShape' /\ ReturnedArtifactIsSound'
    BY <2>1, <2>2, <1>7, <2>3
       DEF InitialRepair, DeterministicRepair, NewArtifact, Goto, artifact, verdict, budget,
           LiveTypeOK, PlaceShape, InMulti, VersionShape, ReturnedArtifactIsSound, Allows
  <2>5. SpendShape'
    BY <2>1, <2>2, <1>7, LiveWorkflowAssumption, StageNames
       DEF InitialRepair, DeterministicRepair, NewArtifact, Goto, artifact, verdict, budget,
           LiveTypeOK, PlaceShape, InMulti, SpendShape, Unread, Unwritten, MaxFreeRepairs,
           Places
  <2> QED
    BY <2>2, <2>3, <2>4, <2>5
<1>8. CASE ReviewStatically
  <2>1. at' \in Places /\ NoCall /\ UNCHANGED <<missing, abandoned, health>>
    BY <1>8 DEF ReviewStatically, Goto, Places
  <2>2. CallTypeOK' /\ CallShape'
    BY <2>1, <1>0, NotAsking DEF health
  <2>3. /\ reviewed' = code /\ review' \in Verdicts
        /\ ~Allows(validation) => review'.verdict # "pass"
    BY <1>8, ReviewsAlign DEF ReviewStatically
  <2>4. LiveTypeOK' /\ PlaceShape'
    BY <2>1, <2>2, <1>8, <2>3
       DEF ReviewStatically, Goto, artifact, verdict, budget, LiveTypeOK, PlaceShape, InMulti,
           Places
  <2>5. VersionShape' /\ ReturnedArtifactIsSound'
    BY <2>1, <2>2, <1>8, <2>3, <2>4
       DEF ReviewStatically, Goto, artifact, verdict, budget, LiveTypeOK, PlaceShape, InMulti,
           VersionShape, ReturnedArtifactIsSound, Allows
  <2>6. SpendShape'
    BY <2>1, <2>2, <1>8, <2>3, LiveWorkflowAssumption, StageNames
       DEF ReviewStatically, Goto, artifact, verdict, budget, LiveTypeOK, PlaceShape, InMulti,
           SpendShape, Unread, Unwritten, MaxFreeRepairs, Places
  <2> QED
    BY <2>2, <2>4, <2>5, <2>6
<1>9. CASE AskReviewer
  <2>1. Ask("reviewing", "review") /\ UNCHANGED <<missing, abandoned, health>> /\ "reviewing" \in Waiting
    BY <1>9 DEF AskReviewer, Waiting
  <2>2. /\ CallTypeOK' /\ CallShape' /\ at' = "reviewing"
        /\ asked' = [asked EXCEPT !["review"] = @ + 1] /\ asked' \in [Stages -> Nat]
    BY <2>1, <1>0, StageNames, Asking DEF health
  <2>3. LiveTypeOK' /\ PlaceShape'
    BY <2>1, <2>2, <1>9
       DEF AskReviewer, artifact, verdict, budget, LiveTypeOK, PlaceShape, InMulti, Places
  <2>4. VersionShape' /\ ReturnedArtifactIsSound'
    BY <2>1, <2>2, <1>9, <2>3
       DEF AskReviewer, artifact, verdict, budget, LiveTypeOK, PlaceShape, InMulti, VersionShape,
           ReturnedArtifactIsSound, Allows
  <2>5. SpendShape'
    BY <2>1, <2>2, <1>9, LiveWorkflowAssumption, StageNames
       DEF AskReviewer, artifact, verdict, budget, LiveTypeOK, PlaceShape, InMulti, SpendShape,
           Unread, Unwritten, MaxFreeRepairs, Places
  <2> QED
    BY <2>2, <2>3, <2>4, <2>5
<1>10. CASE ReviewAnswered
  <2>1. at' \in Places /\ NoCall /\ UNCHANGED <<missing, abandoned, health>>
    BY <1>10 DEF ReviewAnswered, Goto, Places
  <2>2. CallTypeOK' /\ CallShape'
    BY <2>1, <1>0, NotAsking DEF health
  <2>3. /\ reviewed' = code /\ review' \in Verdicts
        /\ ~Allows(validation) => review'.verdict # "pass"
    BY <1>10, ReviewsAlign DEF ReviewAnswered
  <2>4. LiveTypeOK' /\ PlaceShape'
    BY <2>1, <2>2, <1>10, <2>3
       DEF ReviewAnswered, Answered, Goto, artifact, verdict, budget, LiveTypeOK, PlaceShape,
           InMulti, Places
  <2>5. VersionShape' /\ ReturnedArtifactIsSound'
    BY <2>1, <2>2, <1>10, <2>3, <2>4
       DEF ReviewAnswered, Answered, Goto, artifact, verdict, budget, LiveTypeOK, PlaceShape,
           InMulti, VersionShape, ReturnedArtifactIsSound, Allows
  <2>6. SpendShape'
    BY <2>1, <2>2, <1>10, <2>3, LiveWorkflowAssumption, StageNames
       DEF ReviewAnswered, Answered, Goto, artifact, verdict, budget, LiveTypeOK, PlaceShape,
           InMulti, SpendShape, Unread, Unwritten, MaxFreeRepairs, Places
  <2> QED
    BY <2>2, <2>4, <2>5, <2>6
<1>11. CASE ReviewFallsBack
  <2>1. at' \in Places /\ NoCall /\ UNCHANGED <<missing, abandoned, health>>
    BY <1>11 DEF ReviewFallsBack, Goto, Places
  <2>2. CallTypeOK' /\ CallShape'
    BY <2>1, <1>0, NotAsking DEF health
  <2>3. /\ reviewed' = code /\ review' \in Verdicts
        /\ ~Allows(validation) => review'.verdict # "pass"
    BY <1>11, ReviewsAlign DEF ReviewFallsBack
  <2>4. LiveTypeOK' /\ PlaceShape'
    BY <2>1, <2>2, <1>11, <2>3
       DEF ReviewFallsBack, Goto, artifact, verdict, budget, LiveTypeOK, PlaceShape, InMulti,
           Places
  <2>5. VersionShape' /\ ReturnedArtifactIsSound'
    BY <2>1, <2>2, <1>11, <2>3, <2>4
       DEF ReviewFallsBack, Goto, artifact, verdict, budget, LiveTypeOK, PlaceShape, InMulti,
           VersionShape, ReturnedArtifactIsSound, Allows
  <2>6. SpendShape'
    BY <2>1, <2>2, <1>11, <2>3, LiveWorkflowAssumption, StageNames
       DEF ReviewFallsBack, Goto, artifact, verdict, budget, LiveTypeOK, PlaceShape, InMulti,
           SpendShape, Unread, Unwritten, MaxFreeRepairs, Places
  <2> QED
    BY <2>2, <2>4, <2>5, <2>6
<1>12. CASE RepairDeterministically
  <2>1. at' \in Places /\ NoCall /\ UNCHANGED <<missing, abandoned, health>>
    BY <1>12 DEF RepairDeterministically, Goto, Places
  <2>2. CallTypeOK' /\ CallShape'
    BY <2>1, <1>0, NotAsking DEF health
  <2>3. LiveTypeOK' /\ PlaceShape'
    BY <2>1, <2>2, <1>12
       DEF RepairDeterministically, Repairing, DeterministicRepair, NewArtifact, Goto, artifact,
           verdict, budget, LiveTypeOK, PlaceShape, InMulti, Places
  <2>4. VersionShape' /\ ReturnedArtifactIsSound'
    BY <2>1, <2>2, <1>12, <2>3
       DEF RepairDeterministically, Repairing, DeterministicRepair, NewArtifact, Goto, artifact,
           verdict, budget, LiveTypeOK, PlaceShape, InMulti, VersionShape,
           ReturnedArtifactIsSound, Allows
  <2>5. SpendShape'
    BY <2>1, <2>2, <1>12, LiveWorkflowAssumption, StageNames
       DEF RepairDeterministically, Repairing, DeterministicRepair, NewArtifact, Goto, artifact,
           verdict, budget, LiveTypeOK, PlaceShape, InMulti, SpendShape, Unread, Unwritten,
           MaxFreeRepairs, Places
  <2> QED
    BY <2>2, <2>3, <2>4, <2>5
<1>13. CASE AskRepairer
  <2>1. Ask("repairing", "repair") /\ UNCHANGED <<missing, abandoned, health>> /\ "repairing" \in Waiting
    BY <1>13 DEF AskRepairer, Waiting
  <2>2. /\ CallTypeOK' /\ CallShape' /\ at' = "repairing"
        /\ asked' = [asked EXCEPT !["repair"] = @ + 1] /\ asked' \in [Stages -> Nat]
    BY <2>1, <1>0, StageNames, Asking DEF health
  <2>3. LiveTypeOK' /\ PlaceShape'
    BY <2>1, <2>2, <1>13
       DEF AskRepairer, Repairing, artifact, verdict, budget, LiveTypeOK, PlaceShape, InMulti,
           Places
  <2>4. VersionShape' /\ ReturnedArtifactIsSound'
    BY <2>1, <2>2, <1>13, <2>3
       DEF AskRepairer, Repairing, artifact, verdict, budget, LiveTypeOK, PlaceShape, InMulti,
           VersionShape, ReturnedArtifactIsSound, Allows
  <2>5. SpendShape'
    BY <2>1, <2>2, <1>13, LiveWorkflowAssumption, StageNames
       DEF AskRepairer, Repairing, artifact, verdict, budget, LiveTypeOK, PlaceShape, InMulti,
           SpendShape, Unread, Unwritten, MaxFreeRepairs, Places
  <2> QED
    BY <2>2, <2>3, <2>4, <2>5
<1>14. CASE RepairAnswered
  <2>1. at' \in Places /\ NoCall /\ UNCHANGED <<missing, abandoned, health>>
    BY <1>14 DEF RepairAnswered, Goto, Finish, Places
  <2>2. CallTypeOK' /\ CallShape'
    BY <2>1, <1>0, NotAsking DEF health
  <2>3. LiveTypeOK' /\ PlaceShape'
    BY <2>1, <2>2, <1>14
       DEF RepairAnswered, Answered, NewArtifact, Goto, Finish, artifact, verdict, budget,
           LiveTypeOK, PlaceShape, InMulti, Places
  <2>4. VersionShape' /\ ReturnedArtifactIsSound'
    BY <2>1, <2>2, <1>14, <2>3
       DEF RepairAnswered, Answered, NewArtifact, Goto, Finish, artifact, verdict, budget,
           LiveTypeOK, PlaceShape, InMulti, VersionShape, ReturnedArtifactIsSound, Allows
  <2>5. SpendShape'
    BY <2>1, <2>2, <1>14, LiveWorkflowAssumption, StageNames
       DEF RepairAnswered, Answered, NewArtifact, Goto, Finish, artifact, verdict, budget,
           LiveTypeOK, PlaceShape, InMulti, SpendShape, Unread, Unwritten, MaxFreeRepairs,
           Places
  <2> QED
    BY <2>2, <2>3, <2>4, <2>5
<1>15. CASE ReReviewStatically
  <2>1. at' \in Places /\ NoCall /\ UNCHANGED <<missing, abandoned, health>>
    BY <1>15 DEF ReReviewStatically, Goto, Places
  <2>2. CallTypeOK' /\ CallShape'
    BY <2>1, <1>0, NotAsking DEF health
  <2>3. /\ reviewed' = code /\ review' \in Verdicts
        /\ ~Allows(validation) => review'.verdict # "pass"
    BY <1>15, ReviewsAlign DEF ReReviewStatically
  <2>4. LiveTypeOK' /\ PlaceShape'
    BY <2>1, <2>2, <1>15, <2>3
       DEF ReReviewStatically, Goto, artifact, verdict, budget, LiveTypeOK, PlaceShape, InMulti,
           Places
  <2>5. VersionShape' /\ ReturnedArtifactIsSound'
    BY <2>1, <2>2, <1>15, <2>3, <2>4
       DEF ReReviewStatically, Goto, artifact, verdict, budget, LiveTypeOK, PlaceShape, InMulti,
           VersionShape, ReturnedArtifactIsSound, Allows
  <2>6. SpendShape'
    BY <2>1, <2>2, <1>15, <2>3, LiveWorkflowAssumption, StageNames
       DEF ReReviewStatically, Goto, artifact, verdict, budget, LiveTypeOK, PlaceShape, InMulti,
           SpendShape, Unread, Unwritten, MaxFreeRepairs, Places
  <2> QED
    BY <2>2, <2>4, <2>5, <2>6
<1>16. CASE AskReviewerAgain
  <2>1. Ask("reviewing", "review") /\ UNCHANGED <<missing, abandoned, health>> /\ "reviewing" \in Waiting
    BY <1>16 DEF AskReviewerAgain, Waiting
  <2>2. /\ CallTypeOK' /\ CallShape' /\ at' = "reviewing"
        /\ asked' = [asked EXCEPT !["review"] = @ + 1] /\ asked' \in [Stages -> Nat]
    BY <2>1, <1>0, StageNames, Asking DEF health
  <2>3. LiveTypeOK' /\ PlaceShape'
    BY <2>1, <2>2, <1>16
       DEF AskReviewerAgain, artifact, verdict, budget, LiveTypeOK, PlaceShape, InMulti, Places
  <2>4. VersionShape' /\ ReturnedArtifactIsSound'
    BY <2>1, <2>2, <1>16, <2>3
       DEF AskReviewerAgain, artifact, verdict, budget, LiveTypeOK, PlaceShape, InMulti,
           VersionShape, ReturnedArtifactIsSound, Allows
  <2>5. SpendShape'
    BY <2>1, <2>2, <1>16, LiveWorkflowAssumption, StageNames
       DEF AskReviewerAgain, artifact, verdict, budget, LiveTypeOK, PlaceShape, InMulti,
           SpendShape, Unread, Unwritten, MaxFreeRepairs, Places
  <2> QED
    BY <2>2, <2>3, <2>4, <2>5
<1>17. CASE LeaveLoop
  <2>1. at' \in Places /\ NoCall /\ UNCHANGED <<missing, abandoned, health>>
    BY <1>17 DEF LeaveLoop, Goto, Places
  <2>2. CallTypeOK' /\ CallShape'
    BY <2>1, <1>0, NotAsking DEF health
  <2>3. LiveTypeOK' /\ PlaceShape'
    BY <2>1, <2>2, <1>17
       DEF LeaveLoop, Goto, artifact, verdict, budget, LiveTypeOK, PlaceShape, InMulti, Places
  <2>4. VersionShape' /\ ReturnedArtifactIsSound'
    BY <2>1, <2>2, <1>17, <2>3
       DEF LeaveLoop, Goto, artifact, verdict, budget, LiveTypeOK, PlaceShape, InMulti,
           VersionShape, ReturnedArtifactIsSound, Allows
  <2>5. SpendShape'
    BY <2>1, <2>2, <1>17, LiveWorkflowAssumption, StageNames
       DEF LeaveLoop, Goto, artifact, verdict, budget, LiveTypeOK, PlaceShape, InMulti,
           SpendShape, Unread, Unwritten, MaxFreeRepairs, Places
  <2> QED
    BY <2>2, <2>3, <2>4, <2>5
<1>18. CASE FinalGate
  <2>1. at' \in Places /\ NoCall /\ UNCHANGED <<missing, abandoned, health>>
    BY <1>18 DEF FinalGate, Finish, Places
  <2>2. CallTypeOK' /\ CallShape'
    BY <2>1, <1>0, NotAsking DEF health
  <2>3. LiveTypeOK' /\ PlaceShape'
    BY <2>1, <2>2, <1>18
       DEF FinalGate, Finish, artifact, verdict, budget, LiveTypeOK, PlaceShape, InMulti, Places
  <2>4. VersionShape' /\ ReturnedArtifactIsSound'
    BY <2>1, <2>2, <1>18, <2>3
       DEF FinalGate, Finish, artifact, verdict, budget, LiveTypeOK, PlaceShape, InMulti,
           VersionShape, ReturnedArtifactIsSound, Allows, HardGateFailed
  <2>5. SpendShape'
    BY <2>1, <2>2, <1>18, LiveWorkflowAssumption, StageNames
       DEF FinalGate, Finish, artifact, verdict, budget, LiveTypeOK, PlaceShape, InMulti,
           SpendShape, Unread, Unwritten, MaxFreeRepairs, Places
  <2> QED
    BY <2>2, <2>3, <2>4, <2>5
<1>19. CASE SingleAnswered
  <2>1. at' \in Places /\ NoCall /\ UNCHANGED <<missing, abandoned, health>>
    BY <1>19 DEF SingleAnswered, Finish, Places
  <2>2. CallTypeOK' /\ CallShape'
    BY <2>1, <1>0, NotAsking DEF health
  <2>3. LiveTypeOK' /\ PlaceShape'
    BY <2>1, <2>2, <1>19
       DEF SingleAnswered, Answered, Finish, artifact, verdict, budget, LiveTypeOK, PlaceShape,
           InMulti, Places
  <2>4. VersionShape' /\ ReturnedArtifactIsSound'
    BY <2>1, <2>2, <1>19, <2>3
       DEF SingleAnswered, Answered, Finish, artifact, verdict, budget, LiveTypeOK, PlaceShape,
           InMulti, VersionShape, ReturnedArtifactIsSound, Allows
  <2>5. SpendShape'
    BY <2>1, <2>2, <1>19, LiveWorkflowAssumption, StageNames
       DEF SingleAnswered, Answered, Finish, artifact, verdict, budget, LiveTypeOK, PlaceShape,
           InMulti, SpendShape, Unread, Unwritten, MaxFreeRepairs, Places
  <2> QED
    BY <2>2, <2>3, <2>4, <2>5
<1>20. CASE CallRaises
  <2>1. at' \in Places /\ NoCall /\ UNCHANGED <<missing, abandoned, health>>
    BY <1>20 DEF CallRaises, Finish, Places
  <2>2. CallTypeOK' /\ CallShape'
    BY <2>1, <1>0, NotAsking DEF health
  <2>3. LiveTypeOK' /\ PlaceShape'
    BY <2>1, <2>2, <1>20
       DEF CallRaises, Finish, CallError, artifact, verdict, budget, LiveTypeOK, PlaceShape,
           InMulti, Places, CallError
  <2>4. VersionShape' /\ ReturnedArtifactIsSound'
    BY <2>1, <2>2, <1>20, <2>3
       DEF CallRaises, Finish, CallError, artifact, verdict, budget, LiveTypeOK, PlaceShape,
           InMulti, VersionShape, ReturnedArtifactIsSound, Allows
  <2>5. SpendShape'
    BY <2>1, <2>2, <1>20, LiveWorkflowAssumption, StageNames
       DEF CallRaises, Finish, CallError, artifact, verdict, budget, LiveTypeOK, PlaceShape,
           InMulti, SpendShape, Unread, Unwritten, MaxFreeRepairs, Places
  <2> QED
    BY <2>2, <2>3, <2>4, <2>5
<1>21. CASE CompactAnswered
  <2>1. UNCHANGED <<missing, abandoned, workflow, verdict, llmRepairs, postReviews>> /\ at = "compact" /\ phase = "answered" /\ NewArtifact
    BY <1>21 DEF CompactAnswered, Answered
  <2>2. /\ consecutive' \in [Health -> Nat] /\ cooling' \in [Health -> BOOLEAN]
        /\ \/ Ask("compact", "compact") /\ repairs < MaxFreeRepairs /\ repairs' = repairs + 1 /\ UNCHANGED result
           \/ UNCHANGED repairs /\ \E e \in {"safety", "returned", "provider"} : Finish(e)
    <3>1. ASSUME RecordFailure("static_validation")
          PROVE  consecutive' \in [Health -> Nat] /\ cooling' \in [Health -> BOOLEAN]
      BY <1>0, <2>1, <3>1, FailureIsRecorded
    <3> QED
      BY <1>0, <1>21, <3>1 DEF CompactAnswered, health
  <2>3. /\ CallTypeOK' /\ CallShape'
        /\ \/ /\ at' = "compact" /\ repairs < MaxFreeRepairs /\ repairs' = repairs + 1 /\ UNCHANGED result
              /\ asked' = [asked EXCEPT !["compact"] = @ + 1] /\ asked' \in [Stages -> Nat]
           \/ /\ at' = "done" /\ UNCHANGED <<repairs, asked>>
              /\ result' \in {"safety", "returned", "provider"}
    <3>1. CASE Ask("compact", "compact") /\ repairs < MaxFreeRepairs /\ repairs' = repairs + 1 /\ UNCHANGED result
      BY <2>1, <2>2, <3>1, StageNames, Asking DEF Waiting
    <3>2. CASE UNCHANGED repairs /\ \E e \in {"safety", "returned", "provider"} : Finish(e)
      BY <2>1, <2>2, <3>2, NotAsking DEF Finish, Places
    <3> QED
      BY <2>2, <3>1, <3>2
  <2>4. workflow = "compact"
    BY <2>1 DEF PlaceShape
  <2>5. LiveTypeOK' /\ PlaceShape'
    BY <2>1, <2>3, <2>4 DEF NewArtifact, verdict, LiveTypeOK, PlaceShape, InMulti
  <2>6. VersionShape' /\ ReturnedArtifactIsSound'
    BY <2>1, <2>3, <2>4 DEF VersionShape, ReturnedArtifactIsSound
  <2>7. SpendShape'
    BY <2>1, <2>3, <2>4, LiveWorkflowAssumption, StageNames
       DEF LiveTypeOK, SpendShape, Unread, Unwritten, MaxFreeRepairs
  <2> QED
    BY <2>3, <2>5, <2>6, <2>7
<1> QED
  BY <1>1, <1>2, <1>3, <1>4, <1>5, <1>6, <1>7, <1>8, <1>9, <1>10, <1>11, <1>12, <1>13, <1>14, <1>15,
     <1>16, <1>17, <1>18, <1>19, <1>20, <1>21 DEF WorkflowStep, Multi
\* A generation begins in the invariant ...
LEMMA LiveInitHasInv ==
    LiveInit => LiveInv
<1> SUFFICES ASSUME LiveInit PROVE LiveInv
  OBVIOUS
<1>1. CallTypeOK
  BY StageNames DEF LiveInit, CallInit, CallTypeOK, Health
<1>2. LiveTypeOK /\ CallShape
  BY <1>1 DEF LiveInit, CallInit, LiveTypeOK, CallShape, Places, FreshVerdict, Verdicts, Validations
<1>3. PlaceShape /\ VersionShape /\ ReturnedArtifactIsSound
  BY DEF LiveInit, PlaceShape, VersionShape, ReturnedArtifactIsSound, InMulti
<1>4. SpendShape
  BY LiveWorkflowAssumption, StageNames DEF LiveInit, SpendShape, Unread, Unwritten, MaxFreeRepairs
<1> QED
  BY <1>2, <1>3, <1>4 DEF LiveInv

\* ... and no step leaves it.
LEMMA LiveNextKeepsInv ==
    ASSUME LiveInv, [LiveNext]_liveVars
    PROVE  LiveInv'
<1> USE DEF LiveInv
<1>1. ASSUME UNCHANGED <<workflow, at, artifact, verdict, budget, asked, result>>, CallTypeOK', CallShape'
      PROVE  LiveInv'
  BY <1>1 DEF LiveTypeOK, PlaceShape, VersionShape, SpendShape, ReturnedArtifactIsSound, artifact, verdict, budget
<1>2. CASE WorkflowStep
  BY <1>2, WorkflowKeepsInv
<1>3. CASE CallStep /\ UNCHANGED <<workflow, at, artifact, verdict, budget, asked, result>>
  BY <1>1, <1>3, CallKeepsShape
<1>4. CASE Environment
  <2>1. CallTypeOK' /\ CallShape'
    BY <1>4 DEF Environment, AbandonedCallEnds, CooldownEnds, LiveTypeOK, CallTypeOK, CallShape, health
  <2> QED
    BY <1>1, <1>4, <2>1 DEF Environment
<1>5. CASE UNCHANGED liveVars
  <2>1. CallTypeOK' /\ CallShape'
    BY <1>5 DEF liveVars, callVars, LiveTypeOK, CallTypeOK, CallShape, health
  <2> QED
    BY <1>1, <1>5, <2>1 DEF liveVars
<1> QED
  BY <1>2, <1>3, <1>4, <1>5 DEF LiveNext, Generate, GenerationOver

\* The invariant of a live generation.
LEMMA LiveInvariant ==
    LiveSpec => []LiveInv
<1>1. LiveInv /\ [LiveNext]_liveVars => LiveInv'
  BY LiveNextKeepsInv
<1> QED
  BY <1>1, LiveInitHasInv, PTL DEF LiveSpec

\* For every user tier: the artifact the multi-agent workflow returns is the
\* version that was validated and reviewed last, and the gate never meets a
\* review that passes what the validator blocks (generate_live,
\* _align_review_with_validation).
THEOREM ResultsAreSound ==
    LiveSpec => []ResultIsSound
<1>1. LiveInv => ResultIsSound
  BY DEF LiveInv, VersionShape, ResultIsSound, ReviewNeverOverridesValidation
<1> QED
  BY <1>1, LiveInvariant, PTL

\* For every user tier: however repairs, reviews, fallbacks and deterministic
\* repairs follow each other, models are asked within the tier's budgets
\* (max_repair_loops, max_llm_repair_loops, max_post_repair_reviews).
THEOREM BudgetsAreKept ==
    LiveSpec => []BudgetsHold
<1>1. LiveInv => BudgetsHold
  BY LiveWorkflowAssumption 
     DEF LiveInv, LiveTypeOK, SpendShape, BudgetsHold, SpendsWithinBudget, PlaceShape, MaxFreeRepairs
<1> QED
  BY <1>1, LiveInvariant, PTL

\* For every table of routes and retry limits: no attempt is sent to a route that
\* cools down, not even by the retries of the attempt that put it to rest
\* (RouteHealthState, max_retries).
THEOREM CoolingRoutesRest ==
    LiveSpec => NoCallWhileCooling
<1>1. ASSUME LiveInv, [LiveNext]_liveVars, Sends
      PROVE  ~cooling'[<<stage', Routes[stage'][route']>>]
  <2>1. attempt \in Nat /\ CallTypeOK
    BY <1>1 DEF LiveInv, LiveTypeOK, CallTypeOK
  <2>2. CASE WorkflowStep
    <3>1. phase' # "calling"
      BY <2>2 DEF WorkflowStep, Multi, RejectMisconfigured, StartWorkflow, ResearchEnds, StrategyReasoned,
         StrategyCoded, PineGenerated, InitialRepair, ReviewStatically, AskReviewer, ReviewAnswered,
         ReviewFallsBack, RepairDeterministically, AskRepairer, RepairAnswered, ReReviewStatically,
         AskReviewerAgain, LeaveLoop, FinalGate, CompactAnswered, SingleAnswered, CallRaises,
         Ask, Goto, Finish, Call, NoCall
    <3> QED
      BY <1>1, <3>1 DEF Sends
  <2>3. CASE SkipRoute
    BY <1>1, <2>3 DEF SkipRoute, NextRoute, Sends
  <2>4. CASE TryRoute
    BY <2>4 DEF TryRoute, SkipReason, Key, Model, health
  <2>5. CASE Accept \/ Refuse
    BY <1>1, <2>5 DEF Accept, Refuse, Sends
  <2>6. ASSUME NEW class \in {"malformed", "schema", "error", "not_found", "other"}, AttemptFails(class)
        PROVE  ~cooling'[<<stage', Routes[stage'][route']>>]
    BY <1>1, <2>1, <2>6 DEF AttemptFails, RetryOrNextRoute, NextRoute, Sends, Running, Key, Model
  <2>7. CASE DiscardLateAnswer \/ Deadline
    BY <1>1, <2>1, <2>7 DEF DiscardLateAnswer, Deadline, NextRoute, Sends, Running
  <2>8. CASE Environment \/ UNCHANGED liveVars
    BY <1>1, <2>1, <2>8 DEF Environment, AbandonedCallEnds, CooldownEnds, liveVars, callVars, Sends
  <2> QED
    BY <1>1, <2>2, <2>3, <2>4, <2>5, <2>6, <2>7, <2>8 DEF LiveNext, Generate, CallStep, GenerationOver
<1> QED
  BY <1>1, LiveInvariant, PTL DEF NoCallWhileCooling, LiveSpec

=============================================================================
