------------------------ MODULE ChatContinuationProofs ------------------------
(***************************************************************************)
(* The log of a run under both ways of appending to it, the repairs and    *)
(* the summaries that follow a preview, and the types: theorems of         *)
(* ChatContinuation, for any number of processes, jobs and clients, and    *)
(* for every environment.                                                  *)
(***************************************************************************)
EXTENDS ChatContinuation, FiniteSetTheorems, TLAPS

----------------------------------------------------------------------------
(* Part 1: the log.                                                        *)

\* The log numbers its events from 1 on.
LogShape ==
    /\ IsFiniteSet(log)
    /\ Sequences = 1 .. Cardinality(log)
    /\ \A e, f \in log : e.sequence = f.sequence => e = f

\* What an appender read is not above the last number; an entry of the index is
\* the number that comes next, which is what makes others wait for it.
AppendShape ==
    /\ phase \in [Appender -> {"none", "begin", "insert", "entered"}]
    /\ base \in [Appender -> Nat]
    /\ \A a \in Appender :
          /\ phase[a] \in {"insert", "entered"} => base[a] <= Cardinality(log)
          /\ phase[a] = "entered" => a \in BacktestWorker /\ base[a] = Cardinality(log)
    /\ \A a, b \in Appender : phase[a] = "entered" /\ phase[b] = "entered" => a = b

ReadShape ==
    /\ cursor \in [Reader -> Nat]
    /\ received \in [Reader -> SUBSET log]
    /\ \A r \in Reader : cursor[r] <= Cardinality(log)
    /\ NothingIsMissed

LogInv == LogShape /\ AppendShape /\ ReadShape

\* What a statement sees as the last number is the number of events.
LEMMA LastIsLength ==
    ASSUME LogShape
    PROVE  LastSequence = Cardinality(log) /\ Cardinality(log) \in Nat
<1>1. Cardinality(log) \in Nat
  BY FS_CardinalityType DEF LogShape
<1>2. CASE log = {}
  BY <1>2, FS_EmptySet DEF LastSequence
<1>3. CASE log # {}
  <2>1. PICK e \in log : TRUE
    BY <1>3
  <2>2. e.sequence \in Sequences
    BY <2>1 DEF Sequences
  <2>3. Cardinality(log) \in 1 .. Cardinality(log)
    BY <1>1, <2>2 DEF LogShape
  <2>4. \A n \in 1 .. Cardinality(log) :
          (\A m \in 1 .. Cardinality(log) : m <= n) => n = Cardinality(log)
    BY <1>1, <2>3
  <2>5. \E n \in Sequences : \A m \in Sequences : m <= n
    BY <1>1, <2>3 DEF LogShape
  <2>6. LastSequence \in Sequences /\ \A m \in Sequences : m <= LastSequence
    BY <1>3, <2>5 DEF LastSequence
  <2> QED
    BY <1>1, <2>4, <2>6 DEF LogShape
<1> QED
  BY <1>1, <1>2, <1>3

\* A commit of a number that is neither taken nor above the next one extends the
\* log by that number.
LEMMA CommitExtends ==
    ASSUME LogShape, NEW a \in Appender, base[a] \in Nat, base[a] <= Cardinality(log),
           ~Taken(base[a] + 1), Commit(a)
    PROVE  /\ LogShape'
           /\ log \subseteq log'
           /\ base[a] = Cardinality(log)
           /\ Cardinality(log') = Cardinality(log) + 1
           /\ \A e \in log' : e \in log \/ e.sequence = Cardinality(log) + 1
<1>1. PICK e : e = [sequence |-> base[a] + 1, type |-> pending[a]]
  OBVIOUS
<1>2. log' = log \cup {e} /\ e.sequence = base[a] + 1
  BY <1>1 DEF Commit
<1>3. Cardinality(log) \in Nat
  BY FS_CardinalityType DEF LogShape
<1>4. base[a] = Cardinality(log)
  BY <1>3 DEF Taken, LogShape
<1>5. e \notin log
  BY <1>2 DEF Taken, Sequences
<1>6. IsFiniteSet(log') /\ Cardinality(log') = Cardinality(log) + 1
  BY <1>2, <1>5, FS_AddElement DEF LogShape
<1>7. Sequences' = Sequences \cup {base[a] + 1}
  BY <1>2 DEF Sequences
<1>8. Sequences' = 1 .. Cardinality(log')
  BY <1>3, <1>4, <1>6, <1>7 DEF LogShape
<1>9. \A f, g \in log' : f.sequence = g.sequence => f = g
  BY <1>2 DEF Taken, Sequences, LogShape
<1>10. LogShape'
  BY <1>6, <1>8, <1>9 DEF LogShape
<1> QED
  BY <1>2, <1>4, <1>6, <1>10

\* A commit skips no reader: its number is above what anybody received.
LEMMA CommitKeepsReaders ==
    ASSUME LogShape, ReadShape, NEW a \in Appender, base[a] \in Nat, base[a] <= Cardinality(log),
           ~Taken(base[a] + 1), Commit(a), UNCHANGED reading
    PROVE  ReadShape'
<1>1. /\ log \subseteq log'
      /\ Cardinality(log') = Cardinality(log) + 1
      /\ \A e \in log' : e \in log \/ e.sequence = Cardinality(log) + 1
  BY CommitExtends
<1>2. Cardinality(log) \in Nat
  BY FS_CardinalityType DEF LogShape
<1>3. cursor' = cursor /\ received' = received
  BY DEF reading
<1>4. \A r \in Reader : cursor[r] \in Nat /\ cursor[r] <= Cardinality(log)
  BY DEF ReadShape
<1>5. \A r \in Reader : cursor'[r] <= Cardinality(log')
  BY <1>1, <1>2, <1>3, <1>4
<1>6. received' \in [Reader -> SUBSET log']
  BY <1>1, <1>3 DEF ReadShape
<1>7. NothingIsMissed'
  <2> SUFFICES ASSUME NEW r \in Reader, NEW e \in log', e.sequence <= cursor[r]
               PROVE  e \in received[r]
    BY <1>3 DEF NothingIsMissed
  <2>1. e \in log
    BY <1>1, <1>2, <1>4
  <2> QED
    BY <2>1 DEF ReadShape, NothingIsMissed
<1> QED
  BY <1>3, <1>5, <1>6, <1>7 DEF ReadShape

\* An appender that stops appending disturbs nobody.
LEMMA EndKeeps ==
    ASSUME LogInv, NEW a \in Appender, NEW how, EndAppend(a, how), UNCHANGED <<log, reading>>
    PROVE  LogInv'
<1>1. LogShape' /\ ReadShape'
  BY DEF LogInv, LogShape, ReadShape, Sequences, NothingIsMissed, reading
<1>2. /\ phase' = [phase EXCEPT ![a] = "none"] /\ base' = [base EXCEPT ![a] = 0] /\ log' = log
  BY DEF EndAppend
<1>3. AppendShape'
  BY <1>2 DEF LogInv, AppendShape
<1> QED
  BY <1>1, <1>3 DEF LogInv

\* One that goes on to a phase where it has entered nothing needs only to know a
\* number that is not above the last.
LEMMA MoveKeeps ==
    ASSUME LogInv, NEW a \in Appender, UNCHANGED <<log, reading>>,
           NEW p \in {"begin", "insert"}, phase' = [phase EXCEPT ![a] = p],
           NEW n \in Nat, n <= Cardinality(log) \/ p = "begin", base' = [base EXCEPT ![a] = n]
    PROVE  LogInv'
<1>1. LogShape' /\ ReadShape'
  BY DEF LogInv, LogShape, ReadShape, Sequences, NothingIsMissed, reading
<1>2. AppendShape'
  BY DEF LogInv, AppendShape
<1> QED
  BY <1>1, <1>2 DEF LogInv

----------------------------------------------------------------------------
(* The statements of an append.                                            *)

\* A new append starts with what it knew.
LEMMA LogBegin ==
    ASSUME LogInv, NEW a \in Appender, NEW type, BeginAppend(a, type)
    PROVE  LogInv'
<1>1. base' = [base EXCEPT ![a] = base[a]] /\ base[a] \in Nat
  BY DEF BeginAppend, LogInv, AppendShape
<1>2. phase' = [phase EXCEPT ![a] = "begin"] /\ UNCHANGED <<log, reading>>
  BY DEF BeginAppend
<1> QED
  BY <1>1, <1>2, MoveKeeps

\* Both ways of appending read the last number there is.
LEMMA LogReadNumber ==
    ASSUME LogInv, NEW a \in Appender, LockRun(a) \/ ReadSequence(a)
    PROVE  LogInv'
<1>1. /\ base' = [base EXCEPT ![a] = LastSequence] /\ phase' = [phase EXCEPT ![a] = "insert"]
      /\ UNCHANGED <<log, reading>>
  BY DEF LockRun, ReadSequence
<1>2. LastSequence \in Nat /\ LastSequence <= Cardinality(log)
  BY LastIsLength DEF LogInv
<1> QED
  BY <1>1, <1>2, MoveKeeps

\* While a number is entered in the index no locked append commits it.
LEMMA LogInsertLocked ==
    ASSUME LogInv, NEW a \in Appender, InsertLocked(a)
    PROVE  LogInv'
<1>1. phase[a] = "insert" /\ ~Entered(base[a] + 1) /\ UNCHANGED reading
  BY DEF InsertLocked
<1>2. base[a] \in Nat /\ base[a] <= Cardinality(log) /\ Cardinality(log) \in Nat
  BY <1>1, FS_CardinalityType DEF LogInv, AppendShape, LogShape
<1>3. CASE ~Taken(base[a] + 1)
  <2>1. Commit(a) /\ EndAppend(a, "appended")
    BY <1>3 DEF InsertLocked
  <2>2. LogShape' /\ base[a] = Cardinality(log) /\ Cardinality(log') = Cardinality(log) + 1
    BY <1>2, <1>3, <2>1, CommitExtends DEF LogInv
  <2>3. ReadShape'
    BY <1>1, <1>2, <1>3, <2>1, CommitKeepsReaders DEF LogInv
  <2>4. \A b \in Appender : phase[b] # "entered"
    BY <1>1, <2>2 DEF Entered, LogInv, AppendShape
  <2>5. phase' = [phase EXCEPT ![a] = "none"] /\ base' = [base EXCEPT ![a] = 0]
    BY <2>1 DEF EndAppend
  <2>6. AppendShape'
    BY <1>2, <2>2, <2>4, <2>5 DEF LogInv, AppendShape
  <2> QED
    BY <2>2, <2>3, <2>6 DEF LogInv
<1>4. CASE Taken(base[a] + 1) /\ tries[a] + 1 >= MaxTries
  <2>1. EndAppend(a, "raised") /\ log' = log
    BY <1>4 DEF InsertLocked
  <2> QED
    BY <1>1, <2>1, EndKeeps
<1>5. CASE Taken(base[a] + 1) /\ ~(tries[a] + 1 >= MaxTries)
  <2>1. phase' = [phase EXCEPT ![a] = "begin"] /\ base' = base /\ log' = log
    BY <1>5 DEF InsertLocked
  <2>2. base' = [base EXCEPT ![a] = base[a]]
    BY <2>1 DEF LogInv, AppendShape
  <2> QED
    BY <1>1, <1>2, <2>1, <2>2, MoveKeeps
<1> QED
  BY <1>3, <1>4, <1>5

\* An entry is made for the next number only, and for that one once.
LEMMA LogEnterIndex ==
    ASSUME LogInv, NEW a \in Appender, EnterIndex(a)
    PROVE  LogInv'
<1>1. a \in BacktestWorker /\ phase[a] = "insert" /\ UNCHANGED <<log, reading>>
  BY DEF EnterIndex
<1>2. base[a] \in Nat /\ base[a] <= Cardinality(log) /\ Cardinality(log) \in Nat
  BY <1>1, FS_CardinalityType DEF LogInv, AppendShape, LogShape
<1>3. CASE Taken(base[a] + 1)
  BY <1>1, <1>3, EndKeeps DEF EnterIndex
<1>4. CASE ~Taken(base[a] + 1)
  <2>1. phase' = [phase EXCEPT ![a] = "entered"] /\ base' = base
    BY <1>4 DEF EnterIndex
  <2>2. base[a] = Cardinality(log)
    BY <1>2, <1>4 DEF Taken, LogInv, LogShape
  <2>3. LogShape' /\ ReadShape'
    BY <1>1 DEF LogInv, LogShape, ReadShape, Sequences, NothingIsMissed, reading
  <2>4. \A b \in Appender : phase[b] # "entered"
    BY <1>1, <2>2 DEF EnterIndex, Entered, LogInv, AppendShape
  <2>5. AppendShape'
    BY <1>1, <2>1, <2>2, <2>4 DEF LogInv, AppendShape
  <2> QED
    BY <2>3, <2>5 DEF LogInv
<1> QED
  BY <1>3, <1>4

\* The entry becomes the next event.
LEMMA LogCommitEvent ==
    ASSUME LogInv, NEW a \in Appender, CommitEvent(a)
    PROVE  LogInv'
<1>1. phase[a] = "entered" /\ Commit(a) /\ EndAppend(a, "appended") /\ UNCHANGED reading
  BY DEF CommitEvent
<1>2. base[a] \in Nat /\ base[a] = Cardinality(log) /\ Cardinality(log) \in Nat
  BY <1>1, FS_CardinalityType DEF LogInv, AppendShape, LogShape
<1>3. ~Taken(base[a] + 1)
  BY <1>2 DEF Taken, LogInv, LogShape
<1>4. LogShape' /\ Cardinality(log') = Cardinality(log) + 1
  BY <1>1, <1>2, <1>3, CommitExtends DEF LogInv
<1>5. ReadShape'
  BY <1>1, <1>2, <1>3, CommitKeepsReaders DEF LogInv
<1>6. phase' = [phase EXCEPT ![a] = "none"] /\ base' = [base EXCEPT ![a] = 0]
  BY <1>1 DEF EndAppend
<1>7. AppendShape'
  BY <1>1, <1>2, <1>4, <1>6 DEF LogInv, AppendShape
<1> QED
  BY <1>4, <1>5, <1>7 DEF LogInv

\* Whoever the database fails in a deadlock leaves nothing.
LEMMA LogBreakDeadlock ==
    ASSUME LogInv, NEW a \in Appender, NEW b \in BacktestWorker, BreakDeadlock(a, b)
    PROVE  LogInv'
<1>1. b \in Appender
  BY DEF Appender
<1>2. (EndAppend(a, "raised") \/ EndAppend(b, "raised")) /\ UNCHANGED <<log, reading>>
  BY DEF BreakDeadlock
<1> QED
  BY <1>1, <1>2, EndKeeps

\* A read returns all there is after the last event of the client, and a client that
\* starts again with the first has them all.
LEMMA LogRead ==
    ASSUME LogInv, NEW r \in Reader, Read(r) \/ ReadSnapshot(r)
    PROVE  LogInv'
<1>1. LogShape' /\ AppendShape'
  <2>1. UNCHANGED <<log, phase, base>>
    BY DEF Read, ReadSnapshot, appending
  <2> QED
    BY <2>1 DEF LogInv, LogShape, AppendShape, Sequences
<1>2. LastSequence = Cardinality(log) /\ Cardinality(log) \in Nat
  BY LastIsLength DEF LogInv
<1>3. CASE Read(r)
  <2>1. /\ received' = [received EXCEPT ![r] = @ \cup EventsAfter(cursor[r])]
        /\ cursor' = [cursor EXCEPT ![r] = Cardinality(log)] /\ log' = log
    BY <1>2, <1>3 DEF Read
  <2>2. EventsAfter(cursor[r]) \subseteq log
    BY DEF EventsAfter
  <2>3. \A e \in log : e \in received'[r]
    <3> SUFFICES ASSUME NEW e \in log, e \notin EventsAfter(cursor[r]) PROVE e \in received[r]
      BY <2>1 DEF LogInv, ReadShape
    <3>1. e.sequence \in Nat /\ cursor[r] \in Nat
      BY <1>2 DEF LogInv, LogShape, Sequences, ReadShape
    <3>2. e.sequence <= cursor[r]
      BY <3>1 DEF EventsAfter
    <3> QED
      BY <3>2 DEF LogInv, ReadShape, NothingIsMissed
  <2>4. ReadShape'
    BY <1>2, <2>1, <2>2, <2>3 DEF LogInv, ReadShape, NothingIsMissed
  <2> QED
    BY <1>1, <2>4 DEF LogInv
<1>4. CASE ReadSnapshot(r)
  <2>1. cursor' = [cursor EXCEPT ![r] = 0] /\ received' = received /\ log' = log
    BY <1>4 DEF ReadSnapshot
  <2>2. \A e \in log : e.sequence \in Nat /\ e.sequence > 0
    BY <1>2 DEF LogInv, LogShape, Sequences
  <2>3. ReadShape'
    BY <1>2, <2>1, <2>2 DEF LogInv, ReadShape, NothingIsMissed
  <2> QED
    BY <1>1, <2>3 DEF LogInv
<1> QED
  BY <1>3, <1>4

\* What moves neither the log nor anybody who appends or reads.
LEMMA LogStill ==
    ASSUME LogInv, UNCHANGED <<log, phase, base, reading>>
    PROVE  LogInv'
BY DEF LogInv, LogShape, AppendShape, ReadShape, Sequences, NothingIsMissed, reading

\* Every step of the system keeps the log.
LEMMA LogStepKeeps ==
    ASSUME LogInv, [Next]_vars
    PROVE  LogInv'
<1>1. \A w \in ChatWorker : w \in Appender
  BY DEF Appender
<1>2. \A b \in BacktestWorker : b \in Appender
  BY DEF Appender
<1>3. CASE UNCHANGED vars
  BY <1>3, LogStill DEF vars, moving, eventVars, appending
<1>4. ASSUME NEW b \in BacktestWorker, NEW type, Publish(b, type) PROVE LogInv'
  BY <1>2, <1>4, LogBegin DEF Publish
<1>5. ASSUME NEW b \in BacktestWorker, LookForJob(b) \/ Enqueue(b) PROVE LogInv'
  BY <1>5, LogStill DEF LookForJob, Enqueue, eventVars, appending
<1>6. ASSUME NEW a \in Appender, LogStep(a) PROVE LogInv'
  BY <1>6, LogReadNumber, LogInsertLocked, LogEnterIndex, LogCommitEvent, LogBreakDeadlock
     DEF LogStep, AppendStep
<1>7. ASSUME NEW r \in Reader, Read(r) \/ ReadSnapshot(r) PROVE LogInv'
  BY <1>7, LogRead
<1>8. ASSUME NEW w \in ChatWorker, WorkStep(w) PROVE LogInv'
  <2>1. CASE BeginEvent(w)
    BY <1>1, <2>1, LogBegin, LogStill DEF BeginEvent, eventVars, appending
  <2>2. CASE EventEnds(w)
    BY <2>2, LogStill DEF EventEnds
  <2>3. CASE SelectCandidates(w) \/ ClaimRunJob(w) \/ Complete(w) \/ FailJob(w)
    BY <2>3, LogStill DEF SelectCandidates, ClaimRunJob, Complete, FailJob, CompleteRunJob,
                          eventVars, appending
  <2>4. CASE \/ MirrorEvent(w) \/ LookForSummary(w) \/ PostSummary(w) \/ AskModel(w)
             \/ CreateRepairedRun(w) \/ CreateRepairedJob(w) \/ AppendWaiting(w)
    BY <2>4, LogStill DEF MirrorEvent, LookForSummary, PostSummary, AskModel, CreateRepairedRun,
                          CreateRepairedJob, AppendWaiting, eventVars, appending
  <2> QED
    BY <1>8, <2>1, <2>2, <2>3, <2>4 DEF WorkStep
<1>9. ASSUME NEW w \in ChatWorker, Raise(w) PROVE LogInv'
  BY <1>9, LogStill DEF Raise, eventVars, appending
<1>10. ASSUME NEW w \in ChatWorker, Crash(w) PROVE LogInv'
  <2>1. EndAppend(w, "none") /\ UNCHANGED <<log, reading>>
    BY <1>10 DEF Crash, AbortAppend
  <2> QED
    BY <1>1, <2>1, EndKeeps
<1>11. ASSUME NEW j \in Job, LeaseExpires(j) \/ RepairedPreviewEnds(j) PROVE LogInv'
  BY <1>11, LogStill DEF LeaseExpires, RepairedPreviewEnds, eventVars, appending
<1> QED
  BY <1>3, <1>4, <1>5, <1>6, <1>7, <1>8, <1>9, <1>10, <1>11 DEF Next, PublishEnd, ReadStep

\* It starts empty.
LEMMA LogOfInit ==
    ASSUME Init
    PROVE  LogInv
<1>1. log = {} /\ Sequences = {}
  BY DEF Init, EventsInit, Sequences
<1>2. IsFiniteSet(log) /\ Cardinality(log) = 0
  BY <1>1, FS_EmptySet
<1>3. LogShape
  BY <1>1, <1>2 DEF LogShape
<1>4. AppendShape
  BY <1>2 DEF Init, EventsInit, AppendShape
<1>5. ReadShape
  BY <1>1, <1>2 DEF Init, EventsInit, ReadShape, NothingIsMissed
<1> QED
  BY <1>3, <1>4, <1>5 DEF LogInv

\* What is shown of the log follows from the invariant.
LEMMA LogFollows ==
    ASSUME LogInv
    PROVE  LogIsSound
<1>1. Cardinality(log) \in Nat
  BY FS_CardinalityType DEF LogInv, LogShape
<1>2. PICK n \in Nat : n = Cardinality(log)
  BY <1>1
<1>3. Cardinality(1 .. n) = n
  BY <1>2, FS_Interval
<1>4. Sequences = 1 .. n
  BY <1>2 DEF LogInv, LogShape
<1>5. n = Cardinality(Sequences)
  BY <1>3, <1>4
<1>6. LogIsGapless
  <2>1. Cardinality(log) = Cardinality(Sequences)
    BY <1>2, <1>5
  <2>2. Sequences = 1 .. Cardinality(log)
    BY <1>2, <1>4
  <2> QED
    BY <2>1, <2>2 DEF LogIsGapless
<1> QED
  BY <1>6 DEF LogIsSound, LogInv, ReadShape

\* However locked and unlocked appends, deadlocks, crashes and retries meet in the
\* log of a run, its events are numbered 1, 2, 3 ... and a client that resumes after
\* the last event it received has missed none (append_run_events, appendEvent,
\* list_run_events_after).
THEOREM LogsStaySound == Spec => []LogIsSound
<1>1. Init => LogInv
  BY LogOfInit
<1>2. LogInv /\ [Next]_vars => LogInv'
  BY LogStepKeeps
<1>3. LogInv => LogIsSound
  BY LogFollows
<1> QED
  BY <1>1, <1>2, <1>3, PTL DEF Spec

----------------------------------------------------------------------------
(* Part 2: what claims pay for.                                            *)

Row == [kind : Kinds, of : Nat, level : Nat,
        status : {"absent", "queued", "running", "completed", "failed"},
        claims : Nat, owner : ChatWorker \cup {Nobody}, leased : BOOLEAN, marked : BOOLEAN]

\* The previews a repair queued, and all a job created: previews or messages.
Made(j)    == repaired[j].queued + repaired[j].ended
Created(j) == repaired[j].bare + repaired[j].queued + repaired[j].ended + posted[j]

RowShape ==
    /\ jobs \in [Job -> Row]
    /\ repaired \in [Job -> [bare : Int, queued : Nat, ended : Nat]] /\ posted \in [Job -> Nat]
    /\ \A j \in Job : jobs[j].status = "absent" => jobs[j].claims = 0 /\ Made(j) = 0

Labels == {"idle", "lock", "look", "post", "started", "startedMirror", "model", "createRun", "createJob",
           "event", "eventMirror", "waiting", "complete", "repairFailed", "repairFailedMirror",
           "autoFailed", "autoFailedMirror", "failJob"}

WorkerShape ==
    /\ pc \in [ChatWorker -> Labels] /\ serves \in [ChatWorker -> Nat]
    /\ candidates \in [ChatWorker -> SUBSET Job]
    /\ DOMAIN pending = Appender /\ DOMAIN outcome = Appender

\* The workers that will create something for the job, each once for its claim, and
\* those that created a run without its job yet.
DuePcs == {"started", "startedMirror", "model", "createRun", "look", "post"}
Due(j)  == {w \in ChatWorker : serves[w] = j /\ pc[w] \in DuePcs}
Open(j) == {w \in ChatWorker : serves[w] = j /\ pc[w] = "createJob"}

\* Claims pay for previews and messages in advance; an open run is one of the bare.
Paid(j)   == IsFiniteSet(Due(j)) /\ Cardinality(Due(j)) + Created(j) <= jobs[j].claims
Bare(j)   == IsFiniteSet(Open(j)) /\ Cardinality(Open(j)) <= repaired[j].bare
Budget(j) == Paid(j) /\ Bare(j)

SomeQueued == \E j \in Job : Followed(j) /\ Made(j) > 0

Reported(j) == "chain.failed" \in sourceLog /\ (Followed(j) => Logged("chain.failed"))

\* What a worker knows of its job where it stands.
Work(w) ==
    /\ pc[w] \notin {"idle", "lock"} => serves[w] \in Job /\ jobs[serves[w]].status # "absent"
    /\ pc[w] \in {"look", "post"} => jobs[serves[w]].kind = "summary"
    /\ pc[w] = "event" /\ jobs[serves[w]].kind = "repair" => Made(serves[w]) > 0
    /\ phase[w] # "none" /\ pending[w] = "repair.completed" => SomeQueued
    /\ pc[w] = "autoFailed" =>
          /\ phase[w] # "none" => pending[w] = "chain.failed"
          /\ outcome[w] = "appended" => Logged("chain.failed")
    /\ pc[w] = "autoFailedMirror" /\ Followed(serves[w]) => Logged("chain.failed")
    /\ pc[w] = "failJob" => Reported(serves[w])

\* What the log and the rows tell is true.
Told ==
    /\ Logged("repair.completed") => SomeQueued
    /\ \A j \in Job : jobs[j].status = "failed" => Reported(j)
    /\ \A b \in BacktestWorker : phase[b] # "none" => pending[b] # "repair.completed"

RepairInv ==
    /\ RowShape /\ WorkerShape /\ Told
    /\ \A j \in Job : Budget(j)
    /\ \A w \in ChatWorker : Work(w)

\* Rows, previews and logs are never taken back.
Onwards ==
    /\ \A j \in Job : jobs[j].status # "absent" =>
          /\ jobs'[j].status # "absent" /\ jobs'[j].of = jobs[j].of /\ jobs'[j].kind = jobs[j].kind
    /\ \A j \in Job : Made(j) <= Made(j)'
    /\ log \subseteq log' /\ sourceLog \subseteq sourceLog'

\* What was true of them stays true then.
LEMMA OnwardsKeeps ==
    ASSUME RowShape, RowShape', Onwards
    PROVE  /\ SomeQueued => SomeQueued'
           /\ \A type : Logged(type) => Logged(type)'
           /\ \A j \in Job : jobs[j].status # "absent" =>
                 (Followed(j)' <=> Followed(j)) /\ (Reported(j) => Reported(j)')
<1>1. \A j \in Job : jobs[j].status # "absent" => (Followed(j)' <=> Followed(j))
  BY DEF Onwards, Followed
<1>2. ASSUME NEW type, Logged(type) PROVE Logged(type)'
  BY <1>2 DEF Logged, Onwards
<1>3. ASSUME NEW j \in Job, Followed(j), Made(j) > 0 PROVE SomeQueued'
  <2>1. Made(j) \in Nat /\ Made(j)' \in Nat
    BY DEF RowShape, Made
  <2>2. jobs[j].status # "absent" /\ Made(j)' > 0
    BY <1>3, <2>1 DEF RowShape, Onwards
  <2> QED
    BY <1>1, <1>3, <2>2 DEF SomeQueued
<1>4. \A j \in Job : jobs[j].status # "absent" => (Reported(j) => Reported(j)')
  BY <1>1, <1>2 DEF Reported, Onwards
<1> QED
  BY <1>1, <1>2, <1>3, <1>4 DEF SomeQueued

\* A worker that does not act knows what it knew.
LEMMA OthersKeep ==
    ASSUME RowShape, RowShape', Onwards, NEW w \in ChatWorker, Work(w), serves[w] \in Nat,
           pc'[w] = pc[w], serves'[w] = serves[w], phase'[w] = phase[w],
           pending'[w] = pending[w], outcome'[w] = outcome[w]
    PROVE  Work(w)'
<1>1. /\ SomeQueued => SomeQueued'
      /\ \A type : Logged(type) => Logged(type)'
      /\ \A j \in Job : jobs[j].status # "absent" =>
            (Followed(j)' <=> Followed(j)) /\ (Reported(j) => Reported(j)')
  BY OnwardsKeeps
<1>2. PICK j : j = serves[w]
  OBVIOUS
<1>3. serves[w] = j /\ serves'[w] = j
  BY <1>2
<1>4. pc[w] \notin {"idle", "lock"} => j \in Job /\ jobs[j].status # "absent" /\ jobs'[j].status # "absent"
  BY <1>2 DEF Work, Onwards
<1>5. pc[w] = "event" /\ jobs'[j].kind = "repair" => Made(j)' > 0
  <2> SUFFICES ASSUME pc[w] = "event", jobs'[j].kind = "repair" PROVE Made(j)' > 0
    OBVIOUS
  <2>1. j \in Job /\ jobs[j].kind = "repair"
    BY <1>4 DEF Onwards
  <2>2. Made(j) > 0
    BY <1>3, <2>1 DEF Work
  <2>3. Made(j) \in Nat /\ Made(j)' \in Nat /\ Made(j) <= Made(j)'
    BY <2>1 DEF RowShape, Made, Onwards
  <2> QED
    BY <2>2, <2>3
<1>12. pc[w] \in {"look", "post"} => jobs'[j].kind = "summary"
  BY <1>3, <1>4 DEF Work, Onwards
<1>6. Made(serves[w])' = Made(j)'
  BY <1>3 DEF Made
<1>7. pc[w] = "autoFailedMirror" /\ Followed(j)' => Logged("chain.failed")'
  BY <1>1, <1>3, <1>4 DEF Work
<1>8. pc[w] = "failJob" => Reported(j)'
  BY <1>1, <1>3, <1>4 DEF Work
<1>9. (Followed(serves[w])' <=> Followed(j)') /\ (Reported(serves[w])' <=> Reported(j)')
  BY <1>3 DEF Followed, Reported
<1>10. phase'[w] # "none" /\ pending'[w] = "repair.completed" => SomeQueued'
  BY <1>1 DEF Work
<1>11. pc'[w] = "autoFailed" =>
          /\ phase'[w] # "none" => pending'[w] = "chain.failed"
          /\ outcome'[w] = "appended" => Logged("chain.failed")'
  BY <1>1 DEF Work
<1> QED
  BY <1>3, <1>4, <1>5, <1>6, <1>7, <1>8, <1>9, <1>10, <1>11, <1>12 DEF Work

\* A budget holds on while no worker comes to be due and nothing more is created.
LEMMA BudgetKeeps ==
    ASSUME NEW j \in Job, Budget(j), Created(j) \in Int, Created(j)' \in Int,
           jobs[j].claims \in Nat, jobs'[j].claims \in Nat,
           Due(j)' \subseteq Due(j), Created(j)' <= Created(j), jobs[j].claims <= jobs'[j].claims,
           Open(j)' \subseteq Open(j), repaired[j].bare \in Int, repaired'[j].bare = repaired[j].bare
    PROVE  Budget(j)'
<1>1. IsFiniteSet(Due(j)') /\ Cardinality(Due(j)') <= Cardinality(Due(j))
  BY FS_Subset DEF Budget, Paid
<1>2. Cardinality(Due(j)') \in Nat /\ Cardinality(Due(j)) \in Nat
  BY <1>1, FS_CardinalityType DEF Budget, Paid
<1>3. Cardinality(Due(j)') + Created(j)' <= jobs'[j].claims
  BY <1>1, <1>2 DEF Budget, Paid
<1>4. IsFiniteSet(Open(j)') /\ Cardinality(Open(j)') <= Cardinality(Open(j))
  BY FS_Subset DEF Budget, Bare
<1>5. Cardinality(Open(j)') \in Nat /\ Cardinality(Open(j)) \in Nat
  BY <1>4, FS_CardinalityType DEF Budget, Bare
<1>6. Cardinality(Open(j)') <= repaired'[j].bare
  BY <1>4, <1>5 DEF Budget, Bare
<1> QED
  BY <1>1, <1>3, <1>4, <1>6 DEF Budget, Paid, Bare

\* Counts are numbers.
LEMMA CreatedTypes ==
    ASSUME RowShape
    PROVE  \A j \in Job : /\ Created(j) \in Int /\ Made(j) \in Nat /\ jobs[j].claims \in Nat
                         /\ repaired[j].bare \in Int
BY DEF RowShape, Row, Created, Made

\* A step of one worker that leaves the log alone: it is enough to look at the rows, at
\* the budget and at what that worker knows afterwards.
LEMMA WorkerActs ==
    ASSUME RepairInv, NEW w \in ChatWorker, RowShape', WorkerShape', Onwards, log' = log,
           \A v \in ChatWorker \ {w} : pc'[v] = pc[v] /\ serves'[v] = serves[v],
           \A a \in Appender \ {w} :
               phase'[a] = phase[a] /\ pending'[a] = pending[a] /\ outcome'[a] = outcome[a],
           \A j \in Job : jobs'[j].status = "failed" => jobs[j].status = "failed" \/ Reported(j)',
           \A j \in Job : Budget(j)',
           Work(w)'
    PROVE  RepairInv'
<1>1. \A v \in ChatWorker : v \in Appender
  BY DEF Appender
<1>2. ASSUME NEW v \in ChatWorker \ {w} PROVE Work(v)'
  BY <1>1, OthersKeep DEF RepairInv, WorkerShape
<1>3. w \notin BacktestWorker
  BY ContinuationAssumption
<1>4. /\ SomeQueued => SomeQueued'
      /\ \A j \in Job : jobs[j].status # "absent" => (Reported(j) => Reported(j)')
  BY OnwardsKeeps DEF RepairInv
<1>5. \A j \in Job : jobs'[j].status = "failed" => Reported(j)'
  BY <1>4 DEF RepairInv, Told
<1>6. Logged("repair.completed")' => Logged("repair.completed")
  BY DEF Logged
<1>7. \A b \in BacktestWorker : phase'[b] # "none" => pending'[b] # "repair.completed"
  BY <1>3 DEF Appender, RepairInv, Told
<1>8. Told'
  BY <1>4, <1>5, <1>6, <1>7 DEF RepairInv, Told
<1> QED
  BY <1>2, <1>8 DEF RepairInv

\* The budget of every job after a step of one worker that creates nothing and, if it
\* goes where a preview is due, was due before.
LEMMA BudgetsKeep ==
    ASSUME RepairInv, RowShape', NEW w \in ChatWorker,
           \A v \in ChatWorker \ {w} : pc'[v] = pc[v] /\ serves'[v] = serves[v],
           pc'[w] \in DuePcs => pc[w] \in DuePcs /\ serves'[w] = serves[w], pc'[w] # "createJob",
           repaired' = repaired, posted' = posted,
           \A j \in Job : jobs[j].claims <= jobs'[j].claims
    PROVE  \A j \in Job : Budget(j)'
<1> SUFFICES ASSUME NEW j \in Job PROVE Budget(j)'
  OBVIOUS
<1>1. Due(j)' \subseteq Due(j) /\ Open(j)' \subseteq Open(j)
  BY DEF Due, Open
<1>2. Created(j)' = Created(j)
  BY DEF Created
<1>3. Created(j) \in Int /\ jobs[j].claims \in Nat /\ repaired[j].bare \in Int
  BY CreatedTypes DEF RepairInv
<1>4. jobs'[j].claims \in Nat
  BY DEF RowShape, Row
<1> QED
  BY <1>1, <1>2, <1>3, <1>4, BudgetKeeps DEF RepairInv

\* A worker that goes on to a statement, while rows and previews stay as they are.
LEMMA GotoKeeps ==
    ASSUME RepairInv, NEW w \in ChatWorker, NEW l \in Labels, pc' = [pc EXCEPT ![w] = l],
           UNCHANGED <<serves, candidates, jobs, repaired, posted>>,
           pc[w] \notin {"idle", "lock"}, l # "createJob",
           log' = log, sourceLog \subseteq sourceLog',
           UNCHANGED <<phase, pending>>, DOMAIN outcome' = Appender,
           \A a \in Appender \ {w} : outcome'[a] = outcome[a],
           l \in DuePcs => pc[w] \in DuePcs,
           l \in {"look", "post"} => pc[w] = "look",
           l = "event" => Made(serves[w]) > 0 \/ jobs[serves[w]].kind = "summary",
           l = "autoFailed" => outcome'[w] # "appended",
           l = "autoFailedMirror" => (Followed(serves[w]) => Logged("chain.failed")),
           l = "failJob" => Reported(serves[w])',
           phase[w] = "none"
    PROVE  RepairInv'
<1>1. pc' = [pc EXCEPT ![w] = l] /\ serves' = serves /\ candidates' = candidates /\ jobs' = jobs
      /\ repaired' = repaired /\ posted' = posted
  OBVIOUS
<1>2. pc'[w] = l /\ \A v \in ChatWorker \ {w} : pc'[v] = pc[v]
  BY <1>1 DEF RepairInv, WorkerShape
<1>3. RowShape'
  BY <1>1 DEF RepairInv, RowShape, Made
<1>4. WorkerShape'
  BY <1>1 DEF RepairInv, WorkerShape
<1>5. Onwards
  BY <1>1, CreatedTypes DEF Onwards, RepairInv, Made
<1>6. \A j \in Job : Budget(j)'
  BY <1>1, <1>2, <1>3, CreatedTypes, BudgetsKeep DEF RepairInv
<1>7. Work(w)'
  <2>1. serves[w] \in Job /\ jobs[serves[w]].status # "absent"
    BY DEF RepairInv, Work
  <2>2. l = "event" /\ jobs[serves[w]].kind = "repair" => Made(serves[w]) > 0
    OBVIOUS
  <2>3. Made(serves[w])' = Made(serves[w]) /\ (Followed(serves[w])' <=> Followed(serves[w]))
    BY <1>1 DEF Made, Followed
  <2>4. Logged("chain.failed")' <=> Logged("chain.failed")
    BY DEF Logged
  <2>5. phase'[w] = "none"
    OBVIOUS
  <2>6. l \in {"look", "post"} => jobs[serves[w]].kind = "summary"
    BY DEF RepairInv, Work
  <2> QED
    BY <1>1, <1>2, <2>1, <2>2, <2>3, <2>4, <2>5, <2>6 DEF Work
<1> QED
  BY <1>1, <1>2, <1>3, <1>4, <1>5, <1>6, <1>7, WorkerActs

\* A worker that is done with its job, or found none.
LEMMA ReturnKeeps ==
    ASSUME RepairInv, NEW w \in ChatWorker, Return(w), RowShape', Onwards, log' = log,
           repaired' = repaired, posted' = posted,
           \A j \in Job : jobs[j].claims <= jobs'[j].claims,
           \A j \in Job : jobs'[j].status = "failed" => jobs[j].status = "failed" \/ Reported(j)',
           DOMAIN pending' = Appender, DOMAIN outcome' = Appender,
           \A a \in Appender \ {w} :
               phase'[a] = phase[a] /\ pending'[a] = pending[a] /\ outcome'[a] = outcome[a],
           phase'[w] = "none"
    PROVE  RepairInv'
<1>1. /\ pc' = [pc EXCEPT ![w] = "idle"] /\ serves' = [serves EXCEPT ![w] = NoJob]
      /\ candidates' = [candidates EXCEPT ![w] = {}]
  BY DEF Return
<1>2. pc'[w] = "idle" /\ \A v \in ChatWorker \ {w} : pc'[v] = pc[v] /\ serves'[v] = serves[v]
  BY <1>1 DEF RepairInv, WorkerShape
<1>3. WorkerShape'
  <2>1. pc' \in [ChatWorker -> Labels]
    BY <1>1 DEF RepairInv, WorkerShape, Labels
  <2>2. candidates' \in [ChatWorker -> SUBSET Job]
    BY <1>1, {} \in SUBSET Job DEF RepairInv, WorkerShape
  <2>3. serves' \in [ChatWorker -> Nat]
    BY <1>1 DEF RepairInv, WorkerShape, NoJob
  <2> QED
    BY <2>1, <2>2, <2>3 DEF WorkerShape
<1>4. \A j \in Job : Budget(j)'
  BY <1>2, BudgetsKeep DEF DuePcs
<1>5. Work(w)'
  BY <1>2 DEF Work
<1> QED
  BY <1>2, <1>3, <1>4, <1>5, WorkerActs

----------------------------------------------------------------------------
(* The actions.                                                            *)

\* Nothing of it moves.
LEMMA RepairStill ==
    ASSUME RepairInv,
           UNCHANGED <<jobs, repaired, posted, pc, serves, candidates, log, sourceLog, phase, pending,
                       outcome>>
    PROVE  RepairInv'
<1>1. RowShape' /\ WorkerShape'
  BY DEF RepairInv, RowShape, WorkerShape, Made
<1>2. Told'
  BY DEF RepairInv, Told, SomeQueued, Reported, Logged, Followed, Made
<1>3. ASSUME NEW j \in Job PROVE Budget(j)'
  <2>1. Due(j)' = Due(j) /\ Created(j)' = Created(j) /\ Open(j)' = Open(j)
    BY DEF Due, Created, Open
  <2> QED
    BY <2>1 DEF RepairInv, Budget, Paid, Bare
<1>4. ASSUME NEW w \in ChatWorker PROVE Work(w)'
  BY DEF RepairInv, Work, SomeQueued, Reported, Logged, Followed, Made
<1> QED
  BY <1>1, <1>2, <1>3, <1>4 DEF RepairInv

\* Rows and previews move, and no worker.
LEMMA RowsMove ==
    ASSUME RepairInv, RowShape', Onwards,
           UNCHANGED <<pc, serves, candidates, log, sourceLog, phase, pending, outcome>>,
           \A j \in Job : /\ jobs[j].claims <= jobs'[j].claims /\ Created(j)' = Created(j)
                          /\ repaired'[j].bare = repaired[j].bare,
           \A j \in Job : jobs'[j].status = "failed" => jobs[j].status = "failed"
    PROVE  RepairInv'
<1>1. WorkerShape'
  BY DEF RepairInv, WorkerShape
<1>2. ASSUME NEW j \in Job PROVE Budget(j)'
  <2>1. Due(j)' = Due(j) /\ Open(j)' = Open(j)
    BY DEF Due, Open
  <2>2. /\ Created(j) \in Int /\ jobs[j].claims \in Nat /\ jobs'[j].claims \in Nat
        /\ repaired[j].bare \in Int
    BY CreatedTypes DEF RepairInv, RowShape, Row
  <2> QED
    BY <2>1, <2>2, BudgetKeeps DEF RepairInv
<1>3. ASSUME NEW w \in ChatWorker PROVE Work(w)'
  BY OthersKeep DEF RepairInv, WorkerShape
<1>4. /\ SomeQueued => SomeQueued'
      /\ \A j \in Job : jobs[j].status # "absent" => (Reported(j) => Reported(j)')
  BY OnwardsKeeps DEF RepairInv
<1>5. Told'
  <2>1. Logged("repair.completed")' => Logged("repair.completed")
    BY DEF Logged
  <2> QED
    BY <1>4, <2>1 DEF RepairInv, Told
<1> QED
  BY <1>1, <1>2, <1>3, <1>5 DEF RepairInv

\* A job is put into a row that was free.
LEMMA InsertRows ==
    ASSUME RowShape, NEW kind \in Kinds, NEW of \in Nat, NEW level \in Nat, InsertJob(kind, of, level)
    PROVE  /\ jobs' \in [Job -> Row]
           /\ \A j \in Job : jobs[j].status # "absent" => jobs'[j] = jobs[j]
           /\ \A j \in Job : jobs[j].claims <= jobs'[j].claims
           /\ \A j \in Job : jobs'[j].status = "failed" => jobs[j].status = "failed"
           /\ \A j \in Job : jobs'[j].status = "absent" => jobs[j].status = "absent" /\ jobs'[j] = jobs[j]
<1>1. PICK i \in FreeJobs :
        jobs' = [jobs EXCEPT ![i] = [Absent EXCEPT !.kind = kind, !.of = of, !.level = level,
                                                   !.status = "queued"]]
  BY DEF InsertJob
<1>2. PICK row : row = [Absent EXCEPT !.kind = kind, !.of = of, !.level = level, !.status = "queued"]
  OBVIOUS
<1>3. row \in Row /\ row.status = "queued" /\ row.claims = 0
  <2>1. Absent \in Row /\ Absent.claims = 0
    BY DEF Absent, Row, Kinds, NoJob
  <2>2. PICK r1 : r1 = [Absent EXCEPT !.kind = kind]
    OBVIOUS
  <2>2a. r1 \in Row /\ r1.claims = 0
    BY <2>1, <2>2 DEF Row
  <2>3. PICK r2 : r2 = [r1 EXCEPT !.of = of]
    OBVIOUS
  <2>3a. r2 \in Row /\ r2.claims = 0
    BY <2>2a, <2>3 DEF Row
  <2>4. PICK r3 : r3 = [r2 EXCEPT !.level = level]
    OBVIOUS
  <2>4a. r3 \in Row /\ r3.claims = 0
    BY <2>3a, <2>4 DEF Row
  <2>5. row = [r3 EXCEPT !.status = "queued"]
    BY <1>2, <2>2, <2>3, <2>4
  <2> QED
    BY <2>4a, <2>5 DEF Row
<1>4. [Absent EXCEPT !.kind = kind, !.of = of, !.level = level, !.status = "queued"] = row
  BY <1>2
<1>5. i \in Job /\ jobs[i].status = "absent" /\ jobs[i].claims = 0
  BY DEF FreeJobs, RowShape
<1>6. jobs' = [jobs EXCEPT ![i] = row]
  BY <1>1, <1>4
<1>7. \A j \in Job : jobs[j].claims \in Nat /\ (j # i => jobs'[j] = jobs[j])
  BY <1>6 DEF RowShape, Row
<1>8. jobs'[i] = row
  BY <1>5, <1>6 DEF RowShape
<1>9. jobs' \in [Job -> Row]
  BY <1>3, <1>6 DEF RowShape
<1>10. jobs[i].claims <= jobs'[i].claims /\ jobs'[i].status = "queued"
  BY <1>3, <1>5, <1>8
<1>11. \A j \in Job : jobs[j].claims <= jobs'[j].claims
  BY <1>7, <1>10
<1> QED
  BY <1>5, <1>7, <1>9, <1>10, <1>11

\* A backtest worker enqueues the summary or the first repair.
LEMMA RepairEnqueue ==
    ASSUME RepairInv, NEW b \in BacktestWorker, Enqueue(b)
    PROVE  RepairInv'
<1>1. UNCHANGED <<repaired, posted, pc, serves, candidates, log, sourceLog, phase, pending, outcome>>
  BY DEF Enqueue, eventVars, appending, worker, chat
<1>2. CASE jobs' = jobs
  BY <1>1, <1>2, RepairStill
<1>3. CASE jobs' # jobs
  <2>1. \E kind \in Kinds, level \in Nat : InsertJob(kind, NoJob, level)
    BY <1>3 DEF Enqueue, Kinds
  <2>2. /\ jobs' \in [Job -> Row]
        /\ \A j \in Job : jobs[j].status # "absent" => jobs'[j] = jobs[j]
        /\ \A j \in Job : jobs[j].claims <= jobs'[j].claims
        /\ \A j \in Job : jobs'[j].status = "failed" => jobs[j].status = "failed"
        /\ \A j \in Job : jobs'[j].status = "absent" => jobs[j].status = "absent" /\ jobs'[j] = jobs[j]
    BY <2>1, InsertRows DEF RepairInv, NoJob
  <2>3. RowShape'
    BY <1>1, <2>2 DEF RepairInv, RowShape, Made
  <2>4. \A j \in Job : Made(j)' = Made(j) /\ Created(j)' = Created(j) /\ Made(j) \in Nat
    BY <1>1, CreatedTypes DEF Made, Created, RepairInv
  <2>5. Onwards
    BY <1>1, <2>2, <2>4 DEF Onwards
  <2> QED
    BY <1>1, <2>2, <2>3, <2>4, <2>5, RowsMove
<1> QED
  BY <1>2, <1>3

\* A repaired preview ends, and another job may follow it.
LEMMA RepairPreviewEnds ==
    ASSUME RepairInv, NEW i \in Job, RepairedPreviewEnds(i)
    PROVE  RepairInv'
<1>1. /\ UNCHANGED <<posted, pc, serves, candidates, log, sourceLog, phase, pending, outcome>>
      /\ repaired[i].queued > 0
      /\ repaired' = [repaired EXCEPT ![i].queued = @ - 1, ![i].ended = @ + 1]
  BY DEF RepairedPreviewEnds, eventVars, appending, worker, chat
<1>2. /\ jobs' \in [Job -> Row]
      /\ \A j \in Job : jobs[j].status # "absent" => jobs'[j] = jobs[j]
      /\ \A j \in Job : jobs[j].claims <= jobs'[j].claims
      /\ \A j \in Job : jobs'[j].status = "failed" => jobs[j].status = "failed"
      /\ \A j \in Job : jobs'[j].status = "absent" => jobs[j].status = "absent" /\ jobs'[j] = jobs[j]
  <2>1. i \in Nat /\ jobs[i].level \in Nat
    BY ContinuationAssumption DEF RepairInv, RowShape, Row
  <2>2. CASE jobs' = jobs
    BY <2>2, CreatedTypes DEF RepairInv, RowShape
  <2>3. CASE \E kind \in Kinds, level \in Nat : InsertJob(kind, i, level)
    BY <2>1, <2>3, InsertRows DEF RepairInv
  <2> QED
    BY <2>1, <2>2, <2>3 DEF RepairedPreviewEnds, Kinds
<1>3. PICK q \in Nat, e \in Nat : q = repaired[i].queued - 1 /\ e = repaired[i].ended + 1
  BY <1>1 DEF RepairInv, RowShape
<1>4. /\ repaired'[i] = [repaired[i] EXCEPT !.queued = q, !.ended = e]
      /\ \A j \in Job \ {i} : repaired'[j] = repaired[j]
      /\ repaired' \in [Job -> [bare : Int, queued : Nat, ended : Nat]]
  BY <1>1, <1>3 DEF RepairInv, RowShape
<1>5. /\ repaired'[i].bare = repaired[i].bare /\ repaired'[i].queued = q /\ repaired'[i].ended = e
      /\ repaired[i].bare \in Int /\ repaired[i].queued \in Nat /\ repaired[i].ended \in Nat
      /\ posted'[i] = posted[i] /\ posted[i] \in Nat
  BY <1>1, <1>4 DEF RepairInv, RowShape
<1>6. \A j \in Job : /\ Made(j)' = Made(j) /\ Created(j)' = Created(j) /\ Made(j) \in Nat
                     /\ repaired'[j].bare = repaired[j].bare
  <2>1. Made(i)' = Made(i) /\ Created(i)' = Created(i)
    BY <1>3, <1>5 DEF Made, Created
  <2>2. \A j \in Job \ {i} : Made(j)' = Made(j) /\ Created(j)' = Created(j)
    BY <1>1, <1>4 DEF Made, Created
  <2> QED
    BY <1>4, <1>5, <2>1, <2>2, CreatedTypes DEF RepairInv
<1>7. RowShape'
  BY <1>1, <1>2, <1>4, <1>6 DEF RepairInv, RowShape
<1>8. Onwards
  BY <1>1, <1>2, <1>6 DEF Onwards
<1> QED
  BY <1>1, <1>2, <1>6, <1>7, <1>8, RowsMove

\* A lease that lapses tells nothing new.
LEMMA RepairLeaseExpires ==
    ASSUME RepairInv, NEW i \in Job, LeaseExpires(i)
    PROVE  RepairInv'
<1>1. /\ jobs' = [jobs EXCEPT ![i].leased = FALSE]
      /\ UNCHANGED <<repaired, posted, pc, serves, candidates, log, sourceLog, phase, pending, outcome>>
  BY DEF LeaseExpires, eventVars, appending, worker, chat
<1>2. /\ jobs' \in [Job -> Row]
      /\ \A j \in Job : /\ jobs'[j].status = jobs[j].status /\ jobs'[j].claims = jobs[j].claims
                        /\ jobs'[j].of = jobs[j].of /\ jobs'[j].kind = jobs[j].kind
                        /\ jobs[j].claims \in Nat
  <2>1. jobs \in [Job -> Row]
    BY DEF RepairInv, RowShape
  <2>2. jobs'[i] = [jobs[i] EXCEPT !.leased = FALSE] /\ \A j \in Job \ {i} : jobs'[j] = jobs[j]
    BY <1>1, <2>1
  <2>3. \A j \in Job : jobs'[j] \in Row /\ jobs[j].claims \in Nat
    <3>1. jobs[i] \in Row
      BY <2>1
    <3>2. jobs'[i] \in Row
      BY <2>2, <3>1 DEF Row
    <3>3. \A j \in Job : jobs[j].claims \in Nat
      BY <2>1 DEF Row
    <3> QED
      BY <2>1, <2>2, <3>2, <3>3
  <2>4. /\ jobs'[i].status = jobs[i].status /\ jobs'[i].claims = jobs[i].claims
        /\ jobs'[i].of = jobs[i].of /\ jobs'[i].kind = jobs[i].kind
    BY <2>1, <2>2 DEF Row
  <2>5. jobs' \in [Job -> Row]
    BY <1>1, <2>1, <2>3
  <2> QED
    BY <2>2, <2>3, <2>4, <2>5
<1>3. \A j \in Job : Made(j)' = Made(j) /\ Created(j)' = Created(j) /\ Made(j) \in Nat
  BY <1>1, CreatedTypes DEF Made, Created, RepairInv
<1>4. RowShape'
  BY <1>1, <1>2, <1>3 DEF RepairInv, RowShape
<1>5. Onwards
  BY <1>1, <1>2, <1>3 DEF Onwards
<1> QED
  BY <1>1, <1>2, <1>3, <1>4, <1>5, RowsMove

\* Statements that only lead on to another one.
LEMMA RepairGoto ==
    ASSUME RepairInv, NEW w \in ChatWorker,
           LookForSummary(w) \/ AskModel(w) \/ AppendWaiting(w) \/ Raise(w)
    PROVE  RepairInv'
<1>1. /\ phase[w] = "none" /\ outcome[w] = "none" /\ pc[w] \notin {"idle", "lock"}
      /\ UNCHANGED <<serves, candidates, jobs, repaired, posted, log, phase, pending, outcome>>
      /\ sourceLog \subseteq sourceLog'
  BY DEF LookForSummary, AskModel, AppendWaiting, Raise, At, Goto, Idle, eventVars,
         appending, queue, chat
<1>2. PICK l \in Labels :
        /\ pc' = [pc EXCEPT ![w] = l]
        /\ l = "createRun" => pc[w] = "model"
        /\ l \in {"post", "createRun", "repairFailed", "complete", "autoFailed"}
        /\ l = "post" => pc[w] = "look"
  BY DEF LookForSummary, AskModel, AppendWaiting, Raise, At, Goto, Labels
<1> QED
  BY <1>1, <1>2, GotoKeeps DEF DuePcs, RepairInv, WorkerShape

\* A message is posted by a worker that was due, which is not any more.
LEMMA RepairPostSummary ==
    ASSUME RepairInv, NEW w \in ChatWorker, PostSummary(w)
    PROVE  RepairInv'
<1> DEFINE i == serves[w]
<1>1. /\ pc[w] = "post" /\ phase[w] = "none" /\ outcome[w] = "none"
      /\ pc' = [pc EXCEPT ![w] = "event"]
      /\ posted' = [posted EXCEPT ![i] = IF marked[w] THEN @ ELSE @ + 1]
      /\ UNCHANGED <<serves, candidates, jobs, repaired, log, sourceLog, phase, pending, outcome>>
  BY DEF PostSummary, Goto, At, Idle, eventVars, appending, queue
<1>2. i \in Job /\ jobs[i].status # "absent" /\ jobs[i].kind = "summary"
  BY <1>1 DEF RepairInv, Work
<1>3. PICK n \in Nat : n = IF marked[w] THEN posted[i] ELSE posted[i] + 1
  BY <1>2 DEF RepairInv, RowShape
<1>4. posted' = [posted EXCEPT ![i] = n] /\ posted[i] \in Nat /\ n <= posted[i] + 1
  BY <1>1, <1>2, <1>3 DEF RepairInv, RowShape
<1>5. /\ posted' \in [Job -> Nat] /\ posted'[i] = n
      /\ \A j \in Job \ {i} : posted'[j] = posted[j]
  BY <1>2, <1>4 DEF RepairInv, RowShape
<1>6. RowShape'
  BY <1>1, <1>5 DEF RepairInv, RowShape, Made
<1>7. WorkerShape'
  BY <1>1 DEF RepairInv, WorkerShape, Labels
<1>8. Onwards
  BY <1>1, CreatedTypes DEF Onwards, RepairInv, Made
<1>9. pc'[w] = "event" /\ \A v \in ChatWorker \ {w} : pc'[v] = pc[v]
  BY <1>1 DEF RepairInv, WorkerShape
<1>10. ASSUME NEW j \in Job PROVE Budget(j)'
  <2>1. /\ jobs[j].claims \in Nat /\ jobs'[j].claims = jobs[j].claims
        /\ Created(j) \in Int /\ Created(j)' \in Int /\ repaired[j].bare \in Int
    BY <1>1, <1>5, CreatedTypes DEF RepairInv, RowShape, Created
  <2>2. Open(j)' \subseteq Open(j) /\ repaired'[j].bare = repaired[j].bare
    BY <1>1, <1>9 DEF Open
  <2>3. CASE j # i
    <3>1. Due(j)' \subseteq Due(j)
      BY <1>1, <1>9, <2>3 DEF Due
    <3>2. Created(j)' = Created(j)
      BY <1>1, <1>5, <2>3 DEF Created
    <3> QED
      BY <1>1, <2>1, <2>2, <3>1, <3>2, BudgetKeeps DEF RepairInv
  <2>4. CASE j = i
    <3>1. Due(j)' = Due(j) \ {w} /\ w \in Due(j)
      BY <1>1, <1>9, <2>4 DEF Due, DuePcs
    <3>2. /\ IsFiniteSet(Due(j)) /\ Cardinality(Due(j)) \in Nat
          /\ IsFiniteSet(Due(j)') /\ Cardinality(Due(j)') = Cardinality(Due(j)) - 1
      BY <3>1, FS_RemoveElement, FS_CardinalityType DEF RepairInv, Budget, Paid
    <3>3. Created(j)' <= Created(j) + 1
      BY <1>1, <1>4, <1>5, <2>1, <2>4 DEF Created, RepairInv, RowShape
    <3>4. Cardinality(Due(j)) + Created(j) <= jobs[j].claims
      BY DEF RepairInv, Budget, Paid
    <3>5. Cardinality(Due(j)') + Created(j)' <= jobs'[j].claims
      BY <2>1, <3>2, <3>3, <3>4
    <3>6. Open(j)' = Open(j)
      BY <1>1, <1>9 DEF Open
    <3> QED
      BY <2>2, <3>2, <3>5, <3>6 DEF RepairInv, Budget, Paid, Bare
  <2> QED
    BY <2>3, <2>4
<1>11. Work(w)'
  BY <1>1, <1>2, <1>9 DEF Work, Kinds
<1> QED
  BY <1>1, <1>6, <1>7, <1>8, <1>9, <1>10, <1>11, WorkerActs DEF RepairInv

\* A claim puts its worker at the beginning of a job that is there, and pays for the
\* preview of a repair.
LEMMA RepairClaim ==
    ASSUME RepairInv, NEW w \in ChatWorker, ClaimRunJob(w)
    PROVE  RepairInv'
<1>1. /\ pc[w] = "lock" /\ phase[w] = "none" /\ outcome[w] = "none"
      /\ UNCHANGED <<repaired, posted, log, sourceLog, phase, pending, outcome>>
  BY DEF ClaimRunJob, At, Idle, eventVars, appending, chat
<1>2. CASE Return(w) /\ jobs' = jobs
  <2>1. RowShape' /\ Onwards
    BY <1>1, <1>2, CreatedTypes DEF RepairInv, RowShape, Onwards, Made
  <2> QED
    BY <1>1, <1>2, <2>1, CreatedTypes, ReturnKeeps DEF RepairInv, WorkerShape
<1>3. CASE ~(Return(w) /\ jobs' = jobs)
  <2>1. PICK i \in candidates[w] :
          /\ Claimable(i)
          /\ jobs' = [jobs EXCEPT ![i] = Leased(i, w)]
          /\ serves' = [serves EXCEPT ![w] = i]
          /\ candidates' = [candidates EXCEPT ![w] = {}]
          /\ pc' = [pc EXCEPT ![w] = IF jobs[i].kind = "summary" THEN "look" ELSE "started"]
    BY <1>3 DEF ClaimRunJob
  <2>2. i \in Job /\ jobs[i].status # "absent" /\ jobs[i] \in Row /\ i \in Nat
    BY <2>1, ContinuationAssumption DEF RepairInv, WorkerShape, RowShape, Claimable
  <2>3. PICK row : row = Leased(i, w)
    OBVIOUS
  <2>3a. PICK n \in Nat : n = jobs[i].claims + 1
    BY <2>2 DEF Row
  <2>3b. PICK r1 : r1 = [jobs[i] EXCEPT !.status = "running", !.claims = n]
    OBVIOUS
  <2>3c. r1 \in Row /\ r1.status = "running" /\ r1.claims = n /\ r1.of = jobs[i].of
         /\ r1.kind = jobs[i].kind
    BY <2>2, <2>3b DEF Row
  <2>3d. row = [r1 EXCEPT !.owner = w, !.leased = TRUE]
    BY <2>2, <2>3, <2>3a, <2>3b DEF Row, Leased
  <2>4. row \in Row /\ row.status = "running" /\ row.claims = jobs[i].claims + 1 /\ row.of = jobs[i].of
        /\ row.kind = jobs[i].kind
    BY <2>3a, <2>3c, <2>3d DEF Row
  <2>5. jobs' = [jobs EXCEPT ![i] = row]
    BY <2>1, <2>2, <2>3 DEF RepairInv, RowShape
  <2>6. jobs'[i] = row /\ \A j \in Job \ {i} : jobs'[j] = jobs[j]
    BY <2>2, <2>5 DEF RepairInv, RowShape
  <2>7. PICK l \in {"look", "started"} :
          pc' = [pc EXCEPT ![w] = l] /\ (l = "look" => jobs[i].kind = "summary")
    BY <2>1
  <2>8. /\ pc'[w] = l /\ serves'[w] = i
        /\ \A v \in ChatWorker \ {w} : pc'[v] = pc[v] /\ serves'[v] = serves[v]
    BY <2>1, <2>7 DEF RepairInv, WorkerShape
  <2>9. RowShape'
    <3>1. jobs' \in [Job -> Row]
      BY <2>4, <2>5 DEF RepairInv, RowShape
    <3> QED
      BY <1>1, <2>4, <2>6, <3>1 DEF RepairInv, RowShape, Made
  <2>10. WorkerShape'
    <3>1. pc' \in [ChatWorker -> Labels] /\ serves' \in [ChatWorker -> Nat]
      BY <2>1, <2>2, <2>7 DEF RepairInv, WorkerShape, Labels
    <3>2. candidates' \in [ChatWorker -> SUBSET Job]
      BY <2>1, {} \in SUBSET Job DEF RepairInv, WorkerShape
    <3> QED
      BY <1>1, <3>1, <3>2 DEF RepairInv, WorkerShape
  <2>11. Onwards
    BY <1>1, <2>2, <2>4, <2>6, CreatedTypes DEF Onwards, Made, RepairInv
  <2>12. ASSUME NEW j \in Job PROVE Budget(j)'
    <3>1. /\ Created(j)' = Created(j) /\ Created(j) \in Int /\ jobs[j].claims \in Nat
          /\ jobs'[j].claims \in Nat /\ repaired[j].bare \in Int /\ repaired'[j].bare = repaired[j].bare
      BY <1>1, <2>9, CreatedTypes DEF Created, RepairInv, RowShape, Row
    <3>1a. Open(j)' \subseteq Open(j)
      BY <2>7, <2>8 DEF Open
    <3>2. CASE j # i
      <4>1. Due(j)' \subseteq Due(j)
        BY <2>8, <3>2 DEF Due
      <4> QED
        BY <2>6, <3>1, <3>1a, <3>2, <4>1, BudgetKeeps DEF RepairInv
    <3>3. CASE j = i
      <4>1. w \notin Due(j)
        BY <1>1 DEF Due, DuePcs
      <4>2. Due(j)' \subseteq Due(j) \cup {w}
        BY <2>8 DEF Due
      <4>3. IsFiniteSet(Due(j) \cup {w}) /\ Cardinality(Due(j) \cup {w}) = Cardinality(Due(j)) + 1
        BY <4>1, FS_AddElement DEF RepairInv, Budget, Paid
      <4>4. IsFiniteSet(Due(j)') /\ Cardinality(Due(j)') <= Cardinality(Due(j) \cup {w})
        BY <4>2, <4>3, FS_Subset
      <4>5. Cardinality(Due(j)') \in Nat /\ Cardinality(Due(j)) \in Nat
        BY <4>4, FS_CardinalityType DEF RepairInv, Budget, Paid
      <4>6. jobs'[j].claims = jobs[j].claims + 1
        BY <2>4, <2>6, <3>3
      <4>7. Cardinality(Due(j)) + Created(j) <= jobs[j].claims
        BY DEF RepairInv, Budget, Paid
      <4>8. Cardinality(Due(j)') + Created(j)' <= jobs'[j].claims
        BY <3>1, <4>3, <4>4, <4>5, <4>6, <4>7
      <4>9. Open(j)' = Open(j)
        BY <1>1, <2>7, <2>8 DEF Open
      <4> QED
        BY <1>1, <4>4, <4>8, <4>9 DEF RepairInv, Budget, Paid, Bare
    <3> QED
      BY <3>2, <3>3
  <2>13. Work(w)'
    BY <1>1, <2>2, <2>4, <2>6, <2>7, <2>8 DEF Work
  <2>14. \A j \in Job : jobs'[j].status = "failed" => jobs[j].status = "failed"
    BY <2>4, <2>6
  <2> QED
    BY <1>1, <2>8, <2>9, <2>10, <2>11, <2>12, <2>13, <2>14, WorkerActs
<1> QED
  BY <1>2, <1>3

\* A claim looks at the queue.
LEMMA RepairSelect ==
    ASSUME RepairInv, NEW w \in ChatWorker, SelectCandidates(w)
    PROVE  RepairInv'
<1>1. /\ pc[w] = "idle" /\ phase[w] = "none" /\ pc' = [pc EXCEPT ![w] = "lock"]
      /\ UNCHANGED <<jobs, repaired, posted, serves, log, sourceLog, phase, pending, outcome>>
  BY DEF SelectCandidates, At, Idle, eventVars, appending, chat, queue
<1>2. PICK found \in SUBSET Job : candidates' = [candidates EXCEPT ![w] = found]
  BY DEF SelectCandidates
<1>3. pc'[w] = "lock" /\ \A v \in ChatWorker \ {w} : pc'[v] = pc[v]
  BY <1>1 DEF RepairInv, WorkerShape
<1>4. RowShape' /\ Onwards
  BY <1>1, CreatedTypes DEF RepairInv, RowShape, Onwards, Made
<1>5. WorkerShape'
  BY <1>1, <1>2 DEF RepairInv, WorkerShape, Labels
<1>6. \A j \in Job : Budget(j)'
  BY <1>1, <1>3, <1>4, CreatedTypes, BudgetsKeep DEF DuePcs, RepairInv
<1>7. Work(w)'
  BY <1>1, <1>3 DEF Work
<1> QED
  BY <1>1, <1>3, <1>4, <1>5, <1>6, <1>7, WorkerActs

\* A job ends by its id; as failed only when the failure was reported.
LEMMA RepairComplete ==
    ASSUME RepairInv, NEW w \in ChatWorker, Complete(w) \/ FailJob(w)
    PROVE  RepairInv'
<1>1. PICK status \in {"completed", "failed"} :
        /\ CompleteRunJob(w, status) /\ phase[w] = "none"
        /\ pc[w] \notin {"idle", "lock"} /\ (status = "failed" => pc[w] = "failJob")
  BY DEF Complete, FailJob, At, Idle
<1>2. PICK i : i = serves[w]
  OBVIOUS
<1>3. i \in Job /\ jobs[i].status # "absent" /\ jobs[i] \in Row
      /\ (status = "failed" => Reported(i))
  BY <1>1, <1>2 DEF RepairInv, Work, RowShape
<1>4. /\ jobs' = [jobs EXCEPT ![i].status = status, ![i].owner = Nobody, ![i].leased = FALSE]
      /\ Return(w)
      /\ UNCHANGED <<repaired, posted, log, sourceLog, phase, pending, outcome>>
  BY <1>1, <1>2 DEF CompleteRunJob, eventVars, appending, chat
<1>5. PICK row : row = [jobs[i] EXCEPT !.status = status, !.owner = Nobody, !.leased = FALSE]
  OBVIOUS
<1>6. row \in Row /\ row.status = status /\ row.claims = jobs[i].claims /\ row.of = jobs[i].of
      /\ row.kind = jobs[i].kind
  BY <1>3, <1>5 DEF Row
<1>7. jobs' = [jobs EXCEPT ![i] = row]
  BY <1>3, <1>4, <1>5 DEF RepairInv, RowShape
<1>8. jobs'[i] = row /\ \A j \in Job \ {i} : jobs'[j] = jobs[j]
  BY <1>3, <1>7 DEF RepairInv, RowShape
<1>9. RowShape'
  <2>1. jobs' \in [Job -> Row]
    BY <1>6, <1>7 DEF RepairInv, RowShape
  <2> QED
    BY <1>4, <1>6, <1>8, <2>1 DEF RepairInv, RowShape, Made
<1>10. Onwards
  <2>1. \A j \in Job : Made(j)' = Made(j) /\ Made(j) \in Nat
    BY <1>4, CreatedTypes DEF Made, RepairInv
  <2>2. jobs'[i].status # "absent" /\ jobs'[i].of = jobs[i].of /\ jobs'[i].kind = jobs[i].kind
    BY <1>6, <1>8
  <2>3. \A j \in Job : jobs[j].status # "absent" =>
          jobs'[j].status # "absent" /\ jobs'[j].of = jobs[j].of /\ jobs'[j].kind = jobs[j].kind
    BY <1>8, <2>2
  <2>4. \A j \in Job : Made(j) <= Made(j)'
    BY <2>1
  <2> QED
    BY <1>4, <2>3, <2>4 DEF Onwards
<1>11. \A j \in Job : jobs[j].claims <= jobs'[j].claims
  BY <1>6, <1>8, CreatedTypes DEF RepairInv
<1>12. \A j \in Job : jobs'[j].status = "failed" => jobs[j].status = "failed" \/ Reported(j)'
  BY <1>3, <1>4, <1>6, <1>8 DEF Reported, Followed, Logged
<1> QED
  BY <1>1, <1>4, <1>9, <1>10, <1>11, <1>12, ReturnKeeps DEF RepairInv, WorkerShape

\* The process ends: what it was appending is given up with it.
LEMMA RepairCrash ==
    ASSUME RepairInv, LogInv, NEW w \in ChatWorker, Crash(w)
    PROVE  RepairInv'
<1>1. /\ Return(w) /\ EndAppend(w, "none")
      /\ UNCHANGED <<jobs, repaired, posted, log, sourceLog>>
  BY DEF Crash, AbortAppend, queue, chat
<1>2. /\ pending' = [pending EXCEPT ![w] = None] /\ phase' = [phase EXCEPT ![w] = "none"]
      /\ outcome' = [outcome EXCEPT ![w] = "none"]
  BY <1>1 DEF EndAppend
<1>3. RowShape' /\ Onwards
  BY <1>1, CreatedTypes DEF RepairInv, RowShape, Onwards, Made
<1>4. DOMAIN pending' = Appender /\ DOMAIN outcome' = Appender
  BY <1>2 DEF RepairInv, WorkerShape
<1>5. \A a \in Appender \ {w} :
          phase'[a] = phase[a] /\ pending'[a] = pending[a] /\ outcome'[a] = outcome[a]
  BY <1>2 DEF RepairInv, WorkerShape, LogInv, AppendShape
<1>6. phase'[w] = "none"
  <2>1. w \in Appender
    BY DEF Appender
  <2> QED
    BY <1>2, <2>1 DEF LogInv, AppendShape
<1>7. \A j \in Job : jobs[j].claims <= jobs'[j].claims
  BY <1>1, CreatedTypes DEF RepairInv
<1> QED
  BY <1>1, <1>3, <1>4, <1>5, <1>6, <1>7, ReturnKeeps

\* An event is appended to the log, or only marked when that log is not followed.
LEMMA RepairBeginEvent ==
    ASSUME RepairInv, LogInv, NEW w \in ChatWorker, BeginEvent(w)
    PROVE  RepairInv'
<1> DEFINE i == serves[w]
<1>1. /\ pc[w] \in EventPcs /\ phase[w] = "none" /\ outcome[w] = "none"
      /\ UNCHANGED <<sourceLog, posted>> /\ pc[w] \notin {"idle", "lock"}
  BY DEF BeginEvent, At, Idle, chat, EventPcs, MirrorOf
<1>2. i \in Job /\ jobs[i].status # "absent" /\ jobs[i] \in Row
  BY <1>1 DEF RepairInv, Work, RowShape
<1>3. CASE Followed(i)
  <2>1. BeginAppend(w, EventAt(w)) /\ UNCHANGED <<pc, serves, candidates, jobs, repaired>>
    BY <1>3 DEF BeginEvent, worker, queue
  <2>2. PICK type : type = EventAt(w)
    OBVIOUS
  <2>3. /\ log' = log
        /\ pending' = [pending EXCEPT ![w] = type] /\ phase' = [phase EXCEPT ![w] = "begin"]
        /\ outcome' = [outcome EXCEPT ![w] = "none"]
    BY <2>1, <2>2 DEF BeginAppend
  <2>4. w \in Appender
    BY DEF Appender
  <2>5. /\ pending'[w] = type /\ outcome'[w] = "none"
        /\ \A a \in Appender \ {w} :
              phase'[a] = phase[a] /\ pending'[a] = pending[a] /\ outcome'[a] = outcome[a]
    BY <2>3, <2>4 DEF RepairInv, WorkerShape, LogInv, AppendShape
  <2>6. RowShape' /\ WorkerShape' /\ Onwards
    BY <1>1, <2>1, <2>3, CreatedTypes DEF RepairInv, RowShape, WorkerShape, Onwards, Made
  <2>7. \A j \in Job : Budget(j)'
    <3>1. pc'[w] # "createJob"
      BY <1>1, <2>1 DEF EventPcs, MirrorOf
    <3> QED
      BY <1>1, <2>1, <2>6, <3>1, CreatedTypes, BudgetsKeep DEF RepairInv
  <2>8. pc[w] = "autoFailed" => type = "chain.failed"
    BY <2>2 DEF EventAt
  <2>9. type = "repair.completed" => SomeQueued
    <3>1. type = "repair.completed" => pc[w] = "event" /\ jobs[i].kind # "summary"
      BY <1>1, <2>2 DEF EventAt, EventPcs, MirrorOf
    <3>2. jobs[i].kind \in {"summary", "repair"}
      BY <1>2 DEF Row, Kinds
    <3> QED
      BY <1>2, <1>3, <3>1, <3>2 DEF RepairInv, Work, SomeQueued
  <2>10. SomeQueued' <=> SomeQueued
    BY <2>1 DEF SomeQueued, Followed, Made
  <2>11. Work(w)'
    <3>1. Made(i)' = Made(i) /\ (pc[w] = "event" /\ jobs[i].kind = "repair" => Made(i) > 0)
      BY <2>1 DEF Made, RepairInv, Work
    <3>2. pc[w] \notin {"autoFailedMirror", "failJob", "look", "post"}
      BY <1>1 DEF EventPcs, MirrorOf
    <3> QED
      BY <1>2, <2>1, <2>5, <2>8, <2>9, <2>10, <3>1, <3>2 DEF Work
  <2> QED
    BY <2>1, <2>3, <2>5, <2>6, <2>7, <2>11, WorkerActs DEF RepairInv, Told
<1>4. CASE ~Followed(i)
  <2>1. PICK l : l = MirrorOf[pc[w]]
    OBVIOUS
  <2>2. PICK m \in BOOLEAN : m <=> (jobs[i].marked \/ pc[w] = "event")
    OBVIOUS
  <2>3. /\ pc' = [pc EXCEPT ![w] = l] /\ UNCHANGED <<serves, candidates, repaired>>
        /\ UNCHANGED <<log, phase, pending, outcome>>
        /\ jobs' = [jobs EXCEPT ![i].marked = @ \/ pc[w] = "event"]
    BY <1>4, <2>1 DEF BeginEvent, Goto, eventVars, appending
  <2>4. l \in {"startedMirror", "repairFailedMirror", "eventMirror", "autoFailedMirror"}
        /\ (l = "startedMirror" => pc[w] = "started")
    BY <1>1, <2>1 DEF EventPcs, MirrorOf
  <2>5. /\ jobs' \in [Job -> Row]
        /\ \A j \in Job : /\ jobs'[j].status = jobs[j].status /\ jobs'[j].claims = jobs[j].claims
                          /\ jobs'[j].of = jobs[j].of /\ jobs'[j].kind = jobs[j].kind
                          /\ jobs[j].claims \in Nat
    BY <1>2, <2>3 DEF RepairInv, RowShape, Row
  <2>6. \A j \in Job : Made(j)' = Made(j) /\ Made(j) \in Nat
    BY <2>3, CreatedTypes DEF Made, RepairInv
  <2>7. RowShape' /\ Onwards
    BY <1>1, <2>3, <2>5, <2>6 DEF RepairInv, RowShape, Onwards
  <2>8. pc'[w] = l /\ \A v \in ChatWorker \ {w} : pc'[v] = pc[v]
    BY <2>3 DEF RepairInv, WorkerShape
  <2>9. WorkerShape'
    BY <2>3, <2>4 DEF RepairInv, WorkerShape, Labels
  <2>10. \A j \in Job : Budget(j)'
    BY <1>1, <2>3, <2>4, <2>5, <2>7, <2>8, BudgetsKeep DEF DuePcs
  <2>11. ~Followed(i)'
    BY <1>2, <1>4, <2>3, <2>5 DEF Followed
  <2>12. Work(w)'
    BY <1>1, <1>2, <2>3, <2>4, <2>5, <2>8, <2>11 DEF Work
  <2> QED
    BY <2>3, <2>5, <2>7, <2>8, <2>9, <2>10, <2>12, WorkerActs
<1> QED
  BY <1>3, <1>4

\* Its end leads to the mirror, or to the failure branch.
LEMMA RepairEventEnds ==
    ASSUME RepairInv, LogInv, NEW w \in ChatWorker, EventEnds(w)
    PROVE  RepairInv'
<1>1. /\ pc[w] \in EventPcs /\ phase[w] = "none" /\ pc[w] \notin {"idle", "lock"}
      /\ outcome' = [outcome EXCEPT ![w] = "none"]
      /\ UNCHANGED <<log, pending, phase, jobs, repaired, sourceLog, posted>>
  BY DEF EventEnds, Idle, queue, chat, EventPcs, MirrorOf
<1>2. w \in Appender
  BY DEF Appender
<1>3. /\ DOMAIN outcome' = Appender /\ outcome'[w] = "none"
      /\ \A a \in Appender \ {w} : outcome'[a] = outcome[a]
  BY <1>1, <1>2 DEF RepairInv, WorkerShape
<1>4. CASE outcome[w] = "appended"
  <2>1. PICK l : l = MirrorOf[pc[w]]
    OBVIOUS
  <2>2. Goto(w, l)
    BY <1>4, <2>1 DEF EventEnds
  <2>3. l \in {"startedMirror", "repairFailedMirror", "eventMirror", "autoFailedMirror"}
        /\ (l = "startedMirror" => pc[w] = "started")
        /\ (l = "autoFailedMirror" => pc[w] = "autoFailed")
    BY <1>1, <2>1 DEF EventPcs, MirrorOf
  <2>4. l = "autoFailedMirror" => Logged("chain.failed")
    BY <1>4, <2>3 DEF RepairInv, Work
  <2>5. l \in Labels
    BY <2>3 DEF Labels
  <2> QED
    BY <1>1, <1>3, <2>2, <2>3, <2>4, <2>5, GotoKeeps DEF Goto, DuePcs
<1>5. CASE outcome[w] # "appended" /\ pc[w] = "autoFailed"
  <2>1. Return(w)
    BY <1>5 DEF EventEnds
  <2>2. RowShape' /\ Onwards
    BY <1>1, CreatedTypes DEF RepairInv, RowShape, Onwards, Made
  <2> QED
    BY <1>1, <1>3, <2>1, <2>2, CreatedTypes, ReturnKeeps DEF RepairInv, WorkerShape
<1>6. CASE outcome[w] # "appended" /\ pc[w] # "autoFailed"
  <2>1. Goto(w, "autoFailed")
    BY <1>6 DEF EventEnds
  <2> QED
    BY <1>1, <1>3, <2>1, "autoFailed" \in Labels, GotoKeeps DEF Goto, DuePcs, Labels
<1> QED
  BY <1>4, <1>5, <1>6

\* The chat run's log is told what the preview's is.
LEMMA RepairMirror ==
    ASSUME RepairInv, NEW w \in ChatWorker, MirrorEvent(w)
    PROVE  RepairInv'
<1>1. PICK event \in EventPcs :
        /\ At(w, MirrorOf[event])
        /\ sourceLog' = sourceLog \cup
              {CASE event = "started"      -> "repair.started"
                 [] event = "repairFailed" -> "repair.failed"
                 [] event = "autoFailed"   -> "chain.failed"
                 [] OTHER -> IF jobs[serves[w]].kind = "summary" THEN "summary.completed"
                             ELSE "repair.completed"}
        /\ Goto(w, CASE event = "started"      -> "model"
                     [] event = "autoFailed"   -> "failJob"
                     [] event = "event" /\ jobs[serves[w]].kind = "repair" -> "waiting"
                     [] OTHER                  -> "complete")
  BY DEF MirrorEvent
<1>2. event \in {"started", "repairFailed", "event", "autoFailed"}
  BY DEF EventPcs, MirrorOf
<1>3. /\ pc[w] = MirrorOf[event] /\ phase[w] = "none" /\ outcome[w] = "none"
      /\ pc[w] \notin {"idle", "lock"}
      /\ event = "started" => pc[w] = "startedMirror"
      /\ event = "autoFailed" => pc[w] = "autoFailedMirror"
  BY <1>1, <1>2 DEF At, Idle, MirrorOf
<1>4. UNCHANGED <<log, phase, pending, outcome, jobs, repaired, posted>>
  BY DEF MirrorEvent, eventVars, appending, queue
<1>5. PICK l \in Labels : /\ Goto(w, l)
                          /\ l \in {"model", "failJob", "waiting", "complete"}
                          /\ l = "model" => event = "started"
                          /\ l = "failJob" => event = "autoFailed"
  BY <1>1, <1>2 DEF Labels
<1>6. sourceLog \subseteq sourceLog' /\ (event = "autoFailed" => "chain.failed" \in sourceLog')
  BY <1>1
<1>7. l = "failJob" => Reported(serves[w])'
  <2>1. l = "failJob" => (Followed(serves[w]) => Logged("chain.failed"))
    BY <1>3, <1>5 DEF RepairInv, Work
  <2>2. serves' = serves
    BY <1>5 DEF Goto
  <2> QED
    BY <1>4, <1>5, <1>6, <2>1, <2>2 DEF Reported, Followed, Logged
<1> QED
  BY <1>3, <1>4, <1>5, <1>6, <1>7, GotoKeeps DEF Goto, DuePcs, RepairInv, WorkerShape

\* The run of a preview is created by a worker that was due, which is not any more.
LEMMA RepairCreateRun ==
    ASSUME RepairInv, NEW w \in ChatWorker, CreateRepairedRun(w)
    PROVE  RepairInv'
<1> DEFINE i == serves[w]
<1>1. /\ pc[w] = "createRun" /\ phase[w] = "none" /\ outcome[w] = "none"
      /\ pc' = [pc EXCEPT ![w] = "createJob"]
      /\ repaired' = [repaired EXCEPT ![i].bare = @ + 1]
      /\ UNCHANGED <<serves, candidates, jobs, posted, log, sourceLog, phase, pending, outcome>>
  BY DEF CreateRepairedRun, Goto, At, Idle, eventVars, appending, chat
<1>2. i \in Job /\ jobs[i].status # "absent"
  BY <1>1 DEF RepairInv, Work
<1>3. /\ repaired' \in [Job -> [bare : Int, queued : Nat, ended : Nat]]
      /\ repaired'[i].bare = repaired[i].bare + 1
      /\ repaired'[i].queued = repaired[i].queued /\ repaired'[i].ended = repaired[i].ended
      /\ \A j \in Job \ {i} : repaired'[j] = repaired[j]
  BY <1>1, <1>2 DEF RepairInv, RowShape
<1>4. \A j \in Job : Made(j)' = Made(j)
  BY <1>3 DEF Made
<1>5. RowShape'
  BY <1>1, <1>3, <1>4 DEF RepairInv, RowShape
<1>6. WorkerShape'
  BY <1>1 DEF RepairInv, WorkerShape, Labels
<1>7. Onwards
  BY <1>1, <1>4, CreatedTypes DEF Onwards, RepairInv
<1>8. pc'[w] = "createJob" /\ \A v \in ChatWorker \ {w} : pc'[v] = pc[v]
  BY <1>1 DEF RepairInv, WorkerShape
<1>9. ASSUME NEW j \in Job PROVE Budget(j)'
  <2>1. /\ jobs[j].claims \in Nat /\ jobs'[j].claims = jobs[j].claims /\ Created(j) \in Int
        /\ repaired[j].bare \in Int
    BY <1>1, CreatedTypes DEF RepairInv
  <2>2. CASE j # i
    <3>1. Due(j)' \subseteq Due(j) /\ Open(j)' \subseteq Open(j)
      BY <1>1, <1>8, <2>2 DEF Due, Open
    <3>2. Created(j)' = Created(j) /\ repaired'[j].bare = repaired[j].bare
      BY <1>1, <1>3, <2>2 DEF Created
    <3> QED
      BY <2>1, <3>1, <3>2, BudgetKeeps DEF RepairInv
  <2>3. CASE j = i
    <3>1. Due(j)' = Due(j) \ {w} /\ w \in Due(j)
      BY <1>1, <1>8, <2>3 DEF Due, DuePcs
    <3>2. /\ IsFiniteSet(Due(j)) /\ Cardinality(Due(j)) \in Nat
          /\ IsFiniteSet(Due(j)') /\ Cardinality(Due(j)') = Cardinality(Due(j)) - 1
      BY <3>1, FS_RemoveElement, FS_CardinalityType DEF RepairInv, Budget, Paid
    <3>3. Created(j)' = Created(j) + 1
      BY <1>1, <1>3, <2>3 DEF Created, RepairInv, RowShape
    <3>4. Cardinality(Due(j)) + Created(j) <= jobs[j].claims
      BY DEF RepairInv, Budget, Paid
    <3>5. Cardinality(Due(j)') + Created(j)' <= jobs'[j].claims
      BY <2>1, <3>2, <3>3, <3>4
    <3>6. w \notin Open(j) /\ Open(j)' = Open(j) \cup {w}
      BY <1>1, <1>8, <2>3 DEF Open
    <3>7. /\ IsFiniteSet(Open(j)) /\ Cardinality(Open(j)) \in Nat
          /\ IsFiniteSet(Open(j)') /\ Cardinality(Open(j)') = Cardinality(Open(j)) + 1
      BY <3>6, FS_AddElement, FS_CardinalityType DEF RepairInv, Budget, Bare
    <3>8. Cardinality(Open(j)') <= repaired'[j].bare
      BY <1>3, <2>1, <2>3, <3>7 DEF RepairInv, Budget, Bare
    <3> QED
      BY <3>2, <3>5, <3>7, <3>8 DEF Budget, Paid, Bare
  <2> QED
    BY <2>2, <2>3
<1>10. Work(w)'
  BY <1>1, <1>2, <1>8 DEF Work
<1> QED
  BY <1>1, <1>5, <1>6, <1>7, <1>8, <1>9, <1>10, WorkerActs DEF RepairInv

\* The job turns the run into a queued preview.
LEMMA RepairCreateJob ==
    ASSUME RepairInv, NEW w \in ChatWorker, CreateRepairedJob(w)
    PROVE  RepairInv'
<1>0. PICK i : i = serves[w]
  OBVIOUS
<1>1. /\ pc[w] = "createJob" /\ phase[w] = "none" /\ outcome[w] = "none"
      /\ pc' = [pc EXCEPT ![w] = "event"]
      /\ repaired' = [repaired EXCEPT ![i].bare = @ - 1, ![i].queued = @ + 1]
      /\ UNCHANGED <<serves, candidates, jobs, posted, log, sourceLog, phase, pending, outcome>>
  BY <1>0 DEF CreateRepairedJob, Goto, At, Idle, eventVars, appending, chat
<1>2. i \in Job /\ jobs[i].status # "absent"
  BY <1>0, <1>1 DEF RepairInv, Work
<1>3. PICK n \in Int, q \in Nat : n = repaired[i].bare - 1 /\ q = repaired[i].queued + 1
  BY <1>2 DEF RepairInv, RowShape
<1>4. /\ repaired'[i] = [repaired[i] EXCEPT !.bare = n, !.queued = q]
      /\ \A j \in Job \ {i} : repaired'[j] = repaired[j]
      /\ repaired' \in [Job -> [bare : Int, queued : Nat, ended : Nat]]
  BY <1>1, <1>2, <1>3 DEF RepairInv, RowShape
<1>5. /\ repaired'[i].bare = n /\ repaired'[i].queued = q /\ repaired'[i].ended = repaired[i].ended
      /\ repaired[i].bare \in Int /\ repaired[i].queued \in Nat /\ repaired[i].ended \in Nat
      /\ posted'[i] = posted[i] /\ posted[i] \in Nat
  BY <1>1, <1>2, <1>4 DEF RepairInv, RowShape
<1>6. Made(i)' = Made(i) + 1 /\ Created(i)' = Created(i) /\ Made(i) \in Nat
  <2>1. repaired'[i].bare + repaired'[i].queued = repaired[i].bare + repaired[i].queued
    BY <1>3, <1>5
  <2>2. Made(i)' = Made(i) + 1 /\ Made(i) \in Nat
    BY <1>3, <1>5 DEF Made
  <2> QED
    BY <1>5, <2>1, <2>2 DEF Created
<1>7. \A j \in Job \ {i} : Made(j)' = Made(j) /\ Created(j)' = Created(j)
  BY <1>1, <1>4 DEF Made, Created
<1>8. RowShape'
  BY <1>1, <1>2, <1>4, <1>7 DEF RepairInv, RowShape
<1>9. WorkerShape'
  BY <1>1 DEF RepairInv, WorkerShape, Labels
<1>10. \A j \in Job : Made(j) <= Made(j)'
  BY <1>6, <1>7, CreatedTypes DEF RepairInv
<1>11. Onwards
  BY <1>1, <1>10 DEF Onwards
<1>12. pc'[w] = "event" /\ \A v \in ChatWorker \ {w} : pc'[v] = pc[v]
  BY <1>1 DEF RepairInv, WorkerShape
<1>13. ASSUME NEW j \in Job PROVE Budget(j)'
  <2>1. Due(j)' \subseteq Due(j)
    BY <1>1, <1>12 DEF Due, DuePcs
  <2>2. /\ Created(j)' = Created(j) /\ Created(j) \in Int /\ jobs[j].claims \in Nat
        /\ repaired[j].bare \in Int
    BY <1>6, <1>7, CreatedTypes DEF RepairInv
  <2>3. CASE j # i
    <3>1. Open(j)' \subseteq Open(j) /\ repaired'[j].bare = repaired[j].bare
      BY <1>1, <1>4, <1>12, <2>3 DEF Open
    <3>2. jobs'[j].claims = jobs[j].claims /\ Created(j)' \in Int /\ Created(j)' <= Created(j)
      BY <1>1, <2>2
    <3>3. jobs[j].claims <= jobs'[j].claims /\ jobs'[j].claims \in Nat /\ jobs[j].claims \in Nat
      BY <2>2, <3>2
    <3>4. Budget(j)
      BY DEF RepairInv
    <3> QED
      BY <2>1, <2>2, <3>1, <3>2, <3>3, <3>4, BudgetKeeps
  <2>4. CASE j = i
    <3>1. Due(j)' = Due(j)
      BY <1>1, <1>12 DEF Due, DuePcs
    <3>2. Open(j)' = Open(j) \ {w} /\ w \in Open(j)
      BY <1>0, <1>1, <1>12, <2>4 DEF Open
    <3>3. /\ IsFiniteSet(Open(j)) /\ Cardinality(Open(j)) \in Nat
          /\ IsFiniteSet(Open(j)') /\ Cardinality(Open(j)') = Cardinality(Open(j)) - 1
      BY <3>2, FS_RemoveElement, FS_CardinalityType DEF RepairInv, Budget, Bare
    <3>4. Cardinality(Open(j)') <= repaired'[j].bare
      BY <1>3, <1>5, <2>4, <3>3 DEF RepairInv, Budget, Bare
    <3> QED
      BY <1>1, <2>2, <3>1, <3>3, <3>4 DEF RepairInv, Budget, Paid, Bare
  <2> QED
    BY <2>3, <2>4
<1>14. Made(i)' > 0
  BY <1>6
<1>15. Work(w)'
  <2>1. serves'[w] = i /\ Made(serves[w])' = Made(i)'
    BY <1>0, <1>1 DEF Made
  <2> QED
    BY <1>1, <1>2, <1>12, <1>14, <2>1 DEF Work
<1> QED
  BY <1>1, <1>8, <1>9, <1>11, <1>12, <1>13, <1>15, WorkerActs DEF RepairInv

----------------------------------------------------------------------------
(* Appends of others.                                                      *)

\* A step of an appender on the log leaves workers where they are.
LEMMA LogMoves ==
    ASSUME RepairInv, NEW a \in Appender,
           UNCHANGED <<jobs, repaired, posted, pc, serves, candidates, sourceLog>>,
           log \subseteq log', DOMAIN pending' = Appender, DOMAIN outcome' = Appender,
           \A b \in Appender \ {a} :
               phase'[b] = phase[b] /\ pending'[b] = pending[b] /\ outcome'[b] = outcome[b],
           phase'[a] # "none" =>
               \/ phase[a] # "none" /\ pending'[a] = pending[a]
               \/ a \in BacktestWorker /\ pending'[a] # "repair.completed",
           a \in ChatWorker /\ pc[a] = "autoFailed" =>
               (outcome'[a] = "appended" => outcome[a] = "appended" \/ Logged("chain.failed")'),
           Logged("repair.completed")' => Logged("repair.completed") \/ SomeQueued
    PROVE  RepairInv'
<1>1. RowShape' /\ WorkerShape' /\ Onwards
  BY CreatedTypes DEF RepairInv, RowShape, WorkerShape, Onwards, Made
<1>2. /\ SomeQueued => SomeQueued'
      /\ \A type : Logged(type) => Logged(type)'
      /\ \A j \in Job : jobs[j].status # "absent" =>
            (Followed(j)' <=> Followed(j)) /\ (Reported(j) => Reported(j)')
  BY <1>1, OnwardsKeeps DEF RepairInv
<1>3. ASSUME NEW j \in Job PROVE Budget(j)'
  <2>1. Due(j)' = Due(j) /\ Created(j)' = Created(j) /\ Open(j)' = Open(j)
    BY DEF Due, Created, Open
  <2> QED
    BY <2>1 DEF RepairInv, Budget, Paid, Bare
<1>4. ASSUME NEW w \in ChatWorker PROVE Work(w)'
  <2>1. CASE w # a
    <3>1. w \in Appender \ {a}
      BY <2>1 DEF Appender
    <3> QED
      BY <1>1, <3>1, OthersKeep DEF RepairInv, WorkerShape
  <2>2. CASE w = a
    <3>1. a \notin BacktestWorker
      BY <2>2, ContinuationAssumption
    <3>2. phase'[w] # "none" => phase[w] # "none" /\ pending'[w] = pending[w]
      BY <2>2, <3>1
    <3>3. phase'[w] # "none" /\ pending'[w] = "repair.completed" => SomeQueued'
      BY <1>2, <3>2 DEF RepairInv, Work
    <3>4. pc[w] = "autoFailed" =>
             /\ phase'[w] # "none" => pending'[w] = "chain.failed"
             /\ outcome'[w] = "appended" => Logged("chain.failed")'
      BY <1>2, <2>2, <3>2 DEF RepairInv, Work
    <3>5. pc[w] = "autoFailedMirror" /\ Followed(serves[w])' => Logged("chain.failed")'
      BY <1>2 DEF RepairInv, Work
    <3>6. pc[w] = "failJob" => Reported(serves[w])'
      BY <1>2 DEF RepairInv, Work
    <3>7. /\ pc[w] \in {"look", "post"} => jobs[serves[w]].kind = "summary"
          /\ pc[w] = "event" /\ jobs[serves[w]].kind = "repair" => Made(serves[w])' > 0
          /\ pc[w] \notin {"idle", "lock"} => serves[w] \in Job /\ jobs[serves[w]].status # "absent"
      BY DEF RepairInv, Work, Made
    <3> QED
      BY <3>3, <3>4, <3>5, <3>6, <3>7 DEF Work
  <2> QED
    BY <2>1, <2>2
<1>5. Told'
  <2>1. Logged("repair.completed")' => SomeQueued'
    BY <1>2 DEF RepairInv, Told
  <2>2. \A j \in Job : jobs'[j].status = "failed" => Reported(j)'
    BY <1>2 DEF RepairInv, Told
  <2>3. \A b \in BacktestWorker : phase'[b] # "none" => pending'[b] # "repair.completed"
    BY DEF RepairInv, Told, Appender
  <2> QED
    BY <2>1, <2>2, <2>3 DEF Told
<1> QED
  BY <1>1, <1>3, <1>4, <1>5 DEF RepairInv

\* An append that ends without its event.
LEMMA RepairEndAppend ==
    ASSUME RepairInv, LogInv, NEW a \in Appender, NEW how \in {"none", "raised"}, EndAppend(a, how),
           UNCHANGED <<jobs, repaired, posted, pc, serves, candidates, sourceLog, log>>
    PROVE  RepairInv'
<1>1. /\ pending' = [pending EXCEPT ![a] = None] /\ phase' = [phase EXCEPT ![a] = "none"]
      /\ outcome' = [outcome EXCEPT ![a] = how]
  BY DEF EndAppend
<1>2. /\ phase'[a] = "none" /\ outcome'[a] = how
      /\ DOMAIN pending' = Appender /\ DOMAIN outcome' = Appender
      /\ \A b \in Appender \ {a} :
            phase'[b] = phase[b] /\ pending'[b] = pending[b] /\ outcome'[b] = outcome[b]
  BY <1>1 DEF RepairInv, WorkerShape, LogInv, AppendShape
<1>3. Logged("repair.completed")' => Logged("repair.completed")
  BY DEF Logged
<1> QED
  BY <1>2, <1>3, LogMoves

\* One that ends with it: what is logged was pending.
LEMMA RepairCommit ==
    ASSUME RepairInv, LogInv, NEW a \in Appender, Commit(a), EndAppend(a, "appended"),
           phase[a] # "none",
           UNCHANGED <<jobs, repaired, posted, pc, serves, candidates, sourceLog>>
    PROVE  RepairInv'
<1>1. /\ pending' = [pending EXCEPT ![a] = None] /\ phase' = [phase EXCEPT ![a] = "none"]
      /\ outcome' = [outcome EXCEPT ![a] = "appended"]
  BY DEF EndAppend
<1>2. /\ phase'[a] = "none"
      /\ DOMAIN pending' = Appender /\ DOMAIN outcome' = Appender
      /\ \A b \in Appender \ {a} :
            phase'[b] = phase[b] /\ pending'[b] = pending[b] /\ outcome'[b] = outcome[b]
  BY <1>1 DEF RepairInv, WorkerShape, LogInv, AppendShape
<1>3. PICK e : e = [sequence |-> base[a] + 1, type |-> pending[a]]
  OBVIOUS
<1>4. log' = log \cup {e} /\ e.type = pending[a]
  BY <1>3 DEF Commit
<1>5. Logged("repair.completed")' => Logged("repair.completed") \/ SomeQueued
  <2>1. pending[a] = "repair.completed" => SomeQueued
    BY DEF RepairInv, Told, Work, Appender
  <2> QED
    BY <1>4, <2>1 DEF Logged
<1>6. a \in ChatWorker /\ pc[a] = "autoFailed" => Logged("chain.failed")'
  BY <1>4 DEF RepairInv, Work, Logged
<1> QED
  BY <1>2, <1>4, <1>5, <1>6, LogMoves

\* One that goes on.
LEMMA RepairAppendGoesOn ==
    ASSUME RepairInv, LogInv, NEW a \in Appender, NEW p, phase' = [phase EXCEPT ![a] = p],
           phase[a] # "none",
           UNCHANGED <<jobs, repaired, posted, pc, serves, candidates, sourceLog, log, pending, outcome>>
    PROVE  RepairInv'
<1>1. /\ DOMAIN pending' = Appender /\ DOMAIN outcome' = Appender
      /\ \A b \in Appender \ {a} :
            phase'[b] = phase[b] /\ pending'[b] = pending[b] /\ outcome'[b] = outcome[b]
  BY DEF RepairInv, WorkerShape, LogInv, AppendShape
<1>2. Logged("repair.completed")' => Logged("repair.completed")
  BY DEF Logged
<1> QED
  BY <1>1, <1>2, LogMoves

\* Every statement of an append.
LEMMA RepairLogStep ==
    ASSUME RepairInv, LogInv, NEW a \in Appender, LogStep(a)
    PROVE  RepairInv'
<1>1. UNCHANGED <<jobs, repaired, posted, pc, serves, candidates, sourceLog>>
  BY DEF LogStep, queue, worker, chat
<1>2. CASE LockRun(a) \/ ReadSequence(a)
  BY <1>1, <1>2, RepairAppendGoesOn DEF LockRun, ReadSequence
<1>3. CASE InsertLocked(a)
  <2>1. phase[a] # "none"
    BY <1>3 DEF InsertLocked
  <2>2. CASE Commit(a) /\ EndAppend(a, "appended")
    BY <1>1, <2>1, <2>2, RepairCommit
  <2>3. CASE log' = log /\ EndAppend(a, "raised")
    BY <1>1, <2>3, RepairEndAppend
  <2>4. CASE log' = log /\ phase' = [phase EXCEPT ![a] = "begin"] /\ UNCHANGED <<pending, base, outcome>>
    BY <1>1, <2>1, <2>4, RepairAppendGoesOn
  <2> QED
    BY <1>3, <2>2, <2>3, <2>4 DEF InsertLocked
<1>4. CASE EnterIndex(a)
  <2>1. phase[a] # "none" /\ log' = log
    BY <1>4 DEF EnterIndex
  <2>2. CASE EndAppend(a, "raised")
    BY <1>1, <2>1, <2>2, RepairEndAppend
  <2>3. CASE phase' = [phase EXCEPT ![a] = "entered"] /\ UNCHANGED <<pending, base, outcome>>
    BY <1>1, <2>1, <2>3, RepairAppendGoesOn
  <2> QED
    BY <1>4, <2>2, <2>3 DEF EnterIndex
<1>5. CASE CommitEvent(a)
  BY <1>1, <1>5, RepairCommit DEF CommitEvent
<1>6. ASSUME NEW b \in BacktestWorker, BreakDeadlock(a, b) PROVE RepairInv'
  <2>1. b \in Appender /\ log' = log /\ (EndAppend(a, "raised") \/ EndAppend(b, "raised"))
    BY <1>6 DEF BreakDeadlock, Appender
  <2> QED
    BY <1>1, <2>1, RepairEndAppend
<1> QED
  BY <1>2, <1>3, <1>4, <1>5, <1>6 DEF LogStep, AppendStep

\* A backtest worker starts to append the end of its run.
LEMMA RepairPublish ==
    ASSUME RepairInv, LogInv, NEW b \in BacktestWorker,
           NEW type \in {"run.completed", "run.failed", "run.progress"}, Publish(b, type)
    PROVE  RepairInv'
<1>1. /\ UNCHANGED <<jobs, repaired, posted, pc, serves, candidates, sourceLog, log>>
      /\ pending' = [pending EXCEPT ![b] = type] /\ phase' = [phase EXCEPT ![b] = "begin"]
      /\ outcome' = [outcome EXCEPT ![b] = "none"]
  BY DEF Publish, BeginAppend, queue, worker, chat
<1>2. b \in Appender
  BY DEF Appender
<1>3. /\ pending'[b] = type /\ outcome'[b] = "none"
      /\ DOMAIN pending' = Appender /\ DOMAIN outcome' = Appender
      /\ \A a \in Appender \ {b} :
            phase'[a] = phase[a] /\ pending'[a] = pending[a] /\ outcome'[a] = outcome[a]
  BY <1>1, <1>2 DEF RepairInv, WorkerShape, LogInv, AppendShape
<1>4. pending'[b] # "repair.completed"
  BY <1>3
<1>5. Logged("repair.completed")' => Logged("repair.completed")
  BY <1>1 DEF Logged
<1> QED
  BY <1>1, <1>2, <1>3, <1>4, <1>5, LogMoves

----------------------------------------------------------------------------
(* The theorem.                                                            *)

\* Every step of the system keeps the invariant.
LEMMA RepairStep ==
    ASSUME RepairInv, LogInv, [Next]_vars
    PROVE  RepairInv'
<1>1. CASE UNCHANGED vars
  BY <1>1, RepairStill DEF vars, moving, eventVars, appending, queue, worker, chat
<1>2. ASSUME NEW b \in BacktestWorker,
             PublishEnd(b) \/ Publish(b, "run.progress") \/ LookForJob(b) \/ Enqueue(b)
      PROVE  RepairInv'
  <2>1. CASE LookForJob(b)
    BY <2>1, RepairStill DEF LookForJob, eventVars, appending, queue, worker, chat
  <2> QED
    BY <1>2, <2>1, RepairPublish, RepairEnqueue DEF PublishEnd
<1>3. ASSUME NEW r \in Reader, Read(r) \/ ReadSnapshot(r), UNCHANGED <<enqueue, queue, worker, chat>>
      PROVE  RepairInv'
  BY <1>3, RepairStill DEF Read, ReadSnapshot, appending, queue, worker, chat
<1>4. ASSUME NEW w \in ChatWorker, WorkStep(w) PROVE RepairInv'
  BY <1>4, RepairSelect, RepairClaim, RepairComplete, RepairBeginEvent, RepairEventEnds, RepairMirror,
     RepairGoto, RepairPostSummary, RepairCreateRun, RepairCreateJob DEF WorkStep
<1>5. ASSUME NEW w \in ChatWorker, Raise(w) \/ Crash(w) PROVE RepairInv'
  BY <1>5, RepairGoto, RepairCrash
<1>6. ASSUME NEW j \in Job, LeaseExpires(j) \/ RepairedPreviewEnds(j) PROVE RepairInv'
  BY <1>6, RepairLeaseExpires, RepairPreviewEnds
<1> QED
  BY <1>1, <1>2, <1>3, <1>4, <1>5, <1>6, RepairLogStep DEF Next, ReadStep

\* It holds when no job exists.
LEMMA RepairOfInit ==
    ASSUME Init
    PROVE  RepairInv
<1>1. jobs = [j \in Job |-> Absent] /\ repaired = [j \in Job |-> [bare |-> 0, queued |-> 0, ended |-> 0]]
  BY DEF Init
<1>2. Absent \in Row /\ Absent.status = "absent" /\ Absent.claims = 0
  BY DEF Absent, Row, Kinds, NoJob
<1>3. /\ \A j \in Job : jobs[j] = Absent /\ Made(j) = 0 /\ Created(j) = 0 /\ repaired[j].bare = 0
      /\ posted \in [Job -> Nat]
  BY <1>1 DEF Init, Made, Created
<1>4. RowShape
  BY <1>1, <1>2, <1>3 DEF RowShape
<1>5. /\ pc = [w \in ChatWorker |-> "idle"] /\ serves = [w \in ChatWorker |-> 0]
      /\ candidates = [w \in ChatWorker |-> {}]
  BY DEF Init, NoJob
<1>6. WorkerShape
  <2>1. pc \in [ChatWorker -> Labels] /\ serves \in [ChatWorker -> Nat]
    BY <1>5 DEF Labels
  <2>2. candidates \in [ChatWorker -> SUBSET Job]
    BY <1>5
  <2>3. DOMAIN pending = Appender /\ DOMAIN outcome = Appender
    BY DEF Init, EventsInit
  <2> QED
    BY <2>1, <2>2, <2>3 DEF WorkerShape
<1>7. ASSUME NEW j \in Job PROVE Budget(j)
  <2>1. Due(j) = {} /\ Open(j) = {}
    BY <1>5 DEF Due, DuePcs, Open
  <2>2. /\ IsFiniteSet(Due(j)) /\ Cardinality(Due(j)) = 0
        /\ IsFiniteSet(Open(j)) /\ Cardinality(Open(j)) = 0
    BY <2>1, FS_EmptySet
  <2> QED
    BY <1>2, <1>3, <2>2 DEF Budget, Paid, Bare
<1>8. \A a \in Appender : phase[a] = "none"
  BY DEF Init, EventsInit
<1>9. ASSUME NEW w \in ChatWorker PROVE Work(w)
  <2>1. phase[w] = "none" /\ pc[w] = "idle"
    BY <1>5, <1>8 DEF Appender
  <2> QED
    BY <2>1 DEF Work
<1>10. Told
  <2>1. ~Logged("repair.completed")
    BY DEF Init, EventsInit, Logged
  <2>2. \A j \in Job : jobs[j].status # "failed"
    BY <1>2, <1>3
  <2> QED
    BY <1>8, <2>1, <2>2 DEF Told, Appender
<1> QED
  BY <1>4, <1>6, <1>7, <1>9, <1>10 DEF RepairInv

\* What is shown of repairs follows from the invariant.
LEMMA RepairsFollow ==
    ASSUME RepairInv
    PROVE  RepairsAreBounded
<1>1. ASSUME NEW j \in Job
      PROVE  repaired[j].bare + repaired[j].queued + repaired[j].ended <= jobs[j].claims
  <2>1. /\ Cardinality(Due(j)) \in Nat /\ Created(j) \in Int /\ jobs[j].claims \in Nat
        /\ repaired[j] \in [bare : Int, queued : Nat, ended : Nat] /\ posted[j] \in Nat
    BY FS_CardinalityType, CreatedTypes DEF RepairInv, RowShape, Budget, Paid
  <2>2. Created(j) <= jobs[j].claims
    BY <2>1 DEF RepairInv, Budget, Paid
  <2> QED
    BY <2>1, <2>2 DEF Created
<1>2. Logged("repair.completed") =>
         \E j \in Job : Followed(j) /\ repaired[j].queued + repaired[j].ended > 0
  BY DEF RepairInv, Told, SomeQueued, Made
<1>3. \A j \in Job : jobs[j].status = "failed" =>
         "chain.failed" \in sourceLog /\ (Followed(j) => Logged("chain.failed"))
  BY DEF RepairInv, Told, Reported
<1> QED
  BY <1>1, <1>2, <1>3 DEF RepairsAreBounded

\* In every environment a repair queues no more previews than its job was claimed, what
\* the log announces as repaired is queued, and a job that failed has said so in both
\* logs (process_preview_compatibility_repair_job, run_chat_worker).
THEOREM RepairsStayBounded == Spec => []RepairsAreBounded
<1>1. Init => LogInv /\ RepairInv
  BY LogOfInit, RepairOfInit
<1>2. LogInv /\ RepairInv /\ [Next]_vars => LogInv' /\ RepairInv'
  BY LogStepKeeps, RepairStep
<1>3. RepairInv => RepairsAreBounded
  BY RepairsFollow
<1> QED
  BY <1>1, <1>2, <1>3, PTL DEF Spec

----------------------------------------------------------------------------
(* Part 3: summaries.                                                      *)

SomePosted   == \E j \in Job : Followed(j) /\ Posted(j)
PostedFor(j) == IF Followed(j) THEN SomePosted ELSE Posted(j)
Announced(j) == IsMarked(j) /\ "summary.completed" \in sourceLog

RepairPcs == {"started", "startedMirror", "model", "createRun", "createJob", "waiting",
              "repairFailed", "repairFailedMirror"}

\* What a worker knows of its summary where it stands.
SumWork(w) ==
    /\ pc[w] \in RepairPcs => jobs[serves[w]].kind = "repair"
    /\ phase[w] # "none" /\ pending[w] = "summary.completed" => SomePosted
    /\ pc[w] = "post" /\ marked[w] => PostedFor(serves[w])
    /\ pc[w] = "event" /\ jobs[serves[w]].kind = "summary" =>
          /\ PostedFor(serves[w])
          /\ phase[w] # "none" \/ outcome[w] # "none" => Followed(serves[w])
          /\ phase[w] # "none" => pending[w] = "summary.completed"
          /\ outcome[w] = "appended" => Logged("summary.completed")
    /\ pc[w] = "eventMirror" /\ jobs[serves[w]].kind = "summary" => IsMarked(serves[w])
    /\ pc[w] = "complete" /\ jobs[serves[w]].kind = "summary" => Announced(serves[w])

\* What the logs and the rows tell of summaries is true.
SumTold ==
    /\ Logged("summary.completed") => SomePosted
    /\ \A j \in Job : jobs[j].kind = "summary" /\ jobs[j].status = "completed" => Announced(j)
    /\ \A j \in Job : jobs[j].kind = "summary" /\ ~Followed(j) /\ jobs[j].marked => Posted(j)
    /\ \A b \in BacktestWorker : phase[b] # "none" => pending[b] # "summary.completed"

SumInv ==
    /\ marked \in [ChatWorker -> BOOLEAN]
    /\ SumTold
    /\ \A w \in ChatWorker : SumWork(w)

\* What is put into a row, a log or the conversation stays.
Further ==
    /\ \A j \in Job : jobs[j].status # "absent" =>
          /\ jobs'[j].of = jobs[j].of /\ jobs'[j].kind = jobs[j].kind
          /\ jobs[j].marked => jobs'[j].marked
    /\ \A j \in Job : posted[j] <= posted'[j]
    /\ log \subseteq log' /\ sourceLog \subseteq sourceLog'

\* What a claim does.
LEMMA ClaimEffect ==
    ASSUME NEW w \in ChatWorker, ClaimRunJob(w)
    PROVE  /\ pc[w] = "lock" /\ phase[w] = "none" /\ outcome[w] = "none"
           /\ UNCHANGED <<log, phase, pending, outcome, setting, enqueue, repaired, chat>>
           /\ \/ Return(w) /\ jobs' = jobs
              \/ \E i \in candidates[w] :
                    /\ Claimable(i)
                    /\ jobs' = [jobs EXCEPT ![i] = Leased(i, w)]
                    /\ serves' = [serves EXCEPT ![w] = i]
                    /\ candidates' = [candidates EXCEPT ![w] = {}] /\ marked' = marked
                    /\ pc' = [pc EXCEPT ![w] = IF jobs[i].kind = "summary" THEN "look" ELSE "started"]
<1>1. /\ pc[w] = "lock" /\ phase[w] = "none" /\ outcome[w] = "none"
      /\ UNCHANGED <<log, phase, pending, outcome, setting, enqueue, repaired, chat>>
  BY DEF ClaimRunJob, At, Idle, eventVars, appending
<1>2. ASSUME ~(Return(w) /\ jobs' = jobs)
      PROVE  \E i \in candidates[w] :
                /\ Claimable(i)
                /\ jobs' = [jobs EXCEPT ![i] = Leased(i, w)]
                /\ serves' = [serves EXCEPT ![w] = i]
                /\ candidates' = [candidates EXCEPT ![w] = {}] /\ marked' = marked
                /\ pc' = [pc EXCEPT ![w] = IF jobs[i].kind = "summary" THEN "look" ELSE "started"]
  BY <1>2 DEF ClaimRunJob
<1> QED
  BY <1>1, <1>2

\* What a claim writes keeps what the row is about.
LEMMA FurtherStep ==
    ASSUME RepairInv, [Next]_vars
    PROVE  Further
<1> DEFINE Same == UNCHANGED <<jobs, posted, log, sourceLog>>
<1>1. jobs \in [Job -> Row] /\ posted \in [Job -> Nat]
  BY DEF RepairInv, RowShape
<1>2. ASSUME Same PROVE Further
  BY <1>1, <1>2 DEF Further
<1>3. ASSUME UNCHANGED <<posted, log, sourceLog>>,
             \A j \in Job : jobs[j].status # "absent" =>
                 /\ jobs'[j].of = jobs[j].of /\ jobs'[j].kind = jobs[j].kind
                 /\ jobs[j].marked => jobs'[j].marked
      PROVE  Further
  BY <1>1, <1>3 DEF Further
<1>4. CASE UNCHANGED vars
  BY <1>2, <1>4 DEF vars, moving, eventVars, queue, chat
<1>5. ASSUME NEW b \in BacktestWorker, NEW type, Publish(b, type) \/ LookForJob(b) PROVE Further
  BY <1>2, <1>5 DEF Publish, BeginAppend, LookForJob, eventVars, queue, chat
<1>6. ASSUME NEW of \in Nat, NEW level \in Nat, NEW kind \in Kinds, InsertJob(kind, of, level),
             UNCHANGED <<posted, log, sourceLog>>
      PROVE  Further
  <2>1. \A j \in Job : jobs[j].status # "absent" => jobs'[j] = jobs[j]
    BY <1>6, InsertRows DEF RepairInv
  <2> QED
    BY <1>3, <1>6, <2>1
<1>7. ASSUME NEW b \in BacktestWorker, Enqueue(b) PROVE Further
  <2>1. UNCHANGED <<posted, log, sourceLog>>
    BY <1>7 DEF Enqueue, eventVars, chat
  <2>2. jobs' = jobs \/ InsertJob("summary", NoJob, 0) \/ InsertJob("repair", NoJob, 1)
    BY <1>7 DEF Enqueue
  <2> QED
    BY <1>2, <1>6, <2>1, <2>2 DEF Kinds, NoJob
<1>8. ASSUME NEW i \in Job, RepairedPreviewEnds(i) PROVE Further
  <2>1. UNCHANGED <<posted, log, sourceLog>>
    BY <1>8 DEF RepairedPreviewEnds, eventVars, chat
  <2>2. i \in Nat /\ jobs[i].level \in Nat
    BY <1>1, ContinuationAssumption DEF Row
  <2>3. jobs' = jobs \/ \E kind \in Kinds, level \in Nat : InsertJob(kind, i, level)
    BY <1>8, <2>2 DEF RepairedPreviewEnds, Kinds
  <2> QED
    BY <1>2, <1>6, <2>1, <2>2, <2>3
<1>9. ASSUME NEW i \in Job, LeaseExpires(i) PROVE Further
  <2>1. UNCHANGED <<posted, log, sourceLog>> /\ jobs' = [jobs EXCEPT ![i].leased = FALSE]
    BY <1>9 DEF LeaseExpires, eventVars, chat
  <2>2. \A j \in Job : /\ jobs'[j].of = jobs[j].of /\ jobs'[j].kind = jobs[j].kind
                       /\ jobs'[j].marked = jobs[j].marked
    BY <1>1, <2>1 DEF Row
  <2> QED
    BY <1>3, <2>1, <2>2
<1>10. ASSUME NEW w \in ChatWorker, ClaimRunJob(w) PROVE Further
  <2>1. UNCHANGED <<posted, log, sourceLog>>
    BY <1>10, ClaimEffect DEF chat
  <2>2. CASE Return(w) /\ jobs' = jobs
    BY <1>2, <2>1, <2>2
  <2>3. CASE ~(Return(w) /\ jobs' = jobs)
    <3>1. PICK i \in candidates[w] :
            jobs' = [jobs EXCEPT ![i] = Leased(i, w)]
      BY <1>10, <2>3, ClaimEffect
    <3>2. \A j \in Job : /\ jobs'[j].of = jobs[j].of /\ jobs'[j].kind = jobs[j].kind
                         /\ jobs'[j].marked = jobs[j].marked
      BY <1>1, <3>1 DEF Row, Leased
    <3> QED
      BY <1>3, <2>1, <3>2
  <2> QED
    BY <2>2, <2>3
<1>11. ASSUME NEW w \in ChatWorker, Complete(w) \/ FailJob(w) PROVE Further
  <2>1. PICK status : CompleteRunJob(w, status)
    BY <1>11 DEF Complete, FailJob
  <2>2. /\ UNCHANGED <<posted, log, sourceLog>>
        /\ jobs' = [jobs EXCEPT ![serves[w]].status = status, ![serves[w]].owner = Nobody,
                                ![serves[w]].leased = FALSE]
    BY <2>1 DEF CompleteRunJob, eventVars, chat
  <2>3. \A j \in Job : /\ jobs'[j].of = jobs[j].of /\ jobs'[j].kind = jobs[j].kind
                       /\ jobs'[j].marked = jobs[j].marked
    BY <1>1, <2>2 DEF Row
  <2> QED
    BY <1>3, <2>2, <2>3
<1>12. ASSUME NEW w \in ChatWorker, BeginEvent(w) PROVE Further
  <2>1. UNCHANGED <<posted, log, sourceLog>>
    BY <1>12 DEF BeginEvent, BeginAppend, eventVars, chat
  <2>2. CASE jobs' = jobs
    BY <1>2, <2>1, <2>2
  <2>3. CASE jobs' # jobs
    <3>1. jobs' = [jobs EXCEPT ![serves[w]].marked = @ \/ pc[w] = "event"]
      BY <1>12, <2>3 DEF BeginEvent, queue
    <3>2. \A j \in Job : /\ jobs'[j].of = jobs[j].of /\ jobs'[j].kind = jobs[j].kind
                         /\ jobs[j].marked => jobs'[j].marked
      BY <1>1, <3>1 DEF Row
    <3> QED
      BY <1>3, <2>1, <3>2
  <2> QED
    BY <2>2, <2>3
<1>13. ASSUME NEW w \in ChatWorker, PostSummary(w) PROVE Further
  <2>1. /\ UNCHANGED <<jobs, log, sourceLog>> /\ pc[w] = "post"
        /\ posted' = [posted EXCEPT ![serves[w]] = IF marked[w] THEN @ ELSE @ + 1]
    BY <1>13 DEF PostSummary, At, eventVars, queue
  <2>2. \A j \in Job : posted[j] \in Nat /\ posted[j] <= posted'[j]
    <3> SUFFICES ASSUME NEW j \in Job PROVE posted[j] \in Nat /\ posted[j] <= posted'[j]
      OBVIOUS
    <3>1. posted[j] \in Nat /\ (posted'[j] = posted[j] \/ posted'[j] = posted[j] + 1)
      BY <1>1, <2>1
    <3> QED
      BY <3>1
  <2> QED
    BY <2>1, <2>2 DEF Further
<1>14. ASSUME NEW w \in ChatWorker, MirrorEvent(w) \/ AppendWaiting(w) PROVE Further
  <2>1. UNCHANGED <<jobs, posted, log>> /\ sourceLog \subseteq sourceLog'
    BY <1>14 DEF MirrorEvent, AppendWaiting, eventVars, queue
  <2> QED
    BY <1>1, <2>1 DEF Further
<1>15. ASSUME NEW w \in ChatWorker,
              \/ SelectCandidates(w) \/ EventEnds(w) \/ LookForSummary(w) \/ AskModel(w)
              \/ CreateRepairedRun(w) \/ CreateRepairedJob(w) \/ Raise(w) \/ Crash(w)
       PROVE  Further
  BY <1>2, <1>15 DEF SelectCandidates, EventEnds, LookForSummary, AskModel, CreateRepairedRun,
                     CreateRepairedJob, Raise, Crash, AbortAppend, eventVars, queue, chat
<1>16. ASSUME NEW a \in Appender, LogStep(a) PROVE Further
  <2>1. UNCHANGED <<jobs, posted, sourceLog>>
    BY <1>16 DEF LogStep, queue, chat
  <2>2. log \subseteq log'
    BY <1>16 DEF LogStep, AppendStep, LockRun, InsertLocked, ReadSequence, EnterIndex, CommitEvent,
                 BreakDeadlock, Commit
  <2> QED
    BY <1>1, <2>1, <2>2 DEF Further
<1>17. ASSUME NEW r \in Reader, Read(r) \/ ReadSnapshot(r), UNCHANGED <<queue, chat>> PROVE Further
  BY <1>2, <1>17 DEF Read, ReadSnapshot, queue, chat
<1>18. ASSUME NEW w \in ChatWorker, WorkStep(w) PROVE Further
  BY <1>10, <1>11, <1>12, <1>13, <1>14, <1>15, <1>18 DEF WorkStep
<1> QED
  BY <1>4, <1>5, <1>7, <1>8, <1>9, <1>15, <1>16, <1>17, <1>18 DEF Next, PublishEnd, ReadStep

\* What was true of them stays true then.
LEMMA FurtherKeeps ==
    ASSUME RepairInv, posted' \in [Job -> Nat], Further
    PROVE  /\ SomePosted => SomePosted'
           /\ \A type : Logged(type) => Logged(type)'
           /\ \A j \in Job : jobs[j].status # "absent" =>
                 /\ Followed(j)' <=> Followed(j)
                 /\ Posted(j) => Posted(j)'
                 /\ PostedFor(j) => PostedFor(j)'
                 /\ IsMarked(j) => IsMarked(j)'
                 /\ Announced(j) => Announced(j)'
<1>1. \A j \in Job : jobs[j].status # "absent" => (Followed(j)' <=> Followed(j))
  BY DEF Further, Followed
<1>2. ASSUME NEW type, Logged(type) PROVE Logged(type)'
  BY <1>2 DEF Logged, Further
<1>3. ASSUME NEW j \in Job, Posted(j) PROVE jobs[j].status # "absent" /\ Posted(j)'
  <2>1. posted[j] \in Nat /\ posted'[j] \in Nat /\ posted[j] > 0 /\ posted[j] <= posted'[j]
    BY <1>3 DEF Posted, Further, RepairInv, RowShape
  <2>2. /\ Cardinality(Due(j)) \in Nat /\ jobs[j].claims \in Nat
        /\ repaired[j].queued + repaired[j].ended \in Nat /\ repaired[j].bare \in Int
        /\ repaired[j].queued \in Nat /\ repaired[j].ended \in Nat
    BY FS_CardinalityType DEF RepairInv, RowShape, Row, Budget, Paid
  <2>3. /\ Cardinality(Due(j)) + (repaired[j].bare + repaired[j].queued + repaired[j].ended + posted[j])
             <= jobs[j].claims
        /\ Cardinality(Open(j)) \in Nat /\ Cardinality(Open(j)) <= repaired[j].bare
    BY FS_CardinalityType DEF RepairInv, Budget, Paid, Bare, Created
  <2>4. jobs[j].claims > 0
    BY <2>1, <2>2, <2>3
  <2> QED
    BY <2>1, <2>2, <2>4 DEF RepairInv, RowShape, Posted
<1>4. SomePosted => SomePosted'
  BY <1>1, <1>3 DEF SomePosted
<1>5. \A j \in Job : jobs[j].status # "absent" => (PostedFor(j) => PostedFor(j)')
  BY <1>1, <1>3, <1>4 DEF PostedFor
<1>6. ASSUME NEW j \in Job, jobs[j].status # "absent", IsMarked(j) PROVE IsMarked(j)'
  BY <1>1, <1>2, <1>6 DEF IsMarked, Further
<1>7. \A j \in Job : jobs[j].status # "absent" => (Announced(j) => Announced(j)')
  BY <1>6 DEF Announced, Further
<1> QED
  BY <1>1, <1>2, <1>3, <1>4, <1>5, <1>6, <1>7

\* A worker that does not act knows what it knew.
LEMMA SumOthers ==
    ASSUME RepairInv, posted' \in [Job -> Nat], Further, NEW w \in ChatWorker, SumWork(w),
           pc'[w] = pc[w], serves'[w] = serves[w], marked'[w] = marked[w], phase'[w] = phase[w],
           pending'[w] = pending[w], outcome'[w] = outcome[w]
    PROVE  SumWork(w)'
<1>1. PICK j : j = serves[w]
  OBVIOUS
<1>2. serves[w] = j /\ serves'[w] = j
  BY <1>1
<1>3. SomePosted => SomePosted'
  BY FurtherKeeps
<1>4. CASE pc[w] \in {"idle", "lock"}
  BY <1>3, <1>4 DEF SumWork, RepairPcs
<1>5. CASE pc[w] \notin {"idle", "lock"}
  <2>1. j \in Job /\ jobs[j].status # "absent"
    BY <1>1, <1>5 DEF RepairInv, Work
  <2>2. /\ jobs'[j].kind = jobs[j].kind
        /\ Followed(j)' <=> Followed(j)
        /\ PostedFor(j) => PostedFor(j)'
        /\ IsMarked(j) => IsMarked(j)'
        /\ Announced(j) => Announced(j)'
        /\ Logged("summary.completed") => Logged("summary.completed")'
    BY <2>1, FurtherKeeps DEF Further
  <2>3. /\ PostedFor(serves[w])' <=> PostedFor(j)'
        /\ Followed(serves[w])' <=> Followed(j)'
        /\ IsMarked(serves[w])' <=> IsMarked(j)'
        /\ Announced(serves[w])' <=> Announced(j)'
    BY <1>2 DEF PostedFor, Followed, IsMarked, Announced, SomePosted, Posted, Logged
  <2>4. /\ pc[w] = "post" /\ marked[w] => PostedFor(j)'
        /\ pc[w] = "eventMirror" /\ jobs[j].kind = "summary" => IsMarked(j)'
        /\ pc[w] = "complete" /\ jobs[j].kind = "summary" => Announced(j)'
    BY <1>2, <2>2 DEF SumWork
  <2>5. pc[w] = "event" /\ jobs[j].kind = "summary" =>
          /\ PostedFor(j)'
          /\ phase[w] # "none" \/ outcome[w] # "none" => Followed(j)'
          /\ phase[w] # "none" => pending[w] = "summary.completed"
          /\ outcome[w] = "appended" => Logged("summary.completed")'
    BY <1>2, <2>2 DEF SumWork
  <2>6. pc[w] \in RepairPcs => jobs[j].kind = "repair"
    BY <1>2 DEF SumWork
  <2>7. phase[w] # "none" /\ pending[w] = "summary.completed" => SomePosted'
    BY <1>3 DEF SumWork
  <2> QED
    BY <1>2, <2>2, <2>3, <2>4, <2>5, <2>6, <2>7 DEF SumWork
<1> QED
  BY <1>4, <1>5

\* It is enough to look at the one who acts, and at what is new.
LEMMA SumActs ==
    ASSUME RepairInv, SumInv, RepairInv', Further, NEW a \in Appender,
           marked' \in [ChatWorker -> BOOLEAN],
           \A v \in ChatWorker \ {a} : pc'[v] = pc[v] /\ serves'[v] = serves[v] /\ marked'[v] = marked[v],
           \A b \in Appender \ {a} :
               phase'[b] = phase[b] /\ pending'[b] = pending[b] /\ outcome'[b] = outcome[b],
           Logged("summary.completed")' => Logged("summary.completed") \/ SomePosted,
           \A j \in Job : jobs'[j].kind = "summary" /\ jobs'[j].status = "completed" =>
               \/ jobs[j].kind = "summary" /\ jobs[j].status = "completed"
               \/ Announced(j)',
           \A j \in Job : jobs'[j].kind = "summary" /\ ~Followed(j)' /\ jobs'[j].marked =>
               \/ jobs[j].kind = "summary" /\ ~Followed(j) /\ jobs[j].marked
               \/ Posted(j)',
           a \in BacktestWorker /\ phase'[a] # "none" =>
               \/ pending'[a] # "summary.completed"
               \/ phase[a] # "none" /\ pending'[a] = pending[a],
           a \in ChatWorker => SumWork(a)'
    PROVE  SumInv'
<1>1. posted' \in [Job -> Nat]
  BY DEF RepairInv, RowShape
<1>2. /\ SomePosted => SomePosted'
      /\ \A j \in Job : jobs[j].status # "absent" =>
            (Posted(j) => Posted(j)') /\ (Announced(j) => Announced(j)')
  BY <1>1, FurtherKeeps
<1>3. ASSUME NEW v \in ChatWorker, v # a PROVE SumWork(v)'
  BY <1>1, <1>3, SumOthers DEF SumInv, Appender
<1>4. \A j \in Job : jobs'[j].kind = "summary" /\ jobs'[j].status = "completed" => Announced(j)'
  BY <1>2 DEF SumInv, SumTold
<1>5. ASSUME NEW j \in Job, jobs'[j].kind = "summary", ~Followed(j)', jobs'[j].marked PROVE Posted(j)'
  <2>1. CASE ~Posted(j)'
    <3>1. Posted(j)
      BY <1>5, <2>1 DEF SumInv, SumTold
    <3>2. posted[j] \in Nat /\ posted'[j] \in Nat /\ posted[j] <= posted'[j]
      BY <1>1 DEF Further, RepairInv, RowShape
    <3> QED
      BY <3>1, <3>2 DEF Posted
  <2> QED
    BY <2>1
<1>6. Logged("summary.completed")' => SomePosted'
  BY <1>2 DEF SumInv, SumTold
<1>7. \A b \in BacktestWorker : phase'[b] # "none" => pending'[b] # "summary.completed"
  BY DEF SumInv, SumTold, Appender
<1>8. SumTold'
  BY <1>4, <1>5, <1>6, <1>7 DEF SumTold
<1> QED
  BY <1>3, <1>8 DEF SumInv

\* A worker that goes on to a statement, while rows, previews and messages stay as
\* they are.
LEMMA SumGoto ==
    ASSUME RepairInv, SumInv, RepairInv', Further, NEW w \in ChatWorker, NEW l \in Labels,
           pc' = [pc EXCEPT ![w] = l], marked' \in [ChatWorker -> BOOLEAN],
           UNCHANGED <<serves, jobs, posted, log, phase, pending>>,
           pc[w] # "idle", phase[w] = "none",
           \A v \in ChatWorker \ {w} : marked'[v] = marked[v],
           \A a \in Appender \ {w} : outcome'[a] = outcome[a],
           l \in RepairPcs => jobs[serves[w]].kind = "repair",
           l = "post" => (marked'[w] => PostedFor(serves[w])),
           l = "event" => jobs[serves[w]].kind # "summary",
           l = "eventMirror" => (jobs[serves[w]].kind = "summary" => IsMarked(serves[w])),
           l = "complete" => (jobs[serves[w]].kind = "summary" => Announced(serves[w])')
    PROVE  SumInv'
<1>1. w \in Appender /\ w \notin BacktestWorker
  BY ContinuationAssumption DEF Appender
<1>2. pc'[w] = l /\ \A v \in ChatWorker \ {w} : pc'[v] = pc[v]
  BY DEF RepairInv, WorkerShape
<1>3. \A j : (PostedFor(j)' <=> PostedFor(j)) /\ (IsMarked(j)' <=> IsMarked(j)) /\ (Followed(j)' <=> Followed(j))
  BY DEF PostedFor, IsMarked, Followed, SomePosted, Posted, Logged
<1>4. PostedFor(serves[w])' <=> PostedFor(serves[w])
  BY DEF PostedFor, Followed, SomePosted, Posted
<1>5. IsMarked(serves[w])' <=> IsMarked(serves[w])
  BY DEF IsMarked, Followed, Logged
<1>6. SumWork(w)'
  BY <1>2, <1>4, <1>5 DEF SumWork
<1>7. Logged("summary.completed")' => Logged("summary.completed")
  BY DEF Logged
<1>8. \A j \in Job : jobs'[j] = jobs[j]
  OBVIOUS
<1> QED
  BY <1>1, <1>2, <1>3, <1>6, <1>7, <1>8, SumActs

\* A worker that is done with its job, or found none.
LEMMA SumReturn ==
    ASSUME RepairInv, SumInv, RepairInv', Further, NEW w \in ChatWorker, Return(w),
           UNCHANGED <<posted, log, sourceLog>>,
           \A a \in Appender \ {w} :
               phase'[a] = phase[a] /\ pending'[a] = pending[a] /\ outcome'[a] = outcome[a],
           phase'[w] = "none",
           \A j \in Job : jobs[j].status # "absent" => jobs'[j].marked = jobs[j].marked,
           \A j \in Job : jobs[j].status = "absent" => jobs'[j] = jobs[j],
           \A j \in Job : jobs'[j].kind = "summary" /\ jobs'[j].status = "completed" =>
               \/ jobs[j].kind = "summary" /\ jobs[j].status = "completed"
               \/ Announced(j)'
    PROVE  SumInv'
<1>1. w \in Appender /\ w \notin BacktestWorker
  BY ContinuationAssumption DEF Appender
<1>2. /\ pc' = [pc EXCEPT ![w] = "idle"] /\ serves' = [serves EXCEPT ![w] = NoJob]
      /\ marked' = [marked EXCEPT ![w] = FALSE]
  BY DEF Return
<1>3. /\ pc'[w] = "idle" /\ marked' \in [ChatWorker -> BOOLEAN]
      /\ \A v \in ChatWorker \ {w} : pc'[v] = pc[v] /\ serves'[v] = serves[v] /\ marked'[v] = marked[v]
  BY <1>2 DEF RepairInv, WorkerShape, SumInv
<1>4. SumWork(w)'
  BY <1>3 DEF SumWork, RepairPcs
<1>5. Logged("summary.completed")' => Logged("summary.completed")
  BY DEF Logged
<1>6. \A j \in Job : /\ jobs'[j].kind = jobs[j].kind /\ jobs'[j].marked = jobs[j].marked
                     /\ (Followed(j)' <=> Followed(j))
  BY DEF Further, Followed
<1> QED
  BY <1>1, <1>3, <1>4, <1>5, <1>6, SumActs

\* Nothing of it moves.
LEMMA SumStill ==
    ASSUME SumInv,
           UNCHANGED <<jobs, posted, pc, serves, marked, log, sourceLog, phase, pending, outcome>>
    PROVE  SumInv'
<1>1. SumTold'
  BY DEF SumInv, SumTold, SomePosted, Posted, Followed, Logged, Announced, IsMarked
<1>2. ASSUME NEW w \in ChatWorker PROVE SumWork(w)'
  BY DEF SumInv, SumWork, PostedFor, SomePosted, Posted, Followed, Logged, Announced, IsMarked
<1> QED
  BY <1>1, <1>2 DEF SumInv

\* Rows move, and no worker.
LEMMA SumRows ==
    ASSUME RepairInv, SumInv, RepairInv', Further,
           UNCHANGED <<posted, pc, serves, marked, log, sourceLog, phase, pending, outcome>>,
           \A j \in Job : jobs'[j].status = "completed" => jobs[j].status = "completed" /\ jobs'[j] = jobs[j],
           \A j \in Job : jobs'[j].marked => jobs[j].marked /\ jobs'[j].of = jobs[j].of /\ jobs'[j].kind = jobs[j].kind
    PROVE  SumInv'
<1>1. PICK w \in ChatWorker : TRUE
  BY ContinuationAssumption
<1>2. w \in Appender /\ w \notin BacktestWorker
  BY <1>1, ContinuationAssumption DEF Appender
<1>3. SumWork(w)'
  BY SumOthers DEF SumInv, RepairInv, RowShape
<1>4. Logged("summary.completed")' => Logged("summary.completed")
  BY DEF Logged
<1>5. \A j \in Job : jobs'[j].kind = "summary" /\ ~Followed(j)' /\ jobs'[j].marked =>
         jobs[j].kind = "summary" /\ ~Followed(j) /\ jobs[j].marked
  BY DEF Followed
<1>6. \A j \in Job : jobs'[j].kind = "summary" /\ jobs'[j].status = "completed" =>
         jobs[j].kind = "summary" /\ jobs[j].status = "completed"
  OBVIOUS
<1>7. marked' \in [ChatWorker -> BOOLEAN]
  BY DEF SumInv
<1> QED
  BY <1>2, <1>3, <1>4, <1>5, <1>6, <1>7, SumActs

\* A new row is neither marked nor completed.
LEMMA InsertIsNew ==
    ASSUME RowShape, NEW kind, NEW of, NEW level, InsertJob(kind, of, level)
    PROVE  /\ \A j \in Job : jobs'[j].status = "completed" => jobs[j].status = "completed" /\ jobs'[j] = jobs[j]
           /\ \A j \in Job : jobs'[j].marked => jobs'[j] = jobs[j]
<1>1. PICK i \in FreeJobs :
        jobs' = [jobs EXCEPT ![i] = [Absent EXCEPT !.kind = kind, !.of = of, !.level = level,
                                                   !.status = "queued"]]
  BY DEF InsertJob
<1>2. PICK row : row = [Absent EXCEPT !.kind = kind, !.of = of, !.level = level, !.status = "queued"]
  OBVIOUS
<1>3. row.status = "queued" /\ row.marked = FALSE
  BY <1>2 DEF Absent
<1>4. jobs' = [jobs EXCEPT ![i] = row]
  BY <1>1, <1>2
<1>5. \A j \in Job : jobs'[j] = row \/ jobs'[j] = jobs[j]
  BY <1>4 DEF RowShape
<1> QED
  BY <1>3, <1>5

\* Jobs are inserted, and leases lapse.
LEMMA SumRowSteps ==
    ASSUME RepairInv, SumInv, RepairInv', Further,
           \/ \E b \in BacktestWorker : Enqueue(b)
           \/ \E i \in Job : LeaseExpires(i) \/ RepairedPreviewEnds(i)
    PROVE  SumInv'
<1>1. UNCHANGED <<posted, pc, serves, marked, log, sourceLog, phase, pending, outcome>>
  BY DEF Enqueue, LeaseExpires, RepairedPreviewEnds, eventVars, appending, worker, chat
<1>2. jobs \in [Job -> Row]
  BY DEF RepairInv, RowShape
<1>3. CASE jobs' = jobs
  BY <1>1, <1>3, SumStill
<1>4. CASE \E kind, of, level : InsertJob(kind, of, level)
  <2>1. PICK kind, of, level : InsertJob(kind, of, level)
    BY <1>4
  <2>2. /\ \A j \in Job : jobs'[j].status = "completed" => jobs[j].status = "completed" /\ jobs'[j] = jobs[j]
        /\ \A j \in Job : jobs'[j].marked => jobs'[j] = jobs[j]
    BY <2>1, InsertIsNew DEF RepairInv
  <2> QED
    BY <1>1, <2>2, SumRows
<1>5. CASE \E i \in Job : LeaseExpires(i)
  <2>1. PICK i \in Job : jobs[i].leased /\ jobs' = [jobs EXCEPT ![i].leased = FALSE]
    BY <1>5 DEF LeaseExpires
  <2>2. \A j \in Job : /\ jobs'[j].status = jobs[j].status /\ jobs'[j].marked = jobs[j].marked
                       /\ jobs'[j].of = jobs[j].of /\ jobs'[j].kind = jobs[j].kind
    BY <1>2, <2>1 DEF Row
  <2>3. PICK w \in ChatWorker : TRUE
    BY ContinuationAssumption
  <2>4. w \in Appender /\ w \notin BacktestWorker
    BY <2>3, ContinuationAssumption DEF Appender
  <2>5. SumWork(w)'
    BY <1>1, SumOthers DEF SumInv, RepairInv, RowShape
  <2>6. Logged("summary.completed")' => Logged("summary.completed")
    BY <1>1 DEF Logged
  <2>7. \A j \in Job : Followed(j)' <=> Followed(j)
    BY <2>2 DEF Followed
  <2>8. marked' \in [ChatWorker -> BOOLEAN]
    BY <1>1 DEF SumInv
  <2> QED
    BY <1>1, <2>2, <2>4, <2>5, <2>6, <2>7, <2>8, SumActs
<1>6. jobs' = jobs \/ (\E kind, of, level : InsertJob(kind, of, level)) \/ \E i \in Job : LeaseExpires(i)
  BY DEF Enqueue, RepairedPreviewEnds
<1> QED
  BY <1>3, <1>4, <1>5, <1>6

\* Statements that only lead on to another one.
LEMMA SumMove ==
    ASSUME RepairInv, SumInv, RepairInv', Further, NEW w \in ChatWorker,
           \/ AskModel(w) \/ AppendWaiting(w) \/ Raise(w) \/ CreateRepairedRun(w) \/ CreateRepairedJob(w)
    PROVE  SumInv'
<1>1. /\ phase[w] = "none" /\ outcome[w] = "none" /\ pc[w] # "idle" /\ marked' = marked
      /\ UNCHANGED <<serves, jobs, posted, log, phase, pending, outcome>>
  BY DEF AskModel, AppendWaiting, Raise, CreateRepairedRun, CreateRepairedJob, At, Goto, Idle, eventVars,
         appending, queue, chat
<1>2. PICK l \in Labels :
        /\ pc' = [pc EXCEPT ![w] = l]
        /\ l \in {"createRun", "repairFailed", "complete", "autoFailed", "createJob", "event"}
        /\ l # "autoFailed" => pc[w] \in {"model", "waiting", "createRun", "createJob"}
  BY DEF AskModel, AppendWaiting, Raise, CreateRepairedRun, CreateRepairedJob, At, Goto, Labels
<1>3. l # "autoFailed" => jobs[serves[w]].kind = "repair"
  BY <1>2 DEF RepairPcs, SumInv, SumWork
<1>4. marked' \in [ChatWorker -> BOOLEAN]
  BY <1>1 DEF SumInv
<1> QED
  BY <1>1, <1>2, <1>3, <1>4, SumGoto DEF RepairPcs

\* The worker looks whether its summary is announced.
LEMMA SumLook ==
    ASSUME RepairInv, SumInv, RepairInv', Further, NEW w \in ChatWorker, LookForSummary(w)
    PROVE  SumInv'
<1> DEFINE i == serves[w]
<1>1. /\ phase[w] = "none" /\ pc[w] = "look" /\ pc' = [pc EXCEPT ![w] = "post"]
      /\ marked' = [marked EXCEPT ![w] = IF Followed(i) THEN Logged("summary.completed") ELSE jobs[i].marked]
      /\ UNCHANGED <<serves, jobs, posted, log, phase, pending, outcome>>
  BY DEF LookForSummary, At, Idle, eventVars, appending, queue, chat
<1>2. i \in Job /\ jobs[i].kind = "summary" /\ jobs[i].marked \in BOOLEAN
  BY <1>1 DEF RepairInv, Work, RowShape, Row
<1>3. PICK m \in BOOLEAN : m <=> IF Followed(i) THEN Logged("summary.completed") ELSE jobs[i].marked
  OBVIOUS
<1>4. marked' \in [ChatWorker -> BOOLEAN] /\ \A v \in ChatWorker \ {w} : marked'[v] = marked[v]
  BY <1>1, <1>2 DEF SumInv, Logged
<1>5. marked'[w] => PostedFor(i)
  <2>1. marked'[w] => IF Followed(i) THEN Logged("summary.completed") ELSE jobs[i].marked
    BY <1>1 DEF SumInv
  <2> QED
    BY <1>2, <2>1 DEF SumInv, SumTold, PostedFor
<1> QED
  BY <1>1, <1>4, <1>5, "post" \in Labels, SumGoto DEF RepairPcs, Labels

\* A message is in the conversation when its event comes.
LEMMA SumPost ==
    ASSUME RepairInv, SumInv, RepairInv', Further, NEW w \in ChatWorker, PostSummary(w)
    PROVE  SumInv'
<1>0. PICK i : i = serves[w]
  OBVIOUS
<1>1. /\ phase[w] = "none" /\ outcome[w] = "none" /\ pc[w] = "post" /\ pc' = [pc EXCEPT ![w] = "event"]
      /\ posted' = [posted EXCEPT ![i] = IF marked[w] THEN @ ELSE @ + 1]
      /\ UNCHANGED <<serves, marked, jobs, log, sourceLog, phase, pending, outcome>>
  BY <1>0 DEF PostSummary, Goto, At, Idle, eventVars, appending, queue
<1>2. i \in Job /\ jobs[i].kind = "summary" /\ jobs[i].status # "absent"
  BY <1>0, <1>1 DEF RepairInv, Work
<1>3. posted \in [Job -> Nat] /\ posted' \in [Job -> Nat] /\ marked[w] \in BOOLEAN
  BY DEF RepairInv, RowShape, SumInv
<1>4. PostedFor(i)'
  <2>1. CASE marked[w]
    BY <1>0, <1>1, <1>2, <1>3, <2>1, FurtherKeeps DEF SumInv, SumWork
  <2>2. CASE ~marked[w]
    <3>1. posted'[i] = posted[i] + 1 /\ posted[i] \in Nat
      BY <1>1, <1>2, <1>3, <2>2
    <3>2. Posted(i)'
      BY <3>1 DEF Posted
    <3> QED
      BY <1>2, <3>2 DEF PostedFor, SomePosted
  <2> QED
    BY <2>1, <2>2
<1>5. pc'[w] = "event" /\ \A v \in ChatWorker \ {w} : pc'[v] = pc[v]
  BY <1>1 DEF RepairInv, WorkerShape
<1>6. PostedFor(serves[w])' <=> PostedFor(i)'
  BY <1>0, <1>1 DEF PostedFor, Followed, Posted, SomePosted
<1>7. SumWork(w)'
  BY <1>0, <1>1, <1>4, <1>5, <1>6 DEF SumWork, RepairPcs
<1>8. w \in Appender /\ w \notin BacktestWorker
  BY ContinuationAssumption DEF Appender
<1>9. Logged("summary.completed")' => Logged("summary.completed")
  BY <1>1 DEF Logged
<1>10. \A j \in Job : Followed(j)' <=> Followed(j)
  BY <1>1 DEF Followed
<1>11. marked' \in [ChatWorker -> BOOLEAN]
  BY <1>1 DEF SumInv
<1> QED
  BY <1>1, <1>5, <1>7, <1>8, <1>9, <1>10, <1>11, SumActs

\* The chat run's log is told what the preview's is.
LEMMA SumMirror ==
    ASSUME RepairInv, SumInv, RepairInv', Further, NEW w \in ChatWorker, MirrorEvent(w)
    PROVE  SumInv'
<1> DEFINE i == serves[w]
<1>1. PICK event \in EventPcs :
        /\ At(w, MirrorOf[event])
        /\ sourceLog' = sourceLog \cup
              {CASE event = "started"      -> "repair.started"
                 [] event = "repairFailed" -> "repair.failed"
                 [] event = "autoFailed"   -> "chain.failed"
                 [] OTHER -> IF jobs[i].kind = "summary" THEN "summary.completed"
                             ELSE "repair.completed"}
        /\ Goto(w, CASE event = "started"      -> "model"
                     [] event = "autoFailed"   -> "failJob"
                     [] event = "event" /\ jobs[i].kind = "repair" -> "waiting"
                     [] OTHER                  -> "complete")
  BY DEF MirrorEvent
<1>2. event \in {"started", "repairFailed", "event", "autoFailed"}
  BY DEF EventPcs, MirrorOf
<1>3. /\ pc[w] = MirrorOf[event] /\ phase[w] = "none" /\ outcome[w] = "none"
      /\ pc[w] # "idle"
      /\ event = "started" => pc[w] = "startedMirror"
      /\ event = "repairFailed" => pc[w] = "repairFailedMirror"
      /\ event = "event" => pc[w] = "eventMirror"
  BY <1>1, <1>2 DEF At, Idle, MirrorOf
<1>4. UNCHANGED <<log, phase, pending, outcome, jobs, posted>>
  BY DEF MirrorEvent, eventVars, appending, queue
<1>5. PICK l \in Labels : /\ Goto(w, l)
                          /\ l \in {"model", "failJob", "waiting", "complete"}
                          /\ l = "model" => event = "started"
                          /\ l = "waiting" => jobs[i].kind = "repair"
                          /\ l = "complete" => event \in {"event", "repairFailed"}
  BY <1>1, <1>2 DEF Labels
<1>6. l \in RepairPcs => jobs[i].kind = "repair"
  BY <1>3, <1>5 DEF RepairPcs, SumInv, SumWork
<1>7. l = "complete" => (jobs[i].kind = "summary" => Announced(i)')
  <2>1. SUFFICES ASSUME l = "complete", jobs[i].kind = "summary" PROVE Announced(i)'
    OBVIOUS
  <2>2. event # "repairFailed"
    BY <1>3, <2>1 DEF RepairPcs, SumInv, SumWork
  <2>3. event = "event" /\ pc[w] = "eventMirror"
    BY <1>3, <1>5, <2>1, <2>2
  <2>4. IsMarked(i)
    BY <2>1, <2>3 DEF SumInv, SumWork
  <2>5. "summary.completed" \in sourceLog'
    BY <1>1, <2>1, <2>3
  <2>6. serves' = serves
    BY <1>5 DEF Goto
  <2> QED
    BY <1>4, <2>4, <2>5, <2>6 DEF Announced, IsMarked, Followed, Logged
<1>8. marked' \in [ChatWorker -> BOOLEAN] /\ marked' = marked /\ serves' = serves /\ pc' = [pc EXCEPT ![w] = l]
  BY <1>5 DEF SumInv, Goto
<1>9. Announced(serves[w])' <=> Announced(i)'
  BY <1>8 DEF Announced, IsMarked, Followed, Logged
<1> QED
  BY <1>3, <1>4, <1>5, <1>6, <1>7, <1>8, <1>9, SumGoto

\* The event of a job is appended to the log, or only marked when that log is not
\* followed.
LEMMA SumBeginEvent ==
    ASSUME RepairInv, SumInv, LogInv, RepairInv', Further, NEW w \in ChatWorker, BeginEvent(w)
    PROVE  SumInv'
<1>0. PICK i : i = serves[w]
  OBVIOUS
<1>1. /\ pc[w] \in EventPcs /\ phase[w] = "none" /\ outcome[w] = "none"
      /\ UNCHANGED <<sourceLog, posted>> /\ pc[w] \notin {"idle", "lock"}
  BY DEF BeginEvent, At, Idle, chat, EventPcs, MirrorOf
<1>2. i \in Job /\ jobs[i].status # "absent" /\ jobs[i] \in Row
  BY <1>0, <1>1 DEF RepairInv, Work, RowShape
<1>3. w \in Appender /\ w \notin BacktestWorker
  BY ContinuationAssumption DEF Appender
<1>4. CASE Followed(i)
  <2>1. BeginAppend(w, EventAt(w)) /\ UNCHANGED <<pc, serves, marked, jobs>>
    BY <1>0, <1>4 DEF BeginEvent, worker, queue
  <2>2. PICK type : type = EventAt(w)
    OBVIOUS
  <2>3. /\ log' = log
        /\ pending' = [pending EXCEPT ![w] = type] /\ phase' = [phase EXCEPT ![w] = "begin"]
        /\ outcome' = [outcome EXCEPT ![w] = "none"]
    BY <2>1, <2>2 DEF BeginAppend
  <2>4. /\ pending'[w] = type /\ outcome'[w] = "none"
        /\ \A a \in Appender \ {w} :
              phase'[a] = phase[a] /\ pending'[a] = pending[a] /\ outcome'[a] = outcome[a]
    BY <1>3, <2>3 DEF RepairInv, WorkerShape, LogInv, AppendShape
  <2>5. /\ type = "summary.completed" => pc[w] = "event" /\ jobs[i].kind = "summary"
        /\ pc[w] = "event" /\ jobs[i].kind = "summary" => type = "summary.completed"
    BY <1>0, <1>1, <2>2 DEF EventAt, EventPcs, MirrorOf
  <2>6. pc[w] = "event" /\ jobs[i].kind = "summary" => PostedFor(i)
    BY <1>0 DEF SumInv, SumWork
  <2>7. /\ PostedFor(i)' <=> PostedFor(i)
        /\ Followed(i)' <=> Followed(i)
        /\ SomePosted' <=> SomePosted
    BY <1>1, <2>1 DEF PostedFor, SomePosted, Followed, Posted
  <2>8. (PostedFor(serves[w])' <=> PostedFor(i)') /\ (Followed(serves[w])' <=> Followed(i)')
    BY <1>0, <2>1 DEF PostedFor, SomePosted, Followed, Posted
  <2>9. type = "summary.completed" => SomePosted
    BY <1>4, <2>5, <2>6 DEF PostedFor
  <2>10. pc[w] \in RepairPcs => jobs[i].kind = "repair"
    BY <1>0 DEF SumInv, SumWork
  <2>11. pc[w] \notin {"post", "eventMirror", "complete"}
    BY <1>1 DEF EventPcs, MirrorOf
  <2>12. SumWork(w)'
    BY <1>0, <1>4, <2>1, <2>4, <2>5, <2>6, <2>7, <2>8, <2>9, <2>10, <2>11 DEF SumWork
  <2>13. Logged("summary.completed")' => Logged("summary.completed")
    BY <2>3 DEF Logged
  <2>14. \A j \in Job : jobs'[j] = jobs[j] /\ (Followed(j)' <=> Followed(j))
    BY <2>1 DEF Followed
  <2>15. marked' \in [ChatWorker -> BOOLEAN]
    BY <2>1 DEF SumInv
  <2> QED
    BY <1>3, <2>1, <2>4, <2>12, <2>13, <2>14, <2>15, SumActs
<1>5. CASE ~Followed(i)
  <2>1. PICK l : l = MirrorOf[pc[w]]
    OBVIOUS
  <2>2. /\ pc' = [pc EXCEPT ![w] = l] /\ UNCHANGED <<serves, marked>>
        /\ UNCHANGED <<log, phase, pending, outcome>>
        /\ jobs' = [jobs EXCEPT ![i].marked = @ \/ pc[w] = "event"]
    BY <1>0, <1>5, <2>1 DEF BeginEvent, Goto, eventVars, appending
  <2>3. /\ l \in {"startedMirror", "repairFailedMirror", "eventMirror", "autoFailedMirror"}
        /\ l = "startedMirror" => pc[w] = "started"
        /\ l = "repairFailedMirror" => pc[w] = "repairFailed"
        /\ l = "eventMirror" <=> pc[w] = "event"
    BY <1>1, <2>1 DEF EventPcs, MirrorOf
  <2>4. /\ \A j \in Job : /\ jobs'[j].status = jobs[j].status /\ jobs'[j].of = jobs[j].of
                          /\ jobs'[j].kind = jobs[j].kind
        /\ \A j \in Job \ {i} : jobs'[j] = jobs[j]
        /\ pc[w] = "event" => jobs'[i].marked
        /\ pc[w] # "event" => (jobs'[i].marked <=> jobs[i].marked)
    BY <1>2, <2>2 DEF RepairInv, RowShape, Row
  <2>5. \A j \in Job : Followed(j)' <=> Followed(j)
    BY <2>4 DEF Followed
  <2>6. pc'[w] = l /\ \A v \in ChatWorker \ {w} : pc'[v] = pc[v]
    BY <2>2 DEF RepairInv, WorkerShape
  <2>7. pc[w] = "event" /\ jobs[i].kind = "summary" => Posted(i)'
    <3>1. pc[w] = "event" /\ jobs[i].kind = "summary" => Posted(i)
      BY <1>0, <1>5 DEF SumInv, SumWork, PostedFor
    <3> QED
      BY <1>1, <3>1 DEF Posted
  <2>8. \A j \in Job : jobs'[j].kind = "summary" /\ ~Followed(j)' /\ jobs'[j].marked =>
           \/ jobs[j].kind = "summary" /\ ~Followed(j) /\ jobs[j].marked
           \/ Posted(j)'
    BY <2>4, <2>5, <2>7
  <2>9. pc[w] = "event" => IsMarked(i)'
    BY <1>2, <1>5, <2>4, <2>5 DEF IsMarked
  <2>10. IsMarked(serves[w])' <=> IsMarked(i)'
    BY <1>0, <2>2 DEF IsMarked, Followed, Logged
  <2>11. l \in RepairPcs => jobs[i].kind = "repair"
    BY <1>0, <2>3 DEF SumInv, SumWork, RepairPcs
  <2>12. SumWork(w)'
    BY <1>0, <1>1, <1>2, <2>2, <2>3, <2>4, <2>6, <2>9, <2>10, <2>11 DEF SumWork
  <2>13. Logged("summary.completed")' => Logged("summary.completed")
    BY <2>2 DEF Logged
  <2>14. marked' \in [ChatWorker -> BOOLEAN]
    BY <2>2 DEF SumInv
  <2> QED
    BY <1>3, <2>2, <2>4, <2>6, <2>8, <2>12, <2>13, <2>14, SumActs
<1> QED
  BY <1>4, <1>5

\* Its end leads to the mirror, or to the failure branch.
LEMMA SumEventEnds ==
    ASSUME RepairInv, SumInv, RepairInv', Further, NEW w \in ChatWorker, EventEnds(w)
    PROVE  SumInv'
<1> DEFINE i == serves[w]
<1>1. /\ pc[w] \in EventPcs /\ phase[w] = "none" /\ pc[w] # "idle" /\ outcome[w] # "none"
      /\ outcome' = [outcome EXCEPT ![w] = "none"]
      /\ UNCHANGED <<log, pending, phase, jobs, sourceLog, posted>>
  BY DEF EventEnds, Idle, queue, chat, EventPcs, MirrorOf
<1>2. \A a \in Appender \ {w} : outcome'[a] = outcome[a]
  BY <1>1 DEF RepairInv, WorkerShape
<1>3. CASE outcome[w] = "appended"
  <2>1. PICK l : l = MirrorOf[pc[w]]
    OBVIOUS
  <2>2. Goto(w, l)
    BY <1>3, <2>1 DEF EventEnds
  <2>3. /\ l \in {"startedMirror", "repairFailedMirror", "eventMirror", "autoFailedMirror"}
        /\ l = "startedMirror" => pc[w] = "started"
        /\ l = "repairFailedMirror" => pc[w] = "repairFailed"
        /\ l = "eventMirror" => pc[w] = "event"
    BY <1>1, <2>1 DEF EventPcs, MirrorOf
  <2>4. l \in RepairPcs => jobs[i].kind = "repair"
    BY <2>3 DEF SumInv, SumWork, RepairPcs
  <2>5. l = "eventMirror" => (jobs[i].kind = "summary" => IsMarked(i))
    BY <1>1, <1>3, <2>3 DEF SumInv, SumWork, IsMarked
  <2>6. l \in Labels
    BY <2>3 DEF Labels
  <2>7. pc' = [pc EXCEPT ![w] = l] /\ marked' = marked /\ serves' = serves
    BY <2>2 DEF Goto
  <2>8. marked' \in [ChatWorker -> BOOLEAN]
    BY <2>7 DEF SumInv
  <2> QED
    BY <1>1, <1>2, <2>3, <2>4, <2>5, <2>6, <2>7, <2>8, SumGoto
<1>4. CASE outcome[w] # "appended" /\ pc[w] = "autoFailed"
  <2>1. Return(w)
    BY <1>4 DEF EventEnds
  <2> QED
    BY <1>1, <1>2, <2>1, SumReturn
<1>5. CASE outcome[w] # "appended" /\ pc[w] # "autoFailed"
  <2>1. pc' = [pc EXCEPT ![w] = "autoFailed"] /\ marked' = marked /\ serves' = serves
    BY <1>5 DEF EventEnds, Goto
  <2>2. marked' \in [ChatWorker -> BOOLEAN] /\ "autoFailed" \in Labels
    BY <2>1 DEF SumInv, Labels
  <2> QED
    BY <1>1, <1>2, <2>1, <2>2, SumGoto DEF RepairPcs
<1> QED
  BY <1>3, <1>4, <1>5

\* A claim looks at the queue.
LEMMA SumSelect ==
    ASSUME RepairInv, SumInv, RepairInv', Further, NEW w \in ChatWorker, SelectCandidates(w)
    PROVE  SumInv'
<1>1. /\ pc[w] = "idle" /\ phase[w] = "none" /\ outcome[w] = "none" /\ pc' = [pc EXCEPT ![w] = "lock"]
      /\ UNCHANGED <<jobs, posted, serves, marked, log, sourceLog, phase, pending, outcome>>
  BY DEF SelectCandidates, At, Idle, eventVars, appending, chat, queue
<1>2. pc'[w] = "lock" /\ \A v \in ChatWorker \ {w} : pc'[v] = pc[v]
  BY <1>1 DEF RepairInv, WorkerShape
<1>3. SumWork(w)'
  BY <1>1, <1>2 DEF SumWork, RepairPcs
<1>4. w \in Appender /\ w \notin BacktestWorker
  BY ContinuationAssumption DEF Appender
<1>5. Logged("summary.completed")' => Logged("summary.completed")
  BY <1>1 DEF Logged
<1>6. \A j \in Job : jobs'[j] = jobs[j] /\ (Followed(j)' <=> Followed(j))
  BY <1>1 DEF Followed
<1>7. marked' \in [ChatWorker -> BOOLEAN]
  BY <1>1 DEF SumInv
<1> QED
  BY <1>1, <1>2, <1>3, <1>4, <1>5, <1>6, <1>7, SumActs

\* It puts its worker at the beginning of the job.
LEMMA SumClaim ==
    ASSUME RepairInv, SumInv, RepairInv', Further, NEW w \in ChatWorker, ClaimRunJob(w)
    PROVE  SumInv'
<1>1. /\ pc[w] = "lock" /\ phase[w] = "none" /\ outcome[w] = "none"
      /\ UNCHANGED <<log, sourceLog, posted, phase, pending, outcome>>
  BY ClaimEffect DEF chat
<1>2. CASE Return(w) /\ jobs' = jobs
  BY <1>1, <1>2, SumReturn
<1>3. CASE ~(Return(w) /\ jobs' = jobs)
  <2>1. PICK i \in candidates[w] :
          /\ Claimable(i) /\ jobs' = [jobs EXCEPT ![i] = Leased(i, w)]
          /\ serves' = [serves EXCEPT ![w] = i] /\ marked' = marked
          /\ pc' = [pc EXCEPT ![w] = IF jobs[i].kind = "summary" THEN "look" ELSE "started"]
    BY <1>3, ClaimEffect
  <2>2. i \in Job /\ jobs[i] \in Row /\ jobs[i].kind \in Kinds
    BY <2>1 DEF RepairInv, WorkerShape, RowShape, Row
  <2>3. /\ jobs'[i].kind = jobs[i].kind /\ jobs'[i].of = jobs[i].of /\ jobs'[i].marked = jobs[i].marked
        /\ jobs'[i].status = "running"
        /\ \A j \in Job \ {i} : jobs'[j] = jobs[j]
    BY <2>1, <2>2 DEF RepairInv, RowShape, Row, Leased
  <2>4. PICK l \in {"look", "started"} :
          pc' = [pc EXCEPT ![w] = l] /\ (l = "started" => jobs[i].kind = "repair")
    BY <2>1, <2>2 DEF Kinds
  <2>5. /\ pc'[w] = l /\ serves'[w] = i
        /\ \A v \in ChatWorker \ {w} : pc'[v] = pc[v] /\ serves'[v] = serves[v]
    BY <2>1, <2>4 DEF RepairInv, WorkerShape
  <2>6. SumWork(w)'
    BY <1>1, <2>3, <2>4, <2>5 DEF SumWork, RepairPcs
  <2>7. w \in Appender /\ w \notin BacktestWorker
    BY ContinuationAssumption DEF Appender
  <2>8. Logged("summary.completed")' => Logged("summary.completed")
    BY <1>1 DEF Logged
  <2>9. \A j \in Job : /\ jobs'[j].kind = jobs[j].kind /\ jobs'[j].marked = jobs[j].marked
                       /\ jobs'[j].status = "completed" => jobs[j].status = "completed"
                       /\ (Followed(j)' <=> Followed(j))
    BY <2>3 DEF Followed
  <2>10. marked' \in [ChatWorker -> BOOLEAN]
    BY <2>1 DEF SumInv
  <2> QED
    BY <1>1, <2>1, <2>5, <2>6, <2>7, <2>8, <2>9, <2>10, SumActs
<1> QED
  BY <1>2, <1>3

\* A summary is completed when it is announced in both logs.
LEMMA SumComplete ==
    ASSUME RepairInv, SumInv, RepairInv', Further, NEW w \in ChatWorker, Complete(w) \/ FailJob(w)
    PROVE  SumInv'
<1>0. PICK i : i = serves[w]
  OBVIOUS
<1>1. PICK status \in {"completed", "failed"} :
        /\ CompleteRunJob(w, status) /\ phase[w] = "none" /\ pc[w] \notin {"idle", "lock"}
        /\ status = "completed" => pc[w] = "complete"
  BY DEF Complete, FailJob, At, Idle
<1>2. i \in Job /\ jobs[i].status # "absent" /\ jobs[i] \in Row
  BY <1>0, <1>1 DEF RepairInv, Work, RowShape
<1>3. /\ jobs' = [jobs EXCEPT ![i].status = status, ![i].owner = Nobody, ![i].leased = FALSE]
      /\ Return(w)
      /\ UNCHANGED <<posted, log, sourceLog, phase, pending, outcome>>
  BY <1>0, <1>1 DEF CompleteRunJob, eventVars, appending, chat
<1>4. /\ jobs'[i].kind = jobs[i].kind /\ jobs'[i].of = jobs[i].of /\ jobs'[i].marked = jobs[i].marked
      /\ jobs'[i].status = status
      /\ \A j \in Job \ {i} : jobs'[j] = jobs[j]
  BY <1>2, <1>3 DEF RepairInv, RowShape, Row
<1>5. status = "completed" /\ jobs[i].kind = "summary" => Announced(i)
  BY <1>0, <1>1 DEF SumInv, SumWork
<1>6. \A j \in Job : Announced(j)' <=> Announced(j)
  BY <1>3, <1>4 DEF Announced, IsMarked, Followed, Logged
<1>7. \A j \in Job : jobs'[j].kind = "summary" /\ jobs'[j].status = "completed" =>
         (jobs[j].kind = "summary" /\ jobs[j].status = "completed") \/ Announced(j)'
  BY <1>2, <1>4, <1>5, <1>6
<1>8. \A j \in Job : /\ jobs[j].status # "absent" => jobs'[j].marked = jobs[j].marked
                     /\ jobs[j].status = "absent" => jobs'[j] = jobs[j]
  BY <1>2, <1>4
<1> QED
  BY <1>1, <1>3, <1>7, <1>8, SumReturn

\* The process ends.
LEMMA SumCrash ==
    ASSUME RepairInv, SumInv, LogInv, RepairInv', Further, NEW w \in ChatWorker, Crash(w)
    PROVE  SumInv'
<1>1. /\ Return(w) /\ EndAppend(w, "none") /\ UNCHANGED <<jobs, posted, log, sourceLog>>
  BY DEF Crash, AbortAppend, queue, chat
<1>2. w \in Appender
  BY DEF Appender
<1>3. /\ phase'[w] = "none"
      /\ \A a \in Appender \ {w} :
            phase'[a] = phase[a] /\ pending'[a] = pending[a] /\ outcome'[a] = outcome[a]
  BY <1>1, <1>2 DEF EndAppend, RepairInv, WorkerShape, LogInv, AppendShape
<1>4. \A j \in Job : jobs'[j] = jobs[j]
  BY <1>1
<1> QED
  BY <1>1, <1>3, <1>4, SumReturn

\* A step of an appender on the log leaves workers where they are.
LEMMA SumLogMoves ==
    ASSUME RepairInv, SumInv, RepairInv', Further, NEW a \in Appender,
           UNCHANGED <<jobs, posted, pc, serves, marked, sourceLog>>,
           \A b \in Appender \ {a} :
               phase'[b] = phase[b] /\ pending'[b] = pending[b] /\ outcome'[b] = outcome[b],
           phase'[a] # "none" =>
               \/ phase[a] # "none" /\ pending'[a] = pending[a]
               \/ a \in BacktestWorker /\ pending'[a] # "summary.completed",
           a \in ChatWorker => phase[a] # "none",
           outcome'[a] = "appended" =>
               \/ outcome[a] = "appended" \/ \E e \in log' : e.type = pending[a]
               \/ a \in BacktestWorker,
           Logged("summary.completed")' => Logged("summary.completed") \/ SomePosted
    PROVE  SumInv'
<1>1. marked' \in [ChatWorker -> BOOLEAN] /\ \A j \in Job : jobs'[j] = jobs[j] /\ (Followed(j)' <=> Followed(j))
  BY DEF SumInv, Followed
<1>2. ASSUME a \in ChatWorker PROVE SumWork(a)'
  <2>1. a \notin BacktestWorker /\ phase[a] # "none"
    BY <1>2, ContinuationAssumption
  <2>2. phase'[a] # "none" => pending'[a] = pending[a]
    BY <2>1
  <2>3. /\ \A type : Logged(type) => Logged(type)'
        /\ SomePosted' <=> SomePosted
    BY FurtherKeeps DEF SomePosted, Followed, Posted, RepairInv, RowShape
  <2>4. /\ PostedFor(serves[a])' <=> PostedFor(serves[a])
        /\ Followed(serves[a])' <=> Followed(serves[a])
        /\ IsMarked(serves[a]) => IsMarked(serves[a])'
        /\ Announced(serves[a]) => Announced(serves[a])'
    BY <2>3 DEF PostedFor, Followed, Posted, SomePosted, IsMarked, Announced
  <2>5. /\ pc'[a] \in RepairPcs => jobs'[serves'[a]].kind = "repair"
        /\ phase'[a] # "none" /\ pending'[a] = "summary.completed" => SomePosted'
        /\ pc'[a] = "post" /\ marked'[a] => PostedFor(serves[a])'
    BY <1>2, <2>1, <2>2, <2>3, <2>4 DEF SumInv, SumWork
  <2>5a. outcome'[a] = "appended" /\ pending[a] = "summary.completed" =>
            outcome[a] = "appended" \/ Logged("summary.completed")'
    BY <2>1 DEF Logged
  <2>6. pc'[a] = "event" /\ jobs'[serves'[a]].kind = "summary" =>
          /\ PostedFor(serves[a])'
          /\ phase'[a] # "none" \/ outcome'[a] # "none" => Followed(serves[a])'
          /\ phase'[a] # "none" => pending'[a] = "summary.completed"
          /\ outcome'[a] = "appended" => Logged("summary.completed")'
    BY <1>2, <2>1, <2>2, <2>3, <2>4, <2>5a DEF SumInv, SumWork
  <2>7. /\ pc'[a] = "eventMirror" /\ jobs'[serves'[a]].kind = "summary" => IsMarked(serves[a])'
        /\ pc'[a] = "complete" /\ jobs'[serves'[a]].kind = "summary" => Announced(serves[a])'
    BY <1>2, <2>4 DEF SumInv, SumWork
  <2> QED
    BY <2>5, <2>6, <2>7 DEF SumWork
<1> QED
  BY <1>1, <1>2, SumActs

\* Every statement of an append.
LEMMA SumLogStep ==
    ASSUME RepairInv, SumInv, LogInv, RepairInv', Further, NEW a \in Appender, LogStep(a)
    PROVE  SumInv'
<1> DEFINE Others(x) == \A b \in Appender \ {x} :
              phase'[b] = phase[b] /\ pending'[b] = pending[b] /\ outcome'[b] = outcome[b]
<1>1. UNCHANGED <<jobs, posted, pc, serves, marked, sourceLog>>
  BY DEF LogStep, queue, worker, chat
<1>2. /\ DOMAIN phase = Appender /\ DOMAIN pending = Appender /\ DOMAIN outcome = Appender
  BY DEF RepairInv, WorkerShape, LogInv, AppendShape
<1>3. ASSUME NEW b \in Appender, EndAppend(b, "raised"), log' = log, phase[b] # "none" PROVE SumInv'
  <2>1. phase'[b] = "none" /\ outcome'[b] = "raised" /\ Others(b)
    BY <1>2, <1>3 DEF EndAppend
  <2>2. Logged("summary.completed")' => Logged("summary.completed")
    BY <1>3 DEF Logged
  <2> QED
    BY <1>1, <1>3, <2>1, <2>2, SumLogMoves
<1>4. ASSUME Commit(a), EndAppend(a, "appended"), phase[a] # "none" PROVE SumInv'
  <2>1. phase'[a] = "none" /\ outcome'[a] = "appended" /\ Others(a)
    BY <1>2, <1>4 DEF EndAppend
  <2>2. PICK e : e = [sequence |-> base[a] + 1, type |-> pending[a]]
    OBVIOUS
  <2>3. log' = log \cup {e} /\ e.type = pending[a]
    BY <1>4, <2>2 DEF Commit
  <2>4. pending[a] = "summary.completed" => SomePosted
    BY <1>4 DEF SumInv, SumTold, SumWork, Appender
  <2>5. \E f \in log' : f.type = pending[a]
    BY <2>3
  <2> QED
    BY <1>1, <1>4, <2>1, <2>3, <2>4, <2>5, SumLogMoves DEF Logged
<1>5. ASSUME NEW p, phase' = [phase EXCEPT ![a] = p], phase[a] # "none", UNCHANGED <<log, pending, outcome>>
      PROVE  SumInv'
  <2>1. Others(a)
    BY <1>2, <1>5
  <2>2. Logged("summary.completed")' => Logged("summary.completed")
    BY <1>5 DEF Logged
  <2> QED
    BY <1>1, <1>5, <2>1, <2>2, SumLogMoves
<1>6. CASE LockRun(a) \/ ReadSequence(a)
  BY <1>5, <1>6 DEF LockRun, ReadSequence
<1>7. CASE InsertLocked(a)
  <2>1. phase[a] # "none"
    BY <1>7 DEF InsertLocked
  <2>2. \/ Commit(a) /\ EndAppend(a, "appended")
        \/ log' = log /\ EndAppend(a, "raised")
        \/ log' = log /\ phase' = [phase EXCEPT ![a] = "begin"] /\ UNCHANGED <<pending, base, outcome>>
    BY <1>7 DEF InsertLocked
  <2> QED
    BY <1>3, <1>4, <1>5, <2>1, <2>2
<1>8. CASE EnterIndex(a)
  <2>1. phase[a] # "none" /\ log' = log
    BY <1>8 DEF EnterIndex
  <2>2. \/ EndAppend(a, "raised")
        \/ phase' = [phase EXCEPT ![a] = "entered"] /\ UNCHANGED <<pending, base, outcome>>
    BY <1>8 DEF EnterIndex
  <2> QED
    BY <1>3, <1>5, <2>1, <2>2
<1>9. CASE CommitEvent(a)
  BY <1>4, <1>9 DEF CommitEvent
<1>10. ASSUME NEW b \in BacktestWorker, BreakDeadlock(a, b) PROVE SumInv'
  <2>1. /\ b \in Appender /\ log' = log /\ phase[a] # "none" /\ phase[b] # "none"
        /\ EndAppend(a, "raised") \/ EndAppend(b, "raised")
    BY <1>10 DEF BreakDeadlock, Appender
  <2> QED
    BY <1>3, <2>1
<1> QED
  BY <1>6, <1>7, <1>8, <1>9, <1>10 DEF LogStep, AppendStep

\* A backtest worker starts to append the end of its run.
LEMMA SumPublish ==
    ASSUME RepairInv, SumInv, LogInv, RepairInv', Further, NEW b \in BacktestWorker,
           NEW type \in {"run.completed", "run.failed", "run.progress"}, Publish(b, type)
    PROVE  SumInv'
<1>1. /\ UNCHANGED <<jobs, posted, pc, serves, marked, sourceLog, log>>
      /\ pending' = [pending EXCEPT ![b] = type] /\ phase' = [phase EXCEPT ![b] = "begin"]
      /\ outcome' = [outcome EXCEPT ![b] = "none"]
  BY DEF Publish, BeginAppend, queue, worker, chat
<1>2. b \in Appender /\ b \notin ChatWorker
  BY ContinuationAssumption DEF Appender
<1>3. /\ pending'[b] = type /\ outcome'[b] = "none"
      /\ \A a \in Appender \ {b} :
            phase'[a] = phase[a] /\ pending'[a] = pending[a] /\ outcome'[a] = outcome[a]
  BY <1>1, <1>2 DEF RepairInv, WorkerShape, LogInv, AppendShape
<1>4. Logged("summary.completed")' => Logged("summary.completed")
  BY <1>1 DEF Logged
<1> QED
  BY <1>1, <1>2, <1>3, <1>4, SumLogMoves

\* Every step of the system keeps what is known of summaries.
LEMMA SumStep ==
    ASSUME RepairInv, LogInv, SumInv, [Next]_vars
    PROVE  SumInv'
<1>1. RepairInv' /\ Further
  BY RepairStep, FurtherStep
<1>2. CASE UNCHANGED vars
  BY <1>2, SumStill DEF vars, moving, eventVars, appending, queue, worker, chat
<1>3. ASSUME NEW b \in BacktestWorker,
             PublishEnd(b) \/ Publish(b, "run.progress") \/ LookForJob(b) \/ Enqueue(b)
      PROVE  SumInv'
  <2>1. CASE LookForJob(b)
    BY <2>1, SumStill DEF LookForJob, eventVars, appending, queue, worker, chat
  <2> QED
    BY <1>1, <1>3, <2>1, SumPublish, SumRowSteps DEF PublishEnd
<1>4. ASSUME NEW r \in Reader, Read(r) \/ ReadSnapshot(r), UNCHANGED <<enqueue, queue, worker, chat>>
      PROVE  SumInv'
  BY <1>4, SumStill DEF Read, ReadSnapshot, appending, queue, worker, chat
<1>5. ASSUME NEW w \in ChatWorker, WorkStep(w) PROVE SumInv'
  BY <1>1, <1>5, SumSelect, SumClaim, SumComplete, SumBeginEvent, SumEventEnds, SumMirror, SumLook, SumPost,
     SumMove DEF WorkStep
<1>6. ASSUME NEW w \in ChatWorker, Raise(w) \/ Crash(w) PROVE SumInv'
  BY <1>1, <1>6, SumMove, SumCrash
<1>7. ASSUME NEW j \in Job, LeaseExpires(j) \/ RepairedPreviewEnds(j) PROVE SumInv'
  BY <1>1, <1>7, SumRowSteps
<1> QED
  BY <1>1, <1>2, <1>3, <1>4, <1>5, <1>6, <1>7, SumLogStep DEF Next, ReadStep

\* Nothing is said at first.
LEMMA SumOfInit ==
    ASSUME Init
    PROVE  SumInv
<1>1. /\ \A j \in Job : jobs[j] = Absent
      /\ log = {} /\ \A w \in ChatWorker : pc[w] = "idle"
      /\ marked = [w \in ChatWorker |-> FALSE]
      /\ \A a \in Appender : phase[a] = "none"
  BY DEF Init, EventsInit
<1>2. \A j \in Job : jobs[j].status = "absent" /\ jobs[j].marked = FALSE
  BY <1>1 DEF Absent
<1>3. SumTold
  BY <1>1, <1>2 DEF SumTold, Logged, Appender
<1>4. ASSUME NEW w \in ChatWorker PROVE SumWork(w)
  BY <1>1 DEF SumWork, Appender, RepairPcs
<1> QED
  BY <1>1, <1>3, <1>4 DEF SumInv

----------------------------------------------------------------------------
(* Part 4: summaries when nothing goes wrong and nobody meets.             *)

ChatOne     == CHOOSE w \in ChatWorker : TRUE
BacktestOne == CHOOSE b \in BacktestWorker : TRUE

\* One worker of each kind takes turns with the other, and appends alone.
QuietTurns ==
    /\ publisher \in [BacktestWorker -> {"publish", "append", "insert", "done"}]
    /\ \A w \in ChatWorker \ {ChatOne} : pc[w] = "idle"
    /\ \A b \in BacktestWorker \ {BacktestOne} : publisher[b] = "publish"
    /\ \A a \in Appender \ {ChatOne, BacktestOne} : phase[a] = "none"
    /\ phase[ChatOne] # "none" => pc[ChatOne] # "idle"
    /\ pc[ChatOne] # "idle" => publisher[BacktestOne] \in {"publish", "done"} /\ phase[BacktestOne] = "none"
    /\ pc[ChatOne] \notin FailurePcs /\ outcome[ChatOne] \in {"none", "appended"}
    /\ phase[ChatOne] = "insert" => base[ChatOne] = Cardinality(log)

Present(j) == jobs[j].status # "absent"

\* There is one job at most, claimed once at most.
QuietRows ==
    /\ publisher[BacktestOne] # "done" => \A j \in Job : ~Present(j)
    /\ \A i, j \in Job : Present(i) /\ Present(j) => i = j
    /\ \A j \in Job :
          /\ jobs[j].claims <= 1
          /\ jobs[j].status = "queued" => jobs[j].claims = 0
          /\ jobs[j].status = "running" => jobs[j].leased
          /\ jobs[j].leased => /\ jobs[j].status = "running" /\ jobs[j].owner = ChatOne
                               /\ serves[ChatOne] = j /\ pc[ChatOne] \notin {"idle", "lock"}

Quiet == QuietTurns /\ QuietRows

\* The two are there, and they are two.
LEMMA Ones == ChatOne \in ChatWorker /\ BacktestOne \in BacktestWorker /\ ChatOne # BacktestOne
              /\ ChatOne \in Appender /\ BacktestOne \in Appender
              /\ ChatOne \notin BacktestWorker /\ BacktestOne \notin ChatWorker
BY ContinuationAssumption DEF ChatOne, BacktestOne, Appender

\* The backtest worker acts while the chat worker rests.
LEMMA QuietBacktest ==
    ASSUME Quiet, LogInv, RepairInv, NEW b \in BacktestWorker, faults = {},
           \/ \E type \in {"run.completed", "run.failed", "run.progress"} : Publish(b, type)
           \/ LookForJob(b) \/ Enqueue(b)
    PROVE  Quiet'
<1> USE Ones
<1>1. b = BacktestOne
  <2>1. CASE \E type \in {"run.completed", "run.failed", "run.progress"} : Publish(b, type)
    BY <2>1 DEF Publish, MayStart, ChatOne, BacktestOne
  <2>2. CASE LookForJob(b) \/ Enqueue(b)
    BY <2>2 DEF LookForJob, Enqueue, Quiet, QuietTurns
  <2> QED
    BY <2>1, <2>2
<1>2. pc[ChatOne] = "idle" /\ phase[ChatOne] = "none"
  <2>1. pc[ChatOne] = "idle"
    <3>1. CASE \E type \in {"run.completed", "run.failed", "run.progress"} : Publish(b, type)
      BY <3>1 DEF Publish, MayStart, AtRest
    <3>2. CASE LookForJob(b) \/ Enqueue(b)
      BY <1>1, <3>2 DEF LookForJob, Enqueue, Quiet, QuietTurns
    <3> QED
      BY <3>1, <3>2
  <2> QED
    BY <2>1 DEF Quiet, QuietTurns
<1>3. publisher[b] # "done" /\ \A j \in Job : ~Present(j)
  BY <1>1 DEF Publish, LookForJob, Enqueue, Quiet, QuietRows
<1>4. /\ pc' = pc /\ serves' = serves /\ log' = log
      /\ \E p \in {"append", "insert", "done"} : publisher' = [publisher EXCEPT ![b] = p]
      /\ \A a \in Appender \ {b} : phase'[a] = phase[a] /\ outcome'[a] = outcome[a]
  <2>1. CASE \E type \in {"run.completed", "run.failed", "run.progress"} : Publish(b, type)
    <3>1. PICK type \in {"run.completed", "run.failed", "run.progress"} : Publish(b, type)
      BY <2>1
    <3>2. /\ pc' = pc /\ serves' = serves /\ log' = log
          /\ phase' = [phase EXCEPT ![b] = "begin"] /\ outcome' = [outcome EXCEPT ![b] = "none"]
          /\ publisher' = [publisher EXCEPT ![b] = IF type = "run.progress" THEN "done" ELSE "append"]
      BY <3>1 DEF Publish, BeginAppend, worker
    <3> QED
      BY <3>2 DEF RepairInv, WorkerShape, LogInv, AppendShape
  <2>2. CASE LookForJob(b) \/ Enqueue(b)
    BY <2>2 DEF LookForJob, Enqueue, worker, eventVars, appending
  <2> QED
    BY <2>1, <2>2
<1>5. QuietTurns'
  <2>1. publisher' \in [BacktestWorker -> {"publish", "append", "insert", "done"}]
    BY <1>4 DEF Quiet, QuietTurns
  <2>2. \A c \in BacktestWorker \ {BacktestOne} : publisher'[c] = "publish"
    BY <1>1, <1>4 DEF Quiet, QuietTurns
  <2>3. \A a \in Appender \ {ChatOne, BacktestOne} : phase'[a] = "none"
    BY <1>1, <1>4 DEF Quiet, QuietTurns
  <2>4. phase'[ChatOne] = "none" /\ outcome'[ChatOne] = outcome[ChatOne]
    BY <1>1, <1>2, <1>4
  <2> QED
    BY <1>2, <1>4, <2>1, <2>2, <2>3, <2>4 DEF Quiet, QuietTurns, FailurePcs
<1>6. QuietRows'
  <2>1. CASE jobs' = jobs
    BY <1>2, <1>3, <1>4, <2>1 DEF Quiet, QuietRows, Present
  <2>2. CASE jobs' # jobs
    <3>1. Enqueue(b)
      BY <2>2 DEF Publish, LookForJob, queue
    <3>2. PICK kind \in Kinds, level \in Nat : InsertJob(kind, NoJob, level)
      BY <2>2, <3>1 DEF Enqueue, Kinds
    <3>3. PICK i \in FreeJobs :
            jobs' = [jobs EXCEPT ![i] = [Absent EXCEPT !.kind = kind, !.of = NoJob, !.level = level,
                                                       !.status = "queued"]]
      BY <3>2 DEF InsertJob
    <3>4. PICK row : row = [Absent EXCEPT !.kind = kind, !.of = NoJob, !.level = level, !.status = "queued"]
      OBVIOUS
    <3>5. row.status = "queued" /\ row.claims = 0 /\ row.leased = FALSE
      BY <3>4 DEF Absent
    <3>6. jobs' = [jobs EXCEPT ![i] = row] /\ i \in Job
      BY <3>3, <3>4 DEF FreeJobs
    <3>7. jobs'[i] = row /\ \A j \in Job \ {i} : jobs'[j] = jobs[j]
      BY <3>6 DEF RepairInv, RowShape
    <3>8. publisher'[BacktestOne] = "done"
      BY <1>1, <3>1 DEF Enqueue, Quiet, QuietTurns
    <3> QED
      BY <1>3, <1>4, <3>5, <3>6, <3>7, <3>8 DEF Quiet, QuietRows, Present
  <2> QED
    BY <2>1, <2>2
<1> QED
  BY <1>5, <1>6 DEF Quiet

\* A chat worker that acts is the one, and is not at rest.
LEMMA QuietActs ==
    ASSUME Quiet, NEW w \in ChatWorker, pc[w] # "idle"
    PROVE  w = ChatOne
BY DEF Quiet, QuietTurns

\* It goes on to another statement of its job.
LEMMA QuietGoto ==
    ASSUME Quiet, LogInv, RepairInv, NEW l, pc' = [pc EXCEPT ![ChatOne] = l],
           l \notin FailurePcs \cup {"idle", "lock"}, pc[ChatOne] # "idle",
           UNCHANGED <<publisher, serves, log>>,
           phase[ChatOne] = "none",
           \A a \in Appender : phase'[a] = phase[a],
           outcome'[ChatOne] \in {"none", "appended"},
           \A j \in Job : /\ jobs'[j].status = jobs[j].status /\ jobs'[j].claims = jobs[j].claims
                          /\ jobs'[j].owner = jobs[j].owner /\ jobs'[j].leased = jobs[j].leased
    PROVE  Quiet'
<1> USE Ones
<1>1. pc'[ChatOne] = l /\ \A w \in ChatWorker \ {ChatOne} : pc'[w] = pc[w]
  BY DEF RepairInv, WorkerShape
<1>2. QuietTurns'
  BY <1>1 DEF Quiet, QuietTurns
<1>3. QuietRows'
  BY <1>1 DEF Quiet, QuietRows, Present
<1> QED
  BY <1>2, <1>3 DEF Quiet

\* It looks at the queue, and claims a job that was never claimed.
LEMMA QuietClaim ==
    ASSUME Quiet, LogInv, RepairInv, NEW w \in ChatWorker, faults = {},
           SelectCandidates(w) \/ ClaimRunJob(w)
    PROVE  Quiet'
<1> USE Ones
<1>1. w = ChatOne
  <2>1. CASE SelectCandidates(w)
    BY <2>1 DEF SelectCandidates, MayStart, ChatOne, BacktestOne
  <2>2. CASE ClaimRunJob(w)
    BY <2>2, ClaimEffect, QuietActs
  <2> QED
    BY <2>1, <2>2
<1>2. CASE SelectCandidates(w)
  <2>1. /\ pc[w] = "idle" /\ phase[w] = "none" /\ pc' = [pc EXCEPT ![w] = "lock"]
        /\ UNCHANGED <<jobs, serves, log, phase, outcome, base, publisher>>
    BY <1>2 DEF SelectCandidates, At, Idle, eventVars, appending, queue, enqueue
  <2>2. publisher[BacktestOne] \in {"publish", "done"} /\ phase[BacktestOne] = "none"
    BY <1>2 DEF SelectCandidates, MayStart, AtRest, Idle
  <2>3. pc'[ChatOne] = "lock" /\ \A v \in ChatWorker \ {ChatOne} : pc'[v] = pc[v]
    BY <1>1, <2>1 DEF RepairInv, WorkerShape
  <2>4. QuietTurns'
    BY <2>1, <2>2, <2>3 DEF Quiet, QuietTurns, FailurePcs
  <2>5. QuietRows'
    BY <1>1, <2>1, <2>3 DEF Quiet, QuietRows, Present
  <2> QED
    BY <2>4, <2>5 DEF Quiet
<1>3. CASE ClaimRunJob(w)
  <2>1. /\ pc[w] = "lock" /\ phase[w] = "none"
        /\ UNCHANGED <<log, phase, outcome, publisher>>
    BY <1>3, ClaimEffect DEF enqueue
  <2>2. CASE Return(w) /\ jobs' = jobs
    <3>1. pc'[ChatOne] = "idle" /\ \A v \in ChatWorker \ {ChatOne} : pc'[v] = pc[v]
      BY <1>1, <2>2 DEF Return, RepairInv, WorkerShape
    <3>2. QuietTurns'
      BY <1>1, <2>1, <3>1 DEF Quiet, QuietTurns, FailurePcs
    <3>3. QuietRows'
      BY <1>1, <2>1, <2>2, <3>1 DEF Quiet, QuietRows, Present
    <3> QED
      BY <3>2, <3>3 DEF Quiet
  <2>3. CASE ~(Return(w) /\ jobs' = jobs)
    <3>1. PICK i \in candidates[w] :
            /\ Claimable(i) /\ jobs' = [jobs EXCEPT ![i] = Leased(i, w)]
            /\ serves' = [serves EXCEPT ![w] = i]
            /\ pc' = [pc EXCEPT ![w] = IF jobs[i].kind = "summary" THEN "look" ELSE "started"]
      BY <1>3, <2>3, ClaimEffect
    <3>2. i \in Job /\ jobs[i] \in Row
      BY <3>1 DEF RepairInv, WorkerShape, RowShape
    <3>3. jobs[i].status = "queued" /\ jobs[i].claims = 0
      BY <3>1, <3>2 DEF Claimable, Quiet, QuietRows
    <3>4. /\ jobs'[i].status = "running" /\ jobs'[i].claims = 1 /\ jobs'[i].owner = ChatOne
          /\ jobs'[i].leased
          /\ \A j \in Job \ {i} : jobs'[j] = jobs[j]
      BY <1>1, <3>1, <3>2, <3>3 DEF RepairInv, RowShape, Row, Leased
    <3>5. pc'[ChatOne] \in {"look", "started"} /\ \A v \in ChatWorker \ {ChatOne} : pc'[v] = pc[v]
      BY <1>1, <3>1 DEF RepairInv, WorkerShape
    <3>6. serves'[ChatOne] = i
      BY <1>1, <3>1 DEF RepairInv, WorkerShape
    <3>7. \A j \in Job \ {i} : ~Present(j) /\ ~jobs[j].leased
      BY <1>1, <2>1, <3>2, <3>3 DEF Quiet, QuietRows, Present
    <3>8. QuietTurns'
      BY <1>1, <2>1, <3>5 DEF Quiet, QuietTurns, FailurePcs
    <3>9. QuietRows'
      BY <2>1, <3>2, <3>3, <3>4, <3>5, <3>6, <3>7 DEF Quiet, QuietRows, Present
    <3> QED
      BY <3>8, <3>9 DEF Quiet
  <2> QED
    BY <2>2, <2>3
<1> QED
  BY <1>2, <1>3

\* It completes it.
LEMMA QuietComplete ==
    ASSUME Quiet, LogInv, RepairInv, NEW w \in ChatWorker, Complete(w)
    PROVE  Quiet'
<1> USE Ones
<1>0. w = ChatOne
  BY QuietActs DEF Complete, At
<1>1. PICK i : i = serves[w]
  OBVIOUS
<1>2. /\ jobs' = [jobs EXCEPT ![i].status = "completed", ![i].owner = Nobody, ![i].leased = FALSE]
      /\ Return(w) /\ pc[w] = "complete" /\ phase[w] = "none"
      /\ UNCHANGED <<log, phase, outcome, publisher>>
  BY <1>1 DEF Complete, CompleteRunJob, At, Idle, eventVars, appending, enqueue
<1>3. i \in Job /\ Present(i) /\ jobs[i] \in Row
  BY <1>1, <1>2 DEF RepairInv, Work, RowShape, Present
<1>4. /\ jobs'[i].status = "completed" /\ jobs'[i].claims = jobs[i].claims /\ jobs'[i].leased = FALSE
      /\ \A j \in Job \ {i} : jobs'[j] = jobs[j]
  BY <1>2, <1>3 DEF RepairInv, RowShape, Row
<1>5. pc'[ChatOne] = "idle" /\ \A v \in ChatWorker \ {ChatOne} : pc'[v] = pc[v]
  BY <1>0, <1>2 DEF Return, RepairInv, WorkerShape
<1>6. \A j \in Job \ {i} : ~Present(j) /\ ~jobs[j].leased
  BY <1>3 DEF Quiet, QuietRows, Present
<1>7. QuietTurns'
  BY <1>0, <1>2, <1>5 DEF Quiet, QuietTurns, FailurePcs
<1>8. \A j \in Job : ~jobs'[j].leased /\ jobs'[j].claims = jobs[j].claims
  BY <1>4, <1>6
<1>9. \A j \in Job : jobs'[j].status \notin {"queued", "running"} /\ (Present(j)' <=> Present(j))
  BY <1>3, <1>4, <1>6 DEF Present, RepairInv, RowShape
<1>10. QuietRows'
  BY <1>2, <1>8, <1>9 DEF Quiet, QuietRows
<1> QED
  BY <1>7, <1>10 DEF Quiet

\* Its event is appended, or only marked.
LEMMA QuietEvent ==
    ASSUME Quiet, LogInv, RepairInv, NEW w \in ChatWorker, BeginEvent(w) \/ EventEnds(w)
    PROVE  Quiet'
<1> USE Ones
<1>1. /\ pc[w] \in EventPcs /\ pc[w] \notin {"idle", "lock"} /\ phase[w] = "none"
      /\ MirrorOf[pc[w]] \in {"startedMirror", "repairFailedMirror", "eventMirror", "autoFailedMirror"}
      /\ MirrorOf[pc[w]] = "autoFailedMirror" => pc[w] = "autoFailed"
  BY DEF BeginEvent, EventEnds, At, Idle, EventPcs, MirrorOf
<1>2. w = ChatOne /\ pc[w] # "autoFailed"
  BY <1>1, QuietActs DEF Quiet, QuietTurns, FailurePcs
<1>3. MirrorOf[pc[w]] \notin FailurePcs \cup {"idle", "lock"}
  BY <1>1, <1>2 DEF FailurePcs
<1>4. CASE EventEnds(w)
  <2>1. /\ Goto(w, MirrorOf[pc[w]])
        /\ outcome' = [outcome EXCEPT ![w] = "none"]
        /\ UNCHANGED <<jobs, publisher, log, phase>>
    BY <1>2, <1>4 DEF EventEnds, Quiet, QuietTurns, queue, enqueue
  <2>2. outcome'[ChatOne] = "none"
    BY <1>2, <2>1 DEF RepairInv, WorkerShape
  <2> QED
    BY <1>1, <1>2, <1>3, <2>1, <2>2, QuietGoto DEF Goto
<1>5. CASE BeginEvent(w) /\ ~Followed(serves[w])
  <2>1. PICK i : i = serves[w]
    OBVIOUS
  <2>2. /\ Goto(w, MirrorOf[pc[w]])
        /\ jobs' = [jobs EXCEPT ![i].marked = @ \/ pc[w] = "event"]
        /\ UNCHANGED <<publisher, log, phase, outcome>>
    BY <1>5, <2>1 DEF BeginEvent, eventVars, appending, enqueue
  <2>3. \A j \in Job : /\ jobs'[j].status = jobs[j].status /\ jobs'[j].claims = jobs[j].claims
                       /\ jobs'[j].owner = jobs[j].owner /\ jobs'[j].leased = jobs[j].leased
    BY <2>2 DEF RepairInv, RowShape, Row
  <2> QED
    BY <1>1, <1>2, <1>3, <2>2, <2>3, QuietGoto DEF Goto, Quiet, QuietTurns
<1>6. CASE BeginEvent(w) /\ Followed(serves[w])
  <2>1. /\ UNCHANGED <<pc, serves, jobs, publisher, log, base>>
        /\ phase' = [phase EXCEPT ![w] = "begin"] /\ outcome' = [outcome EXCEPT ![w] = "none"]
    BY <1>6 DEF BeginEvent, BeginAppend, worker, queue, enqueue
  <2>2. /\ phase'[ChatOne] = "begin" /\ outcome'[ChatOne] = "none"
        /\ \A a \in Appender \ {ChatOne} : phase'[a] = phase[a]
    BY <1>2, <2>1 DEF RepairInv, WorkerShape, LogInv, AppendShape
  <2>3. QuietTurns'
    BY <1>1, <1>2, <2>1, <2>2 DEF Quiet, QuietTurns
  <2>4. QuietRows'
    BY <2>1 DEF Quiet, QuietRows, Present
  <2> QED
    BY <2>3, <2>4 DEF Quiet
<1> QED
  BY <1>4, <1>5, <1>6

\* The other statements of a job.
LEMMA QuietMove ==
    ASSUME Quiet, LogInv, RepairInv, NEW w \in ChatWorker,
           \/ MirrorEvent(w) \/ LookForSummary(w) \/ PostSummary(w) \/ AskModel(w)
           \/ CreateRepairedRun(w) \/ CreateRepairedJob(w) \/ AppendWaiting(w)
    PROVE  Quiet'
<1> USE Ones
<1>1. /\ phase[w] = "none" /\ UNCHANGED <<serves, jobs, log, phase, outcome, publisher>>
      /\ pc[w] # "idle"
  BY DEF MirrorEvent, LookForSummary, PostSummary, AskModel, CreateRepairedRun, CreateRepairedJob,
         AppendWaiting, At, Idle, Goto, eventVars, appending, queue, enqueue, EventPcs, MirrorOf
<1>2. w = ChatOne
  BY <1>1, QuietActs
<1>3. \E l : pc' = [pc EXCEPT ![w] = l] /\ l \notin FailurePcs \cup {"idle", "lock"}
  <2>1. CASE ~MirrorEvent(w)
    BY <2>1 DEF LookForSummary, PostSummary, AskModel, CreateRepairedRun, CreateRepairedJob, AppendWaiting,
                Goto, FailurePcs
  <2>2. CASE MirrorEvent(w)
    <3>1. PICK event \in EventPcs :
            /\ pc[w] = MirrorOf[event]
            /\ Goto(w, CASE event = "started"      -> "model"
                         [] event = "autoFailed"   -> "failJob"
                         [] event = "event" /\ jobs[serves[w]].kind = "repair" -> "waiting"
                         [] OTHER                  -> "complete")
      BY <2>2 DEF MirrorEvent, At
    <3>2. event # "autoFailed"
      BY <1>2, <3>1 DEF MirrorOf, Quiet, QuietTurns, FailurePcs
    <3>3. PICK l \in {"model", "waiting", "complete"} : Goto(w, l)
      BY <3>1, <3>2
    <3> QED
      BY <3>3 DEF Goto, FailurePcs
  <2> QED
    BY <2>1, <2>2
<1>4. outcome'[ChatOne] \in {"none", "appended"}
  BY <1>1 DEF Quiet, QuietTurns
<1> QED
  BY <1>1, <1>2, <1>3, <1>4, QuietGoto

\* Whoever appends appends alone, and nothing is in its way.
LEMMA QuietLogStep ==
    ASSUME Quiet, LogInv, RepairInv, NEW a \in Appender, LogStep(a)
    PROVE  Quiet'
<1> USE Ones
<1>1. UNCHANGED <<pc, serves, jobs, publisher>>
  BY DEF LogStep, worker, queue, enqueue
<1>2. phase[a] # "none"
  BY DEF LogStep, AppendStep, LockRun, InsertLocked, ReadSequence, EnterIndex, CommitEvent, BreakDeadlock
<1>3. a \in {ChatOne, BacktestOne}
  BY <1>2 DEF Quiet, QuietTurns
<1>4. ~\E b \in BacktestWorker : BreakDeadlock(a, b)
  <2> SUFFICES ASSUME NEW b \in BacktestWorker, BreakDeadlock(a, b) PROVE FALSE
    OBVIOUS
  <2>1. phase[a] = "insert" /\ phase[b] = "entered" /\ b \in Appender
    BY DEF BreakDeadlock, Appender
  <2>2. b = BacktestOne /\ a = ChatOne
    BY <1>3, <2>1 DEF Quiet, QuietTurns
  <2> QED
    BY <2>1, <2>2 DEF Quiet, QuietTurns
<1>5. \A b \in Appender \ {a} : phase'[b] = phase[b] /\ outcome'[b] = outcome[b] /\ base'[b] = base[b]
  BY <1>4 DEF LogStep, AppendStep, LockRun, InsertLocked, ReadSequence, EnterIndex, CommitEvent, EndAppend,
              RepairInv, WorkerShape, LogInv, AppendShape
<1>6. QuietRows'
  BY <1>1 DEF Quiet, QuietRows, Present
<1>7. CASE a = BacktestOne
  <2>1. pc[ChatOne] = "idle" /\ phase[ChatOne] = "none"
    BY <1>2, <1>7 DEF Quiet, QuietTurns
  <2>2. phase'[ChatOne] = "none" /\ outcome'[ChatOne] = outcome[ChatOne]
    BY <1>5, <1>7, <2>1
  <2>3. QuietTurns'
    BY <1>1, <1>5, <1>7, <2>1, <2>2 DEF Quiet, QuietTurns
  <2> QED
    BY <1>6, <2>3 DEF Quiet
<1>8. CASE a = ChatOne
  <2>1. pc[ChatOne] # "idle" /\ phase[BacktestOne] = "none"
    BY <1>2, <1>8 DEF Quiet, QuietTurns
  <2>2. phase'[BacktestOne] = "none"
    BY <1>5, <1>8, <2>1
  <2>3. LockRun(a) \/ InsertLocked(a)
    BY <1>4, <1>8 DEF LogStep, AppendStep, ReadSequence, EnterIndex, CommitEvent, LogInv, AppendShape
  <2>4. /\ outcome'[ChatOne] \in {"none", "appended"}
        /\ phase'[ChatOne] = "insert" => base'[ChatOne] = Cardinality(log')
    <3>1. CASE LockRun(a)
      <4>1. base' = [base EXCEPT ![a] = LastSequence] /\ outcome' = outcome /\ log' = log
        BY <3>1 DEF LockRun
      <4>2. LastSequence = Cardinality(log)
        BY LastIsLength DEF LogInv
      <4> QED
        BY <1>8, <4>1, <4>2 DEF Quiet, QuietTurns, LogInv, AppendShape
    <3>2. CASE InsertLocked(a)
      <4>1. base[a] = Cardinality(log) /\ Cardinality(log) \in Nat
        BY <1>8, <3>2, FS_CardinalityType DEF InsertLocked, Quiet, QuietTurns, LogInv, LogShape
      <4>2. ~Taken(base[a] + 1)
        BY <4>1 DEF Taken, LogInv, LogShape
      <4>3. EndAppend(a, "appended")
        BY <3>2, <4>2 DEF InsertLocked
      <4>4. phase'[a] = "none" /\ outcome'[a] = "appended"
        BY <4>3 DEF EndAppend, RepairInv, WorkerShape, LogInv, AppendShape
      <4> QED
        BY <1>8, <4>4
    <3> QED
      BY <2>3, <3>1, <3>2
  <2>5. QuietTurns'
    BY <1>1, <1>5, <1>8, <2>1, <2>2, <2>4 DEF Quiet, QuietTurns
  <2> QED
    BY <1>6, <2>5 DEF Quiet
<1> QED
  BY <1>3, <1>7, <1>8

\* What is seen of the two.
LEMMA QuietStill ==
    ASSUME Quiet, UNCHANGED <<jobs, publisher, pc, serves, log, phase, outcome, base>>
    PROVE  Quiet'
BY DEF Quiet, QuietTurns, QuietRows, Present

\* Without faults nothing else happens.
LEMMA QuietStep ==
    ASSUME faults = {} => Quiet, LogInv, RepairInv, [Next]_vars
    PROVE  (faults = {} => Quiet)'
<1>1. faults' = faults
  BY DEF Next, setting, vars
<1> SUFFICES ASSUME faults = {} PROVE Quiet'
  BY <1>1
<1>2. Quiet
  OBVIOUS
<1>3. CASE UNCHANGED vars
  BY <1>2, <1>3, QuietStill DEF vars, moving, eventVars, appending, enqueue, queue, worker
<1>4. ASSUME NEW b \in BacktestWorker,
             PublishEnd(b) \/ Publish(b, "run.progress") \/ LookForJob(b) \/ Enqueue(b)
      PROVE  Quiet'
  BY <1>2, <1>4, QuietBacktest DEF PublishEnd
<1>5. ASSUME NEW w \in ChatWorker, WorkStep(w) PROVE Quiet'
  <2>1. ~FailJob(w)
    <3> SUFFICES ASSUME FailJob(w) PROVE FALSE
      OBVIOUS
    <3>1. pc[w] = "failJob"
      BY DEF FailJob, At
    <3> QED
      BY <1>2, <3>1, QuietActs DEF Quiet, QuietTurns, FailurePcs
  <2> QED
    BY <1>2, <1>5, <2>1, QuietClaim, QuietComplete, QuietEvent, QuietMove DEF WorkStep
<1>6. ASSUME NEW w \in ChatWorker, Raise(w) \/ Crash(w) PROVE FALSE
  BY <1>6 DEF Raise, Crash
<1>7. ASSUME NEW j \in Job, LeaseExpires(j) \/ RepairedPreviewEnds(j) PROVE FALSE
  BY <1>2, <1>7 DEF LeaseExpires, RepairedPreviewEnds, Quiet, QuietRows
<1>8. ASSUME NEW a \in Appender, LogStep(a) PROVE Quiet'
  BY <1>2, <1>8, QuietLogStep
<1> QED
  BY <1>3, <1>4, <1>5, <1>6, <1>7, <1>8 DEF Next, ReadStep

\* Nothing is there at first.
LEMMA QuietOfInit ==
    ASSUME Init
    PROVE  Quiet
<1> USE Ones
<1>1. /\ \A j \in Job : jobs[j] = Absent
      /\ \A w \in ChatWorker : pc[w] = "idle"
      /\ publisher = [b \in BacktestWorker |-> "publish"]
      /\ \A a \in Appender : phase[a] = "none" /\ outcome[a] = "none"
  BY DEF Init, EventsInit
<1>2. \A j \in Job : jobs[j].status = "absent" /\ jobs[j].claims = 0 /\ jobs[j].leased = FALSE
  BY <1>1 DEF Absent
<1>3. QuietTurns
  BY <1>1 DEF QuietTurns, FailurePcs
<1>4. QuietRows
  BY <1>1, <1>2 DEF QuietRows, Present
<1> QED
  BY <1>3, <1>4 DEF Quiet

\* A job posts at most once per claim.
LEMMA PostsArePaid ==
    ASSUME RepairInv
    PROVE  \A j \in Job : posted[j] \in Nat /\ jobs[j].claims \in Nat /\ posted[j] <= jobs[j].claims
<1> SUFFICES ASSUME NEW j \in Job
             PROVE  posted[j] \in Nat /\ jobs[j].claims \in Nat /\ posted[j] <= jobs[j].claims
  OBVIOUS
<1>1. /\ posted[j] \in Nat /\ Cardinality(Due(j)) \in Nat /\ jobs[j].claims \in Nat
      /\ repaired[j].bare \in Int /\ repaired[j].queued \in Nat /\ repaired[j].ended \in Nat
  BY FS_CardinalityType DEF RepairInv, RowShape, Row, Budget, Paid
<1>2. /\ Cardinality(Due(j)) + (repaired[j].bare + repaired[j].queued + repaired[j].ended + posted[j])
           <= jobs[j].claims
      /\ Cardinality(Open(j)) \in Nat /\ Cardinality(Open(j)) <= repaired[j].bare
  BY FS_CardinalityType DEF RepairInv, Budget, Paid, Bare, Created
<1> QED
  BY <1>1, <1>2

\* What is shown of summaries follows from the invariants.
LEMMA SummariesFollow ==
    ASSUME RepairInv, SumInv, faults = {} => Quiet
    PROVE  SummaryIsPosted
<1>1. \A j \in Job : jobs[j].kind = "summary" /\ jobs[j].status = "completed" =>
         IsMarked(j) /\ "summary.completed" \in sourceLog
  BY DEF SumInv, SumTold, Announced
<1>2. \A j \in Job : jobs[j].kind = "summary" /\ ~Followed(j) /\ jobs[j].marked => Posted(j)
  BY DEF SumInv, SumTold
<1>3. Logged("summary.completed") => \E j \in Job : Followed(j) /\ Posted(j)
  BY DEF SumInv, SumTold, SomePosted
<1>4. ASSUME faults = {}, NEW i \in Job, NEW j \in Job, Posted(i), Posted(j) PROVE i = j /\ posted[j] = 1
  <2>1. \A k \in {i, j} : posted[k] > 0 /\ posted[k] \in Nat /\ jobs[k].claims \in Nat /\ posted[k] <= jobs[k].claims
    BY <1>4, PostsArePaid DEF Posted
  <2>2. \A k \in {i, j} : Present(k) /\ jobs[k].claims <= 1
    <3> SUFFICES ASSUME NEW k \in {i, j} PROVE Present(k) /\ jobs[k].claims <= 1
      OBVIOUS
    <3>1. jobs[k].claims > 0 /\ k \in Job
      BY <2>1
    <3> QED
      BY <1>4, <3>1 DEF Quiet, QuietRows, RepairInv, RowShape, Present
  <2>3. posted[j] = 1
    BY <2>1, <2>2
  <2> QED
    BY <1>4, <2>2, <2>3 DEF Quiet, QuietRows
<1> QED
  BY <1>1, <1>2, <1>3, <1>4, PostsArePaid DEF SummaryIsPosted

\* The summary event of a preview and a completed summary job mean that the message is in
\* the conversation, a job posts at most once per claim, and when processes neither die,
\* fail, stall nor meet, one job posts it, once (_process_backtest_summary_job,
\* enqueueChatBacktestSummaryJob).
THEOREM SummariesArePosted == Spec => []SummaryIsPosted
<1>1. Init => LogInv /\ RepairInv /\ SumInv /\ (faults = {} => Quiet)
  BY LogOfInit, RepairOfInit, SumOfInit, QuietOfInit
<1>2. LogInv /\ RepairInv /\ SumInv /\ (faults = {} => Quiet) /\ [Next]_vars
         => LogInv' /\ RepairInv' /\ SumInv' /\ (faults = {} => Quiet)'
  BY LogStepKeeps, RepairStep, SumStep, QuietStep
<1>3. RepairInv /\ SumInv /\ (faults = {} => Quiet) => SummaryIsPosted
  BY SummariesFollow
<1> QED
  BY <1>1, <1>2, <1>3, PTL DEF Spec

----------------------------------------------------------------------------
(* Part 5: types.                                                          *)

\* Appends are of known types, and try while they may.
AppendTypes ==
    /\ \A e \in log : e.type \in EventType
    /\ rowLock \in ChatWorker \cup {Nobody}
    /\ pending \in [Appender -> EventType \cup {None}]
    /\ tries \in [Appender -> 0 .. MaxTries]
    /\ outcome \in [Appender -> {"none", "appended", "raised"}]
    /\ \A a \in Appender : phase[a] # "none" => pending[a] \in EventType /\ tries[a] < MaxTries

\* Jobs stay within their limits, and only running ones are leased.
JobTypes ==
    /\ serves \in [ChatWorker -> Job \cup {NoJob}]
    /\ \A j \in Job : /\ jobs[j].level \in Level /\ jobs[j].claims <= MaxClaims
                      /\ jobs[j].leased => jobs[j].status = "running"

\* An append ends.
LEMMA EndTypes ==
    ASSUME AppendTypes, LogInv, NEW a \in Appender, NEW how \in {"none", "appended", "raised"},
           EndAppend(a, how), \A e \in log' : e.type \in EventType,
           rowLock' \in ChatWorker \cup {Nobody},
           \E n \in 0 .. MaxTries : tries' = [tries EXCEPT ![a] = n]
    PROVE  AppendTypes'
<1>1. /\ pending' = [pending EXCEPT ![a] = None] /\ phase' = [phase EXCEPT ![a] = "none"]
      /\ outcome' = [outcome EXCEPT ![a] = how]
  BY DEF EndAppend
<1>2. /\ pending' \in [Appender -> EventType \cup {None}] /\ outcome' \in [Appender -> {"none", "appended", "raised"}]
      /\ tries' \in [Appender -> 0 .. MaxTries]
  BY <1>1 DEF AppendTypes
<1>3. \A b \in Appender \ {a} : phase'[b] = phase[b] /\ pending'[b] = pending[b] /\ tries'[b] = tries[b]
  BY <1>1 DEF AppendTypes, LogInv, AppendShape
<1>4. phase'[a] = "none"
  BY <1>1 DEF LogInv, AppendShape
<1> QED
  BY <1>2, <1>3, <1>4 DEF AppendTypes

\* An append goes on.
LEMMA MoveTypes ==
    ASSUME AppendTypes, LogInv, NEW a \in Appender, NEW p, phase' = [phase EXCEPT ![a] = p],
           phase[a] # "none", rowLock' \in ChatWorker \cup {Nobody},
           NEW n \in 0 .. MaxTries, n < MaxTries, tries' = [tries EXCEPT ![a] = n],
           UNCHANGED <<log, pending, outcome>>
    PROVE  AppendTypes'
<1>1. \A b \in Appender \ {a} : phase'[b] = phase[b] /\ tries'[b] = tries[b]
  BY DEF AppendTypes, LogInv, AppendShape
<1>2. tries' \in [Appender -> 0 .. MaxTries] /\ tries'[a] = n
  BY DEF AppendTypes
<1> QED
  BY <1>1, <1>2 DEF AppendTypes

\* An append begins.
LEMMA BeginTypes ==
    ASSUME AppendTypes, LogInv, NEW a \in Appender, NEW type \in EventType, BeginAppend(a, type)
    PROVE  AppendTypes'
<1>1. /\ pending' = [pending EXCEPT ![a] = type] /\ phase' = [phase EXCEPT ![a] = "begin"]
      /\ tries' = [tries EXCEPT ![a] = 0] /\ outcome' = [outcome EXCEPT ![a] = "none"]
      /\ UNCHANGED <<log, rowLock>>
  BY DEF BeginAppend
<1>2. 0 \in 0 .. MaxTries /\ 0 < MaxTries
  BY DEF MaxTries
<1>3. /\ pending' \in [Appender -> EventType \cup {None}] /\ outcome' \in [Appender -> {"none", "appended", "raised"}]
      /\ tries' \in [Appender -> 0 .. MaxTries]
  BY <1>1, <1>2 DEF AppendTypes
<1>4. \A b \in Appender \ {a} : phase'[b] = phase[b] /\ pending'[b] = pending[b] /\ tries'[b] = tries[b]
  BY <1>1 DEF AppendTypes, LogInv, AppendShape
<1>5. pending'[a] = type /\ tries'[a] = 0
  BY <1>1 DEF AppendTypes
<1> QED
  BY <1>1, <1>2, <1>3, <1>4, <1>5 DEF AppendTypes

\* Every statement of an append keeps its types.
LEMMA LogStepTypes ==
    ASSUME AppendTypes, LogInv, NEW a \in Appender, AppendStep(a)
    PROVE  AppendTypes'
<1>1. phase[a] # "none" /\ tries[a] \in 0 .. MaxTries /\ tries[a] < MaxTries
  <2>1. phase[a] # "none"
    BY DEF AppendStep, LockRun, InsertLocked, ReadSequence, EnterIndex, CommitEvent, BreakDeadlock
  <2> QED
    BY <2>1 DEF AppendTypes
<1>2. tries = [tries EXCEPT ![a] = tries[a]]
  BY DEF AppendTypes
<1>3. ASSUME Commit(a) PROVE \A e \in log' : e.type \in EventType
  <2>1. PICK e : e = [sequence |-> base[a] + 1, type |-> pending[a]]
    OBVIOUS
  <2>2. log' = log \cup {e} /\ e.type = pending[a]
    BY <1>3, <2>1 DEF Commit
  <2> QED
    BY <1>1, <2>2 DEF AppendTypes
<1>4. CASE LockRun(a) \/ ReadSequence(a)
  <2>1. /\ phase' = [phase EXCEPT ![a] = "insert"] /\ rowLock' \in ChatWorker \cup {Nobody}
        /\ UNCHANGED <<log, pending, outcome, tries>>
    BY <1>4 DEF LockRun, ReadSequence, AppendTypes
  <2> QED
    BY <1>1, <1>2, <2>1, MoveTypes
<1>5. CASE InsertLocked(a)
  <2>1. rowLock' \in ChatWorker \cup {Nobody}
    BY <1>5 DEF InsertLocked
  <2>2. CASE ~Taken(base[a] + 1)
    <3>1. Commit(a) /\ EndAppend(a, "appended") /\ tries' = tries
      BY <1>5, <2>2 DEF InsertLocked
    <3> QED
      BY <1>1, <1>2, <1>3, <2>1, <3>1, EndTypes
  <2>3. CASE Taken(base[a] + 1)
    <3>1. PICK n \in Nat : n = tries[a] + 1
      BY <1>1
    <3>2. n \in 0 .. MaxTries
      BY <1>1, <3>1 DEF MaxTries
    <3>3. tries' = [tries EXCEPT ![a] = n] /\ log' = log
      BY <1>5, <2>3, <3>1 DEF InsertLocked
    <3>4. CASE n >= MaxTries
      <4>1. EndAppend(a, "raised")
        BY <1>5, <2>3, <3>1, <3>4 DEF InsertLocked
      <4> QED
        BY <2>1, <3>2, <3>3, <4>1, EndTypes DEF AppendTypes
    <3>5. CASE ~(n >= MaxTries)
      <4>1. phase' = [phase EXCEPT ![a] = "begin"] /\ UNCHANGED <<pending, outcome>>
        BY <1>5, <2>3, <3>1, <3>5 DEF InsertLocked
      <4>2. n < MaxTries
        BY <3>5 DEF MaxTries
      <4> QED
        BY <1>1, <2>1, <3>2, <3>3, <4>1, <4>2, MoveTypes
    <3> QED
      BY <3>4, <3>5
  <2> QED
    BY <2>2, <2>3
<1>6. CASE EnterIndex(a)
  <2>1. UNCHANGED <<log, rowLock, tries>>
    BY <1>6 DEF EnterIndex
  <2>2. CASE EndAppend(a, "raised")
    BY <1>1, <1>2, <2>1, <2>2, EndTypes DEF AppendTypes
  <2>3. CASE phase' = [phase EXCEPT ![a] = "entered"] /\ UNCHANGED <<pending, base, outcome>>
    BY <1>1, <1>2, <2>1, <2>3, MoveTypes DEF AppendTypes
  <2> QED
    BY <1>6, <2>2, <2>3 DEF EnterIndex
<1>7. CASE CommitEvent(a)
  <2>1. Commit(a) /\ EndAppend(a, "appended") /\ UNCHANGED <<rowLock, tries>>
    BY <1>7 DEF CommitEvent
  <2> QED
    BY <1>1, <1>2, <1>3, <2>1, EndTypes DEF AppendTypes
<1>8. ASSUME NEW b \in BacktestWorker, BreakDeadlock(a, b) PROVE AppendTypes'
  <2>1. /\ b \in Appender /\ UNCHANGED <<log, tries>> /\ rowLock' \in ChatWorker \cup {Nobody}
        /\ EndAppend(a, "raised") \/ EndAppend(b, "raised")
    BY <1>8 DEF BreakDeadlock, Appender, AppendTypes
  <2>2. tries = [tries EXCEPT ![b] = tries[b]] /\ tries[b] \in 0 .. MaxTries
    BY <2>1 DEF AppendTypes
  <2> QED
    BY <1>1, <1>2, <2>1, <2>2, EndTypes DEF AppendTypes
<1> QED
  BY <1>4, <1>5, <1>6, <1>7, <1>8 DEF AppendStep

\* Every step of the system keeps what is appended.
LEMMA AppendTypesStep ==
    ASSUME AppendTypes, LogInv, RepairInv, [Next]_vars
    PROVE  AppendTypes'
<1>1. \A w \in ChatWorker : w \in Appender
  BY DEF Appender
<1>2. \A b \in BacktestWorker : b \in Appender
  BY DEF Appender
<1>3. ASSUME UNCHANGED <<log, rowLock, pending, tries, outcome, phase>> PROVE AppendTypes'
  BY <1>3 DEF AppendTypes
<1>4. CASE UNCHANGED vars
  BY <1>3, <1>4 DEF vars, moving, eventVars, appending
<1>5. ASSUME NEW b \in BacktestWorker, PublishEnd(b) \/ Publish(b, "run.progress") PROVE AppendTypes'
  <2>1. PICK type \in {"run.completed", "run.failed", "run.progress"} : Publish(b, type)
    BY <1>5 DEF PublishEnd
  <2>2. type \in EventType /\ BeginAppend(b, type)
    BY <2>1, ContinuationAssumption DEF Publish
  <2> QED
    BY <1>2, <2>2, BeginTypes
<1>6. ASSUME NEW b \in BacktestWorker, LookForJob(b) \/ Enqueue(b) PROVE AppendTypes'
  BY <1>3, <1>6 DEF LookForJob, Enqueue, eventVars, appending
<1>7. ASSUME NEW a \in Appender, LogStep(a) PROVE AppendTypes'
  BY <1>7, LogStepTypes DEF LogStep
<1>8. ASSUME NEW r \in Reader, Read(r) \/ ReadSnapshot(r) PROVE AppendTypes'
  BY <1>3, <1>8 DEF Read, ReadSnapshot, appending
<1>9. ASSUME NEW w \in ChatWorker, BeginEvent(w) PROVE AppendTypes'
  <2>1. CASE UNCHANGED eventVars
    BY <1>3, <2>1 DEF eventVars, appending
  <2>2. CASE BeginAppend(w, EventAt(w))
    <3>1. pc[w] \in {"started", "repairFailed", "event", "autoFailed"}
      BY <1>9 DEF BeginEvent, EventPcs, MirrorOf
    <3>2. EventAt(w) \in EventType
      <4>1. EventAt(w) \in {"repair.started", "repair.failed", "summary.completed", "repair.completed", "chain.failed"}
        BY <3>1 DEF EventAt
      <4> QED
        BY <4>1, ContinuationAssumption
    <3> QED
      BY <1>1, <2>2, <3>2, BeginTypes
  <2> QED
    BY <1>9, <2>1, <2>2 DEF BeginEvent
<1>10. ASSUME NEW w \in ChatWorker, EventEnds(w) PROVE AppendTypes'
  <2>1. outcome' = [outcome EXCEPT ![w] = "none"] /\ UNCHANGED <<log, rowLock, pending, phase, tries>>
    BY <1>10 DEF EventEnds
  <2> QED
    BY <1>1, <2>1 DEF AppendTypes
<1>11. ASSUME NEW w \in ChatWorker,
              \/ SelectCandidates(w) \/ ClaimRunJob(w) \/ Complete(w) \/ FailJob(w) \/ MirrorEvent(w)
              \/ LookForSummary(w) \/ PostSummary(w) \/ AskModel(w) \/ CreateRepairedRun(w)
              \/ CreateRepairedJob(w) \/ AppendWaiting(w) \/ Raise(w)
       PROVE  AppendTypes'
  <2>1. UNCHANGED eventVars
    BY <1>11 DEF SelectCandidates, ClaimRunJob, Complete, FailJob, CompleteRunJob, MirrorEvent,
                 LookForSummary, PostSummary, AskModel, CreateRepairedRun, CreateRepairedJob,
                 AppendWaiting, Raise
  <2> QED
    BY <1>3, <2>1 DEF eventVars, appending
<1>12. ASSUME NEW w \in ChatWorker, WorkStep(w) PROVE AppendTypes'
  BY <1>9, <1>10, <1>11, <1>12 DEF WorkStep
<1>13. ASSUME NEW w \in ChatWorker, Crash(w) PROVE AppendTypes'
  <2>1. /\ EndAppend(w, "none") /\ UNCHANGED <<log, tries>>
        /\ rowLock' = IF rowLock = w THEN Nobody ELSE rowLock
    BY <1>13 DEF Crash, AbortAppend
  <2>2. tries = [tries EXCEPT ![w] = tries[w]] /\ tries[w] \in 0 .. MaxTries
    BY <1>1 DEF AppendTypes
  <2> QED
    BY <1>1, <2>1, <2>2, EndTypes DEF AppendTypes
<1>14. ASSUME NEW j \in Job, LeaseExpires(j) \/ RepairedPreviewEnds(j) PROVE AppendTypes'
  BY <1>3, <1>14 DEF LeaseExpires, RepairedPreviewEnds, eventVars, appending
<1> QED
  BY <1>4, <1>5, <1>6, <1>7, <1>8, <1>11, <1>12, <1>13, <1>14 DEF Next, ReadStep

\* Jobs of which only what is not a limit changes.
LEMMA RowTypes ==
    ASSUME JobTypes, NEW i, NEW row, jobs' = [jobs EXCEPT ![i] = row], jobs \in [Job -> Row],
           row.level \in Level, row.claims <= MaxClaims, row.leased => row.status = "running",
           serves' \in [ChatWorker -> Job \cup {NoJob}]
    PROVE  JobTypes'
<1>1. \A j \in Job : jobs'[j] = row \/ jobs'[j] = jobs[j]
  OBVIOUS
<1> QED
  BY <1>1 DEF JobTypes

\* A job is inserted at a level that is allowed.
LEMMA InsertTypes ==
    ASSUME JobTypes, RepairInv, NEW kind, NEW of, NEW level \in Level, InsertJob(kind, of, level),
           serves' = serves
    PROVE  JobTypes'
<1>1. PICK i \in FreeJobs :
        jobs' = [jobs EXCEPT ![i] = [Absent EXCEPT !.kind = kind, !.of = of, !.level = level,
                                                   !.status = "queued"]]
  BY DEF InsertJob
<1>2. PICK row : row = [Absent EXCEPT !.kind = kind, !.of = of, !.level = level, !.status = "queued"]
  OBVIOUS
<1>3. row.leased = FALSE /\ row.level = level /\ row.claims = 0
  BY <1>2 DEF Absent
<1>4. jobs' = [jobs EXCEPT ![i] = row]
  BY <1>1, <1>2
<1>5. row.claims <= MaxClaims
  BY <1>3, ContinuationAssumption
<1>6. serves' \in [ChatWorker -> Job \cup {NoJob}] /\ jobs \in [Job -> Row]
  BY DEF JobTypes, RepairInv, RowShape
<1> QED
  BY <1>3, <1>4, <1>5, <1>6, RowTypes

\* Every step of the system keeps the limits of jobs.
LEMMA JobTypesStep ==
    ASSUME JobTypes, RepairInv, [Next]_vars
    PROVE  JobTypes'
<1>1. jobs \in [Job -> Row]
  BY DEF RepairInv, RowShape
<1>2. ASSUME UNCHANGED <<jobs, serves>> PROVE JobTypes'
  BY <1>2 DEF JobTypes
<1>3. ASSUME NEW w \in ChatWorker, Return(w) PROVE serves' \in [ChatWorker -> Job \cup {NoJob}]
  BY <1>3 DEF Return, JobTypes
<1>4. CASE UNCHANGED vars
  BY <1>2, <1>4 DEF vars, moving, queue, worker
<1>5. ASSUME NEW b \in BacktestWorker, NEW type, Publish(b, type) \/ LookForJob(b) PROVE JobTypes'
  BY <1>2, <1>5 DEF Publish, LookForJob, queue, worker
<1>6. ASSUME NEW b \in BacktestWorker, Enqueue(b) PROVE JobTypes'
  <2>1. serves' = serves /\ 0 \in Level /\ 1 \in Level
    BY <1>6, ContinuationAssumption DEF Enqueue, worker, Level
  <2>2. jobs' = jobs \/ InsertJob("summary", NoJob, 0) \/ InsertJob("repair", NoJob, 1)
    BY <1>6 DEF Enqueue
  <2> QED
    BY <1>2, <2>1, <2>2, InsertTypes
<1>7. ASSUME NEW i \in Job, RepairedPreviewEnds(i) PROVE JobTypes'
  <2>1. serves' = serves /\ jobs[i].level \in Level
    BY <1>7 DEF RepairedPreviewEnds, worker, JobTypes
  <2>2. \/ jobs' = jobs \/ InsertJob("summary", i, jobs[i].level)
        \/ jobs[i].level < MaxRepairs /\ InsertJob("repair", i, jobs[i].level + 1)
    BY <1>7 DEF RepairedPreviewEnds
  <2>3. jobs[i].level < MaxRepairs => jobs[i].level + 1 \in Level
    BY <2>1, ContinuationAssumption DEF Level
  <2> QED
    BY <1>2, <2>1, <2>2, <2>3, InsertTypes
<1>8. ASSUME NEW i \in Job, LeaseExpires(i) PROVE JobTypes'
  <2>1. PICK row : row = [jobs[i] EXCEPT !.leased = FALSE]
    OBVIOUS
  <2>2. jobs' = [jobs EXCEPT ![i] = row] /\ serves' = serves
    BY <1>1, <1>8, <2>1 DEF LeaseExpires, worker
  <2>3. row.leased = FALSE /\ row.level = jobs[i].level /\ row.claims = jobs[i].claims
    BY <1>1, <2>1 DEF Row
  <2> QED
    BY <1>1, <2>2, <2>3, RowTypes DEF JobTypes
<1>9. ASSUME NEW w \in ChatWorker, ClaimRunJob(w) PROVE JobTypes'
  <2>1. CASE Return(w) /\ jobs' = jobs
    BY <1>3, <2>1 DEF JobTypes
  <2>2. CASE ~(Return(w) /\ jobs' = jobs)
    <3>1. PICK i \in candidates[w] :
            /\ Claimable(i) /\ jobs' = [jobs EXCEPT ![i] = Leased(i, w)]
            /\ serves' = [serves EXCEPT ![w] = i]
      BY <1>9, <2>2, ClaimEffect
    <3>2. i \in Job /\ jobs[i] \in Row /\ jobs[i].claims < MaxClaims
      BY <3>1 DEF RepairInv, WorkerShape, RowShape, Claimable
    <3>3. /\ Leased(i, w).status = "running" /\ Leased(i, w).level = jobs[i].level
          /\ Leased(i, w).claims = jobs[i].claims + 1
      BY <3>2 DEF Leased, Row
    <3>4. Leased(i, w).claims <= MaxClaims
      BY <3>2, <3>3, ContinuationAssumption DEF Row
    <3>5. serves' \in [ChatWorker -> Job \cup {NoJob}]
      BY <3>1, <3>2 DEF JobTypes
    <3>6. PICK row : row = Leased(i, w)
      OBVIOUS
    <3> QED
      BY <1>1, <3>1, <3>2, <3>3, <3>4, <3>5, <3>6, RowTypes DEF JobTypes
  <2> QED
    BY <2>1, <2>2
<1>10. ASSUME NEW w \in ChatWorker, Complete(w) \/ FailJob(w) PROVE JobTypes'
  <2>1. PICK status : CompleteRunJob(w, status)
    BY <1>10 DEF Complete, FailJob
  <2>2. PICK i : i = serves[w]
    OBVIOUS
  <2>3. PICK row : row = [jobs[i] EXCEPT !.status = status, !.owner = Nobody, !.leased = FALSE]
    OBVIOUS
  <2>4. i \in Job
    BY <1>10, <2>2 DEF Complete, FailJob, At, RepairInv, Work
  <2>5. jobs' = [jobs EXCEPT ![i] = row] /\ Return(w)
    BY <1>1, <2>1, <2>2, <2>3, <2>4 DEF CompleteRunJob
  <2>6. row.leased = FALSE /\ row.level = jobs[i].level /\ row.claims = jobs[i].claims
    BY <1>1, <2>3, <2>4 DEF Row
  <2> QED
    BY <1>1, <1>3, <2>4, <2>5, <2>6, RowTypes DEF JobTypes
<1>11. ASSUME NEW w \in ChatWorker, BeginEvent(w) PROVE JobTypes'
  <2>1. serves' = serves
    BY <1>11 DEF BeginEvent, worker, Goto
  <2>2. CASE jobs' = jobs
    BY <1>2, <2>1, <2>2
  <2>3. CASE jobs' # jobs
    <3>1. jobs' = [jobs EXCEPT ![serves[w]].marked = @ \/ pc[w] = "event"]
      BY <1>11, <2>3 DEF BeginEvent, queue
    <3>2. \A j \in Job : /\ jobs'[j].level = jobs[j].level /\ jobs'[j].claims = jobs[j].claims
                         /\ jobs'[j].leased = jobs[j].leased /\ jobs'[j].status = jobs[j].status
      BY <1>1, <3>1 DEF Row
    <3> QED
      BY <2>1, <3>2 DEF JobTypes
  <2> QED
    BY <2>2, <2>3
<1>12. ASSUME NEW w \in ChatWorker, EventEnds(w) \/ Crash(w) PROVE JobTypes'
  <2>1. jobs' = jobs /\ (serves' = serves \/ Return(w))
    BY <1>12 DEF EventEnds, Crash, Goto, queue
  <2> QED
    BY <1>2, <1>3, <2>1 DEF JobTypes
<1>13. ASSUME NEW w \in ChatWorker,
              \/ SelectCandidates(w) \/ MirrorEvent(w) \/ LookForSummary(w) \/ PostSummary(w)
              \/ AskModel(w) \/ CreateRepairedRun(w) \/ CreateRepairedJob(w) \/ AppendWaiting(w) \/ Raise(w)
       PROVE  JobTypes'
  BY <1>2, <1>13 DEF SelectCandidates, MirrorEvent, LookForSummary, PostSummary, AskModel,
                     CreateRepairedRun, CreateRepairedJob, AppendWaiting, Raise, Goto, queue
<1>14. ASSUME NEW w \in ChatWorker, WorkStep(w) PROVE JobTypes'
  BY <1>9, <1>10, <1>11, <1>12, <1>13, <1>14 DEF WorkStep
<1>15. ASSUME UNCHANGED <<queue, worker>> PROVE JobTypes'
  BY <1>2, <1>15 DEF queue, worker
<1>16. ASSUME NEW a \in Appender, LogStep(a) PROVE JobTypes'
  BY <1>15, <1>16 DEF LogStep
<1> QED
  BY <1>4, <1>5, <1>6, <1>7, <1>8, <1>12, <1>13, <1>14, <1>15, <1>16 DEF Next, PublishEnd, ReadStep

\* Types hold at first.
LEMMA TypesOfInit ==
    ASSUME Init
    PROVE  AppendTypes /\ JobTypes
<1>1. /\ log = {} /\ rowLock = Nobody
      /\ pending = [a \in Appender |-> None] /\ tries = [a \in Appender |-> 0]
      /\ outcome = [a \in Appender |-> "none"] /\ phase = [a \in Appender |-> "none"]
      /\ \A j \in Job : jobs[j] = Absent
      /\ serves = [w \in ChatWorker |-> NoJob]
  BY DEF Init, EventsInit
<1>2. AppendTypes
  BY <1>1 DEF AppendTypes, MaxTries
<1>3. 0 \in Level /\ 0 <= MaxClaims
  BY ContinuationAssumption DEF Level
<1>4. JobTypes
  BY <1>1, <1>3 DEF JobTypes, Absent
<1> QED
  BY <1>2, <1>4

\* The type invariant follows.
LEMMA TypesFollow ==
    ASSUME LogInv, RepairInv, AppendTypes, JobTypes
    PROVE  TypeOK
<1>1. \A e \in log : e.sequence \in Nat \ {0}
  <2>1. Cardinality(log) \in Nat
    BY FS_CardinalityType DEF LogInv, LogShape
  <2> QED
    BY <2>1 DEF LogInv, LogShape, Sequences
<1>2. EventsTypeOK
  BY <1>1 DEF EventsTypeOK, LogInv, AppendShape, ReadShape, AppendTypes
<1>3. repaired \in [Job -> [bare : Nat, queued : Nat, ended : Nat]]
  <2>1. \A j \in Job : repaired[j].bare \in Nat
    <3> SUFFICES ASSUME NEW j \in Job PROVE repaired[j].bare \in Nat
      OBVIOUS
    <3>1. /\ Cardinality(Open(j)) \in Nat /\ Cardinality(Open(j)) <= repaired[j].bare
          /\ repaired[j].bare \in Int
      BY FS_CardinalityType DEF RepairInv, RowShape, Budget, Bare
    <3> QED
      BY <3>1
  <2>2. \A j \in Job : repaired[j] \in [bare : Nat, queued : Nat, ended : Nat]
    BY <2>1 DEF RepairInv, RowShape
  <2> QED
    BY <2>2 DEF RepairInv, RowShape
<1>4. \A j \in Job : jobs[j].claims \in 0 .. MaxClaims
  BY ContinuationAssumption DEF RepairInv, RowShape, Row, JobTypes
<1>5. \A j \in Job : /\ jobs[j].kind \in Kinds
                     /\ jobs[j].status \in {"absent", "queued", "running", "completed", "failed"}
                     /\ jobs[j].owner \in ChatWorker \cup {Nobody}
  BY DEF RepairInv, RowShape, Row
<1> QED
  BY <1>2, <1>3, <1>4, <1>5 DEF TypeOK, JobTypes, RepairInv, RowShape

\* The variables keep their types: jobs within their claims and levels, leases with
\* running jobs only, appends within their tries, counts never below zero
\* (claim_run_job, append_run_events, the compatibility_repair_level of a job).
THEOREM TypesStayOK == Spec => []TypeOK
<1>1. Init => LogInv /\ RepairInv /\ AppendTypes /\ JobTypes
  BY LogOfInit, RepairOfInit, TypesOfInit
<1>2. LogInv /\ RepairInv /\ AppendTypes /\ JobTypes /\ [Next]_vars
         => LogInv' /\ RepairInv' /\ AppendTypes' /\ JobTypes'
  BY LogStepKeeps, RepairStep, AppendTypesStep, JobTypesStep
<1>3. LogInv /\ RepairInv /\ AppendTypes /\ JobTypes => TypeOK
  BY TypesFollow
<1> QED
  BY <1>1, <1>2, <1>3, PTL DEF Spec
=============================================================================
