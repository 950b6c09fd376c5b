----------------------------- MODULE RunEvents -----------------------------
(***************************************************************************)
(* The event log of one run: the rows of run_events, appended by Python    *)
(* processes (append_run_events, under a lock of the run's row) and by     *)
(* backtest workers (appendEvent, one statement without a lock), and read  *)
(* by clients of the event stream that resume after the last event they    *)
(* received.                                                               *)
(*                                                                         *)
(* PostgreSQL is modelled as far as the two ways to append meet in it: a   *)
(* unique index on (run_id, sequence), in which an entry that is not yet   *)
(* committed makes others wait, and the foreign key to the run's row,      *)
(* which an insert checks last and which waits for the lock of the row.    *)
(***************************************************************************)
EXTENDS Naturals, FiniteSets

CONSTANTS
    ChatWorker,      \* Python processes that append under the lock
    BacktestWorker,  \* workers that append in one statement
    Reader,          \* clients of the event stream
    EventType,       \* types of events
    Nobody, None

MaxTries == 3

Appender == ChatWorker \cup BacktestWorker

VARIABLES
    log,       \* the committed events of the run
    rowLock,   \* who holds the run's row FOR UPDATE
    pending,   \* the event each appender is appending
    phase,     \* how far its statements are
    base,      \* the last sequence number it read
    tries,     \* attempts of append_run_events that met a taken number
    outcome,   \* what its append came to
    cursor,    \* the last event each reader received: Last-Event-ID
    received   \* all events it received

appending == <<rowLock, pending, phase, base, tries, outcome>>
reading   == <<cursor, received>>
eventVars == <<log, appending, reading>>

EventsInit ==
    /\ log = {}
    /\ rowLock = Nobody
    /\ pending = [a \in Appender |-> None]
    /\ phase = [a \in Appender |-> "none"]
    /\ base = [a \in Appender |-> 0]
    /\ tries = [a \in Appender |-> 0]
    /\ outcome = [a \in Appender |-> "none"]
    /\ cursor = [r \in Reader |-> 0]
    /\ received = [r \in Reader |-> {}]

Sequences == {e.sequence : e \in log}

Logged(type) == \E e \in log : e.type = type

\* Numbers handed out count as used, whether their events are committed or not.
LastHandedOut ==
    LET handed == Sequences \cup {base[a] + 1 : a \in {b \in Appender : phase[b] \in {"insert", "entered"}}}
    IN IF handed = {} THEN 0 ELSE CHOOSE n \in handed : \A m \in handed : m <= n

\* SELECT max(sequence) sees what is committed.
LastSequence ==
    IF log = {} THEN 0 ELSE CHOOSE n \in Sequences : \A m \in Sequences : m <= n

Idle(a) == phase[a] = "none"

\* An append begins: the caller waits for it in the phase "begin".
BeginAppend(a, type) ==
    /\ Idle(a)
    /\ pending' = [pending EXCEPT ![a] = type]
    /\ phase' = [phase EXCEPT ![a] = "begin"]
    /\ tries' = [tries EXCEPT ![a] = 0]
    /\ outcome' = [outcome EXCEPT ![a] = "none"]
    /\ UNCHANGED <<log, rowLock, base, reading>>

\* It ends: the caller finds out how.
EndAppend(a, how) ==
    /\ pending' = [pending EXCEPT ![a] = None]
    /\ phase' = [phase EXCEPT ![a] = "none"]
    /\ outcome' = [outcome EXCEPT ![a] = how]
    /\ base' = [base EXCEPT ![a] = 0]

Commit(a) == log' = log \cup {[sequence |-> base[a] + 1, type |-> pending[a]]}

Taken(n) == n \in Sequences

\* An entry of the unique index whose insert has not committed.
Entered(n) == \E b \in BacktestWorker : phase[b] = "entered" /\ base[b] + 1 = n

-----------------------------------------------------------------------------
(* append_run_events.                                                      *)

\* SELECT ... FOR UPDATE of the run, then max(sequence) under that lock.
LockRun(a) ==
    /\ a \in ChatWorker /\ phase[a] = "begin"
    /\ rowLock = Nobody
    /\ rowLock' = a
    /\ base' = [base EXCEPT ![a] = LastSequence]
    /\ phase' = [phase EXCEPT ![a] = "insert"]
    /\ UNCHANGED <<log, pending, tries, outcome, reading>>

\* The insert and the commit.  A taken number is an IntegrityError, which is
\* tried again twice; a number somebody else is inserting is waited for.
InsertLocked(a) ==
    /\ a \in ChatWorker /\ phase[a] = "insert"
    /\ ~Entered(base[a] + 1)
    /\ rowLock' = Nobody
    /\ IF ~Taken(base[a] + 1)
       THEN Commit(a) /\ EndAppend(a, "appended") /\ UNCHANGED tries
       ELSE /\ tries' = [tries EXCEPT ![a] = @ + 1]
            /\ IF tries[a] + 1 >= MaxTries
               THEN EndAppend(a, "raised")
               ELSE /\ phase' = [phase EXCEPT ![a] = "begin"]
                    /\ UNCHANGED <<pending, base, outcome>>
            /\ UNCHANGED log
    /\ UNCHANGED reading

-----------------------------------------------------------------------------
(* appendEvent.                                                            *)

\* The statement takes its snapshot and computes max(sequence) + 1 in it.
ReadSequence(a) ==
    /\ a \in BacktestWorker /\ phase[a] = "begin"
    /\ base' = [base EXCEPT ![a] = LastSequence]
    /\ phase' = [phase EXCEPT ![a] = "insert"]
    /\ UNCHANGED <<log, rowLock, pending, tries, outcome, reading>>

\* Its entry goes into the index unless the number is taken meanwhile; it waits
\* for another entry with the number.
EnterIndex(a) ==
    /\ a \in BacktestWorker /\ phase[a] = "insert"
    /\ ~Entered(base[a] + 1)
    /\ IF Taken(base[a] + 1)
       THEN EndAppend(a, "raised")
       ELSE /\ phase' = [phase EXCEPT ![a] = "entered"]
            /\ UNCHANGED <<pending, base, outcome>>
    /\ UNCHANGED <<log, rowLock, tries, reading>>

\* The foreign key is checked, for which the run's row must not be locked.
CommitEvent(a) ==
    /\ phase[a] = "entered"
    /\ rowLock = Nobody
    /\ Commit(a)
    /\ EndAppend(a, "appended")
    /\ UNCHANGED <<rowLock, tries, reading>>

\* A locked append waits for an entry whose insert waits for the lock: PostgreSQL
\* fails one of the two after deadlock_timeout, and neither is tried again.
BreakDeadlock(a, b) ==
    /\ rowLock = a /\ phase[a] = "insert"
    /\ phase[b] = "entered" /\ base[b] = base[a]
    /\ \/ EndAppend(a, "raised") /\ rowLock' = Nobody
       \/ EndAppend(b, "raised") /\ UNCHANGED rowLock
    /\ UNCHANGED <<log, tries, reading>>

\* The process of an appender dies: its transaction is rolled back.
AbortAppend(a) ==
    /\ EndAppend(a, "none")
    /\ rowLock' = IF rowLock = a THEN Nobody ELSE rowLock
    /\ UNCHANGED <<log, tries, reading>>

-----------------------------------------------------------------------------
(* stream_run_events and stream_run_progress.                              *)

\* list_run_events_after: the events after the one the client received last, or
\* all of them when it names none, or one that is not in the log.
EventsAfter(n) == {e \in log : n \notin Sequences \/ e.sequence > n}

Read(r) ==
    /\ EventsAfter(cursor[r]) # {}
    /\ received' = [received EXCEPT ![r] = @ \cup EventsAfter(cursor[r])]
    /\ cursor' = [cursor EXCEPT ![r] = LastSequence]
    /\ UNCHANGED <<log, appending>>

\* The client of the progress stream loses the connection after the snapshot
\* frame, whose id is not in the log.
ReadSnapshot(r) ==
    /\ cursor[r] # 0
    /\ cursor' = [cursor EXCEPT ![r] = 0]
    /\ UNCHANGED <<log, appending, received>>

AppendStep(a) ==
    \/ LockRun(a) \/ InsertLocked(a) \/ ReadSequence(a) \/ EnterIndex(a) \/ CommitEvent(a)
    \/ \E b \in BacktestWorker : BreakDeadlock(a, b)

-----------------------------------------------------------------------------
EventsTypeOK ==
    /\ \A e \in log : e.sequence \in Nat \ {0} /\ e.type \in EventType
    /\ rowLock \in ChatWorker \cup {Nobody}
    /\ pending \in [Appender -> EventType \cup {None}]
    /\ phase \in [Appender -> {"none", "begin", "insert", "entered"}]
    /\ base \in [Appender -> Nat] /\ tries \in [Appender -> 0 .. MaxTries]
    /\ outcome \in [Appender -> {"none", "appended", "raised"}]
    /\ cursor \in [Reader -> Nat] /\ received \in [Reader -> SUBSET log]

\* The events of a run are numbered 1, 2, 3 ... without a gap and without a
\* repetition, whoever appends them at once and in whichever way.
LogIsGapless == Cardinality(log) = Cardinality(Sequences) /\ Sequences = 1 .. Cardinality(log)

\* A reader that resumes with Last-Event-ID has received every event up to it: none
\* commits later with a smaller number (list_run_events_after).
NothingIsMissed ==
    \A r \in Reader : \A e \in log : e.sequence <= cursor[r] => e \in received[r]
=============================================================================
