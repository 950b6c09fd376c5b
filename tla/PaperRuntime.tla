---------------------------- MODULE PaperRuntime ----------------------------
(***************************************************************************)
(* One paper runtime: its row of nautilus_runtimes, the API requests that  *)
(* change it, and the paper workers that lease it, read its commands and   *)
(* bars from Redis streams, execute the bars and store their events.       *)
(*                                                                         *)
(* A worker locks the row for each of its statements (FOR UPDATE SKIP      *)
(* LOCKED), so each of them is one action.  A request, and the heartbeat   *)
(* of a worker, read the row without a lock and write, when they commit,   *)
(* the columns whose value differs from the one they read: two actions.    *)
(***************************************************************************)
EXTENDS Naturals, Sequences

CONSTANTS
    Worker,        \* worker ids (NAUTILUS_PAPER_WORKER_ID, or hostname and pid)
    Client,        \* API requests that may be in progress at a time
    BatchSize,     \* EVENT_BATCH_SIZE: how many bars one XREAD returns
    MaxBars,       \* bound: bars published
    MaxCommands,   \* bound: entries of the command stream
    MaxGeneration, \* bound: how often the lease may change hands
    Requests,      \* bound: the kinds of request this instance makes
    Faults,        \* what the environment may do in this instance
    NoWorker

ASSUME PaperRuntimeAssumption ==
    /\ BatchSize \in Nat \ {0}
    /\ MaxBars \in Nat
    /\ MaxCommands \in 0 .. 10     \* what one read of the command stream returns
    /\ MaxGeneration \in Nat
    /\ NoWorker \notin Worker
    /\ Requests \subseteq {"stop", "kill", "heartbeat", "setState"}
    /\ Faults \subseteq {"crash", "expiry", "locked", "batch", "abandon"}

Bar     == 1 .. MaxBars
Command == {"stop", "reload", "kill-switch"}
Halting == {"stop", "kill-switch"}

\* A worker at one of these has a record of the runtime.
RoundPcs == {"commands", "halt", "ackCommands", "market", "store", "heartbeat", "beat", "end"}

HeartbeatStates == {"warming_up", "running"}
TerminalRuntimeStates == {"stopped", "failed"}
RuntimeStates ==
    {"absent", "requested", "provisioning", "degraded", "stopping"}
        \cup HeartbeatStates \cup TerminalRuntimeStates

VARIABLES
    state,        \* nautilus_runtimes.state
    desired,      \* desired_state
    kill,         \* kill_switch_active
    owner,        \* worker_id
    lease,        \* lease_until: NULL, not before now, or before it
    generation,   \* generation
    cursor,       \* stream_cursor_json: the last bar acknowledged ...
    cmdCursor,    \* ... and the last command
    stored,       \* bars whose events are in nautilus_runtime_events
    bars,         \* how many bars the collector has published
    commands,     \* the command stream
    pc,           \* the next statement of each worker process
    gen,          \* generation of the record its claim returned
    at,           \* the bar cursor of that record
    cmdAt,        \* the command cursor of that record
    batch,        \* bars whose events it has yet to store
    next,         \* the bar cursor it acknowledges afterwards
    sessionGen,   \* the generation of its native session, 0 if it has none
    processed,    \* source events this session remembers
    request,      \* what each API request does next
    want,         \* the state it or a heartbeat is going to write
    readState     \* the state it or a heartbeat read

row     == <<state, desired, kill, owner, lease, generation, cursor, cmdCursor>>
streams == <<bars, commands>>
record  == <<gen, at, cmdAt, batch, next>>
session == <<sessionGen, processed>>
txn     == <<want, readState>>
vars    == <<row, stored, streams, pc, record, session, request, txn>>

Actor == Worker \cup Client

Init ==
    /\ state = "absent" /\ desired = "absent" /\ kill = FALSE
    /\ owner = NoWorker /\ lease = "null" /\ generation = 0
    /\ cursor = 0 /\ cmdCursor = 0
    /\ stored = {}
    /\ bars = 0 /\ commands = <<>>
    /\ pc = [w \in Worker |-> "idle"]
    /\ gen = [w \in Worker |-> 0]
    /\ at = [w \in Worker |-> 0]
    /\ cmdAt = [w \in Worker |-> 0]
    /\ batch = [w \in Worker |-> {}]
    /\ next = [w \in Worker |-> 0]
    /\ sessionGen = [w \in Worker |-> 0]
    /\ processed = [w \in Worker |-> {}]
    /\ request = [c \in Client |-> "none"]
    /\ want = [a \in Actor |-> "absent"]
    /\ readState = [a \in Actor |-> "absent"]

-----------------------------------------------------------------------------
(* The environment: clients, the market, operators, time.                  *)

\* upsert_nautilus_runtime creates the row.  For an existing row it adds the
\* strategy and changes nothing of what is modelled, whatever its state.
StartRuntime ==
    /\ state = "absent"
    /\ state' = "requested"
    /\ desired' = "running"
    /\ UNCHANGED <<kill, owner, lease, generation, cursor, cmdCursor, stored, streams,
                   pc, record, session, request, txn>>

PublishBar ==
    /\ bars < MaxBars
    /\ bars' = bars + 1
    /\ UNCHANGED <<row, stored, commands, pc, record, session, request, txn>>

SendCommand ==
    /\ Len(commands) < MaxCommands
    /\ \E c \in Command : commands' = Append(commands, c)
    /\ UNCHANGED <<row, stored, bars, pc, record, session, request, txn>>

\* Every claim sets lease_until to now plus the lease; a round that takes longer,
\* or a process that is gone, lets it pass.
LeaseLapses ==
    /\ "expiry" \in Faults
    /\ lease = "future"
    /\ lease' = "past"
    /\ UNCHANGED <<state, desired, kill, owner, generation, cursor, cmdCursor, stored, streams,
                   pc, record, session, request, txn>>

-----------------------------------------------------------------------------
(* Transactions that read without a lock.                                  *)

\* The row as actor a reads it; s is the state it is going to write.
Read(a, s) ==
    /\ want' = [want EXCEPT ![a] = s]
    /\ readState' = [readState EXCEPT ![a] = state]

Forget(a) ==
    /\ want' = [want EXCEPT ![a] = "absent"]
    /\ readState' = [readState EXCEPT ![a] = "absent"]

\* The UPDATE names the state column only if the transaction changed it.
CommitState(a) == state' = IF want[a] = readState[a] THEN state ELSE want[a]

\* record_nautilus_runtime_heartbeat: the state it computes from what it read.
HeartbeatState(reported) ==
    IF ~kill THEN reported
    ELSE IF state \in TerminalRuntimeStates THEN state ELSE "stopping"

ReadHeartbeat(a) == \E reported \in HeartbeatStates : Read(a, HeartbeatState(reported))

CommitHeartbeat(a) ==
    /\ CommitState(a)
    /\ Forget(a)
    /\ UNCHANGED <<desired, kill, owner, lease, generation, cursor, cmdCursor>>

-----------------------------------------------------------------------------
(* API requests.                                                           *)

Proceed(c, step) == request' = [request EXCEPT ![c] = step]

rest == <<stored, streams, pc, record, session>>

Receive(c, step) ==
    /\ step \in Requests
    /\ state # "absent"
    /\ request[c] = "none"
    /\ Proceed(c, step)

\* POST .../stop: set_nautilus_runtime_state, then set_nautilus_runtime_desired_state.
StopRead(c) ==
    /\ Receive(c, "stop")
    /\ Read(c, "stopping")
    /\ UNCHANGED <<row, rest>>

StopCommit(c) ==
    /\ request[c] = "stop"
    /\ CommitState(c)
    /\ Proceed(c, "desired")
    /\ Forget(c)
    /\ UNCHANGED <<desired, kill, owner, lease, generation, cursor, cmdCursor, rest>>

StopDesired(c) ==
    /\ request[c] = "desired"
    /\ desired' = "stopping"
    /\ Proceed(c, "none")
    /\ UNCHANGED <<state, kill, owner, lease, generation, cursor, cmdCursor, rest, txn>>

\* POST .../kill-switch: activate_nautilus_runtime_kill_switch.
KillRead(c) ==
    /\ Receive(c, "kill")
    /\ Read(c, "stopping")
    /\ UNCHANGED <<row, rest>>

KillCommit(c) ==
    /\ request[c] = "kill"
    /\ CommitState(c)
    /\ kill' = TRUE
    /\ desired' = "stopping"
    /\ Proceed(c, "none")
    /\ Forget(c)
    /\ UNCHANGED <<owner, lease, generation, cursor, cmdCursor, rest>>

\* POST .../heartbeat, and POST .../events with a heartbeat.
HeartbeatRead(c) ==
    /\ Receive(c, "heartbeat")
    /\ ReadHeartbeat(c)
    /\ UNCHANGED <<row, rest>>

HeartbeatCommit(c) ==
    /\ request[c] = "heartbeat"
    /\ CommitHeartbeat(c)
    /\ Proceed(c, "none")
    /\ UNCHANGED rest

\* runtime_state_after_event for the other events.
StateAfterEvent(type) ==
    CASE state \in TerminalRuntimeStates -> state
      [] type = "stop_requested" -> "stopping"
      [] type \in {"runtime_error", "risk_block"} /\ state # "stopping" -> "degraded"
      [] OTHER -> state

\* POST .../events reads the runtime after the append ...
IngestGet(c) ==
    /\ \E type \in {"stop_requested", "runtime_error"} :
         /\ StateAfterEvent(type) # state
         /\ want' = [want EXCEPT ![c] = StateAfterEvent(type)]
    /\ Receive(c, "setState")
    /\ UNCHANGED <<row, rest, readState>>

\* ... and writes the state that follows from it, whatever the row has become.
IngestRead(c) ==
    /\ request[c] = "setState"
    /\ Read(c, want[c])
    /\ Proceed(c, "commitState")
    /\ UNCHANGED <<row, rest>>

IngestCommit(c) ==
    /\ request[c] = "commitState"
    /\ CommitState(c)
    /\ Proceed(c, "none")
    /\ Forget(c)
    /\ UNCHANGED <<desired, kill, owner, lease, generation, cursor, cmdCursor, rest>>

\* The API process ends, or the client's connection does.
RequestAbandoned(c) ==
    /\ "abandon" \in Faults
    /\ request[c] # "none"
    /\ Proceed(c, "none")
    /\ Forget(c)
    /\ UNCHANGED <<row, rest>>

-----------------------------------------------------------------------------
(* Statements of a worker on the row.                                      *)

\* Another transaction may hold the row: an update between its flush and its
\* commit, or an event insertion, which locks the runtime it refers to.
RowLocked(w) ==
    /\ "locked" \in Faults
    /\ \/ \E c \in Client : request[c] # "none"
       \/ \E v \in Worker \ {w} : pc[v] = "beat"

\* Only the desired state was tested when the runtime was listed.
ClaimableAsListed(w) ==
    /\ state \notin TerminalRuntimeStates
    /\ owner = w \/ lease \in {"null", "past"}

\* The WHERE clause of claim_nautilus_runtime_lease.
Claimable(w) ==
    /\ desired = "running"
    /\ state \notin TerminalRuntimeStates
    /\ owner = w \/ lease \in {"null", "past"}

\* The filter of list_desired_nautilus_runtimes.
Listed(w, wanted) ==
    /\ desired = wanted
    /\ state \notin TerminalRuntimeStates
    /\ owner = w \/ lease \in {"null", "past"}

\* release_nautilus_runtime_lease(state="stopped").
Release(w) ==
    \/ /\ owner = w
       /\ owner' = NoWorker
       /\ lease' = "null"
       /\ state' = "stopped"
       /\ UNCHANGED <<desired, kill, generation, cursor, cmdCursor>>
    \/ /\ owner # w \/ RowLocked(w)
       /\ UNCHANGED row

\* persist_nautilus_runtime_stream_cursor: the whole JSON is replaced by the
\* record's, and the record by the row; a refusal leaves both.
PersistCursor(w, b, c) ==
    \/ /\ owner = w
       /\ cursor' = b
       /\ cmdCursor' = c
       /\ at' = [at EXCEPT ![w] = b]
       /\ cmdAt' = [cmdAt EXCEPT ![w] = c]
       /\ UNCHANGED <<state, desired, kill, owner, lease, generation>>
    \/ /\ owner # w \/ RowLocked(w)
       /\ UNCHANGED <<row, at, cmdAt>>

-----------------------------------------------------------------------------
(* The round of a worker.                                                  *)

At(w, l) == pc[w] = l
Goto(w, l) == pc' = [pc EXCEPT ![w] = l]

\* The round ends and its record is forgotten; the native session is not.
Return(w) ==
    /\ Goto(w, "idle")
    /\ gen' = [gen EXCEPT ![w] = 0]
    /\ at' = [at EXCEPT ![w] = 0]
    /\ cmdAt' = [cmdAt EXCEPT ![w] = 0]
    /\ batch' = [batch EXCEPT ![w] = {}]
    /\ next' = [next EXCEPT ![w] = 0]

DropSession(w) ==
    /\ sessionGen' = [sessionGen EXCEPT ![w] = 0]
    /\ processed' = [processed EXCEPT ![w] = {}]

\* A runtime to be stopped is listed, its session dropped and its lease released.
ListStopping(w) ==
    /\ At(w, "idle")
    /\ Listed(w, "stopping")
    /\ Goto(w, "release")
    /\ DropSession(w)
    /\ UNCHANGED <<row, stored, streams, record, request, txn>>

ReleaseStopping(w) ==
    /\ At(w, "release")
    /\ Release(w)
    /\ Goto(w, "idle")
    /\ UNCHANGED <<stored, streams, record, session, request, txn>>

ListRunning(w) ==
    /\ At(w, "idle")
    /\ Listed(w, "running")
    /\ Goto(w, "claim")
    /\ UNCHANGED <<row, stored, streams, record, session, request, txn>>

\* Counts only first owners, not takeovers.
GenerationOfFirstClaim(w) == IF owner = NoWorker THEN generation + 1 ELSE generation

\* A new owner takes the next generation; the owner itself keeps its own.
ClaimGeneration(w) == IF owner = w THEN generation ELSE generation + 1

ClaimLease(w) ==
    /\ At(w, "claim")
    /\ Claimable(w)
    /\ owner # w => generation < MaxGeneration
    /\ generation' = ClaimGeneration(w)
    /\ owner' = w
    /\ lease' = "future"
    /\ state' = IF state = "requested" THEN "provisioning" ELSE state
    /\ gen' = [gen EXCEPT ![w] = generation']
    /\ at' = [at EXCEPT ![w] = cursor]
    /\ cmdAt' = [cmdAt EXCEPT ![w] = cmdCursor]
    /\ Goto(w, "commands")
    /\ UNCHANGED <<desired, kill, cursor, cmdCursor, stored, streams, batch, next,
                   session, request, txn>>

ClaimRefused(w) ==
    /\ At(w, "claim")
    /\ ~Claimable(w) \/ RowLocked(w)
    /\ Return(w)
    /\ UNCHANGED <<row, stored, streams, session, request, txn>>

\* The entries of the command stream that the record has not acknowledged.
Unread(w) == {commands[i] : i \in cmdAt[w] + 1 .. Len(commands)}

\* The kill switch command taken for an ordinary one.
HaltsOnStop(w) == "stop" \in Unread(w)

Halts(w) == Unread(w) \cap Halting # {}

\* _consume_commands: nothing to do, a halt, or entries to acknowledge.  The
\* events of the commands are appended in between; nothing depends on them.
ReadCommands(w) ==
    /\ At(w, "commands")
    /\ \/ /\ Unread(w) = {}
          /\ Goto(w, "market")
          /\ UNCHANGED <<next, session>>
       \/ /\ Halts(w)
          /\ Goto(w, "halt")
          /\ DropSession(w)
          /\ UNCHANGED next
       \/ /\ Unread(w) # {} /\ ~Halts(w)
          /\ Goto(w, "ackCommands")
          /\ next' = [next EXCEPT ![w] = Len(commands)]
          /\ UNCHANGED session
    /\ UNCHANGED <<row, stored, streams, gen, at, cmdAt, batch, request, txn>>

\* The stop command stays unacknowledged: the next owner will read it again.
Halt(w) ==
    /\ At(w, "halt")
    /\ Release(w)
    /\ Return(w)
    /\ UNCHANGED <<stored, streams, session, request, txn>>

AckCommands(w) ==
    /\ At(w, "ackCommands")
    /\ PersistCursor(w, at[w], next[w])
    /\ Goto(w, "market")
    /\ next' = [next EXCEPT ![w] = 0]
    /\ UNCHANGED <<stored, streams, gen, batch, session, request, txn>>

\* One session for a worker, whatever the generation.
RememberedByWorker(w) == processed[w]

\* _session_for: a session belongs to a generation.
Remembered(w) == IF sessionGen[w] = gen[w] THEN processed[w] ELSE {}

\* Reads past the end of the stream.
FreshPastEnd(w) == {b \in at[w] + 1 .. bars + 1 : b <= at[w] + BatchSize}

\* The bars of one read of the market stream.
Fresh(w) == {b \in at[w] + 1 .. bars : b <= at[w] + BatchSize}

\* _consume_market_data: the session remembers the bars of the batch and leaves
\* out those it knows.  When an execution fails it may remember bars whose events
\* are lost with the batch, and nothing is acknowledged.
ReadMarket(w) ==
    /\ At(w, "market")
    /\ \/ /\ Fresh(w) = {}
          /\ \E l \in {"heartbeat", "end"} : Goto(w, l)
          /\ UNCHANGED <<batch, next, session>>
       \/ /\ Fresh(w) # {}
          /\ batch' = [batch EXCEPT ![w] = Fresh(w) \ Remembered(w)]
          /\ \E last \in Fresh(w) :
               /\ \A b \in Fresh(w) : b <= last
               /\ next' = [next EXCEPT ![w] = last]
          /\ sessionGen' = [sessionGen EXCEPT ![w] = gen[w]]
          /\ processed' = [processed EXCEPT ![w] = Remembered(w) \cup Fresh(w)]
          /\ Goto(w, "store")
       \/ /\ Fresh(w) # {} /\ "batch" \in Faults
          /\ sessionGen' = [sessionGen EXCEPT ![w] = gen[w]]
          /\ \E known \in {{}, Fresh(w)} :
               processed' = [processed EXCEPT ![w] = Remembered(w) \cup known]
          /\ Goto(w, "heartbeat")
          /\ UNCHANGED <<batch, next>>
    /\ UNCHANGED <<row, stored, streams, gen, at, cmdAt, request, txn>>

\* append_nautilus_runtime_events_for_worker for the events of one bar, by their
\* idempotency keys.  That it returns None is not looked at.
StoreEvents(w) ==
    /\ At(w, "store")
    /\ \E b \in batch[w] :
         /\ \A c \in batch[w] : b <= c
         /\ \/ /\ owner = w
               /\ stored' = stored \cup {b}
            \/ /\ owner # w \/ RowLocked(w)
               /\ UNCHANGED stored
         /\ batch' = [batch EXCEPT ![w] = @ \ {b}]
    /\ UNCHANGED <<row, streams, pc, gen, at, cmdAt, next, session, request, txn>>

AckBars(w) ==
    /\ At(w, "store")
    /\ batch[w] = {}
    /\ PersistCursor(w, next[w], cmdAt[w])
    /\ Goto(w, "heartbeat")
    /\ next' = [next EXCEPT ![w] = 0]
    /\ UNCHANGED <<stored, streams, gen, batch, session, request, txn>>

\* The heartbeat of a worker names neither itself nor its generation.
BeatRead(w) ==
    /\ At(w, "heartbeat")
    /\ ReadHeartbeat(w)
    /\ Goto(w, "beat")
    /\ UNCHANGED <<row, stored, streams, record, session, request>>

BeatCommit(w) ==
    /\ At(w, "beat")
    /\ CommitHeartbeat(w)
    /\ Return(w)
    /\ UNCHANGED <<stored, streams, session, request>>

EndRound(w) ==
    /\ At(w, "end")
    /\ Return(w)
    /\ UNCHANGED <<row, stored, streams, session, request, txn>>

\* An exception ends the process; it is restarted under the same id.
Crash(w) ==
    /\ "crash" \in Faults
    /\ Return(w)
    /\ DropSession(w)
    /\ Forget(w)
    /\ UNCHANGED <<row, stored, streams, request>>

-----------------------------------------------------------------------------
RequestStep(c) ==
    \/ StopRead(c) \/ KillRead(c) \/ HeartbeatRead(c) \/ IngestGet(c)
    \/ RequestAbandoned(c)

RequestGoesOn(c) ==
    \/ StopCommit(c) \/ StopDesired(c) \/ KillCommit(c) \/ HeartbeatCommit(c)
    \/ IngestRead(c) \/ IngestCommit(c)

WorkerStep(w) ==
    \/ ListStopping(w) \/ ReleaseStopping(w) \/ ListRunning(w)
    \/ ClaimLease(w) \/ ClaimRefused(w) \/ ReadCommands(w) \/ Halt(w)
    \/ AckCommands(w) \/ ReadMarket(w) \/ StoreEvents(w) \/ AckBars(w)
    \/ BeatRead(w) \/ BeatCommit(w) \/ EndRound(w)

Next ==
    \/ StartRuntime \/ PublishBar \/ SendCommand \/ LeaseLapses
    \/ \E c \in Client : RequestStep(c) \/ RequestGoesOn(c)
    \/ \E w \in Worker : WorkerStep(w) \/ Crash(w)

\* A worker polls for ever and a request that was received runs to its end.  The
\* row is not locked at every try: a claim or a release that is due again and
\* again is once let through.
Fairness ==
    /\ \A w \in Worker :
         /\ WF_vars(WorkerStep(w))
         /\ SF_vars(ClaimLease(w))
         /\ SF_vars((ReleaseStopping(w) \/ Halt(w)) /\ owner' # owner)
    /\ \A c \in Client : WF_vars(RequestGoesOn(c))

Spec == Init /\ [][Next]_vars /\ Fairness

-----------------------------------------------------------------------------
(* What is true of every behaviour.                                        *)

\* The type of every variable: the row, the streams, the workers, the requests.
TypeOK ==
    /\ state \in RuntimeStates
    /\ desired \in {"absent", "running", "stopping"}
    /\ kill \in BOOLEAN
    /\ owner \in Worker \cup {NoWorker}
    /\ lease \in {"null", "future", "past"}
    /\ generation \in 0 .. MaxGeneration
    /\ cursor \in 0 .. MaxBars
    /\ cmdCursor \in 0 .. MaxCommands
    /\ stored \in SUBSET Bar
    /\ bars \in 0 .. MaxBars
    /\ commands \in Seq(Command) /\ Len(commands) <= MaxCommands
    /\ pc \in [Worker -> {"idle", "release", "claim"} \cup RoundPcs]
    /\ gen \in [Worker -> 0 .. MaxGeneration]
    /\ at \in [Worker -> 0 .. MaxBars]
    /\ cmdAt \in [Worker -> 0 .. MaxCommands]
    /\ batch \in [Worker -> SUBSET Bar]
    /\ next \in [Worker -> Nat]
    /\ sessionGen \in [Worker -> 0 .. MaxGeneration]
    /\ processed \in [Worker -> SUBSET Bar]
    /\ request \in [Client -> {"none", "stop", "desired", "kill", "heartbeat", "setState", "commitState"}]
    /\ want \in [Actor -> RuntimeStates]
    /\ readState \in [Actor -> RuntimeStates]

\* A generation belongs to one worker: of two rounds in progress, one of them
\* perhaps past its lease, the one that is not the owner's has another number,
\* and the owner's has the number in the row.
GenerationIsFence ==
    \A w \in Worker : gen[w] # 0 =>
        /\ gen[w] <= generation
        /\ owner = w => gen[w] = generation
        /\ \A v \in Worker \ {w} : gen[v] # gen[w]

\* A bar is acknowledged only when its events are stored, although workers crash
\* between the two, lose the lease in the middle of a batch and get it back with a
\* session that has executed the bars already.  It fails when an append finds the row
\* locked by a request (run paper_append_skipped), and when a batch that failed was
\* remembered by the session; without these two it is a theorem.
CursorIsBacked == 1 .. cursor \subseteq stored

\* A halting command is not acknowledged: whoever owns the runtime next reads it
\* before it looks at a bar.
HaltsAreKept == \A i \in 1 .. cmdCursor : commands[i] \notin Halting

\* Neither cursor goes back, although each statement replaces both by what its
\* worker knows: a former owner can not bring an old one back.
CursorsAdvance == [][cursor' >= cursor /\ cmdCursor' >= cmdCursor]_vars

\* Once a stop or a kill was recorded and no worker owns the runtime, nobody trades
\* on it again, whatever late heartbeats and ingested events make of its state.
StopIsFinal ==
    [][desired = "stopping" /\ owner = NoWorker
         => owner' = NoWorker /\ stored' = stored /\ cursor' = cursor]_vars

\* A stop of a runtime that a worker owns ends with the lease released, whatever
\* state the row is put in meanwhile.  (A runtime nobody owns is never released.)
StopCompletes ==
    desired = "stopping" /\ owner # NoWorker ~> owner = NoWorker

\* A halting command on the stream of an owned runtime is obeyed.
HaltIsObeyed ==
    (\E i \in 1 .. Len(commands) : commands[i] \in Halting) /\ owner # NoWorker
        ~> owner = NoWorker

\* Whoever is told to stop, by the row or by the stream, stops: both of the above.
StopsTakeEffect == StopCompletes /\ HaltIsObeyed
=============================================================================
