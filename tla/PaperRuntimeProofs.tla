-------------------------- MODULE PaperRuntimeProofs --------------------------
(***************************************************************************)
(* Theorems about PaperRuntime for every set of workers and of clients and *)
(* every value of the bounds.                                              *)
(*                                                                         *)
(* The argument: a round works with a copy of the row (RoundShape), and as *)
(* long as its worker is the owner the copy is exact, because whoever took *)
(* the runtime over has a greater generation (OwnerShape).  Cursors, halts *)
(* and the memory of the native session then follow, each with what a      *)
(* round knows at a program counter (HaltInv, SessionInv).                 *)
(***************************************************************************)
EXTENDS PaperRuntime, TLAPS

\* What a round has in its record: it comes from the row and from the streams.
RoundShape ==
    /\ cmdCursor <= Len(commands)
    /\ \A w \in Worker :
         /\ pc[w] \in RoundPcs <=> gen[w] # 0
         /\ cmdAt[w] <= Len(commands)
         /\ pc[w] = "store" => at[w] <= next[w] /\ next[w] <= MaxBars
         /\ pc[w] = "ackCommands" => cmdAt[w] <= next[w] /\ next[w] <= Len(commands)

\* The owner has one generation, the last; rounds of former owners have others.
OwnerShape ==
    /\ owner # NoWorker => generation # 0
    /\ \A w \in Worker :
         /\ gen[w] <= generation
         /\ gen[w] # 0 /\ owner = w =>
              gen[w] = generation /\ at[w] = cursor /\ cmdAt[w] = cmdCursor
         /\ gen[w] # 0 /\ owner \in Worker \ {w} => gen[w] # generation
         /\ \A v \in Worker \ {w} : gen[w] # 0 => gen[v] # gen[w]

TypeInv == TypeOK /\ RoundShape /\ OwnerShape

-----------------------------------------------------------------------------
(* Types.                                                                  *)

\* No runtime exists yet and every worker is idle.
LEMMA TypeOfInit == Init => TypeOK
<1> SUFFICES ASSUME Init PROVE TypeOK
  OBVIOUS
<1>1. commands \in Seq(Command) /\ Len(commands) <= MaxCommands
  BY PaperRuntimeAssumption DEF Init
<1>2. want \in [Actor -> RuntimeStates] /\ readState \in [Actor -> RuntimeStates]
  BY DEF Init, RuntimeStates
<1>3. state \in RuntimeStates
  BY DEF Init, RuntimeStates
<1>4. /\ pc \in [Worker -> {"idle", "release", "claim"} \cup RoundPcs]
      /\ gen \in [Worker -> 0 .. MaxGeneration] /\ sessionGen \in [Worker -> 0 .. MaxGeneration]
      /\ at \in [Worker -> 0 .. MaxBars] /\ cmdAt \in [Worker -> 0 .. MaxCommands]
      /\ next \in [Worker -> Nat]
  BY PaperRuntimeAssumption DEF Init
<1>5. batch \in [Worker -> SUBSET Bar] /\ processed \in [Worker -> SUBSET Bar]
  BY DEF Init
<1>6. request \in [Client -> {"none", "stop", "desired", "kill", "heartbeat", "setState",
                            "commitState"}]
  BY DEF Init
<1>7. /\ generation \in 0 .. MaxGeneration /\ cursor \in 0 .. MaxBars
      /\ cmdCursor \in 0 .. MaxCommands /\ bars \in 0 .. MaxBars
  BY PaperRuntimeAssumption DEF Init
<1>8. /\ desired \in {"absent", "running", "stopping"} /\ kill \in BOOLEAN
      /\ owner \in Worker \cup {NoWorker} /\ lease \in {"null", "future", "past"}
      /\ stored \in SUBSET Bar
  BY DEF Init
<1> QED  BY <1>1, <1>2, <1>3, <1>4, <1>5, <1>6, <1>7, <1>8 DEF TypeOK

\* What a transaction reads and wants is a state of the runtime.
LEMMA ReadTypes ==
    ASSUME TypeOK, NEW a \in Actor, NEW s \in RuntimeStates, Read(a, s)
    PROVE  want' \in [Actor -> RuntimeStates] /\ readState' \in [Actor -> RuntimeStates]
BY DEF TypeOK, Read

\* A transaction that is over leaves nothing behind.
LEMMA ForgetTypes ==
    ASSUME TypeOK, NEW a \in Actor, Forget(a)
    PROVE  want' \in [Actor -> RuntimeStates] /\ readState' \in [Actor -> RuntimeStates]
BY DEF TypeOK, Forget, RuntimeStates

\* A commit writes what was wanted, or leaves the state.
LEMMA CommitTypes ==
    ASSUME TypeOK, NEW a \in Actor, CommitState(a)
    PROVE  state' \in RuntimeStates
BY DEF TypeOK, CommitState

\* The state a heartbeat computes is one of the runtime's states.
LEMMA HeartbeatReadTypes ==
    ASSUME TypeOK, NEW a \in Actor, ReadHeartbeat(a)
    PROVE  want' \in [Actor -> RuntimeStates] /\ readState' \in [Actor -> RuntimeStates]
<1>1. PICK reported \in HeartbeatStates : Read(a, HeartbeatState(reported))
  BY DEF ReadHeartbeat
<1>2. HeartbeatState(reported) \in RuntimeStates
  BY DEF HeartbeatState, HeartbeatStates, RuntimeStates, TypeOK
<1> QED  BY <1>1, <1>2, ReadTypes

\* The end of a round resets the record of the worker.
LEMMA ReturnTypes ==
    ASSUME TypeOK, NEW w \in Worker, Return(w)
    PROVE  /\ pc' \in [Worker -> {"idle", "release", "claim"} \cup RoundPcs]
           /\ gen' \in [Worker -> 0 .. MaxGeneration]
           /\ at' \in [Worker -> 0 .. MaxBars]
           /\ cmdAt' \in [Worker -> 0 .. MaxCommands]
           /\ batch' \in [Worker -> SUBSET Bar]
           /\ next' \in [Worker -> Nat]
BY PaperRuntimeAssumption DEF TypeOK, Return, Goto

\* What a request may change.
LEMMA RequestFrame ==
    ASSUME NEW c \in Client, RequestStep(c) \/ RequestGoesOn(c)
    PROVE  UNCHANGED <<owner, lease, generation, cursor, cmdCursor, stored, streams, pc, record, session>>
BY DEF RequestStep, RequestGoesOn, StopRead, StopCommit, StopDesired, KillRead, KillCommit,
   HeartbeatRead, HeartbeatCommit, CommitHeartbeat, IngestGet, IngestRead, IngestCommit,
   RequestAbandoned, row, rest

\* Each statement of each request keeps the types.
LEMMA RequestTypes ==
    ASSUME TypeOK, NEW c \in Client, RequestStep(c) \/ RequestGoesOn(c)
    PROVE  TypeOK'
<1>1. c \in Actor
  BY DEF Actor
<1>2. UNCHANGED <<owner, lease, generation, cursor, cmdCursor, stored, streams, pc, record, session>>
  BY RequestFrame
<1>3. SUFFICES /\ state' \in RuntimeStates /\ desired' \in {"absent", "running", "stopping"}
               /\ kill' \in BOOLEAN
               /\ request' \in [Client -> {"none", "stop", "desired", "kill", "heartbeat",
                                          "setState", "commitState"}]
               /\ want' \in [Actor -> RuntimeStates] /\ readState' \in [Actor -> RuntimeStates]
  BY <1>2 DEF TypeOK, streams, record, session
<1> USE <1>1
<1>4. CASE StopRead(c)
  <2>1. "stopping" \in RuntimeStates
    BY DEF RuntimeStates
  <2> QED  BY <1>4, <2>1, ReadTypes DEF StopRead, Receive, Proceed, TypeOK, row
<1>5. CASE StopCommit(c)
  BY <1>5, CommitTypes, ForgetTypes DEF StopCommit, Proceed, TypeOK
<1>6. CASE StopDesired(c)
  BY <1>6 DEF StopDesired, Proceed, TypeOK, txn
<1>7. CASE KillRead(c)
  <2>1. "stopping" \in RuntimeStates
    BY DEF RuntimeStates
  <2> QED  BY <1>7, <2>1, ReadTypes DEF KillRead, Receive, Proceed, TypeOK, row
<1>8. CASE KillCommit(c)
  BY <1>8, CommitTypes, ForgetTypes DEF KillCommit, Proceed, TypeOK
<1>9. CASE HeartbeatRead(c)
  BY <1>9, HeartbeatReadTypes DEF HeartbeatRead, Receive, Proceed, TypeOK, row
<1>10. CASE HeartbeatCommit(c)
  BY <1>10, CommitTypes, ForgetTypes DEF HeartbeatCommit, CommitHeartbeat, Proceed, TypeOK
<1>11. CASE IngestGet(c)
  <2>1. PICK type \in {"stop_requested", "runtime_error"} :
          want' = [want EXCEPT ![c] = StateAfterEvent(type)]
    BY <1>11 DEF IngestGet
  <2>2. StateAfterEvent(type) \in RuntimeStates
    BY DEF StateAfterEvent, RuntimeStates, TypeOK
  <2> QED  BY <1>11, <2>1, <2>2 DEF IngestGet, Receive, Proceed, TypeOK, row
<1>12. CASE IngestRead(c)
  <2>1. want[c] \in RuntimeStates
    BY DEF TypeOK
  <2> QED  BY <1>12, <2>1, ReadTypes DEF IngestRead, Proceed, TypeOK, row
<1>13. CASE IngestCommit(c)
  BY <1>13, CommitTypes, ForgetTypes DEF IngestCommit, Proceed, TypeOK
<1>14. CASE RequestAbandoned(c)
  BY <1>14, ForgetTypes DEF RequestAbandoned, Proceed, TypeOK, row
<1> QED  BY <1>4, <1>5, <1>6, <1>7, <1>8, <1>9, <1>10, <1>11, <1>12, <1>13, <1>14
        DEF RequestStep, RequestGoesOn

\* The steps of the environment and of a worker, under the facts a round has.
LEMMA EnvironmentTypes ==
    ASSUME TypeInv, StartRuntime \/ PublishBar \/ SendCommand \/ LeaseLapses
    PROVE  TypeInv'
<1> USE PaperRuntimeAssumption DEF TypeInv
<1>1. CASE StartRuntime
  BY <1>1 DEF StartRuntime, TypeOK, RoundShape, OwnerShape, RuntimeStates, streams, record,
     session, txn
<1>2. CASE PublishBar
  BY <1>2 DEF PublishBar, TypeOK, RoundShape, OwnerShape, row, record, session, txn
<1>3. CASE SendCommand
  <2>1. /\ commands' \in Seq(Command) /\ Len(commands') <= MaxCommands
        /\ Len(commands') = Len(commands) + 1
        /\ UNCHANGED <<row, stored, bars, pc, record, session, request, txn>>
    BY <1>3 DEF SendCommand, TypeOK
  <2> QED  BY <2>1 DEF TypeOK, RoundShape, OwnerShape, row, record, session, txn
<1>4. CASE LeaseLapses
  BY <1>4 DEF LeaseLapses, TypeOK, RoundShape, OwnerShape, streams, record, session, txn
<1> QED  BY <1>1, <1>2, <1>3, <1>4

\* A round that ends leaves nothing to know about it, whether the row keeps its owner
\* or loses it.
LEMMA ReturnShape ==
    ASSUME TypeInv, NEW w \in Worker, Return(w),
           owner' \in {owner, NoWorker},
           UNCHANGED <<generation, cursor, cmdCursor, commands>>
    PROVE  RoundShape' /\ OwnerShape'
<1> USE PaperRuntimeAssumption DEF TypeInv
<1>1. /\ gen' = [gen EXCEPT ![w] = 0] /\ at' = [at EXCEPT ![w] = 0]
      /\ cmdAt' = [cmdAt EXCEPT ![w] = 0] /\ next' = [next EXCEPT ![w] = 0]
      /\ pc' = [pc EXCEPT ![w] = "idle"]
  BY DEF Return, Goto
<1>2. RoundShape'
  BY <1>1 DEF TypeOK, RoundShape, RoundPcs
<1>3. \A v \in Worker : gen'[v] # 0 => v # w /\ gen'[v] = gen[v] /\ at'[v] = at[v]
                                    /\ cmdAt'[v] = cmdAt[v]
  BY <1>1 DEF TypeOK
<1>4. \A v \in Worker : gen'[v] \in {0, gen[v]}
  BY <1>1 DEF TypeOK
<1>5. OwnerShape'
  <2>1. owner' # NoWorker => generation' # 0
    BY DEF OwnerShape
  <2>2. \A v \in Worker : gen'[v] <= generation'
    <3>1. /\ 0 <= generation /\ generation' = generation
          /\ \A v \in Worker : gen[v] <= generation
      BY DEF TypeOK, OwnerShape
    <3> HIDE DEF TypeInv
    <3> QED  BY <1>4, <3>1
  <2>3. \A v \in Worker : gen'[v] # 0 /\ owner' = v =>
          gen'[v] = generation' /\ at'[v] = cursor' /\ cmdAt'[v] = cmdCursor'
    BY <1>3 DEF OwnerShape
  <2>4. \A v \in Worker : gen'[v] # 0 /\ owner' \in Worker \ {v} => gen'[v] # generation'
    BY <1>3 DEF OwnerShape
  <2>5. \A v \in Worker : \A u \in Worker \ {v} : gen'[v] # 0 => gen'[u] # gen'[v]
    BY <1>3, <1>4 DEF OwnerShape
  <2> QED  BY <2>1, <2>2, <2>3, <2>4, <2>5 DEF OwnerShape
<1> QED  BY <1>2, <1>5

\* Each statement of a round keeps types and shapes; a claim is the only one that adds a
\* round, and it gives it a number that no other round has.
LEMMA WorkerTypes ==
    ASSUME TypeInv, NEW w \in Worker, WorkerStep(w) \/ Crash(w)
    PROVE  TypeInv'
<1> USE PaperRuntimeAssumption DEF TypeInv, At, RoundPcs
<1>1. w \in Actor
  BY DEF Actor
<1>2. CASE ListStopping(w)
  BY <1>2, SMTT(30) DEF ListStopping, Goto, DropSession, TypeOK, RoundShape, OwnerShape, row, streams,
     record, txn
<1>3. CASE ReleaseStopping(w)
  <2>1. CASE owner = w /\ owner' = NoWorker /\ lease' = "null" /\ state' = "stopped"
             /\ UNCHANGED <<desired, kill, generation, cursor, cmdCursor>>
    BY <1>3, <2>1 DEF ReleaseStopping, Goto, TypeOK, RoundShape, OwnerShape, streams,
       record, session, txn, RuntimeStates, TerminalRuntimeStates
  <2>2. CASE UNCHANGED row
    BY <1>3, <2>2 DEF ReleaseStopping, Goto, TypeOK, RoundShape, OwnerShape, row, streams,
       record, session, txn
  <2> QED  BY <1>3, <2>1, <2>2 DEF ReleaseStopping, Release
<1>4. CASE ListRunning(w)
  BY <1>4 DEF ListRunning, Goto, TypeOK, RoundShape, OwnerShape, row, streams, record,
     session, txn
<1>5. CASE ClaimLease(w)
  <2>1. /\ generation' \in 0 .. MaxGeneration /\ generation' # 0
        /\ owner = w => generation' = generation
        /\ owner # w => generation' = generation + 1
    BY <1>5 DEF ClaimLease, ClaimGeneration, TypeOK, OwnerShape
  <2>2. gen[w] = 0
    BY <1>5 DEF ClaimLease, TypeOK, RoundShape
  <2>3. state' \in RuntimeStates /\ pc' = [pc EXCEPT ![w] = "commands"]
    BY <1>5 DEF ClaimLease, Goto, TypeOK, RuntimeStates
  <2>4. TypeOK'
    BY <1>5, <2>1, <2>3 DEF ClaimLease, TypeOK, streams, session, txn
  <2>5. RoundShape'
    BY <1>5, <2>1, <2>3 DEF ClaimLease, TypeOK, RoundShape, streams
  <2>6. gen' = [gen EXCEPT ![w] = generation'] /\ owner' = w
        /\ at' = [at EXCEPT ![w] = cursor] /\ cmdAt' = [cmdAt EXCEPT ![w] = cmdCursor]
        /\ cursor' = cursor /\ cmdCursor' = cmdCursor
    BY <1>5 DEF ClaimLease
  <2>7. OwnerShape'
    <3>1. gen'[w] = generation' /\ at'[w] = cursor' /\ cmdAt'[w] = cmdCursor'
      BY <2>6 DEF TypeOK
    <3>2. \A v \in Worker \ {w} : gen'[v] = gen[v]
      BY <2>6 DEF TypeOK
    <3>3. \A v \in Worker \ {w} : gen[v] # 0 => gen[v] # generation'
      BY <2>1 DEF TypeOK, OwnerShape
    <3>4. \A v \in Worker : gen[v] <= generation'
      BY <2>1 DEF TypeOK, OwnerShape
    <3>5. \A v \in Worker : gen'[v] <= generation'
      BY <2>1, <3>1, <3>2, <3>4
    <3>6. \A v \in Worker : \A u \in Worker \ {v} : gen'[v] # 0 => gen'[u] # gen'[v]
      BY <3>1, <3>2, <3>3, <2>1 DEF OwnerShape
    <3> QED  BY <2>1, <2>6, <3>1, <3>2, <3>3, <3>5, <3>6 DEF OwnerShape
  <2> QED  BY <2>4, <2>5, <2>7
<1>6. CASE ClaimRefused(w)
  BY <1>6, ReturnTypes, ReturnShape DEF ClaimRefused, TypeOK, row, streams, session, txn
<1>7. CASE ReadCommands(w)
  <2>1. /\ pc[w] = "commands"
        /\ UNCHANGED <<row, stored, streams, gen, at, cmdAt, batch, request, txn>>
    BY <1>7 DEF ReadCommands
  <2>2. CASE Goto(w, "market") /\ UNCHANGED <<next, session>>
    BY <2>1, <2>2 DEF Goto, TypeOK, RoundShape, OwnerShape, row, streams, session, txn
  <2>3. CASE Goto(w, "halt") /\ DropSession(w) /\ UNCHANGED next
    BY <2>1, <2>3, SMTT(30) DEF Goto, DropSession, TypeOK, RoundShape, OwnerShape, row, streams, txn
  <2>4. CASE Goto(w, "ackCommands") /\ next' = [next EXCEPT ![w] = Len(commands)]
             /\ UNCHANGED session
    BY <2>1, <2>4 DEF Goto, TypeOK, RoundShape, OwnerShape, row, streams, session, txn
  <2> QED  BY <1>7, <2>2, <2>3, <2>4 DEF ReadCommands
<1>8. CASE Halt(w)
  <2>1. Return(w) /\ UNCHANGED <<stored, streams, session, request, txn>>
    BY <1>8 DEF Halt
  <2>2. CASE owner = w /\ owner' = NoWorker /\ lease' = "null" /\ state' = "stopped"
             /\ UNCHANGED <<desired, kill, generation, cursor, cmdCursor>>
    BY <2>1, <2>2, ReturnTypes, ReturnShape DEF TypeOK, streams, session, txn, RuntimeStates,
       TerminalRuntimeStates
  <2>3. CASE UNCHANGED row
    BY <2>1, <2>3, ReturnTypes, ReturnShape DEF TypeOK, row, streams, session, txn
  <2> QED  BY <1>8, <2>2, <2>3 DEF Halt, Release
<1>9. CASE AckCommands(w)
  <2>1. /\ pc[w] = "ackCommands"
        /\ pc' = [pc EXCEPT ![w] = "market"] /\ next' = [next EXCEPT ![w] = 0]
        /\ UNCHANGED <<stored, streams, gen, batch, session, request, txn>>
    BY <1>9 DEF AckCommands, Goto
  <2>2. CASE /\ owner = w /\ cursor' = at[w] /\ cmdCursor' = next[w]
             /\ at' = [at EXCEPT ![w] = at[w]] /\ cmdAt' = [cmdAt EXCEPT ![w] = next[w]]
             /\ UNCHANGED <<state, desired, kill, owner, lease, generation>>
    BY <2>1, <2>2 DEF TypeOK, RoundShape, OwnerShape, streams, session, txn
  <2>3. CASE UNCHANGED <<row, at, cmdAt>>
    BY <2>1, <2>3 DEF TypeOK, RoundShape, OwnerShape, row, streams, session, txn
  <2> QED  BY <1>9, <2>2, <2>3 DEF AckCommands, PersistCursor
<1>10. CASE ReadMarket(w)
  <2>1. /\ pc[w] = "market"
        /\ UNCHANGED <<row, stored, streams, gen, at, cmdAt, request, txn>>
    BY <1>10 DEF ReadMarket
  <2>2. Fresh(w) \subseteq Bar /\ Remembered(w) \subseteq Bar
    BY DEF Fresh, Remembered, Bar, TypeOK
  <2>3. CASE /\ \E l \in {"heartbeat", "end"} : Goto(w, l)
             /\ UNCHANGED <<batch, next, session>>
    <3>1. PICK l \in {"heartbeat", "end"} : pc' = [pc EXCEPT ![w] = l]
      BY <2>3 DEF Goto
    <3>2. TypeOK'
      BY <2>1, <2>3, <3>1 DEF TypeOK, row, streams, session, txn
    <3>3. RoundShape' /\ OwnerShape'
      BY <2>1, <2>3, <3>1 DEF TypeOK, RoundShape, OwnerShape, row, streams
    <3> QED  BY <3>2, <3>3
  <2>4. CASE /\ batch' = [batch EXCEPT ![w] = Fresh(w) \ Remembered(w)]
             /\ \E last \in Fresh(w) : next' = [next EXCEPT ![w] = last]
             /\ sessionGen' = [sessionGen EXCEPT ![w] = gen[w]]
             /\ processed' = [processed EXCEPT ![w] = Remembered(w) \cup Fresh(w)]
             /\ Goto(w, "store")
    <3>1. PICK last \in Fresh(w) : next' = [next EXCEPT ![w] = last]
      BY <2>4
    <3>2. last \in Nat /\ at[w] <= last /\ last <= MaxBars
      BY DEF Fresh, TypeOK
    <3>3. TypeOK'
      BY <2>1, <2>2, <2>4, <3>1, <3>2 DEF Goto, TypeOK, row, streams, txn
    <3>4. RoundShape' /\ OwnerShape'
      BY <2>1, <2>4, <3>1, <3>2 DEF Goto, TypeOK, RoundShape, OwnerShape, row, streams
    <3> QED  BY <3>3, <3>4
  <2>5. CASE /\ sessionGen' = [sessionGen EXCEPT ![w] = gen[w]]
             /\ \E known \in {{}, Fresh(w)} :
                  processed' = [processed EXCEPT ![w] = Remembered(w) \cup known]
             /\ Goto(w, "heartbeat")
             /\ UNCHANGED <<batch, next>>
    <3>1. processed' \in [Worker -> SUBSET Bar]
      BY <2>2, <2>5 DEF TypeOK
    <3>2. TypeOK'
      BY <2>1, <2>5, <3>1 DEF Goto, TypeOK, row, streams, txn
    <3>3. RoundShape' /\ OwnerShape'
      BY <2>1, <2>5 DEF Goto, TypeOK, RoundShape, OwnerShape, row, streams
    <3> QED  BY <3>2, <3>3
  <2> QED  BY <1>10, <2>3, <2>4, <2>5 DEF ReadMarket
<1>11. CASE StoreEvents(w)
  <2>1. UNCHANGED <<row, streams, pc, gen, at, cmdAt, next, session, request, txn>>
    BY <1>11 DEF StoreEvents
  <2>2. PICK b \in batch[w] : /\ stored' \in {stored, stored \cup {b}}
                             /\ batch' = [batch EXCEPT ![w] = @ \ {b}]
    BY <1>11 DEF StoreEvents
  <2>3. stored' \in SUBSET Bar /\ batch' \in [Worker -> SUBSET Bar]
    BY <2>2 DEF TypeOK
  <2> QED  BY <2>1, <2>3 DEF TypeOK, RoundShape, OwnerShape, row, streams, session, txn
<1>12. CASE AckBars(w)
  <2>1. /\ pc[w] = "store"
        /\ pc' = [pc EXCEPT ![w] = "heartbeat"] /\ next' = [next EXCEPT ![w] = 0]
        /\ UNCHANGED <<stored, streams, gen, batch, session, request, txn>>
    BY <1>12 DEF AckBars, Goto
  <2>2. CASE /\ owner = w /\ cursor' = next[w] /\ cmdCursor' = cmdAt[w]
             /\ at' = [at EXCEPT ![w] = next[w]] /\ cmdAt' = [cmdAt EXCEPT ![w] = cmdAt[w]]
             /\ UNCHANGED <<state, desired, kill, owner, lease, generation>>
    BY <2>1, <2>2 DEF TypeOK, RoundShape, OwnerShape, streams, session, txn
  <2>3. CASE UNCHANGED <<row, at, cmdAt>>
    BY <2>1, <2>3 DEF TypeOK, RoundShape, OwnerShape, row, streams, session, txn
  <2> QED  BY <1>12, <2>2, <2>3 DEF AckBars, PersistCursor
<1>13. CASE BeatRead(w)
  <2>1. /\ pc[w] = "heartbeat" /\ pc' = [pc EXCEPT ![w] = "beat"]
        /\ UNCHANGED <<row, stored, streams, record, session, request>>
    BY <1>13 DEF BeatRead, Goto
  <2>2. want' \in [Actor -> RuntimeStates] /\ readState' \in [Actor -> RuntimeStates]
    BY <1>1, <1>13, HeartbeatReadTypes DEF BeatRead
  <2>3. /\ pc' \in [Worker -> {"idle", "release", "claim"} \cup RoundPcs] /\ pc'[w] = "beat"
        /\ \A v \in Worker \ {w} : pc'[v] = pc[v]
    BY <2>1 DEF TypeOK
  <2>4. TypeOK'
    BY <2>1, <2>2, <2>3 DEF TypeOK, row, streams, record, session
  <2>5. RoundShape'
    BY <2>1, <2>3 DEF RoundShape, row, streams, record
  <2>6. OwnerShape'
    BY <2>1 DEF OwnerShape, row, record
  <2> QED  BY <2>4, <2>5, <2>6
<1>14. CASE BeatCommit(w)
  BY <1>1, <1>14, CommitTypes, ForgetTypes, ReturnTypes, ReturnShape DEF BeatCommit,
     CommitHeartbeat, TypeOK, streams, session
<1>15. CASE EndRound(w)
  BY <1>15, ReturnTypes, ReturnShape DEF EndRound, TypeOK, row, streams, session, txn
<1>16. CASE Crash(w)
  <2>1. Return(w) /\ Forget(w) /\ UNCHANGED <<row, stored, streams, request>>
    BY <1>16 DEF Crash
  <2>2. sessionGen' \in [Worker -> 0 .. MaxGeneration] /\ processed' \in [Worker -> SUBSET Bar]
    BY <1>16 DEF Crash, DropSession, TypeOK
  <2>3. TypeOK'
    BY <1>1, <2>1, <2>2, ForgetTypes, ReturnTypes DEF TypeOK, row, streams
  <2> QED  BY <2>1, <2>3, ReturnShape DEF row, streams
<1> QED  BY <1>2, <1>3, <1>4, <1>5, <1>6, <1>7, <1>8, <1>9, <1>10, <1>11, <1>12, <1>13, <1>14,
           <1>15, <1>16 DEF WorkerStep

\* Every step keeps types and shapes.
LEMMA TypeStep ==
    ASSUME TypeInv, [Next]_vars
    PROVE  TypeInv'
<1>1. CASE StartRuntime \/ PublishBar \/ SendCommand \/ LeaseLapses
  BY <1>1, EnvironmentTypes
<1>2. ASSUME NEW c \in Client, RequestStep(c) \/ RequestGoesOn(c) PROVE TypeInv'
  <2>1. TypeOK'
    BY <1>2, RequestTypes DEF TypeInv
  <2>2. UNCHANGED <<owner, lease, generation, cursor, cmdCursor, stored, streams, pc, record,
                    session>>
    BY <1>2, RequestFrame
  <2> QED  BY <2>1, <2>2 DEF TypeInv, RoundShape, OwnerShape, streams, record
<1>3. ASSUME NEW w \in Worker, WorkerStep(w) \/ Crash(w) PROVE TypeInv'
  BY <1>3, WorkerTypes
<1>4. CASE UNCHANGED vars
  BY <1>4 DEF vars, TypeInv, TypeOK, RoundShape, OwnerShape, row, streams, record, session, txn
<1> QED  BY <1>1, <1>2, <1>3, <1>4 DEF Next

\* Types and shapes hold at the start.
LEMMA TypeInit == Init => TypeInv
<1> SUFFICES ASSUME Init PROVE RoundShape /\ OwnerShape
  BY TypeOfInit DEF TypeInv
<1>1. RoundShape
  BY DEF Init, RoundShape, RoundPcs
<1>2. OwnerShape
  BY PaperRuntimeAssumption DEF Init, OwnerShape
<1> QED  BY <1>1, <1>2

\* Types and shapes hold in every reachable state.
LEMMA TypeInvariance == Spec => []TypeInv
BY TypeInit, TypeStep, PTL DEF Spec

\* The row, the streams, the rounds and the requests keep their types; a generation
\* passes MaxGeneration in no handover, and no cursor passes the end of its stream.
THEOREM TypeCorrect == Spec => []TypeOK
BY TypeInvariance, PTL DEF TypeInv

\* A worker whose lease was taken over has a smaller generation than the row, for as
\* long as its round goes on: its session and its cursors are never the new owner's.
THEOREM GenerationsFence == Spec => []GenerationIsFence
<1>1. TypeInv => GenerationIsFence
  BY DEF TypeInv, OwnerShape, GenerationIsFence
<1> QED  BY <1>1, TypeInvariance, PTL

-----------------------------------------------------------------------------
(* Cursors.                                                                *)

\* Both cursors of the row, and what a step of a worker may make of them.
CursorStep(w) ==
    \/ UNCHANGED <<cursor, cmdCursor>>
    \/ owner = w /\ pc[w] = "ackCommands" /\ cursor' = at[w] /\ cmdCursor' = next[w]
    \/ owner = w /\ pc[w] = "store" /\ cursor' = next[w] /\ cmdCursor' = cmdAt[w]

\* The two acknowledgements of the owner are all that changes a cursor.
LEMMA CursorFrame ==
    ASSUME [Next]_vars
    PROVE  UNCHANGED <<cursor, cmdCursor>> \/ \E w \in Worker : CursorStep(w)
<1>1. CASE StartRuntime \/ PublishBar \/ SendCommand \/ LeaseLapses
  BY <1>1 DEF StartRuntime, PublishBar, SendCommand, LeaseLapses, row
<1>2. ASSUME NEW c \in Client, RequestStep(c) \/ RequestGoesOn(c)
      PROVE  UNCHANGED <<cursor, cmdCursor>>
  BY <1>2, RequestFrame
<1>3. ASSUME NEW w \in Worker, WorkerStep(w) \/ Crash(w) PROVE CursorStep(w)
  <2>1. CASE ListStopping(w) \/ ListRunning(w) \/ ClaimRefused(w) \/ ReadCommands(w)
             \/ ReadMarket(w) \/ StoreEvents(w) \/ BeatRead(w) \/ EndRound(w) \/ Crash(w)
    BY <2>1 DEF ListStopping, ListRunning, ClaimRefused, ReadCommands, ReadMarket, StoreEvents,
       BeatRead, EndRound, Crash, row, CursorStep
  <2>2. CASE ReleaseStopping(w) \/ Halt(w)
    BY <2>2 DEF ReleaseStopping, Halt, Release, row, CursorStep
  <2>3. CASE ClaimLease(w) \/ BeatCommit(w)
    BY <2>3 DEF ClaimLease, BeatCommit, CommitHeartbeat, CursorStep
  <2>4. CASE AckCommands(w)
    BY <2>4 DEF AckCommands, PersistCursor, At, row, CursorStep
  <2>5. CASE AckBars(w)
    BY <2>5 DEF AckBars, PersistCursor, At, row, CursorStep
  <2> QED  BY <1>3, <2>1, <2>2, <2>3, <2>4, <2>5 DEF WorkerStep
<1>4. CASE UNCHANGED vars
  BY <1>4 DEF vars, row
<1> QED  BY <1>1, <1>2, <1>3, <1>4 DEF Next

\* No worker, however late, brings back an older cursor of bars or of commands.
THEOREM CursorsNeverGoBack == Spec => CursorsAdvance
<1>1. ASSUME TypeInv, [Next]_vars PROVE cursor' >= cursor /\ cmdCursor' >= cmdCursor
  <2>1. cursor \in Nat /\ cmdCursor \in Nat
    BY <1>1, PaperRuntimeAssumption DEF TypeInv, TypeOK
  <2>2. CASE UNCHANGED <<cursor, cmdCursor>>
    BY <2>1, <2>2
  <2>3. ASSUME NEW w \in Worker, CursorStep(w), ~UNCHANGED <<cursor, cmdCursor>>
        PROVE  cursor' >= cursor /\ cmdCursor' >= cmdCursor
    <3>1. owner = w /\ pc[w] \in {"ackCommands", "store"}
      BY <2>3 DEF CursorStep
    <3>2. at[w] = cursor /\ cmdAt[w] = cmdCursor
      BY <1>1, <3>1 DEF TypeInv, RoundShape, OwnerShape, RoundPcs
    <3>3. /\ pc[w] = "store" => cursor <= next[w]
          /\ pc[w] = "ackCommands" => cmdCursor <= next[w]
      BY <1>1, <3>2 DEF TypeInv, RoundShape
    <3>4. next[w] \in Nat
      BY <1>1 DEF TypeInv, TypeOK
    <3> QED  BY <2>1, <2>3, <3>1, <3>2, <3>3, <3>4 DEF CursorStep
  <2> QED  BY <1>1, <2>2, <2>3, CursorFrame
<1> QED  BY <1>1, TypeInvariance, PTL DEF Spec, CursorsAdvance

-----------------------------------------------------------------------------
(* Halting commands.                                                       *)

\* What a worker is about to acknowledge it has looked at.
HaltInv ==
    /\ HaltsAreKept
    /\ \A w \in Worker : pc[w] = "ackCommands" =>
         \A i \in cmdAt[w] + 1 .. next[w] : commands[i] \notin Halting

\* What is acknowledged was read since the record's cursor, which is the row's.
LEMMA HaltStep ==
    ASSUME TypeInv, HaltInv, [Next]_vars
    PROVE  HaltInv'
<1> USE DEF HaltInv
<1>1. /\ cmdCursor \in Nat /\ Len(commands) \in Nat /\ cmdCursor <= Len(commands)
      /\ cmdAt \in [Worker -> Nat] /\ next \in [Worker -> Nat]
      /\ \A w \in Worker : pc[w] = "ackCommands" => next[w] <= Len(commands)
  BY PaperRuntimeAssumption DEF TypeInv, TypeOK, RoundShape
<1>2. CASE SendCommand
  <2>1. \A i \in 1 .. Len(commands) : commands'[i] = commands[i]
    BY <1>2 DEF SendCommand, TypeInv, TypeOK
  <2>2. UNCHANGED <<cmdCursor, pc, cmdAt, next>>
    BY <1>2 DEF SendCommand, row, record
  <2>3. HaltsAreKept'
    BY <1>1, <2>1, <2>2 DEF HaltsAreKept
  <2> QED  BY <1>1, <2>1, <2>2, <2>3
<1>3. CASE UNCHANGED <<cmdCursor, commands, pc, cmdAt, next>>
  BY <1>3 DEF HaltsAreKept
<1>4. CASE StartRuntime \/ PublishBar \/ LeaseLapses
  BY <1>3, <1>4 DEF StartRuntime, PublishBar, LeaseLapses, row, streams, record
<1>5. ASSUME NEW c \in Client, RequestStep(c) \/ RequestGoesOn(c) PROVE HaltInv'
  BY <1>3, <1>5, RequestFrame DEF streams, record
<1>6. ASSUME NEW w \in Worker, WorkerStep(w) \/ Crash(w) PROVE HaltInv'
  <2>1. /\ commands' = commands
        /\ pc' \in [Worker -> {"idle", "release", "claim"} \cup RoundPcs]
        /\ \A v \in Worker \ {w} : pc'[v] = pc[v] /\ cmdAt'[v] = cmdAt[v] /\ next'[v] = next[v]
    <3>1. commands' = commands
      BY <1>6 DEF WorkerStep, ListStopping, ReleaseStopping, ListRunning, ClaimLease,
         ClaimRefused, ReadCommands, Halt, AckCommands, ReadMarket, StoreEvents, AckBars,
         BeatRead, BeatCommit, EndRound, Crash, Return, record, streams
    <3>2. TypeInv'
      BY <1>6, TypeStep DEF Next
    <3>3. cmdAt \in [Worker -> Nat] /\ next \in [Worker -> Nat]
      BY <1>1
    <3>4. \A v \in Worker \ {w} : pc'[v] = pc[v] /\ cmdAt'[v] = cmdAt[v] /\ next'[v] = next[v]
      <4> USE DEF Goto, TypeInv, TypeOK, record
      <4>1. CASE ListStopping(w)
        BY <4>1 DEF ListStopping, DropSession
      <4>2. CASE ReleaseStopping(w)
        BY <4>2 DEF ReleaseStopping
      <4>3. CASE ListRunning(w)
        BY <4>3 DEF ListRunning
      <4>4. CASE ClaimLease(w)
        BY <4>4 DEF ClaimLease
      <4>5. CASE ClaimRefused(w)
        BY <4>5 DEF ClaimRefused, Return
      <4>6. CASE ReadCommands(w)
        BY <4>6 DEF ReadCommands, DropSession
      <4>7. CASE Halt(w)
        BY <4>7 DEF Halt, Return
      <4>8. CASE AckCommands(w)
        BY <4>8 DEF AckCommands, PersistCursor
      <4>9. CASE ReadMarket(w)
        BY <4>9 DEF ReadMarket
      <4>10. CASE StoreEvents(w)
        BY <4>10 DEF StoreEvents
      <4>11. CASE AckBars(w)
        BY <4>11 DEF AckBars, PersistCursor
      <4>12. CASE BeatRead(w)
        BY <4>12 DEF BeatRead
      <4>13. CASE BeatCommit(w)
        BY <4>13 DEF BeatCommit, Return
      <4>14. CASE EndRound(w)
        BY <4>14 DEF EndRound, Return
      <4>15. CASE Crash(w)
        BY <4>15 DEF Crash, Return, DropSession
      <4> QED
        BY <1>6, <4>1, <4>2, <4>3, <4>4, <4>5, <4>6, <4>7, <4>8, <4>9, <4>10, <4>11, <4>12, <4>13, <4>14, <4>15
           DEF WorkerStep
    <3> QED
      BY <3>1, <3>2, <3>4 DEF TypeInv, TypeOK
  <2>2. CASE pc'[w] # "ackCommands" /\ cmdCursor' = cmdCursor
    BY <2>1, <2>2 DEF HaltsAreKept
  <2>3. CASE ReadCommands(w)
    <3>1. cmdCursor' = cmdCursor /\ cmdAt' = cmdAt
      BY <2>3 DEF ReadCommands, row
    <3>2. CASE Goto(w, "ackCommands") /\ ~Halts(w) /\ next' = [next EXCEPT ![w] = Len(commands)]
      <4>1. \A i \in cmdAt[w] + 1 .. Len(commands) : commands[i] \notin Halting
        BY <3>2 DEF Halts, Unread
      <4>2. next'[w] = Len(commands)
        BY <1>1, <3>2
      <4> QED  BY <2>1, <3>1, <4>1, <4>2 DEF HaltsAreKept
    <3>3. CASE Goto(w, "market") \/ Goto(w, "halt")
      BY <2>2, <3>1, <3>3 DEF Goto, TypeInv, TypeOK
    <3> QED  BY <2>3, <3>2, <3>3 DEF ReadCommands
  <2>4. CASE AckCommands(w)
    <3>1. pc[w] = "ackCommands" /\ pc'[w] = "market"
      BY <2>4 DEF AckCommands, At, Goto, TypeInv, TypeOK
    <3>2. CASE owner = w /\ cmdCursor' = next[w]
      <4>1. cmdAt[w] = cmdCursor
        BY <3>1, <3>2 DEF TypeInv, RoundShape, OwnerShape, RoundPcs
      <4>2. HaltsAreKept'
        BY <1>1, <2>1, <3>1, <3>2, <4>1 DEF HaltsAreKept
      <4> QED  BY <2>1, <3>1, <4>2
    <3>3. CASE cmdCursor' = cmdCursor
      BY <2>2, <3>1, <3>3
    <3> QED  BY <2>4, <3>2, <3>3 DEF AckCommands, PersistCursor, row
  <2>5. CASE AckBars(w)
    <3>1. pc[w] = "store" /\ pc'[w] = "heartbeat"
      BY <2>5 DEF AckBars, At, Goto, TypeInv, TypeOK
    <3>2. owner = w => cmdAt[w] = cmdCursor
      BY <3>1 DEF TypeInv, RoundShape, OwnerShape, RoundPcs
    <3>3. cmdCursor' = cmdCursor
      BY <2>5, <3>2 DEF AckBars, PersistCursor, row
    <3> QED  BY <2>2, <3>1, <3>3
  <2>6. CASE Return(w) /\ cmdCursor' = cmdCursor
    BY <2>2, <2>6 DEF Return, Goto, TypeInv, TypeOK
  <2>7. CASE ClaimRefused(w) \/ Halt(w) \/ BeatCommit(w) \/ EndRound(w) \/ Crash(w)
    BY <2>6, <2>7 DEF ClaimRefused, Halt, Release, BeatCommit, CommitHeartbeat, EndRound, Crash,
       row
  <2>8. CASE ListStopping(w) \/ ListRunning(w) \/ BeatRead(w) \/ ReadMarket(w)
    BY <2>2, <2>8 DEF ListStopping, ListRunning, BeatRead, ReadMarket, Goto, row, TypeInv, TypeOK
  <2>9. CASE ReleaseStopping(w) \/ ClaimLease(w)
    BY <2>2, <2>9 DEF ReleaseStopping, Release, ClaimLease, Goto, row, TypeInv, TypeOK
  <2>10. CASE StoreEvents(w)
    BY <1>3, <2>10 DEF StoreEvents, row, streams
  <2> QED  BY <1>6, <2>3, <2>4, <2>5, <2>7, <2>8, <2>9, <2>10 DEF WorkerStep
<1>7. CASE UNCHANGED vars
  BY <1>3, <1>7 DEF vars, row, streams, record
<1> QED  BY <1>2, <1>4, <1>5, <1>6, <1>7 DEF Next

\* A stop or kill-switch command is never acknowledged, by whichever of the workers
\* that read it, so that the next owner reads it before it looks at a bar.
THEOREM HaltsStay == Spec => []HaltsAreKept
<1>1. Init => HaltInv
  BY DEF Init, HaltInv, HaltsAreKept
<1> QED  BY <1>1, HaltStep, TypeInvariance, PTL DEF Spec, HaltInv

-----------------------------------------------------------------------------
(* Stopped runtimes.                                                       *)

\* No worker takes a runtime that is to stop, whatever late heartbeats and events
\* write into its state; and without an owner nothing is stored or acknowledged.
THEOREM StoppedStaysStopped == Spec => StopIsFinal
<1>1. ASSUME desired = "stopping", owner = NoWorker, [Next]_vars
      PROVE  owner' = NoWorker /\ stored' = stored /\ cursor' = cursor
  <2> USE PaperRuntimeAssumption, <1>1
  <2>1. CASE StartRuntime \/ PublishBar \/ SendCommand \/ LeaseLapses
    BY <2>1 DEF StartRuntime, PublishBar, SendCommand, LeaseLapses, row
  <2>2. ASSUME NEW c \in Client, RequestStep(c) \/ RequestGoesOn(c)
        PROVE  owner' = NoWorker /\ stored' = stored /\ cursor' = cursor
    BY <2>2, RequestFrame
  <2>3. ASSUME NEW w \in Worker, WorkerStep(w) \/ Crash(w)
        PROVE  owner' = NoWorker /\ stored' = stored /\ cursor' = cursor
    <3>1. owner # w /\ ~ClaimLease(w)
      BY DEF ClaimLease, Claimable
    <3>2. CASE ListStopping(w) \/ ListRunning(w) \/ ClaimRefused(w) \/ ReadCommands(w)
               \/ ReadMarket(w) \/ BeatRead(w) \/ EndRound(w) \/ Crash(w)
      BY <3>2 DEF ListStopping, ListRunning, ClaimRefused, ReadCommands, ReadMarket, BeatRead,
         EndRound, Crash, row
    <3>3. CASE ReleaseStopping(w) \/ Halt(w)
      BY <3>1, <3>3 DEF ReleaseStopping, Halt, Release, row
    <3>4. CASE AckCommands(w) \/ AckBars(w)
      BY <3>1, <3>4 DEF AckCommands, AckBars, PersistCursor, row
    <3>5. CASE StoreEvents(w)
      BY <3>1, <3>5 DEF StoreEvents, row
    <3>6. CASE BeatCommit(w)
      BY <3>6 DEF BeatCommit, CommitHeartbeat
    <3> QED  BY <2>3, <3>1, <3>2, <3>3, <3>4, <3>5, <3>6 DEF WorkerStep
  <2>4. CASE UNCHANGED vars
    BY <2>4 DEF vars, row
  <2> QED  BY <2>1, <2>2, <2>3, <2>4 DEF Next
<1> QED  BY <1>1, PTL DEF Spec, StopIsFinal

-----------------------------------------------------------------------------
(* Acknowledged bars.                                                      *)

\* What the owner's session remembers, and what its round is about to acknowledge, is
\* stored or still in the batch.  A former owner's session is of a former generation.
SessionInv ==
    /\ CursorIsBacked
    /\ \A w \in Worker :
         /\ sessionGen[w] <= generation
         /\ pc[w] # "store" => batch[w] = {}
         /\ owner = w /\ sessionGen[w] = generation => processed[w] \subseteq stored \cup batch[w]
         /\ owner = w /\ pc[w] = "store" =>
              cursor + 1 .. next[w] \subseteq stored \cup batch[w]

\* Nothing but the rounds touches what SessionInv is about.
LEMMA SessionFrame ==
    ASSUME SessionInv, NEW w \in Worker, TypeInv,
           UNCHANGED <<stored, cursor, generation>>, owner' \in {owner, NoWorker},
           \A v \in Worker \ {w} : /\ pc'[v] = pc[v] /\ batch'[v] = batch[v] /\ next'[v] = next[v]
                                   /\ sessionGen'[v] = sessionGen[v]
                                   /\ processed'[v] = processed[v],
           pc'[w] # "store", pc[w] # "store", batch'[w] = {},
           \/ sessionGen'[w] = sessionGen[w] /\ processed'[w] = processed[w]
           \/ sessionGen'[w] = 0 /\ processed'[w] = {}
    PROVE  SessionInv'
<1>1. CursorIsBacked'
  BY DEF SessionInv, CursorIsBacked
<1>2. ASSUME NEW v \in Worker, v # w
      PROVE  /\ sessionGen'[v] <= generation'
             /\ pc'[v] # "store" => batch'[v] = {}
             /\ owner' = v /\ sessionGen'[v] = generation' =>
                  processed'[v] \subseteq stored' \cup batch'[v]
             /\ owner' = v /\ pc'[v] = "store" =>
                  cursor' + 1 .. next'[v] \subseteq stored' \cup batch'[v]
  <2>1. owner' = v => owner = v
    BY PaperRuntimeAssumption
  <2> QED  BY <1>2, <2>1 DEF SessionInv
<1>3. /\ sessionGen'[w] <= generation'
      /\ owner' = w /\ sessionGen'[w] = generation' => processed'[w] \subseteq stored' \cup batch'[w]
  <2>1. 0 <= generation
    BY PaperRuntimeAssumption DEF TypeInv, TypeOK
  <2>2. owner' = w => owner = w
    BY PaperRuntimeAssumption
  <2>3. batch[w] = {}
    BY DEF SessionInv
  <2> QED  BY <2>1, <2>2, <2>3 DEF SessionInv
<1> QED  BY <1>1, <1>2, <1>3 DEF SessionInv

\* Without skipped appends and failed batches a round of the owner stores all it executes;
\* one that is not the owner's changes nothing that matters.
LEMMA SessionStep ==
    ASSUME "locked" \notin Faults, "batch" \notin Faults, TypeInv, SessionInv, [Next]_vars
    PROVE  SessionInv'
<1>1. CASE UNCHANGED <<owner, generation, cursor, stored, pc, batch, next, session>>
  BY <1>1 DEF SessionInv, CursorIsBacked, session
<1>2. CASE StartRuntime \/ PublishBar \/ SendCommand \/ LeaseLapses
  BY <1>1, <1>2 DEF StartRuntime, PublishBar, SendCommand, LeaseLapses, row, record
<1>3. ASSUME NEW c \in Client, RequestStep(c) \/ RequestGoesOn(c) PROVE SessionInv'
  BY <1>1, <1>3, RequestFrame DEF record
<1>4. ASSUME NEW w \in Worker, WorkerStep(w) \/ Crash(w) PROVE SessionInv'
  <2>1. /\ pc \in [Worker -> {"idle", "release", "claim"} \cup RoundPcs]
        /\ batch \in [Worker -> SUBSET Bar] /\ next \in [Worker -> Nat]
        /\ sessionGen \in [Worker -> 0 .. MaxGeneration] /\ processed \in [Worker -> SUBSET Bar]
        /\ cursor \in Nat /\ generation \in Nat
    BY PaperRuntimeAssumption DEF TypeInv, TypeOK
  <2>2. ~RowLocked(w)
    BY DEF RowLocked
  <2>3. \A v \in Worker : pc[v] # "store" => batch[v] = {}
    BY DEF SessionInv
  <2>4. CASE ListStopping(w) \/ ListRunning(w) \/ BeatRead(w)
    <3>1. pc[w] \in {"idle", "heartbeat"} /\ batch[w] = {}
      BY <2>3, <2>4 DEF ListStopping, ListRunning, BeatRead, At
    <3>2. UNCHANGED <<row, stored, batch, next>>
      BY <2>4 DEF ListStopping, ListRunning, BeatRead, record
    <3>3. \/ UNCHANGED session
          \/ DropSession(w)
      BY <2>4 DEF ListStopping, ListRunning, BeatRead
    <3>4. \E l \in {"release", "claim", "beat"} : pc' = [pc EXCEPT ![w] = l]
      BY <2>4 DEF ListStopping, ListRunning, BeatRead, Goto
    <3> QED  BY <2>1, <3>1, <3>2, <3>3, <3>4, SessionFrame DEF DropSession, session, row
  <2>5. CASE ReleaseStopping(w)
    <3>1. UNCHANGED <<stored, record, session>> /\ pc' = [pc EXCEPT ![w] = "idle"]
          /\ pc[w] = "release" /\ batch[w] = {}
      BY <2>3, <2>5 DEF ReleaseStopping, Goto, At
    <3>2. owner' \in {owner, NoWorker} /\ UNCHANGED <<cursor, generation>>
      BY <2>5 DEF ReleaseStopping, Release, row
    <3> QED  BY <2>1, <3>1, <3>2, SessionFrame DEF record, session
  <2>6. CASE ClaimLease(w)
    <3>1. /\ pc' = [pc EXCEPT ![w] = "commands"] /\ UNCHANGED <<stored, cursor, batch, next, session>>
          /\ owner' = w /\ generation' = ClaimGeneration(w) /\ pc[w] = "claim"
      BY <2>6 DEF ClaimLease, Goto, At
    <3>2. CASE owner = w
      BY <2>1, <3>1, <3>2 DEF ClaimGeneration, SessionInv, CursorIsBacked, session
    <3>3. CASE owner # w
      <4>1. generation' = generation + 1
        BY <3>1, <3>3 DEF ClaimGeneration
      <4>2. \A v \in Worker : sessionGen'[v] <= generation' /\ sessionGen'[v] # generation'
        BY <2>1, <3>1, <4>1 DEF SessionInv, session
      <4> QED  BY <2>1, <3>1, <4>1, <4>2 DEF SessionInv, CursorIsBacked, session
    <3> QED  BY <3>2, <3>3
  <2>7. CASE ReadCommands(w)
    <3>1. pc[w] = "commands" /\ batch[w] = {} /\ UNCHANGED <<row, stored, batch>>
      BY <2>3, <2>7 DEF ReadCommands, At
    <3>2. \E l \in {"market", "halt", "ackCommands"} : pc' = [pc EXCEPT ![w] = l]
      BY <2>7 DEF ReadCommands, Goto
    <3>3. UNCHANGED session \/ DropSession(w)
      BY <2>7 DEF ReadCommands
    <3>4. \A v \in Worker \ {w} : next'[v] = next[v]
      BY <2>1, <2>7 DEF ReadCommands
    <3> QED  BY <2>1, <3>1, <3>2, <3>3, <3>4, SessionFrame DEF DropSession, session, row
  <2>8. CASE Return(w) /\ pc[w] # "store" /\ owner' \in {owner, NoWorker}
             /\ UNCHANGED <<stored, cursor, generation, session>>
    BY <2>1, <2>8, SessionFrame DEF Return, Goto, session
  <2>9. CASE ClaimRefused(w) \/ Halt(w) \/ BeatCommit(w) \/ EndRound(w)
    <3>1. Return(w) /\ UNCHANGED <<stored, session>>
      BY <2>9 DEF ClaimRefused, Halt, BeatCommit, EndRound
    <3>2. pc[w] # "store"
      BY <2>9 DEF ClaimRefused, Halt, BeatCommit, EndRound, At
    <3>3. owner' \in {owner, NoWorker} /\ UNCHANGED <<cursor, generation>>
      BY <2>9 DEF ClaimRefused, Halt, BeatCommit, CommitHeartbeat, EndRound, Release, row
    <3> QED  BY <2>8, <3>1, <3>2, <3>3
  <2>10. CASE AckCommands(w)
    <3>1. pc[w] = "ackCommands" /\ batch[w] = {} /\ pc' = [pc EXCEPT ![w] = "market"]
          /\ next' = [next EXCEPT ![w] = 0]
          /\ UNCHANGED <<stored, batch, session>>
      BY <2>3, <2>10 DEF AckCommands, Goto, At
    <3>2. UNCHANGED <<owner, generation>> /\ cursor' = cursor
      <4>1. owner = w => at[w] = cursor
        BY <3>1 DEF TypeInv, RoundShape, OwnerShape, RoundPcs
      <4> QED  BY <2>10, <4>1 DEF AckCommands, PersistCursor, row
    <3> QED  BY <2>1, <3>1, <3>2, SessionFrame DEF session
  <2>11. CASE ReadMarket(w)
    <3>1. pc[w] = "market" /\ batch[w] = {} /\ UNCHANGED <<row, stored>>
      BY <2>3, <2>11 DEF ReadMarket, At
    <3>2. CASE \E l \in {"heartbeat", "end"} : Goto(w, l) /\ UNCHANGED <<batch, next, session>>
      <4>1. PICK l \in {"heartbeat", "end"} : pc' = [pc EXCEPT ![w] = l]
        BY <3>2 DEF Goto
      <4> QED  BY <2>1, <3>1, <3>2, <4>1, SessionFrame DEF session, row
    <3>3. CASE /\ batch' = [batch EXCEPT ![w] = Fresh(w) \ Remembered(w)]
               /\ \E last \in Fresh(w) : next' = [next EXCEPT ![w] = last]
               /\ sessionGen' = [sessionGen EXCEPT ![w] = gen[w]]
               /\ processed' = [processed EXCEPT ![w] = Remembered(w) \cup Fresh(w)]
               /\ Goto(w, "store")
      <4>1. PICK last \in Fresh(w) : next' = [next EXCEPT ![w] = last]
        BY <3>3
      <4>2. at[w] + 1 .. last \subseteq Fresh(w)
        <5>1. at[w] \in Nat /\ bars \in Nat /\ BatchSize \in Nat
          BY PaperRuntimeAssumption DEF TypeInv, TypeOK
        <5> QED  BY <5>1 DEF Fresh
      <4>3. gen[w] <= generation /\ (owner = w => gen[w] = generation /\ at[w] = cursor)
        BY <3>1 DEF TypeInv, RoundShape, OwnerShape, RoundPcs
      <4>4. owner = w => Remembered(w) \subseteq stored
        BY <3>1, <4>3 DEF Remembered, SessionInv
      <4>5. /\ batch'[w] = Fresh(w) \ Remembered(w) /\ next'[w] = last /\ sessionGen'[w] = gen[w]
            /\ processed'[w] = Remembered(w) \cup Fresh(w) /\ pc'[w] = "store"
        BY <2>1, <3>3, <4>1 DEF Goto
      <4>6. \A v \in Worker \ {w} :
              /\ batch'[v] = batch[v] /\ next'[v] = next[v] /\ sessionGen'[v] = sessionGen[v]
              /\ processed'[v] = processed[v] /\ pc'[v] = pc[v]
        BY <2>1, <3>3, <4>1 DEF Goto
      <4>7. UNCHANGED <<owner, generation, cursor, stored>>
        BY <3>1 DEF row
      <4>8. /\ sessionGen'[w] <= generation
            /\ owner = w => /\ processed'[w] \subseteq stored \cup batch'[w]
                            /\ cursor + 1 .. next'[w] \subseteq stored \cup batch'[w]
        <5>1. sessionGen'[w] <= generation
          BY <4>3, <4>5
        <5>2. ASSUME owner = w PROVE processed'[w] \subseteq stored \cup batch'[w]
          BY <4>4, <4>5, <5>2
        <5>3. ASSUME owner = w PROVE cursor + 1 .. next'[w] \subseteq stored \cup batch'[w]
          <6>1. cursor + 1 .. next'[w] \subseteq Fresh(w)
            BY <4>2, <4>3, <4>5, <5>3
          <6> QED  BY <4>4, <4>5, <5>3, <6>1
        <5> QED  BY <5>1, <5>2, <5>3
      <4>9. ASSUME NEW v \in Worker
            PROVE  /\ sessionGen'[v] <= generation'
                   /\ pc'[v] # "store" => batch'[v] = {}
                   /\ owner' = v /\ sessionGen'[v] = generation' =>
                        processed'[v] \subseteq stored' \cup batch'[v]
                   /\ owner' = v /\ pc'[v] = "store" =>
                        cursor' + 1 .. next'[v] \subseteq stored' \cup batch'[v]
        <5>1. CASE v = w
          BY <4>5, <4>7, <4>8, <5>1
        <5>2. CASE v # w
          BY <4>6, <4>7, <5>2 DEF SessionInv
        <5> QED  BY <5>1, <5>2
      <4> QED  BY <4>7, <4>9 DEF SessionInv, CursorIsBacked
    <3> QED  BY <2>11, <3>2, <3>3 DEF ReadMarket
  <2>12. CASE StoreEvents(w)
    <3>1. UNCHANGED <<owner, generation, cursor, pc, next, session>> /\ pc[w] = "store"
      BY <2>12 DEF StoreEvents, row, At
    <3>2. PICK b \in batch[w] : /\ batch' = [batch EXCEPT ![w] = @ \ {b}]
                               /\ \/ stored' = stored \cup {b}
                                  \/ owner # w /\ stored' = stored
      BY <2>2, <2>12 DEF StoreEvents
    <3>3. stored \subseteq stored' /\ (owner = w => stored \cup batch[w] \subseteq stored' \cup batch'[w])
      BY <2>1, <3>2
    <3>4. \A v \in Worker \ {w} : batch'[v] = batch[v]
      BY <2>1, <3>2
    <3> QED  BY <3>1, <3>3, <3>4 DEF SessionInv, CursorIsBacked, session
  <2>13. CASE AckBars(w)
    <3>1. pc[w] = "store" /\ batch[w] = {} /\ pc' = [pc EXCEPT ![w] = "heartbeat"]
          /\ next' = [next EXCEPT ![w] = 0]
          /\ UNCHANGED <<stored, batch, session>>
      BY <2>13 DEF AckBars, Goto, At
    <3>2. CASE owner = w /\ cursor' = next[w] /\ UNCHANGED <<owner, generation>>
      <4>1. cursor + 1 .. next[w] \subseteq stored /\ 1 .. cursor \subseteq stored
        BY <3>1, <3>2 DEF SessionInv, CursorIsBacked
      <4>2. CursorIsBacked'
        BY <2>1, <3>1, <3>2, <4>1 DEF CursorIsBacked
      <4> QED  BY <2>1, <3>1, <3>2, <4>2 DEF SessionInv, session
    <3>3. CASE UNCHANGED row
      BY <2>1, <3>1, <3>3 DEF SessionInv, CursorIsBacked, session, row
    <3> QED  BY <2>13, <3>2, <3>3 DEF AckBars, PersistCursor
  <2>14. CASE Crash(w)
    <3>1. Return(w) /\ DropSession(w) /\ UNCHANGED <<row, stored>>
      BY <2>14 DEF Crash
    <3>2. /\ pc'[w] = "idle" /\ batch'[w] = {} /\ sessionGen'[w] = 0 /\ processed'[w] = {}
      BY <2>1, <3>1 DEF Return, Goto, DropSession
    <3>3. \A v \in Worker \ {w} :
            /\ batch'[v] = batch[v] /\ next'[v] = next[v] /\ sessionGen'[v] = sessionGen[v]
            /\ processed'[v] = processed[v] /\ pc'[v] = pc[v]
      BY <2>1, <3>1 DEF Return, Goto, DropSession
    <3> QED  BY <2>1, <3>1, <3>2, <3>3 DEF SessionInv, CursorIsBacked, row
  <2> QED  BY <1>4, <2>4, <2>5, <2>6, <2>7, <2>9, <2>10, <2>11, <2>12, <2>13, <2>14 DEF WorkerStep
<1>5. CASE UNCHANGED vars
  BY <1>1, <1>5 DEF vars, row, record
<1> QED  BY <1>2, <1>3, <1>4, <1>5 DEF Next

\* As long as no append finds the row locked and no batch fails, a bar that is
\* acknowledged has its events stored: for any number of workers that crash, lose the
\* lease anywhere in a batch, and come back with sessions of former generations.
THEOREM AcknowledgedBarsAreStored ==
    ASSUME "locked" \notin Faults, "batch" \notin Faults
    PROVE  Spec => []CursorIsBacked
<1>1. Init => SessionInv
  BY DEF Init, SessionInv, CursorIsBacked
<1>2. SessionInv /\ TypeInv /\ [Next]_vars => SessionInv'
  BY SessionStep
<1>3. SessionInv => CursorIsBacked
  BY DEF SessionInv
<1> QED  BY <1>1, <1>2, <1>3, TypeInvariance, PTL DEF Spec

=============================================================================
