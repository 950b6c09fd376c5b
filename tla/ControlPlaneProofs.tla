------------------------ MODULE ControlPlaneProofs ------------------------
(***************************************************************************)
(* Theorems about ControlPlane for any number of requests and any sets of  *)
(* kinds that arrive together.                                             *)
(*                                                                         *)
(* The argument: a record under a key belongs to one request, the one that *)
(* claimed it, and every later step of a request that carries the key is a *)
(* step of that one (KeyShape).  A request is answered only when it is     *)
(* over (PcShape), a resumed one only after its run has ended (RunShape);  *)
(* a confirmation marks the proposal only after it has seen to the event   *)
(* (LoadShape).                                                            *)
(***************************************************************************)
EXTENDS ControlPlane, TLAPS

Responding == {"respond", "write", "announce", "prompt"}
Resuming   == {"resume", "open", "start", "turn", "completed", "blocked", "left"}
Confirming == {"confirm", "upsert", "append", "mark"}

Labels == Kinds \cup {"idle", "done", "begin", "claim", "complete", "write", "announce", "prompt",
                       "open", "start", "turn", "completed", "blocked", "left", "upsert",
                       "append", "mark"}

\* Where a request may be tells what kind it is and what it cannot have done yet.
PcShape ==
    \A r \in Request :
       /\ pc[r] = "idle" => kind[r] = "none" /\ ~keyed[r] /\ r \notin worked /\ r \notin gaveUp
       /\ keyed[r] => kind[r] \in Kinds
       /\ pc[r] \in {"begin", "claim"} => keyed[r] /\ r \notin worked
       /\ pc[r] = "create" => kind[r] = "create"
       /\ pc[r] \in Responding => kind[r] = "respond"
       /\ pc[r] \in Resuming => kind[r] = "resume"
       /\ pc[r] \in Confirming => kind[r] = "confirm"
       /\ answer[r] # Nobody => pc[r] = "done"
       /\ r \in gaveUp => kind[r] = "confirm"

\* A request past its claim, or that did the work, owns the record under its key.
OwnersHold ==
    \A r \in Request :
       keyed[r] /\ (pc[r] \notin {"idle", "begin", "claim", "done"} \/ r \in worked) =>
          idem[kind[r]].status # "none" /\ idem[kind[r]].by = r

\* A record names the request that claimed it and, once completed, answered.
RecordsAreOwned ==
    \A k \in Kinds : idem[k].status # "none" =>
       LET q == idem[k].by
       IN /\ q \in Request /\ keyed[q] /\ kind[q] = k /\ body[q] = idem[k].body
          /\ pc[q] \notin {"idle", "begin", "claim"}
          /\ idem[k].status = "completed" => answer[q] = q

\* A continuation whose turn is over, or that was answered, has no run in progress.
RunShape ==
    \A r \in Request :
       kind[r] = "resume" /\ (pc[r] \in {"completed", "blocked", "complete", "left"} \/ answer[r] = r) =>
          run[r] = "ended"

\* The runtime was told to load, or a confirmation gave the telling up.
Told(b) == loads[b] = 1 \/ \E r \in gaveUp : kind[r] = "confirm" /\ body[r] = b

\* A confirmation that is to append, or to mark, has its runtime in the table.
LoadShape ==
    \A r \in Request :
       /\ pc[r] \in {"append", "mark"} => body[r] \in runtimes
       /\ pc[r] = "mark" => Told(body[r])

\* The inductive invariant.
IInv ==
    /\ TypeOK /\ PcShape
    /\ OwnersHold /\ RecordsAreOwned /\ ReplaysOwnAnswer
    /\ RunShape
    /\ LoadsAtMostOnce /\ LoadShape /\ StartedIsLoaded

-----------------------------------------------------------------------------
(* The first state.                                                        *)

\* Nobody is not the number of a request.
LEMMA NobodyAsks == Nobody \notin Request
BY ControlPlaneAssumption DEF Request, Nobody

\* Before any request has arrived the invariant holds.
LEMMA InitShape == Init => IInv
<1> SUFFICES ASSUME Init PROVE IInv
  OBVIOUS
<1>1. TypeOK
  BY DEF Init, TypeOK, Kinds, Body, NoRecord, Event, TaskStatus, Nobody
<1>2. PcShape
  BY DEF Init, PcShape, Responding, Resuming, Confirming
<1>3. OwnersHold /\ RecordsAreOwned /\ ReplaysOwnAnswer
  BY DEF Init, OwnersHold, RecordsAreOwned, ReplaysOwnAnswer, NoRecord
<1>4. RunShape
  BY DEF Init, RunShape
<1>5. LoadsAtMostOnce /\ LoadShape /\ StartedIsLoaded
  BY DEF Init, LoadsAtMostOnce, LoadShape, StartedIsLoaded
<1> QED
  BY <1>1, <1>2, <1>3, <1>4, <1>5 DEF IInv

-----------------------------------------------------------------------------
(* Types and program counters.                                             *)

\* Every step keeps the types.
LEMMA TypeStep ==
    ASSUME TypeOK, PcShape, Next \/ UNCHANGED vars PROVE TypeOK'
<1>1. ASSUME NEW r \in Request, Arrive(r) PROVE TypeOK'
  BY ControlPlaneAssumption, <1>1 DEF Arrive, Arrived, Goto, TypeOK, PcShape, Kinds, Body, TaskStatus, Event, Nobody, Resolved, flow, bots, Responding, Resuming, Confirming
<1>2. ASSUME NEW r \in Request, Refuse(r) PROVE TypeOK'
  BY ControlPlaneAssumption, <1>2 DEF Refuse, Arrived, Goto, TypeOK, PcShape, Kinds, Body, TaskStatus, Event, Nobody, Resolved, flow, bots, Responding, Resuming, Confirming
<1>3. ASSUME NEW r \in Request, LookUpKey(r) PROVE TypeOK'
  BY ControlPlaneAssumption, <1>3 DEF LookUpKey, Goto, TypeOK, PcShape, Kinds, Body, TaskStatus, Event, Nobody, Resolved, flow, bots, Responding, Resuming, Confirming
<1>4. ASSUME NEW r \in Request, ClaimKey(r) PROVE TypeOK'
  BY ControlPlaneAssumption, <1>4 DEF ClaimKey, Goto, TypeOK, PcShape, Kinds, Body, TaskStatus, Event, Nobody, Resolved, flow, bots, Responding, Resuming, Confirming
<1>5. ASSUME NEW r \in Request, Complete(r) PROVE TypeOK'
  BY ControlPlaneAssumption, <1>5 DEF Complete, Answerable, Goto, TypeOK, PcShape, Kinds, Body, TaskStatus, Event, Nobody, Resolved, flow, bots, Responding, Resuming, Confirming
<1>6. ASSUME NEW r \in Request, Create(r) PROVE TypeOK'
  BY ControlPlaneAssumption, <1>6 DEF Create, Goto, TypeOK, PcShape, Kinds, Body, TaskStatus, Event, Nobody, Resolved, flow, bots, Responding, Resuming, Confirming
<1>7. ASSUME NEW r \in Request, ReadTask(r) PROVE TypeOK'
  BY ControlPlaneAssumption, <1>7 DEF ReadTask, Goto, TypeOK, PcShape, Kinds, Body, TaskStatus, Event, Nobody, Resolved, flow, bots, Responding, Resuming, Confirming
<1>8. ASSUME NEW r \in Request, WriteTask(r) PROVE TypeOK'
  BY ControlPlaneAssumption, <1>8 DEF WriteTask, Goto, TypeOK, PcShape, Kinds, Body, TaskStatus, Event, Nobody, Resolved, flow, bots, Responding, Resuming, Confirming
<1>9. ASSUME NEW r \in Request, RefreshPrompt(r) PROVE TypeOK'
  BY ControlPlaneAssumption, <1>9 DEF RefreshPrompt, Forget, Goto, TypeOK, PcShape, Kinds, Body, TaskStatus, Event, Nobody, Resolved, flow, bots, Responding, Resuming, Confirming
<1>10. ASSUME NEW r \in Request, RequireContinuation(r) PROVE TypeOK'
  BY ControlPlaneAssumption, <1>10 DEF RequireContinuation, Forget, Goto, TypeOK, PcShape, Kinds, Body, TaskStatus, Event, Nobody, Resolved, flow, bots, Responding, Resuming, Confirming
<1>11. ASSUME NEW r \in Request, CheckContinuation(r) PROVE TypeOK'
  BY ControlPlaneAssumption, <1>11 DEF CheckContinuation, Goto, TypeOK, PcShape, Kinds, Body, TaskStatus, Event, Nobody, Resolved, flow, bots, Responding, Resuming, Confirming
<1>12. ASSUME NEW r \in Request, OpenRun(r) PROVE TypeOK'
  BY ControlPlaneAssumption, <1>12 DEF OpenRun, Goto, TypeOK, PcShape, Kinds, Body, TaskStatus, Event, Nobody, Resolved, flow, bots, Responding, Resuming, Confirming
<1>13. ASSUME NEW r \in Request, StartContinuation(r) PROVE TypeOK'
  BY ControlPlaneAssumption, <1>13 DEF StartContinuation, Goto, TypeOK, PcShape, Kinds, Body, TaskStatus, Event, Nobody, Resolved, flow, bots, Responding, Resuming, Confirming
<1>14. ASSUME NEW r \in Request, Build(r) PROVE TypeOK'
  BY ControlPlaneAssumption, <1>14 DEF Build, request, TypeOK, PcShape, Kinds, Body, TaskStatus, Event, Nobody, Resolved, flow, bots, Responding, Resuming, Confirming
<1>15. ASSUME NEW r \in Request, EndRun(r) PROVE TypeOK'
  BY ControlPlaneAssumption, <1>15 DEF EndRun, Goto, TypeOK, PcShape, Kinds, Body, TaskStatus, Event, Nobody, Resolved, flow, bots, Responding, Resuming, Confirming
<1>16. ASSUME NEW r \in Request, EndContinuation(r) PROVE TypeOK'
  BY ControlPlaneAssumption, <1>16 DEF EndContinuation, EventType, Goto, TypeOK, PcShape, Kinds, Body, TaskStatus, Event, Nobody, Resolved, flow, bots, Responding, Resuming, Confirming
<1>17. ASSUME NEW r \in Request, FailLeft(r) PROVE TypeOK'
  BY ControlPlaneAssumption, <1>17 DEF FailLeft, Goto, TypeOK, PcShape, Kinds, Body, TaskStatus, Event, Nobody, Resolved, flow, bots, Responding, Resuming, Confirming
<1>18. ASSUME NEW r \in Request, CheckProposal(r) PROVE TypeOK'
  <2>1. seen' \in [Request -> BOOLEAN]
    <3>1. seen' = seen \/ seen' = [seen EXCEPT ![r] = body[r] \in runtimes]
      BY <1>18, Zenon DEF CheckProposal
    <3>2. seen \in [Request -> BOOLEAN]
      BY DEF TypeOK
    <3>3. \A x \in BOOLEAN : [seen EXCEPT ![r] = x] \in [Request -> BOOLEAN]
      BY <3>2
    <3>4. (body[r] \in runtimes) \in BOOLEAN
      OBVIOUS
    <3> QED
      BY <3>1, <3>2, <3>3, <3>4, Zenon
  <2>2. pc' \in [Request -> Labels]
    BY <1>18 DEF CheckProposal, Goto, TypeOK, Labels
  <2> QED
    BY <1>18, <2>1, <2>2 DEF CheckProposal, TypeOK, Labels, flow, bots
<1>19. ASSUME NEW r \in Request, UpsertRuntime(r) PROVE TypeOK'
  <2>1. worked' \subseteq Request /\ runtimes' \subseteq Body
    BY <1>19 DEF UpsertRuntime, TypeOK
  <2>2. pc' \in [Request -> Labels]
    BY <1>19 DEF UpsertRuntime, AfterUpsert, Goto, TypeOK, Labels
  <2> QED
    BY <1>19, <2>1, <2>2 DEF UpsertRuntime, TypeOK, Labels, flow
<1>20. ASSUME NEW r \in Request, AppendLoaded(r) PROVE TypeOK'
  BY ControlPlaneAssumption, <1>20 DEF AppendLoaded, Goto, TypeOK, PcShape, Kinds, Body, TaskStatus, Event, Nobody, Resolved, flow, bots, Responding, Resuming, Confirming
<1>21. ASSUME NEW r \in Request, MarkStarted(r) PROVE TypeOK'
  BY ControlPlaneAssumption, <1>21 DEF MarkStarted, Goto, TypeOK, PcShape, Kinds, Body, TaskStatus, Event, Nobody, Resolved, flow, bots, Responding, Resuming, Confirming
<1>22. ASSUME NEW r \in Request, Die(r) PROVE TypeOK'
  BY ControlPlaneAssumption, <1>22 DEF Die, Forget, Goto, TypeOK, PcShape, Kinds, Body, TaskStatus, Event, Nobody, Resolved, flow, bots, Responding, Resuming, Confirming
<1>23. ASSUME NEW r \in Request, Leave(r) PROVE TypeOK'
  BY ControlPlaneAssumption, <1>23 DEF Leave, Goto, TypeOK, PcShape, Kinds, Body, TaskStatus, Event, Nobody, Resolved, flow, bots, Responding, Resuming, Confirming
<1>24. ASSUME NEW r \in Request, CancelRun(r) PROVE TypeOK'
  BY ControlPlaneAssumption, <1>24 DEF CancelRun, request, TypeOK, PcShape, Kinds, Body, TaskStatus, Event, Nobody, Resolved, flow, bots, Responding, Resuming, Confirming
<1>25. ASSUME SyncTask PROVE TypeOK'
  BY ControlPlaneAssumption, <1>25 DEF SyncTask, request, bots, TypeOK, PcShape, Kinds, Body, TaskStatus, Event, Nobody, Resolved, flow, bots, Responding, Resuming, Confirming
<1>26. ASSUME GrowOld PROVE TypeOK'
  BY ControlPlaneAssumption, <1>26 DEF GrowOld, request, bots, TypeOK, PcShape, Kinds, Body, TaskStatus, Event, Nobody, Resolved, flow, bots, Responding, Resuming, Confirming
<1>27. ASSUME UNCHANGED vars PROVE TypeOK'
  BY ControlPlaneAssumption, <1>27 DEF vars, request, flow, bots, TypeOK, PcShape, Kinds, Body, TaskStatus, Event, Nobody, Resolved, flow, bots, Responding, Resuming, Confirming
<1>28. QED
  BY <1>1, <1>2, <1>3, <1>4, <1>5, <1>6, <1>7, <1>8, <1>9, <1>10, <1>11, <1>12, <1>13, <1>14, <1>15, <1>16, <1>17, <1>18, <1>19, <1>20, <1>21, <1>22, <1>23, <1>24, <1>25, <1>26, <1>27 DEF Next, Serve

\* Every step leads to a place that fits the kind of the request.
LEMMA PcStep ==
    ASSUME TypeOK, PcShape, Next \/ UNCHANGED vars PROVE PcShape'
<1>1. ASSUME NEW r \in Request, Arrive(r) PROVE PcShape'
  BY ControlPlaneAssumption, <1>1 DEF Arrive, Arrived, Goto, TypeOK, PcShape, Kinds, Nobody, Responding, Resuming, Confirming, flow, bots
<1>2. ASSUME NEW r \in Request, Refuse(r) PROVE PcShape'
  BY ControlPlaneAssumption, <1>2 DEF Refuse, Arrived, Goto, TypeOK, PcShape, Kinds, Nobody, Responding, Resuming, Confirming, flow, bots
<1>3. ASSUME NEW r \in Request, LookUpKey(r) PROVE PcShape'
  BY ControlPlaneAssumption, <1>3 DEF LookUpKey, Goto, TypeOK, PcShape, Kinds, Nobody, Responding, Resuming, Confirming, flow, bots
<1>4. ASSUME NEW r \in Request, ClaimKey(r) PROVE PcShape'
  BY ControlPlaneAssumption, <1>4 DEF ClaimKey, Goto, TypeOK, PcShape, Kinds, Nobody, Responding, Resuming, Confirming, flow, bots
<1>5. ASSUME NEW r \in Request, Complete(r) PROVE PcShape'
  BY ControlPlaneAssumption, <1>5 DEF Complete, Answerable, Goto, TypeOK, PcShape, Kinds, Nobody, Responding, Resuming, Confirming, flow, bots
<1>6. ASSUME NEW r \in Request, Create(r) PROVE PcShape'
  BY ControlPlaneAssumption, <1>6 DEF Create, Goto, TypeOK, PcShape, Kinds, Nobody, Responding, Resuming, Confirming, flow, bots
<1>7. ASSUME NEW r \in Request, ReadTask(r) PROVE PcShape'
  BY ControlPlaneAssumption, <1>7 DEF ReadTask, Goto, TypeOK, PcShape, Kinds, Nobody, Responding, Resuming, Confirming, flow, bots
<1>8. ASSUME NEW r \in Request, WriteTask(r) PROVE PcShape'
  BY ControlPlaneAssumption, <1>8 DEF WriteTask, Goto, TypeOK, PcShape, Kinds, Nobody, Responding, Resuming, Confirming, flow, bots
<1>9. ASSUME NEW r \in Request, RefreshPrompt(r) PROVE PcShape'
  BY ControlPlaneAssumption, <1>9 DEF RefreshPrompt, Forget, Goto, TypeOK, PcShape, Kinds, Nobody, Responding, Resuming, Confirming, flow, bots
<1>10. ASSUME NEW r \in Request, RequireContinuation(r) PROVE PcShape'
  BY ControlPlaneAssumption, <1>10 DEF RequireContinuation, Forget, Goto, TypeOK, PcShape, Kinds, Nobody, Responding, Resuming, Confirming, flow, bots
<1>11. ASSUME NEW r \in Request, CheckContinuation(r) PROVE PcShape'
  BY ControlPlaneAssumption, <1>11 DEF CheckContinuation, Goto, TypeOK, PcShape, Kinds, Nobody, Responding, Resuming, Confirming, flow, bots
<1>12. ASSUME NEW r \in Request, OpenRun(r) PROVE PcShape'
  BY ControlPlaneAssumption, <1>12 DEF OpenRun, Goto, TypeOK, PcShape, Kinds, Nobody, Responding, Resuming, Confirming, flow, bots
<1>13. ASSUME NEW r \in Request, StartContinuation(r) PROVE PcShape'
  BY ControlPlaneAssumption, <1>13 DEF StartContinuation, Goto, TypeOK, PcShape, Kinds, Nobody, Responding, Resuming, Confirming, flow, bots
<1>14. ASSUME NEW r \in Request, Build(r) PROVE PcShape'
  BY ControlPlaneAssumption, <1>14 DEF Build, request, TypeOK, PcShape, Kinds, Nobody, Responding, Resuming, Confirming, flow, bots
<1>15. ASSUME NEW r \in Request, EndRun(r) PROVE PcShape'
  BY ControlPlaneAssumption, <1>15 DEF EndRun, Goto, TypeOK, PcShape, Kinds, Nobody, Responding, Resuming, Confirming, flow, bots
<1>16. ASSUME NEW r \in Request, EndContinuation(r) PROVE PcShape'
  BY ControlPlaneAssumption, <1>16 DEF EndContinuation, EventType, Goto, TypeOK, PcShape, Kinds, Nobody, Responding, Resuming, Confirming, flow, bots
<1>17. ASSUME NEW r \in Request, FailLeft(r) PROVE PcShape'
  BY ControlPlaneAssumption, <1>17 DEF FailLeft, Goto, TypeOK, PcShape, Kinds, Nobody, Responding, Resuming, Confirming, flow, bots
<1>18. ASSUME NEW r \in Request, CheckProposal(r) PROVE PcShape'
  BY ControlPlaneAssumption, <1>18 DEF CheckProposal, Goto, TypeOK, PcShape, Kinds, Nobody, Responding, Resuming, Confirming, flow, bots
<1>19. ASSUME NEW r \in Request, UpsertRuntime(r) PROVE PcShape'
  BY ControlPlaneAssumption, <1>19 DEF UpsertRuntime, AfterUpsert, Goto, TypeOK, PcShape, Kinds, Nobody, Responding, Resuming, Confirming, flow, bots
<1>20. ASSUME NEW r \in Request, AppendLoaded(r) PROVE PcShape'
  BY ControlPlaneAssumption, <1>20 DEF AppendLoaded, Goto, TypeOK, PcShape, Kinds, Nobody, Responding, Resuming, Confirming, flow, bots
<1>21. ASSUME NEW r \in Request, MarkStarted(r) PROVE PcShape'
  BY ControlPlaneAssumption, <1>21 DEF MarkStarted, Goto, TypeOK, PcShape, Kinds, Nobody, Responding, Resuming, Confirming, flow, bots
<1>22. ASSUME NEW r \in Request, Die(r) PROVE PcShape'
  BY ControlPlaneAssumption, <1>22 DEF Die, Forget, Goto, TypeOK, PcShape, Kinds, Nobody, Responding, Resuming, Confirming, flow, bots
<1>23. ASSUME NEW r \in Request, Leave(r) PROVE PcShape'
  BY ControlPlaneAssumption, <1>23 DEF Leave, Goto, TypeOK, PcShape, Kinds, Nobody, Responding, Resuming, Confirming, flow, bots
<1>24. ASSUME NEW r \in Request, CancelRun(r) PROVE PcShape'
  BY ControlPlaneAssumption, <1>24 DEF CancelRun, request, TypeOK, PcShape, Kinds, Nobody, Responding, Resuming, Confirming, flow, bots
<1>25. ASSUME SyncTask PROVE PcShape'
  BY ControlPlaneAssumption, <1>25 DEF SyncTask, request, bots, TypeOK, PcShape, Kinds, Nobody, Responding, Resuming, Confirming, flow, bots
<1>26. ASSUME GrowOld PROVE PcShape'
  BY ControlPlaneAssumption, <1>26 DEF GrowOld, request, bots, TypeOK, PcShape, Kinds, Nobody, Responding, Resuming, Confirming, flow, bots
<1>27. ASSUME UNCHANGED vars PROVE PcShape'
  BY ControlPlaneAssumption, <1>27 DEF vars, request, flow, bots, TypeOK, PcShape, Kinds, Nobody, Responding, Resuming, Confirming, flow, bots
<1>28. QED
  BY <1>1, <1>2, <1>3, <1>4, <1>5, <1>6, <1>7, <1>8, <1>9, <1>10, <1>11, <1>12, <1>13, <1>14, <1>15, <1>16, <1>17, <1>18, <1>19, <1>20, <1>21, <1>22, <1>23, <1>24, <1>25, <1>26, <1>27 DEF Next, Serve

-----------------------------------------------------------------------------
(* Keys.                                                                   *)

\* Only the request that claimed a key goes on with it.
LEMMA OwnerStep ==
    ASSUME TypeOK, PcShape, OwnersHold, RecordsAreOwned, Next \/ UNCHANGED vars PROVE OwnersHold'
<1>1. ASSUME NEW r \in Request, Arrive(r) PROVE OwnersHold'
  BY <1>1 DEF Arrive, Arrived, Goto, TypeOK, PcShape, OwnersHold, RecordsAreOwned, Kinds, flow, bots
<1>2. ASSUME NEW r \in Request, Refuse(r) PROVE OwnersHold'
  BY <1>2 DEF Refuse, Arrived, Goto, TypeOK, PcShape, OwnersHold, RecordsAreOwned, Kinds, flow, bots
<1>3. ASSUME NEW r \in Request, LookUpKey(r) PROVE OwnersHold'
  BY <1>3 DEF LookUpKey, Goto, TypeOK, PcShape, OwnersHold, RecordsAreOwned, Kinds, flow, bots
<1>4. ASSUME NEW r \in Request, ClaimKey(r) PROVE OwnersHold'
  <2>1. CASE Claimable(idem[kind[r]])
    BY <1>4, <2>1 DEF ClaimKey, Claimable, Goto, TypeOK, PcShape, OwnersHold, RecordsAreOwned, flow, bots
  <2>2. CASE ~(Claimable(idem[kind[r]]))
    BY <1>4, <2>2 DEF ClaimKey, Claimable, Goto, TypeOK, PcShape, OwnersHold, RecordsAreOwned, flow, bots
  <2> QED
    BY <2>1, <2>2
<1>5. ASSUME NEW r \in Request, Complete(r) PROVE OwnersHold'
  BY <1>5 DEF Complete, Answerable, Goto, TypeOK, PcShape, OwnersHold, RecordsAreOwned, Kinds, flow, bots
<1>6. ASSUME NEW r \in Request, Create(r) PROVE OwnersHold'
  BY <1>6 DEF Create, Goto, TypeOK, PcShape, OwnersHold, RecordsAreOwned, Kinds, flow, bots
<1>7. ASSUME NEW r \in Request, ReadTask(r) PROVE OwnersHold'
  BY <1>7 DEF ReadTask, Goto, TypeOK, PcShape, OwnersHold, RecordsAreOwned, Kinds, flow, bots
<1>8. ASSUME NEW r \in Request, WriteTask(r) PROVE OwnersHold'
  BY <1>8 DEF WriteTask, Goto, TypeOK, PcShape, OwnersHold, RecordsAreOwned, Kinds, flow, bots
<1>9. ASSUME NEW r \in Request, RefreshPrompt(r) PROVE OwnersHold'
  BY <1>9 DEF RefreshPrompt, Forget, Goto, TypeOK, PcShape, OwnersHold, RecordsAreOwned, Kinds, flow, bots
<1>10. ASSUME NEW r \in Request, RequireContinuation(r) PROVE OwnersHold'
  BY <1>10 DEF RequireContinuation, Forget, Goto, TypeOK, PcShape, OwnersHold, RecordsAreOwned, Kinds, flow, bots
<1>11. ASSUME NEW r \in Request, CheckContinuation(r) PROVE OwnersHold'
  BY <1>11 DEF CheckContinuation, Goto, TypeOK, PcShape, OwnersHold, RecordsAreOwned, Kinds, flow, bots
<1>12. ASSUME NEW r \in Request, OpenRun(r) PROVE OwnersHold'
  BY <1>12 DEF OpenRun, Goto, TypeOK, PcShape, OwnersHold, RecordsAreOwned, Kinds, flow, bots
<1>13. ASSUME NEW r \in Request, StartContinuation(r) PROVE OwnersHold'
  BY <1>13 DEF StartContinuation, Goto, TypeOK, PcShape, OwnersHold, RecordsAreOwned, Kinds, flow, bots
<1>14. ASSUME NEW r \in Request, Build(r) PROVE OwnersHold'
  BY <1>14 DEF Build, request, TypeOK, PcShape, OwnersHold, RecordsAreOwned, Kinds, flow, bots
<1>15. ASSUME NEW r \in Request, EndRun(r) PROVE OwnersHold'
  BY <1>15 DEF EndRun, Goto, TypeOK, PcShape, OwnersHold, RecordsAreOwned, Kinds, flow, bots
<1>16. ASSUME NEW r \in Request, EndContinuation(r) PROVE OwnersHold'
  BY <1>16 DEF EndContinuation, EventType, Goto, TypeOK, PcShape, OwnersHold, RecordsAreOwned, Kinds, flow, bots
<1>17. ASSUME NEW r \in Request, FailLeft(r) PROVE OwnersHold'
  BY <1>17 DEF FailLeft, Goto, TypeOK, PcShape, OwnersHold, RecordsAreOwned, Kinds, flow, bots
<1>18. ASSUME NEW r \in Request, CheckProposal(r) PROVE OwnersHold'
  BY <1>18 DEF CheckProposal, Goto, TypeOK, PcShape, OwnersHold, RecordsAreOwned, Kinds, flow, bots
<1>19. ASSUME NEW r \in Request, UpsertRuntime(r) PROVE OwnersHold'
  BY <1>19 DEF UpsertRuntime, AfterUpsert, Goto, TypeOK, PcShape, OwnersHold, RecordsAreOwned, Kinds, flow, bots
<1>20. ASSUME NEW r \in Request, AppendLoaded(r) PROVE OwnersHold'
  BY <1>20 DEF AppendLoaded, Goto, TypeOK, PcShape, OwnersHold, RecordsAreOwned, Kinds, flow, bots
<1>21. ASSUME NEW r \in Request, MarkStarted(r) PROVE OwnersHold'
  BY <1>21 DEF MarkStarted, Goto, TypeOK, PcShape, OwnersHold, RecordsAreOwned, Kinds, flow, bots
<1>22. ASSUME NEW r \in Request, Die(r) PROVE OwnersHold'
  BY <1>22 DEF Die, Forget, Goto, TypeOK, PcShape, OwnersHold, RecordsAreOwned, Kinds, flow, bots
<1>23. ASSUME NEW r \in Request, Leave(r) PROVE OwnersHold'
  BY <1>23 DEF Leave, Goto, TypeOK, PcShape, OwnersHold, RecordsAreOwned, Kinds, flow, bots
<1>24. ASSUME NEW r \in Request, CancelRun(r) PROVE OwnersHold'
  BY <1>24 DEF CancelRun, request, TypeOK, PcShape, OwnersHold, RecordsAreOwned, Kinds, flow, bots
<1>25. ASSUME SyncTask PROVE OwnersHold'
  BY <1>25 DEF SyncTask, request, bots, TypeOK, PcShape, OwnersHold, RecordsAreOwned, Kinds, flow, bots
<1>26. ASSUME GrowOld PROVE OwnersHold'
  BY <1>26 DEF GrowOld, request, bots, TypeOK, PcShape, OwnersHold, RecordsAreOwned, Kinds, flow, bots
<1>27. ASSUME UNCHANGED vars PROVE OwnersHold'
  BY <1>27 DEF vars, request, flow, bots, TypeOK, PcShape, OwnersHold, RecordsAreOwned, Kinds, flow, bots
<1>28. QED
  BY <1>1, <1>2, <1>3, <1>4, <1>5, <1>6, <1>7, <1>8, <1>9, <1>10, <1>11, <1>12, <1>13, <1>14, <1>15, <1>16, <1>17, <1>18, <1>19, <1>20, <1>21, <1>22, <1>23, <1>24, <1>25, <1>26, <1>27 DEF Next, Serve

\* A record keeps its owner.
LEMMA RecordStep ==
    ASSUME TypeOK, PcShape, OwnersHold, RecordsAreOwned, Next \/ UNCHANGED vars PROVE RecordsAreOwned'
<1>1. ASSUME NEW r \in Request, Arrive(r) PROVE RecordsAreOwned'
  BY <1>1 DEF Arrive, Arrived, Goto, TypeOK, PcShape, OwnersHold, RecordsAreOwned, Kinds, Nobody, flow, bots
<1>2. ASSUME NEW r \in Request, Refuse(r) PROVE RecordsAreOwned'
  BY <1>2 DEF Refuse, Arrived, Goto, TypeOK, PcShape, OwnersHold, RecordsAreOwned, Kinds, Nobody, flow, bots
<1>3. ASSUME NEW r \in Request, LookUpKey(r) PROVE RecordsAreOwned'
  BY <1>3 DEF LookUpKey, Goto, TypeOK, PcShape, OwnersHold, RecordsAreOwned, Kinds, Nobody, flow, bots
<1>4. ASSUME NEW r \in Request, ClaimKey(r) PROVE RecordsAreOwned'
  BY <1>4 DEF ClaimKey, Goto, TypeOK, PcShape, OwnersHold, RecordsAreOwned, Kinds, Nobody, flow, bots
<1>5. ASSUME NEW r \in Request, Complete(r) PROVE RecordsAreOwned'
  BY <1>5 DEF Complete, Answerable, Goto, TypeOK, PcShape, OwnersHold, RecordsAreOwned, Kinds, Nobody, flow, bots
<1>6. ASSUME NEW r \in Request, Create(r) PROVE RecordsAreOwned'
  BY <1>6 DEF Create, Goto, TypeOK, PcShape, OwnersHold, RecordsAreOwned, Kinds, Nobody, flow, bots
<1>7. ASSUME NEW r \in Request, ReadTask(r) PROVE RecordsAreOwned'
  BY <1>7 DEF ReadTask, Goto, TypeOK, PcShape, OwnersHold, RecordsAreOwned, Kinds, Nobody, flow, bots
<1>8. ASSUME NEW r \in Request, WriteTask(r) PROVE RecordsAreOwned'
  BY <1>8 DEF WriteTask, Goto, TypeOK, PcShape, OwnersHold, RecordsAreOwned, Kinds, Nobody, flow, bots
<1>9. ASSUME NEW r \in Request, RefreshPrompt(r) PROVE RecordsAreOwned'
  BY <1>9 DEF RefreshPrompt, Forget, Goto, TypeOK, PcShape, OwnersHold, RecordsAreOwned, Kinds, Nobody, flow, bots
<1>10. ASSUME NEW r \in Request, RequireContinuation(r) PROVE RecordsAreOwned'
  BY <1>10 DEF RequireContinuation, Forget, Goto, TypeOK, PcShape, OwnersHold, RecordsAreOwned, Kinds, Nobody, flow, bots
<1>11. ASSUME NEW r \in Request, CheckContinuation(r) PROVE RecordsAreOwned'
  BY <1>11 DEF CheckContinuation, Goto, TypeOK, PcShape, OwnersHold, RecordsAreOwned, Kinds, Nobody, flow, bots
<1>12. ASSUME NEW r \in Request, OpenRun(r) PROVE RecordsAreOwned'
  BY <1>12 DEF OpenRun, Goto, TypeOK, PcShape, OwnersHold, RecordsAreOwned, Kinds, Nobody, flow, bots
<1>13. ASSUME NEW r \in Request, StartContinuation(r) PROVE RecordsAreOwned'
  BY <1>13 DEF StartContinuation, Goto, TypeOK, PcShape, OwnersHold, RecordsAreOwned, Kinds, Nobody, flow, bots
<1>14. ASSUME NEW r \in Request, Build(r) PROVE RecordsAreOwned'
  BY <1>14 DEF Build, request, TypeOK, PcShape, OwnersHold, RecordsAreOwned, Kinds, Nobody, flow, bots
<1>15. ASSUME NEW r \in Request, EndRun(r) PROVE RecordsAreOwned'
  BY <1>15 DEF EndRun, Goto, TypeOK, PcShape, OwnersHold, RecordsAreOwned, Kinds, Nobody, flow, bots
<1>16. ASSUME NEW r \in Request, EndContinuation(r) PROVE RecordsAreOwned'
  BY <1>16 DEF EndContinuation, EventType, Goto, TypeOK, PcShape, OwnersHold, RecordsAreOwned, Kinds, Nobody, flow, bots
<1>17. ASSUME NEW r \in Request, FailLeft(r) PROVE RecordsAreOwned'
  BY <1>17 DEF FailLeft, Goto, TypeOK, PcShape, OwnersHold, RecordsAreOwned, Kinds, Nobody, flow, bots
<1>18. ASSUME NEW r \in Request, CheckProposal(r) PROVE RecordsAreOwned'
  BY <1>18 DEF CheckProposal, Goto, TypeOK, PcShape, OwnersHold, RecordsAreOwned, Kinds, Nobody, flow, bots
<1>19. ASSUME NEW r \in Request, UpsertRuntime(r) PROVE RecordsAreOwned'
  BY <1>19 DEF UpsertRuntime, AfterUpsert, Goto, TypeOK, PcShape, OwnersHold, RecordsAreOwned, Kinds, Nobody, flow, bots
<1>20. ASSUME NEW r \in Request, AppendLoaded(r) PROVE RecordsAreOwned'
  BY <1>20 DEF AppendLoaded, Goto, TypeOK, PcShape, OwnersHold, RecordsAreOwned, Kinds, Nobody, flow, bots
<1>21. ASSUME NEW r \in Request, MarkStarted(r) PROVE RecordsAreOwned'
  BY <1>21 DEF MarkStarted, Goto, TypeOK, PcShape, OwnersHold, RecordsAreOwned, Kinds, Nobody, flow, bots
<1>22. ASSUME NEW r \in Request, Die(r) PROVE RecordsAreOwned'
  BY <1>22 DEF Die, Forget, Goto, TypeOK, PcShape, OwnersHold, RecordsAreOwned, Kinds, Nobody, flow, bots
<1>23. ASSUME NEW r \in Request, Leave(r) PROVE RecordsAreOwned'
  BY <1>23 DEF Leave, Goto, TypeOK, PcShape, OwnersHold, RecordsAreOwned, Kinds, Nobody, flow, bots
<1>24. ASSUME NEW r \in Request, CancelRun(r) PROVE RecordsAreOwned'
  BY <1>24 DEF CancelRun, request, TypeOK, PcShape, OwnersHold, RecordsAreOwned, Kinds, Nobody, flow, bots
<1>25. ASSUME SyncTask PROVE RecordsAreOwned'
  BY <1>25 DEF SyncTask, request, bots, TypeOK, PcShape, OwnersHold, RecordsAreOwned, Kinds, Nobody, flow, bots
<1>26. ASSUME GrowOld PROVE RecordsAreOwned'
  BY <1>26 DEF GrowOld, request, bots, TypeOK, PcShape, OwnersHold, RecordsAreOwned, Kinds, Nobody, flow, bots
<1>27. ASSUME UNCHANGED vars PROVE RecordsAreOwned'
  BY <1>27 DEF vars, request, flow, bots, TypeOK, PcShape, OwnersHold, RecordsAreOwned, Kinds, Nobody, flow, bots
<1>28. QED
  BY <1>1, <1>2, <1>3, <1>4, <1>5, <1>6, <1>7, <1>8, <1>9, <1>10, <1>11, <1>12, <1>13, <1>14, <1>15, <1>16, <1>17, <1>18, <1>19, <1>20, <1>21, <1>22, <1>23, <1>24, <1>25, <1>26, <1>27 DEF Next, Serve

\* An answer that is replayed is that of the owner.
LEMMA ReplayStep ==
    ASSUME TypeOK, PcShape, OwnersHold, RecordsAreOwned, ReplaysOwnAnswer, Next \/ UNCHANGED vars PROVE ReplaysOwnAnswer'
<1>1. ASSUME NEW r \in Request, Arrive(r) PROVE ReplaysOwnAnswer'
  BY <1>1 DEF Arrive, Arrived, Goto, TypeOK, PcShape, RecordsAreOwned, ReplaysOwnAnswer, Shares, Replayable, Kinds, Nobody, flow, bots
<1>2. ASSUME NEW r \in Request, Refuse(r) PROVE ReplaysOwnAnswer'
  BY <1>2 DEF Refuse, Arrived, Goto, TypeOK, PcShape, RecordsAreOwned, ReplaysOwnAnswer, Shares, Replayable, Kinds, Nobody, flow, bots
<1>3. ASSUME NEW r \in Request, LookUpKey(r) PROVE ReplaysOwnAnswer'
  BY <1>3 DEF LookUpKey, Goto, TypeOK, PcShape, RecordsAreOwned, ReplaysOwnAnswer, Shares, Replayable, Kinds, Nobody, flow, bots
<1>4. ASSUME NEW r \in Request, ClaimKey(r) PROVE ReplaysOwnAnswer'
  BY <1>4 DEF ClaimKey, Goto, TypeOK, PcShape, RecordsAreOwned, ReplaysOwnAnswer, Shares, Replayable, Kinds, Nobody, flow, bots
<1>5. ASSUME NEW r \in Request, Complete(r) PROVE ReplaysOwnAnswer'
  BY <1>5 DEF Complete, Answerable, Goto, TypeOK, PcShape, RecordsAreOwned, ReplaysOwnAnswer, Shares, Replayable, Kinds, Nobody, flow, bots
<1>6. ASSUME NEW r \in Request, Create(r) PROVE ReplaysOwnAnswer'
  BY <1>6 DEF Create, Goto, TypeOK, PcShape, RecordsAreOwned, ReplaysOwnAnswer, Shares, Replayable, Kinds, Nobody, flow, bots
<1>7. ASSUME NEW r \in Request, ReadTask(r) PROVE ReplaysOwnAnswer'
  BY <1>7 DEF ReadTask, Goto, TypeOK, PcShape, RecordsAreOwned, ReplaysOwnAnswer, Shares, Replayable, Kinds, Nobody, flow, bots
<1>8. ASSUME NEW r \in Request, WriteTask(r) PROVE ReplaysOwnAnswer'
  BY <1>8 DEF WriteTask, Goto, TypeOK, PcShape, RecordsAreOwned, ReplaysOwnAnswer, Shares, Replayable, Kinds, Nobody, flow, bots
<1>9. ASSUME NEW r \in Request, RefreshPrompt(r) PROVE ReplaysOwnAnswer'
  BY <1>9 DEF RefreshPrompt, Forget, Goto, TypeOK, PcShape, RecordsAreOwned, ReplaysOwnAnswer, Shares, Replayable, Kinds, Nobody, flow, bots
<1>10. ASSUME NEW r \in Request, RequireContinuation(r) PROVE ReplaysOwnAnswer'
  BY <1>10 DEF RequireContinuation, Forget, Goto, TypeOK, PcShape, RecordsAreOwned, ReplaysOwnAnswer, Shares, Replayable, Kinds, Nobody, flow, bots
<1>11. ASSUME NEW r \in Request, CheckContinuation(r) PROVE ReplaysOwnAnswer'
  BY <1>11 DEF CheckContinuation, Goto, TypeOK, PcShape, RecordsAreOwned, ReplaysOwnAnswer, Shares, Replayable, Kinds, Nobody, flow, bots
<1>12. ASSUME NEW r \in Request, OpenRun(r) PROVE ReplaysOwnAnswer'
  BY <1>12 DEF OpenRun, Goto, TypeOK, PcShape, RecordsAreOwned, ReplaysOwnAnswer, Shares, Replayable, Kinds, Nobody, flow, bots
<1>13. ASSUME NEW r \in Request, StartContinuation(r) PROVE ReplaysOwnAnswer'
  BY <1>13 DEF StartContinuation, Goto, TypeOK, PcShape, RecordsAreOwned, ReplaysOwnAnswer, Shares, Replayable, Kinds, Nobody, flow, bots
<1>14. ASSUME NEW r \in Request, Build(r) PROVE ReplaysOwnAnswer'
  BY <1>14 DEF Build, request, TypeOK, PcShape, RecordsAreOwned, ReplaysOwnAnswer, Shares, Replayable, Kinds, Nobody, flow, bots
<1>15. ASSUME NEW r \in Request, EndRun(r) PROVE ReplaysOwnAnswer'
  BY <1>15 DEF EndRun, Goto, TypeOK, PcShape, RecordsAreOwned, ReplaysOwnAnswer, Shares, Replayable, Kinds, Nobody, flow, bots
<1>16. ASSUME NEW r \in Request, EndContinuation(r) PROVE ReplaysOwnAnswer'
  BY <1>16 DEF EndContinuation, EventType, Goto, TypeOK, PcShape, RecordsAreOwned, ReplaysOwnAnswer, Shares, Replayable, Kinds, Nobody, flow, bots
<1>17. ASSUME NEW r \in Request, FailLeft(r) PROVE ReplaysOwnAnswer'
  BY <1>17 DEF FailLeft, Goto, TypeOK, PcShape, RecordsAreOwned, ReplaysOwnAnswer, Shares, Replayable, Kinds, Nobody, flow, bots
<1>18. ASSUME NEW r \in Request, CheckProposal(r) PROVE ReplaysOwnAnswer'
  BY <1>18 DEF CheckProposal, Goto, TypeOK, PcShape, RecordsAreOwned, ReplaysOwnAnswer, Shares, Replayable, Kinds, Nobody, flow, bots
<1>19. ASSUME NEW r \in Request, UpsertRuntime(r) PROVE ReplaysOwnAnswer'
  BY <1>19 DEF UpsertRuntime, AfterUpsert, Goto, TypeOK, PcShape, RecordsAreOwned, ReplaysOwnAnswer, Shares, Replayable, Kinds, Nobody, flow, bots
<1>20. ASSUME NEW r \in Request, AppendLoaded(r) PROVE ReplaysOwnAnswer'
  BY <1>20 DEF AppendLoaded, Goto, TypeOK, PcShape, RecordsAreOwned, ReplaysOwnAnswer, Shares, Replayable, Kinds, Nobody, flow, bots
<1>21. ASSUME NEW r \in Request, MarkStarted(r) PROVE ReplaysOwnAnswer'
  BY <1>21 DEF MarkStarted, Goto, TypeOK, PcShape, RecordsAreOwned, ReplaysOwnAnswer, Shares, Replayable, Kinds, Nobody, flow, bots
<1>22. ASSUME NEW r \in Request, Die(r) PROVE ReplaysOwnAnswer'
  BY <1>22 DEF Die, Forget, Goto, TypeOK, PcShape, RecordsAreOwned, ReplaysOwnAnswer, Shares, Replayable, Kinds, Nobody, flow, bots
<1>23. ASSUME NEW r \in Request, Leave(r) PROVE ReplaysOwnAnswer'
  BY <1>23 DEF Leave, Goto, TypeOK, PcShape, RecordsAreOwned, ReplaysOwnAnswer, Shares, Replayable, Kinds, Nobody, flow, bots
<1>24. ASSUME NEW r \in Request, CancelRun(r) PROVE ReplaysOwnAnswer'
  BY <1>24 DEF CancelRun, request, TypeOK, PcShape, RecordsAreOwned, ReplaysOwnAnswer, Shares, Replayable, Kinds, Nobody, flow, bots
<1>25. ASSUME SyncTask PROVE ReplaysOwnAnswer'
  BY <1>25 DEF SyncTask, request, bots, TypeOK, PcShape, RecordsAreOwned, ReplaysOwnAnswer, Shares, Replayable, Kinds, Nobody, flow, bots
<1>26. ASSUME GrowOld PROVE ReplaysOwnAnswer'
  BY <1>26 DEF GrowOld, request, bots, TypeOK, PcShape, RecordsAreOwned, ReplaysOwnAnswer, Shares, Replayable, Kinds, Nobody, flow, bots
<1>27. ASSUME UNCHANGED vars PROVE ReplaysOwnAnswer'
  BY <1>27 DEF vars, request, flow, bots, TypeOK, PcShape, RecordsAreOwned, ReplaysOwnAnswer, Shares, Replayable, Kinds, Nobody, flow, bots
<1>28. QED
  BY <1>1, <1>2, <1>3, <1>4, <1>5, <1>6, <1>7, <1>8, <1>9, <1>10, <1>11, <1>12, <1>13, <1>14, <1>15, <1>16, <1>17, <1>18, <1>19, <1>20, <1>21, <1>22, <1>23, <1>24, <1>25, <1>26, <1>27 DEF Next, Serve

-----------------------------------------------------------------------------
(* Runs of continuations, and runtimes.                                    *)

\* A turn is over only after its run has ended.
LEMMA RunStep ==
    ASSUME TypeOK, PcShape, RunShape, RecordsAreOwned, Next \/ UNCHANGED vars PROVE RunShape'
<1>1. ASSUME NEW r \in Request, Arrive(r) PROVE RunShape'
  BY NobodyAsks, <1>1 DEF Arrive, Arrived, Goto, TypeOK, PcShape, RunShape, Confirming, Resuming, Kinds, flow, bots
<1>2. ASSUME NEW r \in Request, Refuse(r) PROVE RunShape'
  BY NobodyAsks, <1>2 DEF Refuse, Arrived, Goto, TypeOK, PcShape, RunShape, Confirming, Resuming, Kinds, flow, bots
<1>3. ASSUME NEW r \in Request, LookUpKey(r) PROVE RunShape'
  <2>1. answer'[r] # r
    BY NobodyAsks, <1>3 DEF LookUpKey, Replayable, TypeOK, PcShape, RecordsAreOwned
  <2>2. pc'[r] \notin {"completed", "blocked", "complete", "left"}
    BY <1>3 DEF LookUpKey, Goto, TypeOK
  <2>3. /\ kind' = kind /\ run' = run
        /\ \A q \in Request \ {r} : answer'[q] = answer[q] /\ pc'[q] = pc[q]
    BY <1>3 DEF LookUpKey, Goto, TypeOK, flow
  <2> QED
    BY <2>1, <2>2, <2>3 DEF RunShape
<1>4. ASSUME NEW r \in Request, ClaimKey(r) PROVE RunShape'
  BY NobodyAsks, <1>4 DEF ClaimKey, Goto, TypeOK, PcShape, RunShape, Confirming, Resuming, Kinds, flow, bots
<1>5. ASSUME NEW r \in Request, Complete(r) PROVE RunShape'
  BY NobodyAsks, <1>5 DEF Complete, Answerable, Goto, TypeOK, PcShape, RunShape, Confirming, Resuming, Kinds, flow, bots
<1>6. ASSUME NEW r \in Request, Create(r) PROVE RunShape'
  BY NobodyAsks, <1>6 DEF Create, Goto, TypeOK, PcShape, RunShape, Confirming, Resuming, Kinds, flow, bots
<1>7. ASSUME NEW r \in Request, ReadTask(r) PROVE RunShape'
  BY NobodyAsks, <1>7 DEF ReadTask, Goto, TypeOK, PcShape, RunShape, Confirming, Resuming, Kinds, flow, bots
<1>8. ASSUME NEW r \in Request, WriteTask(r) PROVE RunShape'
  BY NobodyAsks, <1>8 DEF WriteTask, Goto, TypeOK, PcShape, RunShape, Confirming, Resuming, Kinds, flow, bots
<1>9. ASSUME NEW r \in Request, RefreshPrompt(r) PROVE RunShape'
  BY NobodyAsks, <1>9 DEF RefreshPrompt, Forget, Goto, TypeOK, PcShape, RunShape, Confirming, Resuming, Kinds, flow, bots
<1>10. ASSUME NEW r \in Request, RequireContinuation(r) PROVE RunShape'
  BY NobodyAsks, <1>10 DEF RequireContinuation, Forget, Goto, TypeOK, PcShape, RunShape, Confirming, Resuming, Kinds, flow, bots
<1>11. ASSUME NEW r \in Request, CheckContinuation(r) PROVE RunShape'
  BY NobodyAsks, <1>11 DEF CheckContinuation, Goto, TypeOK, PcShape, RunShape, Confirming, Resuming, Kinds, flow, bots
<1>12. ASSUME NEW r \in Request, OpenRun(r) PROVE RunShape'
  BY NobodyAsks, <1>12 DEF OpenRun, Goto, TypeOK, PcShape, RunShape, Confirming, Resuming, Kinds, flow, bots
<1>13. ASSUME NEW r \in Request, StartContinuation(r) PROVE RunShape'
  BY NobodyAsks, <1>13 DEF StartContinuation, Goto, TypeOK, PcShape, RunShape, Confirming, Resuming, Kinds, flow, bots
<1>14. ASSUME NEW r \in Request, Build(r) PROVE RunShape'
  BY NobodyAsks, <1>14 DEF Build, request, TypeOK, PcShape, RunShape, Confirming, Resuming, Kinds, flow, bots
<1>15. ASSUME NEW r \in Request, EndRun(r) PROVE RunShape'
  BY NobodyAsks, <1>15 DEF EndRun, Goto, TypeOK, PcShape, RunShape, Confirming, Resuming, Kinds, flow, bots
<1>16. ASSUME NEW r \in Request, EndContinuation(r) PROVE RunShape'
  BY NobodyAsks, <1>16 DEF EndContinuation, EventType, Goto, TypeOK, PcShape, RunShape, Confirming, Resuming, Kinds, flow, bots
<1>17. ASSUME NEW r \in Request, FailLeft(r) PROVE RunShape'
  BY NobodyAsks, <1>17 DEF FailLeft, Goto, TypeOK, PcShape, RunShape, Confirming, Resuming, Kinds, flow, bots
<1>18. ASSUME NEW r \in Request, CheckProposal(r) PROVE RunShape'
  BY NobodyAsks, <1>18 DEF CheckProposal, Goto, TypeOK, PcShape, RunShape, Confirming, Resuming, Kinds, flow, bots
<1>19. ASSUME NEW r \in Request, UpsertRuntime(r) PROVE RunShape'
  BY NobodyAsks, <1>19 DEF UpsertRuntime, AfterUpsert, Goto, TypeOK, PcShape, RunShape, Confirming, Resuming, Kinds, flow, bots
<1>20. ASSUME NEW r \in Request, AppendLoaded(r) PROVE RunShape'
  BY NobodyAsks, <1>20 DEF AppendLoaded, Goto, TypeOK, PcShape, RunShape, Confirming, Resuming, Kinds, flow, bots
<1>21. ASSUME NEW r \in Request, MarkStarted(r) PROVE RunShape'
  BY NobodyAsks, <1>21 DEF MarkStarted, Goto, TypeOK, PcShape, RunShape, Confirming, Resuming, Kinds, flow, bots
<1>22. ASSUME NEW r \in Request, Die(r) PROVE RunShape'
  BY NobodyAsks, <1>22 DEF Die, Forget, Goto, TypeOK, PcShape, RunShape, Confirming, Resuming, Kinds, flow, bots
<1>23. ASSUME NEW r \in Request, Leave(r) PROVE RunShape'
  BY NobodyAsks, <1>23 DEF Leave, Goto, TypeOK, PcShape, RunShape, Confirming, Resuming, Kinds, flow, bots
<1>24. ASSUME NEW r \in Request, CancelRun(r) PROVE RunShape'
  BY NobodyAsks, <1>24 DEF CancelRun, request, TypeOK, PcShape, RunShape, Confirming, Resuming, Kinds, flow, bots
<1>25. ASSUME SyncTask PROVE RunShape'
  BY NobodyAsks, <1>25 DEF SyncTask, request, bots, TypeOK, PcShape, RunShape, Confirming, Resuming, Kinds, flow, bots
<1>26. ASSUME GrowOld PROVE RunShape'
  BY NobodyAsks, <1>26 DEF GrowOld, request, bots, TypeOK, PcShape, RunShape, Confirming, Resuming, Kinds, flow, bots
<1>27. ASSUME UNCHANGED vars PROVE RunShape'
  BY NobodyAsks, <1>27 DEF vars, request, flow, bots, TypeOK, PcShape, RunShape, Confirming, Resuming, Kinds, flow, bots
<1>28. QED
  BY <1>1, <1>2, <1>3, <1>4, <1>5, <1>6, <1>7, <1>8, <1>9, <1>10, <1>11, <1>12, <1>13, <1>14, <1>15, <1>16, <1>17, <1>18, <1>19, <1>20, <1>21, <1>22, <1>23, <1>24, <1>25, <1>26, <1>27 DEF Next, Serve

\* The event is appended once, and before the proposal is marked.
LEMMA LoadStep ==
    ASSUME TypeOK, PcShape, LoadsAtMostOnce, LoadShape, StartedIsLoaded, Next \/ UNCHANGED vars PROVE (LoadsAtMostOnce /\ LoadShape /\ StartedIsLoaded)'
<1>1. ASSUME NEW r \in Request, Arrive(r) PROVE (LoadsAtMostOnce /\ LoadShape /\ StartedIsLoaded)'
  <2>1. /\ pc'[r] \notin {"append", "mark"} /\ r \notin gaveUp
        /\ \A q \in Request \ {r} : pc'[q] = pc[q] /\ body'[q] = body[q] /\ kind'[q] = kind[q]
        /\ gaveUp' = gaveUp /\ runtimes' = runtimes /\ loads' = loads /\ proposal' = proposal
    BY ControlPlaneAssumption, <1>1 DEF Arrive, Arrived, Goto, TypeOK, PcShape, Kinds, bots
  <2>2. gaveUp \subseteq Request \ {r}
    BY <2>1 DEF TypeOK
  <2>3. \A b : Told(b) => Told(b)'
    BY <2>1, <2>2 DEF Told
  <2> QED
    BY <2>1, <2>2, <2>3 DEF LoadsAtMostOnce, LoadShape, StartedIsLoaded, Told
<1>2. ASSUME NEW r \in Request, Refuse(r) PROVE (LoadsAtMostOnce /\ LoadShape /\ StartedIsLoaded)'
  BY <1>2 DEF Refuse, Arrived, Goto, TypeOK, PcShape, LoadsAtMostOnce, LoadShape, StartedIsLoaded, Told, LoadsOnce, Kinds, Body, Nobody, flow, bots
<1>3. ASSUME NEW r \in Request, LookUpKey(r) PROVE (LoadsAtMostOnce /\ LoadShape /\ StartedIsLoaded)'
  BY <1>3 DEF LookUpKey, Goto, TypeOK, PcShape, LoadsAtMostOnce, LoadShape, StartedIsLoaded, Told, LoadsOnce, Kinds, Body, Nobody, flow, bots
<1>4. ASSUME NEW r \in Request, ClaimKey(r) PROVE (LoadsAtMostOnce /\ LoadShape /\ StartedIsLoaded)'
  BY <1>4 DEF ClaimKey, Goto, TypeOK, PcShape, LoadsAtMostOnce, LoadShape, StartedIsLoaded, Told, LoadsOnce, Kinds, Body, Nobody, flow, bots
<1>5. ASSUME NEW r \in Request, Complete(r) PROVE (LoadsAtMostOnce /\ LoadShape /\ StartedIsLoaded)'
  BY <1>5 DEF Complete, Answerable, Goto, TypeOK, PcShape, LoadsAtMostOnce, LoadShape, StartedIsLoaded, Told, LoadsOnce, Kinds, Body, Nobody, flow, bots
<1>6. ASSUME NEW r \in Request, Create(r) PROVE (LoadsAtMostOnce /\ LoadShape /\ StartedIsLoaded)'
  BY <1>6 DEF Create, Goto, TypeOK, PcShape, LoadsAtMostOnce, LoadShape, StartedIsLoaded, Told, LoadsOnce, Kinds, Body, Nobody, flow, bots
<1>7. ASSUME NEW r \in Request, ReadTask(r) PROVE (LoadsAtMostOnce /\ LoadShape /\ StartedIsLoaded)'
  BY <1>7 DEF ReadTask, Goto, TypeOK, PcShape, LoadsAtMostOnce, LoadShape, StartedIsLoaded, Told, LoadsOnce, Kinds, Body, Nobody, flow, bots
<1>8. ASSUME NEW r \in Request, WriteTask(r) PROVE (LoadsAtMostOnce /\ LoadShape /\ StartedIsLoaded)'
  BY <1>8 DEF WriteTask, Goto, TypeOK, PcShape, LoadsAtMostOnce, LoadShape, StartedIsLoaded, Told, LoadsOnce, Kinds, Body, Nobody, flow, bots
<1>9. ASSUME NEW r \in Request, RefreshPrompt(r) PROVE (LoadsAtMostOnce /\ LoadShape /\ StartedIsLoaded)'
  BY <1>9 DEF RefreshPrompt, Forget, Goto, TypeOK, PcShape, LoadsAtMostOnce, LoadShape, StartedIsLoaded, Told, LoadsOnce, Kinds, Body, Nobody, flow, bots
<1>10. ASSUME NEW r \in Request, RequireContinuation(r) PROVE (LoadsAtMostOnce /\ LoadShape /\ StartedIsLoaded)'
  BY <1>10 DEF RequireContinuation, Forget, Goto, TypeOK, PcShape, LoadsAtMostOnce, LoadShape, StartedIsLoaded, Told, LoadsOnce, Kinds, Body, Nobody, flow, bots
<1>11. ASSUME NEW r \in Request, CheckContinuation(r) PROVE (LoadsAtMostOnce /\ LoadShape /\ StartedIsLoaded)'
  BY <1>11 DEF CheckContinuation, Goto, TypeOK, PcShape, LoadsAtMostOnce, LoadShape, StartedIsLoaded, Told, LoadsOnce, Kinds, Body, Nobody, flow, bots
<1>12. ASSUME NEW r \in Request, OpenRun(r) PROVE (LoadsAtMostOnce /\ LoadShape /\ StartedIsLoaded)'
  BY <1>12 DEF OpenRun, Goto, TypeOK, PcShape, LoadsAtMostOnce, LoadShape, StartedIsLoaded, Told, LoadsOnce, Kinds, Body, Nobody, flow, bots
<1>13. ASSUME NEW r \in Request, StartContinuation(r) PROVE (LoadsAtMostOnce /\ LoadShape /\ StartedIsLoaded)'
  BY <1>13 DEF StartContinuation, Goto, TypeOK, PcShape, LoadsAtMostOnce, LoadShape, StartedIsLoaded, Told, LoadsOnce, Kinds, Body, Nobody, flow, bots
<1>14. ASSUME NEW r \in Request, Build(r) PROVE (LoadsAtMostOnce /\ LoadShape /\ StartedIsLoaded)'
  BY <1>14 DEF Build, request, TypeOK, PcShape, LoadsAtMostOnce, LoadShape, StartedIsLoaded, Told, LoadsOnce, Kinds, Body, Nobody, flow, bots
<1>15. ASSUME NEW r \in Request, EndRun(r) PROVE (LoadsAtMostOnce /\ LoadShape /\ StartedIsLoaded)'
  BY <1>15 DEF EndRun, Goto, TypeOK, PcShape, LoadsAtMostOnce, LoadShape, StartedIsLoaded, Told, LoadsOnce, Kinds, Body, Nobody, flow, bots
<1>16. ASSUME NEW r \in Request, EndContinuation(r) PROVE (LoadsAtMostOnce /\ LoadShape /\ StartedIsLoaded)'
  BY <1>16 DEF EndContinuation, EventType, Goto, TypeOK, PcShape, LoadsAtMostOnce, LoadShape, StartedIsLoaded, Told, LoadsOnce, Kinds, Body, Nobody, flow, bots
<1>17. ASSUME NEW r \in Request, FailLeft(r) PROVE (LoadsAtMostOnce /\ LoadShape /\ StartedIsLoaded)'
  BY <1>17 DEF FailLeft, Goto, TypeOK, PcShape, LoadsAtMostOnce, LoadShape, StartedIsLoaded, Told, LoadsOnce, Kinds, Body, Nobody, flow, bots
<1>18. ASSUME NEW r \in Request, CheckProposal(r) PROVE (LoadsAtMostOnce /\ LoadShape /\ StartedIsLoaded)'
  BY <1>18 DEF CheckProposal, Goto, TypeOK, PcShape, LoadsAtMostOnce, LoadShape, StartedIsLoaded, Told, LoadsOnce, Kinds, Body, Nobody, flow, bots
<1>19. ASSUME NEW r \in Request, UpsertRuntime(r) PROVE (LoadsAtMostOnce /\ LoadShape /\ StartedIsLoaded)'
  BY <1>19 DEF UpsertRuntime, AfterUpsert, Goto, TypeOK, PcShape, LoadsAtMostOnce, LoadShape, StartedIsLoaded, Told, LoadsOnce, Kinds, Body, Nobody, flow, bots
<1>20. ASSUME NEW r \in Request, AppendLoaded(r) PROVE (LoadsAtMostOnce /\ LoadShape /\ StartedIsLoaded)'
  <2>1. /\ kind' = kind /\ body' = body /\ runtimes' = runtimes /\ proposal' = proposal
        /\ gaveUp \subseteq gaveUp' /\ kind[r] = "confirm" /\ body[r] \in Body /\ body[r] \in runtimes
        /\ pc'[r] = "mark" /\ \A q \in Request \ {r} : pc'[q] = pc[q]
    BY <1>20 DEF AppendLoaded, Goto, TypeOK, PcShape, LoadShape, Confirming
  <2>2. \/ r \in gaveUp' /\ loads' = loads
        \/ loads[body[r]] = 0 /\ loads' = [loads EXCEPT ![body[r]] = loads[body[r]] + 1]
        \/ loads[body[r]] # 0 /\ loads' = loads
    <3>1. CASE LoadsOnce(body[r])
      BY <1>20, <3>1 DEF AppendLoaded, LoadsOnce
    <3>2. CASE ~LoadsOnce(body[r])
      BY <1>20, <3>2 DEF AppendLoaded, LoadsOnce
    <3> QED
      BY <3>1, <3>2
  <2>6. loads \in [Body -> Nat]
    BY DEF TypeOK
  <2>3. LoadsAtMostOnce'
    BY <2>1, <2>2, <2>6 DEF LoadsAtMostOnce
  <2>4. \A b \in Body : Told(b) => Told(b)'
    BY <2>1, <2>2, <2>6 DEF Told
  <2>5. Told(body[r])'
    BY <2>1, <2>2, <2>6 DEF Told, LoadsAtMostOnce
  <2> QED
    BY <2>1, <2>3, <2>4, <2>5 DEF LoadShape, StartedIsLoaded, Told, TypeOK, Nobody
<1>21. ASSUME NEW r \in Request, MarkStarted(r) PROVE (LoadsAtMostOnce /\ LoadShape /\ StartedIsLoaded)'
  BY <1>21 DEF MarkStarted, Goto, TypeOK, PcShape, LoadsAtMostOnce, LoadShape, StartedIsLoaded, Told, LoadsOnce, Kinds, Body, Nobody, flow, bots
<1>22. ASSUME NEW r \in Request, Die(r) PROVE (LoadsAtMostOnce /\ LoadShape /\ StartedIsLoaded)'
  BY <1>22 DEF Die, Forget, Goto, TypeOK, PcShape, LoadsAtMostOnce, LoadShape, StartedIsLoaded, Told, LoadsOnce, Kinds, Body, Nobody, flow, bots
<1>23. ASSUME NEW r \in Request, Leave(r) PROVE (LoadsAtMostOnce /\ LoadShape /\ StartedIsLoaded)'
  BY <1>23 DEF Leave, Goto, TypeOK, PcShape, LoadsAtMostOnce, LoadShape, StartedIsLoaded, Told, LoadsOnce, Kinds, Body, Nobody, flow, bots
<1>24. ASSUME NEW r \in Request, CancelRun(r) PROVE (LoadsAtMostOnce /\ LoadShape /\ StartedIsLoaded)'
  BY <1>24 DEF CancelRun, request, TypeOK, PcShape, LoadsAtMostOnce, LoadShape, StartedIsLoaded, Told, LoadsOnce, Kinds, Body, Nobody, flow, bots
<1>25. ASSUME SyncTask PROVE (LoadsAtMostOnce /\ LoadShape /\ StartedIsLoaded)'
  BY <1>25 DEF SyncTask, request, bots, TypeOK, PcShape, LoadsAtMostOnce, LoadShape, StartedIsLoaded, Told, LoadsOnce, Kinds, Body, Nobody, flow, bots
<1>26. ASSUME GrowOld PROVE (LoadsAtMostOnce /\ LoadShape /\ StartedIsLoaded)'
  BY <1>26 DEF GrowOld, request, bots, TypeOK, PcShape, LoadsAtMostOnce, LoadShape, StartedIsLoaded, Told, LoadsOnce, Kinds, Body, Nobody, flow, bots
<1>27. ASSUME UNCHANGED vars PROVE (LoadsAtMostOnce /\ LoadShape /\ StartedIsLoaded)'
  BY <1>27 DEF vars, request, flow, bots, TypeOK, PcShape, LoadsAtMostOnce, LoadShape, StartedIsLoaded, Told, LoadsOnce, Kinds, Body, Nobody, flow, bots
<1>28. QED
  BY <1>1, <1>2, <1>3, <1>4, <1>5, <1>6, <1>7, <1>8, <1>9, <1>10, <1>11, <1>12, <1>13, <1>14, <1>15, <1>16, <1>17, <1>18, <1>19, <1>20, <1>21, <1>22, <1>23, <1>24, <1>25, <1>26, <1>27 DEF Next, Serve

-----------------------------------------------------------------------------
(* The theorems.                                                           *)

\* The invariant is inductive.
LEMMA InvStep == IInv /\ [Next]_vars => IInv'
BY TypeStep, PcStep, OwnerStep, RecordStep, ReplayStep, RunStep, LoadStep DEF IInv

\* In every behaviour the invariant holds.
LEMMA Invariance == Spec => []IInv
BY InitShape, InvStep, PTL DEF Spec

\* However many requests carry a key, in whatever order they look it up and wherever
\* the one that holds it dies, one of them works and the others are refused or get
\* its answer (begin_idempotency, complete_idempotency).
THEOREM KeysAreSound == Spec => []KeyIsSound
<1>1. IInv => KeyIsSound
  BY DEF IInv, KeyIsSound, KeyWorksOnce, Shares, OwnersHold, TypeOK
<1> QED
  BY <1>1, Invariance, PTL

\* A continuation is answered, from its own turn or from its key, only when the run
\* it reports has ended (_idempotent_sse_stream).
THEOREM AnsweredRunsHaveEnded == Spec => []AnsweredRunHasEnded
<1>1. IInv => AnsweredRunHasEnded
  <2> SUFFICES ASSUME IInv, NEW r \in Request, kind[r] = "resume", answer[r] # Nobody
               PROVE run[answer[r]] = "ended"
    BY DEF AnsweredRunHasEnded
  <2>1. CASE answer[r] = r
    BY <2>1 DEF IInv, RunShape
  <2>2. CASE answer[r] # r
    BY <2>2 DEF IInv, RunShape, ReplaysOwnAnswer, Shares, TypeOK
  <2> QED
    BY <2>1, <2>2
<1> QED
  BY <1>1, Invariance, PTL

\* However often and concurrently a proposal is confirmed, a runtime is told once to
\* load its strategy, and the proposal names one that was told, unless telling it was
\* given up (confirm_start_bot_proposal, append_nautilus_runtime_event).
THEOREM StrategiesLoadOnce == Spec => []LoadedOnce
<1>1. IInv => LoadedOnce
  BY DEF IInv, LoadedOnce
<1> QED
  BY <1>1, Invariance, PTL
=============================================================================
