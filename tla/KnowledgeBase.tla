--------------------------- MODULE KnowledgeBase ---------------------------
(***************************************************************************)
(* Lessons of the knowledge base: candidates that runs and people propose, *)
(* their review by a person or by the guarded automatic review, and the    *)
(* index in which approved lessons are found (knowledge_base.py).          *)
(*                                                                         *)
(* Both are files, loaded and written back whole without a lock by the     *)
(* threads of the API and by the command line, or tables of a database,    *)
(* in which rows are written.  A write of a file truncates it first, so    *)
(* that a reader in between raises, as one does that finds no index.       *)
(***************************************************************************)
EXTENDS Naturals, FiniteSets

CONSTANTS
    Process,       \* threads of the API and commands that work on the base
    Candidate,     \* ids of candidates
    Document,      \* documents and source summaries to be ingested
    MaxCalls,      \* bound: operations started in a behaviour
    Environments,  \* what may happen in a behaviour
    None

ASSUME KnowledgeAssumption ==
    /\ IsFiniteSet(Candidate) /\ Candidate \subseteq Nat
    /\ Environments \subseteq SUBSET {"database", "peers", "crash", "fresh", "rebuild", "learn"}
    /\ None \notin {"plain", "claim", "unsafe", "blocked", "candidates", "index"}

\* What a lesson says: a lesson about the process, a claim about trading results,
\* which only a person may approve, a claim the safety gate refuses, and one that
\* the policy blocks when it is proposed.
Lesson == {"plain", "claim", "unsafe", "blocked"}

Approved == {"approved", "auto_approved"}
Status   == {"absent", "needs_review", "rejected"} \cup Approved
Files    == {"candidates", "index"}

VARIABLES
    faults,      \* the environment of this behaviour
    store,       \* the status of each candidate in the store
    lessonOf,    \* its lesson
    index,       \* the index: the lessons and documents in it, and its cached result
    damaged,     \* files that hold no JSON
    calls,       \* operations started
    task,        \* the operation each process is in
    pc,          \* its next step
    copy,        \* the statuses it loaded and changed
    indexCopy,   \* the index it loaded
    writing,     \* the file it has truncated
    overlapped,  \* processes whose file was written since they truncated it
    endorsed     \* candidates that a person approved

local == <<task, pc, copy, indexCopy, writing, overlapped>>
vars  == <<faults, store, lessonOf, index, damaged, calls, local, endorsed>>

NoIndex   == [built |-> FALSE, lessons |-> {}, documents |-> {}, cache |-> None]
NewIndex  == [NoIndex EXCEPT !.built = TRUE]
NoTask    == [op |-> "none", on |-> {}, lesson |-> "plain", document |-> None, items |-> {}]
NoneThere == [c \in Candidate |-> "absent"]

\* knowledge init has been run, unless the deployment is fresh.
Init ==
    /\ faults \in Environments
    /\ store = NoneThere /\ lessonOf = [c \in Candidate |-> None]
    /\ index = IF "fresh" \in faults THEN NoIndex ELSE NewIndex
    /\ damaged = {} /\ calls = 0 /\ endorsed = {}
    /\ task = [p \in Process |-> NoTask] /\ pc = [p \in Process |-> "idle"]
    /\ copy = [p \in Process |-> NoneThere] /\ indexCopy = [p \in Process |-> NoIndex]
    /\ writing = [p \in Process |-> None] /\ overlapped = {}

InFiles == "database" \notin faults

\* What a search finds is represented by what the index held when it looked.
Found(ix) == [lessons |-> ix.lessons, documents |-> ix.documents]

Readable(file) == file \notin damaged /\ \A p \in Process : writing[p] # file

Goto(p, l) == pc' = [pc EXCEPT ![p] = l]

\* The operation returns or raises.
Return(p) ==
    /\ Goto(p, "idle")
    /\ task' = [task EXCEPT ![p] = NoTask]
    /\ copy' = [copy EXCEPT ![p] = NoneThere]
    /\ indexCopy' = [indexCopy EXCEPT ![p] = NoIndex]

\* It does so without having truncated a file.
Done(p) == Return(p) /\ UNCHANGED <<writing, overlapped>>

-----------------------------------------------------------------------------
(* The operations and their first steps.                                   *)

Start(p, t, l) ==
    /\ pc[p] = "idle" /\ calls < MaxCalls
    /\ "peers" \in faults \/ \A q \in Process : pc[q] = "idle"
    /\ calls' = calls + 1
    /\ task' = [task EXCEPT ![p] = t]
    /\ Goto(p, l)
    /\ UNCHANGED <<faults, store, lessonOf, index, damaged, copy, indexCopy, writing, overlapped, endorsed>>

Known == {c \in Candidate : lessonOf[c] # None}

On(op, c) == [NoTask EXCEPT !.op = op, !.on = {c}]

Propose(p) == \E l \in Lesson : Start(p, [NoTask EXCEPT !.op = "propose", !.lesson = l], "load")

\* propose_failure_candidate looks for the lesson first, in a load of its own.
ProposeFailure(p) == Start(p, [NoTask EXCEPT !.op = "propose"], "check")

\* learn_from_run drops a lesson that is not safe.
Learn(p) ==
    /\ "learn" \in faults
    /\ \E l \in {"plain", "claim"} : Start(p, [NoTask EXCEPT !.op = "learn", !.lesson = l], "ensure")

Approve(p) == \E c \in Known : Start(p, On("approve", c), "load")
Reject(p)  == \E c \in Known : Start(p, On("reject", c), "load")

\* The automatic review of one candidate, whatever its status, and of all that wait.
Review(p)    == "learn" \in faults /\ \E c \in Known : Start(p, On("review", c), "load")
ReviewAll(p) == Start(p, [NoTask EXCEPT !.op = "reviewAll"], "load")

Search(p)        == InFiles /\ Start(p, [NoTask EXCEPT !.op = "search"], "loadIndex")
Ingest(p)        == \E d \in Document : Start(p, [NoTask EXCEPT !.op = "ingest", !.document = d],
                                                 IF InFiles THEN "loadIndex" ELSE "saveIndex")
ApproveSource(p) == \E d \in Document : Start(p, [NoTask EXCEPT !.op = "approveSource", !.document = d],
                                                 IF InFiles THEN "loadIndex" ELSE "saveIndex")
Initialise(p)    == "rebuild" \in faults /\ Start(p, [NoTask EXCEPT !.op = "init"], "saveIndex")

-----------------------------------------------------------------------------
(* Loading the candidates, and what becomes of them.                       *)

Loaded(p, on, statuses, l) ==
    /\ task' = [task EXCEPT ![p].on = on]
    /\ copy' = [copy EXCEPT ![p] = statuses]
    /\ Goto(p, l)
    /\ UNCHANGED <<indexCopy, writing, overlapped>>

Matching(l) == {c \in Candidate : store[c] # "absent" /\ lessonOf[c] = l}

\* A new id with the lesson; a blocked claim is rejected at once.
AddCandidate(p, l) ==
    \E c \in Candidate \ Known :
        /\ \A d \in Candidate \ Known : c <= d
        /\ lessonOf' = [lessonOf EXCEPT ![c] = l]
        /\ Loaded(p, {c}, [store EXCEPT ![c] = IF l = "blocked" THEN "rejected" ELSE "needs_review"], "save")

CheckLesson(p) ==
    /\ pc[p] = "check"
    /\ IF Readable("candidates") /\ Matching(task[p].lesson) = {}
       THEN Goto(p, "load") /\ UNCHANGED <<task, copy, indexCopy, writing, overlapped>>
       ELSE Done(p)
    /\ UNCHANGED <<faults, store, lessonOf, index, damaged, calls, endorsed>>

LoadToPropose(p) ==
    /\ pc[p] = "load" /\ task[p].op = "propose"
    /\ IF Readable("candidates") THEN AddCandidate(p, task[p].lesson)
       ELSE Done(p) /\ UNCHANGED lessonOf
    /\ UNCHANGED <<faults, store, index, damaged, calls, endorsed>>

\* A lesson that is there already, in whatever status, is not added again.
LoadToLearn(p) ==
    /\ pc[p] = "load" /\ task[p].op = "learn"
    /\ LET there == Matching(task[p].lesson)
       IN IF ~Readable("candidates") THEN Done(p) /\ UNCHANGED lessonOf
          ELSE IF there = {} THEN AddCandidate(p, task[p].lesson)
          ELSE /\ \E c \in there : (\A d \in there : c <= d) /\ Loaded(p, {c}, store, "save")
               /\ UNCHANGED lessonOf
    /\ UNCHANGED <<faults, store, index, damaged, calls, endorsed>>

LoadToApprove(p) ==
    /\ pc[p] = "load" /\ task[p].op = "approve"
    /\ \E c \in task[p].on :
         IF Readable("candidates") /\ store[c] \notin {"absent", "rejected"}
         THEN /\ Loaded(p, {c}, [store EXCEPT ![c] = "approved"], "save")
              /\ endorsed' = endorsed \cup {c}
         ELSE Done(p) /\ UNCHANGED endorsed
    /\ UNCHANGED <<faults, store, lessonOf, index, damaged, calls>>

LoadToReject(p) ==
    /\ pc[p] = "load" /\ task[p].op = "reject"
    /\ \E c \in task[p].on :
         IF Readable("candidates") /\ store[c] # "absent"
         THEN Loaded(p, {c}, [store EXCEPT ![c] = "rejected"], "save")
         ELSE Done(p)
    /\ UNCHANGED <<faults, store, lessonOf, index, damaged, calls, endorsed>>

\* What the gates let the review decide before the lesson is looked for in an index.
Verdicts(c) ==
    CASE lessonOf[c] = "plain" -> {"auto_approved", "needs_review", "rejected"}
      [] lessonOf[c] = "claim" -> {"needs_review"}
      [] OTHER                 -> {"rejected"}

LoadToReview(p) ==
    /\ pc[p] = "load" /\ task[p].op \in {"review", "reviewAll"}
    /\ LET chosen == IF task[p].op = "review" THEN task[p].on
                     ELSE {c \in Candidate : store[c] = "needs_review"}
       IN IF ~Readable("candidates") \/ chosen = {} \/ \E c \in chosen : store[c] = "absent"
          THEN Done(p)
          ELSE \E verdict \in [chosen -> Status] :
                 /\ \A c \in chosen : verdict[c] \in Verdicts(c)
                 /\ LET verify == InFiles /\ \E c \in chosen : verdict[c] = "auto_approved"
                    IN Loaded(p, chosen,
                              [c \in Candidate |-> IF c \in chosen THEN verdict[c] ELSE store[c]],
                              IF verify THEN "verify" ELSE "save")
    /\ UNCHANGED <<faults, store, lessonOf, index, damaged, calls, endorsed>>

\* Lessons that are not found in a trial index are left to a person.
Verify(p) ==
    /\ pc[p] = "verify"
    /\ IF ~Readable("index") \/ ~index.built THEN Done(p)
       ELSE \E missed \in SUBSET {c \in task[p].on : copy[p][c] = "auto_approved"} :
              Loaded(p, task[p].on,
                     [c \in Candidate |-> IF c \in missed THEN "needs_review" ELSE copy[p][c]], "save")
    /\ UNCHANGED <<faults, store, lessonOf, index, damaged, calls, endorsed>>

-----------------------------------------------------------------------------
(* Writing.                                                                *)

\* path.write_text opens and truncates the file, and writes it.
Truncate(p, l, file) ==
    /\ pc[p] = l /\ writing[p] = None
    /\ InFiles
    /\ writing' = [writing EXCEPT ![p] = file]
    /\ overlapped' = overlapped \ {p}
    /\ UNCHANGED <<faults, store, lessonOf, index, damaged, calls, task, pc, copy, indexCopy, endorsed>>

\* Another write since then may have been longer, and leave its end behind.
Written(p) ==
    LET file == writing[p]
    IN /\ \/ damaged' = damaged \ {file}
          \/ p \in overlapped /\ damaged' = damaged \cup {file}
       /\ writing' = [writing EXCEPT ![p] = None]
       /\ overlapped' = (overlapped \ {p}) \cup {q \in Process \ {p} : writing[q] = file}

\* Approved candidates become items of the index; learned ones are reviewed, unless
\* learning is in manual mode.
Items(p) == IF task[p].op \in {"approve", "review", "reviewAll"}
            THEN {c \in task[p].on : copy[p][c] \in Approved} ELSE {}

AfterSave(p) ==
    IF Items(p) # {}
    THEN /\ task' = [task EXCEPT ![p].items = Items(p)]
         /\ Goto(p, IF InFiles THEN "loadIndex" ELSE "saveIndex")
         /\ UNCHANGED <<copy, indexCopy>>
    ELSE \/ /\ task[p].op = "learn"
            /\ task' = [task EXCEPT ![p].op = "review"]
            /\ Goto(p, "load")
            /\ UNCHANGED <<copy, indexCopy>>
         \/ Return(p)

SaveCandidates(p) ==
    /\ pc[p] = "save" /\ writing[p] = "candidates"
    /\ store' = copy[p]
    /\ Written(p) /\ AfterSave(p)
    /\ UNCHANGED <<faults, lessonOf, index, calls, endorsed>>

\* The rows of the database, one after the other; each holds the whole candidate.
UpsertCandidate(p) ==
    /\ pc[p] = "save" /\ ~InFiles
    /\ \E c \in task[p].on :
         /\ store' = [store EXCEPT ![c] = copy[p][c]]
         /\ LET left == task[p].on \ {c}
                items == task[p].items \cup (Items(p) \cap {c})
            IN IF left # {}
               THEN /\ task' = [task EXCEPT ![p].on = left, ![p].items = items]
                    /\ UNCHANGED <<pc, copy, indexCopy>>
               ELSE IF items # {}
               THEN /\ task' = [task EXCEPT ![p].items = items]
                    /\ Goto(p, "saveIndex")
                    /\ UNCHANGED <<copy, indexCopy>>
               ELSE AfterSave(p)
    /\ UNCHANGED <<faults, lessonOf, index, damaged, calls, writing, overlapped, endorsed>>

\* learn_from_run builds the index without looking for one.
EnsureNewIndex(p) ==
    /\ pc[p] = "ensure"
    /\ Goto(p, IF InFiles THEN "saveIndex" ELSE "load")
    /\ UNCHANGED <<faults, store, lessonOf, index, damaged, calls, task, copy, indexCopy, writing,
                   overlapped, endorsed>>

\* learn_from_run builds the index if there is no file.
EnsureIndex(p) ==
    /\ pc[p] = "ensure"
    /\ Goto(p, IF InFiles /\ ~index.built /\ Readable("index") THEN "saveIndex" ELSE "load")
    /\ UNCHANGED <<faults, store, lessonOf, index, damaged, calls, task, copy, indexCopy, writing,
                   overlapped, endorsed>>

LoadIndex(p) ==
    /\ pc[p] = "loadIndex"
    /\ IF ~Readable("index") \/ ~index.built THEN Done(p)
       ELSE /\ indexCopy' = [indexCopy EXCEPT ![p] = index]
            /\ Goto(p, IF task[p].op = "search" /\ index.cache = None THEN "embed" ELSE "saveIndex")
            /\ UNCHANGED <<task, copy, writing, overlapped>>
    /\ UNCHANGED <<faults, store, lessonOf, index, damaged, calls, endorsed>>

\* Approved lessons are added and the result of a search is kept.
ChangedBehindCache(ix, t) ==
    CASE t.op = "search"             -> [ix EXCEPT !.cache = IF @ = None THEN Found(ix) ELSE @]
      [] t.op = "ingest"             -> [ix EXCEPT !.documents = @ \cup {t.document}]
      [] t.op = "approveSource"      -> [ix EXCEPT !.documents = @ \cup {t.document}, !.cache = None]
      [] t.op \in {"init", "learn"}  -> NewIndex
      [] OTHER                       -> [ix EXCEPT !.lessons = @ \cup t.items]

\* What each operation makes of the index it loaded.
Changed(ix, t) ==
    CASE t.op = "search"             -> [ix EXCEPT !.cache = IF @ = None THEN Found(ix) ELSE @]
      [] t.op = "ingest"             -> [ix EXCEPT !.documents = @ \cup {t.document}]
      [] t.op = "approveSource"      -> [ix EXCEPT !.documents = @ \cup {t.document}, !.cache = None]
      [] t.op \in {"init", "learn"}  -> NewIndex
      [] OTHER                       -> [ix EXCEPT !.lessons = @ \cup t.items, !.cache = None]

\* The embedding of the query is stored before the result is.
SaveEmbedding(p) ==
    /\ pc[p] = "embed" /\ writing[p] = "index"
    /\ index' = indexCopy[p]
    /\ Written(p)
    /\ Goto(p, "saveIndex")
    /\ UNCHANGED <<faults, store, lessonOf, calls, task, copy, indexCopy, endorsed>>

AfterSaveIndex(p) ==
    IF task[p].op = "learn"
    THEN Goto(p, "load") /\ UNCHANGED <<task, copy, indexCopy>>
    ELSE Return(p)

SaveIndex(p) ==
    /\ pc[p] = "saveIndex" /\ writing[p] = "index"
    /\ index' = Changed(indexCopy[p], task[p])
    /\ Written(p) /\ AfterSaveIndex(p)
    /\ UNCHANGED <<faults, store, lessonOf, calls, endorsed>>

\* In the database items are added in one transaction, and nothing is removed.
UpsertItems(p) ==
    /\ pc[p] = "saveIndex" /\ ~InFiles
    /\ index' = [index EXCEPT !.built = TRUE, !.lessons = @ \cup task[p].items,
                              !.documents = @ \cup ({task[p].document} \ {None})]
    /\ AfterSaveIndex(p)
    /\ UNCHANGED <<faults, store, lessonOf, damaged, calls, writing, overlapped, endorsed>>

\* The process dies; a file it has truncated stays so.
Crash(p) ==
    /\ "crash" \in faults /\ pc[p] # "idle"
    /\ damaged' = damaged \cup ({writing[p]} \ {None})
    /\ writing' = [writing EXCEPT ![p] = None]
    /\ overlapped' = overlapped \ {p}
    /\ Return(p)
    /\ UNCHANGED <<faults, store, lessonOf, index, calls, endorsed>>

Call(p) ==
    \/ Propose(p) \/ ProposeFailure(p) \/ Learn(p) \/ Approve(p) \/ Reject(p) \/ Review(p)
    \/ ReviewAll(p) \/ Search(p) \/ Ingest(p) \/ ApproveSource(p) \/ Initialise(p)

Work(p) ==
    \/ CheckLesson(p) \/ LoadToPropose(p) \/ LoadToLearn(p) \/ LoadToApprove(p) \/ LoadToReject(p)
    \/ LoadToReview(p) \/ Verify(p) \/ Truncate(p, "save", "candidates") \/ SaveCandidates(p)
    \/ UpsertCandidate(p) \/ EnsureIndex(p) \/ LoadIndex(p) \/ Truncate(p, "embed", "index")
    \/ SaveEmbedding(p) \/ Truncate(p, "saveIndex", "index") \/ SaveIndex(p) \/ UpsertItems(p)

Next == \E p \in Process : Call(p) \/ Work(p) \/ Crash(p)

Spec == Init /\ [][Next]_vars

-----------------------------------------------------------------------------
(* What is true of every behaviour.                                        *)

Idle == \A p \in Process : pc[p] = "idle"

InSearch == index.lessons \cup (IF index.cache = None THEN {} ELSE index.cache.lessons)

\* A lesson is found only if the gates let it through or a person approved it, and
\* never if the policy blocked it: whatever is lost or overwritten on the way.
NothingUnreviewedIsFound ==
    \A c \in InSearch : \/ lessonOf[c] = "plain"
                        \/ c \in endorsed /\ lessonOf[c] # "blocked"

\* The cached result of a search shows the lessons of the index it is stored in, and
\* no document that is not in it.
CacheIsFresh ==
    index.cache # None =>
        index.cache.lessons = index.lessons /\ index.cache.documents \subseteq index.documents

\* Operations one after the other, on an index that is there: what is approved is found.
ApprovedIsFound ==
    faults \subseteq {"database", "learn"} /\ Idle =>
        \A c \in Candidate : store[c] \in Approved => c \in index.lessons

KnowledgeIsSound == NothingUnreviewedIsFound /\ CacheIsFresh /\ ApprovedIsFound

\* In a database no candidate and no lesson is lost, in whatever order processes write
\* and wherever they die; in files neither is if processes take turns and nobody runs
\* knowledge init again.  If processes take turns only an automatic review of a single
\* candidate, as learning makes them, lifts a rejection.
KnowledgeIsKept ==
    [][/\ ~InFiles \/ faults \cap {"peers", "rebuild"} = {} =>
            /\ index.lessons \subseteq index'.lessons
            /\ \A c \in Candidate : store[c] # "absent" => store'[c] # "absent"
       /\ faults \cap {"peers", "learn"} = {} =>
            \A c \in Candidate : store[c] = "rejected" => store'[c] = "rejected"]_vars
=============================================================================
