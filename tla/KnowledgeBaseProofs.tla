------------------------ MODULE KnowledgeBaseProofs ------------------------
(***************************************************************************)
(* Theorems about KnowledgeBase for any set of processes, candidates and   *)
(* documents, and for every environment.                                   *)
(*                                                                         *)
(* The argument: whatever copies of the files are about, each of them      *)
(* holds only statuses the gates permit (Gate) and only indexes whose      *)
(* lessons and cached result are good (Indexes), so it does not matter     *)
(* which of them is written last.  What is lost depends on the order:      *)
(* without concurrent processes a copy is what the store or the index      *)
(* holds, changed by the operation in progress (Alone), and an approved    *)
(* lesson is in the index or about to be added to it (Calm).               *)
(***************************************************************************)
EXTENDS KnowledgeBase, TLAPS

Statuses == [Candidate -> Status]

Op == {"none", "propose", "learn", "approve", "reject", "review", "reviewAll", "search", "ingest",
       "approveSource", "init"}

Reviewing == {"approve", "review", "reviewAll"}

Task == [op : Op, on : SUBSET Candidate, lesson : Lesson, document : Document \cup {None},
         items : SUBSET Candidate]

Label == {"idle", "check", "load", "ensure", "verify", "save", "loadIndex", "embed", "saveIndex"}

Documents == SUBSET (Document \cup {None})

Index == [built : BOOLEAN, lessons : SUBSET Candidate, documents : Documents,
          cache : {None} \cup [lessons : SUBSET Candidate, documents : Documents]]

\* Every variable has its type.
Types ==
    /\ faults \in Environments
    /\ store \in Statuses /\ lessonOf \in [Candidate -> Lesson \cup {None}]
    /\ damaged \subseteq Files /\ endorsed \subseteq Candidate
    /\ task \in [Process -> Task] /\ pc \in [Process -> Label]
    /\ copy \in [Process -> Statuses]
    /\ index \in Index /\ indexCopy \in [Process -> Index]
    /\ writing \in [Process -> Files \cup {None}] /\ overlapped \subseteq Process

\* The gates let the lesson through or a person approved it.
Good(c) == c \in Known /\ (lessonOf[c] = "plain" \/ (c \in endorsed /\ lessonOf[c] # "blocked"))

\* Statuses the gates permit.
Permitted(statuses) ==
    \A c \in Candidate :
       /\ statuses[c] # "absent" => c \in Known
       /\ statuses[c] \in Approved => Good(c)
       /\ lessonOf[c] = "blocked" => statuses[c] \in {"absent", "rejected"}

\* The store and every copy of it hold nothing else.
Gate ==
    /\ Permitted(store)
    /\ \A p \in Process :
         /\ Permitted(copy[p])
         /\ task[p].on \subseteq Known
         /\ \A c \in task[p].items : Good(c)
         /\ pc[p] \in {"verify", "save"} => \A c \in task[p].on : copy[p][c] # "absent"

\* An index whose lessons are good and whose cached result is its own.
GoodIndex(ix) ==
    /\ \A c \in ix.lessons : Good(c)
    /\ ix.cache # None => ix.cache.lessons = ix.lessons /\ ix.cache.documents \subseteq ix.documents
    /\ ix.built \/ ix.lessons = {}

\* The index and every copy of it are such; a database has no file to cache in.
Indexes ==
    /\ GoodIndex(index)
    /\ \A p \in Process : GoodIndex(indexCopy[p])
    /\ InFiles \/ (index.cache = None /\ \A p \in Process : writing[p] = None)

\* What the step a process is at tells of its operation.
Place(p) ==
    /\ writing[p] # None => pc[p] \in {"save", "embed", "saveIndex"}
    /\ task[p].op = "init" => "rebuild" \in faults
    /\ task[p].op \in {"learn", "review"} => "learn" \in faults
    /\ task[p].items # {} => task[p].op \in Reviewing
    /\ pc[p] = "ensure" => task[p].op = "learn"
    /\ pc[p] \in {"loadIndex", "embed"} => InFiles /\ task[p].op \notin {"init", "learn"}
    /\ InFiles /\ (pc[p] = "embed" \/ (pc[p] = "saveIndex" /\ task[p].op \notin {"init", "learn"})) =>
         indexCopy[p].built

Places == \A p \in Process : Place(p)

\* The statuses are those of the store, changed as the operation may change them.
Faithful(op, on, statuses) ==
    \A c \in Candidate :
       /\ c \notin on => statuses[c] = store[c]
       /\ store[c] = "rejected" /\ "learn" \notin faults => statuses[c] = "rejected"
       /\ op \notin Reviewing /\ statuses[c] \in Approved => store[c] \in Approved

\* The copies of a process are what there is, changed by its operation.
Solo(p) ==
    /\ pc[p] \in {"verify", "save"} => Faithful(task[p].op, task[p].on, copy[p])
    /\ InFiles /\ (pc[p] = "embed" \/ (pc[p] = "saveIndex" /\ task[p].op \notin {"init", "learn"})) =>
         indexCopy[p] = index
    /\ InFiles /\ pc[p] = "saveIndex" /\ task[p].op = "learn" => ~index.built

\* Processes that take turns work on what is there.
Alone ==
    "peers" \notin faults =>
       /\ \A p, q \in Process : pc[p] # "idle" /\ pc[q] # "idle" => p = q
       /\ overlapped = {}
       /\ \A p \in Process : Solo(p)

\* The lesson is about to be added to the index.
Pending(p, c) ==
    /\ c \in task[p].items
    /\ pc[p] \in IF InFiles THEN {"loadIndex", "saveIndex"} ELSE {"save", "saveIndex"}

\* On an index that is there, without crashes, what is approved gets into it.
Calm ==
    faults \subseteq {"database", "learn"} =>
       /\ index.built /\ damaged = {}
       /\ \A c \in Candidate :
            store[c] \in Approved => c \in index.lessons \/ \E p \in Process : Pending(p, c)

\* The inductive invariant.
IInv == Types /\ Gate /\ Indexes /\ Places /\ Alone /\ Calm

-----------------------------------------------------------------------------
(* The kinds of steps.                                                     *)

\* Lessons stay what they are, and so do approvals by a person.
Grows ==
    /\ lessonOf' \in [Candidate -> Lesson \cup {None}] /\ endorsed' \subseteq Candidate
    /\ \A c \in Known : c \in Known' /\ lessonOf'[c] = lessonOf[c]
    /\ endorsed \subseteq endorsed'

\* What an operation that starts may be, and where.
Begins(t, l) ==
    /\ t \in Task /\ t.items = {} /\ t.on \subseteq Known
    /\ l \in {"check", "load", "ensure", "loadIndex", "saveIndex"}
    /\ t.op = "init" => "rebuild" \in faults
    /\ t.op \in {"learn", "review"} => "learn" \in faults
    /\ l = "loadIndex" => InFiles /\ t.op \notin {"init", "learn"}
    /\ l = "saveIndex" /\ InFiles => t.op = "init"
    /\ l = "ensure" => t.op = "learn"

\* Candidates are loaded and changed, or were already: the operation goes on with
\* statuses that are permitted, or ends.
LoadStep(p) ==
    /\ pc[p] \in {"load", "verify"}
    /\ UNCHANGED <<faults, store, index, damaged>>
    /\ Grows
    /\ \/ Done(p)
       \/ \E on \in SUBSET Candidate, statuses \in Statuses, l \in {"verify", "save"} :
            /\ Loaded(p, on, statuses, l)
            /\ on \subseteq Known' /\ Permitted(statuses)'
            /\ \A c \in on : statuses[c] # "absent"
            /\ "peers" \notin faults => Faithful(task[p].op, on, statuses)

\* A known lesson stays good, and statuses stay permitted.
LEMMA GoodStays ==
    ASSUME Types, Grows
    PROVE  /\ \A c : Good(c) => Good(c)'
           /\ \A statuses \in Statuses : Permitted(statuses) => Permitted(statuses)'
<1>1. ASSUME NEW c, Good(c) PROVE Good(c)'
  BY <1>1 DEF Good, Grows
<1>2. ASSUME NEW statuses \in Statuses, Permitted(statuses) PROVE Permitted(statuses)'
  <2> SUFFICES ASSUME NEW c \in Candidate
               PROVE  /\ statuses[c] # "absent" => c \in Known'
                      /\ statuses[c] \in Approved => Good(c)'
                      /\ lessonOf'[c] = "blocked" => statuses[c] \in {"absent", "rejected"}
    BY DEF Permitted
  <2>1. CASE c \in Known
    BY <1>1, <1>2, <2>1 DEF Permitted, Grows
  <2>2. CASE c \notin Known
    BY <1>2, <2>2 DEF Permitted, Approved
  <2> QED
    BY <2>1, <2>2
<1> QED
  BY <1>1, <1>2

\* Every operation that starts begins well.
LEMMA CallBegins ==
    ASSUME Types, NEW p \in Process, Call(p)
    PROVE  \E t, l : Begins(t, l) /\ Start(p, t, l)
<1>1. CASE Propose(p)
  <2>1. PICK x \in Lesson : Start(p, [NoTask EXCEPT !.op = "propose", !.lesson = x], "load")
    BY <1>1 DEF Propose
  <2>2. Begins([NoTask EXCEPT !.op = "propose", !.lesson = x], "load")
    BY <1>1, <2>1 DEF Propose, NoTask, Task, Op, Lesson, Begins, Known
  <2> QED
    BY <2>1, <2>2
<1>2. CASE ProposeFailure(p)
  <2>1. Start(p, [NoTask EXCEPT !.op = "propose"], "check")
    BY <1>2 DEF ProposeFailure
  <2>2. Begins([NoTask EXCEPT !.op = "propose"], "check")
    BY <1>2 DEF ProposeFailure, NoTask, Task, Op, Lesson, Begins
  <2> QED
    BY <2>1, <2>2
<1>3. CASE Learn(p)
  <2>1. PICK x \in {"plain", "claim"} : Start(p, [NoTask EXCEPT !.op = "learn", !.lesson = x], "ensure")
    BY <1>3 DEF Learn
  <2>2. Begins([NoTask EXCEPT !.op = "learn", !.lesson = x], "ensure")
    BY <1>3, <2>1 DEF Learn, NoTask, Task, Op, Lesson, Begins, Known
  <2> QED
    BY <2>1, <2>2
<1>4. CASE Approve(p)
  <2>1. PICK c \in Known : Start(p, [NoTask EXCEPT !.op = "approve", !.on = {c}], "load")
    BY <1>4 DEF Approve, On
  <2>2. Begins([NoTask EXCEPT !.op = "approve", !.on = {c}], "load")
    BY <1>4, <2>1 DEF Approve, NoTask, Task, Op, Lesson, Begins, Known
  <2> QED
    BY <2>1, <2>2
<1>5. CASE Reject(p)
  <2>1. PICK c \in Known : Start(p, [NoTask EXCEPT !.op = "reject", !.on = {c}], "load")
    BY <1>5 DEF Reject, On
  <2>2. Begins([NoTask EXCEPT !.op = "reject", !.on = {c}], "load")
    BY <1>5, <2>1 DEF Reject, NoTask, Task, Op, Lesson, Begins, Known
  <2> QED
    BY <2>1, <2>2
<1>6. CASE Review(p)
  <2>1. PICK c \in Known : Start(p, [NoTask EXCEPT !.op = "review", !.on = {c}], "load")
    BY <1>6 DEF Review, On
  <2>2. Begins([NoTask EXCEPT !.op = "review", !.on = {c}], "load")
    BY <1>6, <2>1 DEF Review, NoTask, Task, Op, Lesson, Begins, Known
  <2> QED
    BY <2>1, <2>2
<1>7. CASE ReviewAll(p)
  <2>1. Start(p, [NoTask EXCEPT !.op = "reviewAll"], "load")
    BY <1>7 DEF ReviewAll
  <2>2. Begins([NoTask EXCEPT !.op = "reviewAll"], "load")
    BY <1>7 DEF ReviewAll, NoTask, Task, Op, Lesson, Begins
  <2> QED
    BY <2>1, <2>2
<1>8. CASE Search(p)
  <2>1. Start(p, [NoTask EXCEPT !.op = "search"], "loadIndex")
    BY <1>8 DEF Search
  <2>2. Begins([NoTask EXCEPT !.op = "search"], "loadIndex")
    BY <1>8 DEF Search, NoTask, Task, Op, Lesson, Begins
  <2> QED
    BY <2>1, <2>2
<1>9. CASE Ingest(p)
  <2>1. PICK d \in Document : Start(p, [NoTask EXCEPT !.op = "ingest", !.document = d],
                              IF InFiles THEN "loadIndex" ELSE "saveIndex")
    BY <1>9 DEF Ingest
  <2>2. Begins([NoTask EXCEPT !.op = "ingest", !.document = d], IF InFiles THEN "loadIndex" ELSE "saveIndex")
    BY <2>1 DEF NoTask, Task, Op, Lesson, Begins
  <2> QED
    BY <2>1, <2>2
<1>10. CASE ApproveSource(p)
  <2>1. PICK d \in Document : Start(p, [NoTask EXCEPT !.op = "approveSource", !.document = d],
                              IF InFiles THEN "loadIndex" ELSE "saveIndex")
    BY <1>10 DEF ApproveSource
  <2>2. Begins([NoTask EXCEPT !.op = "approveSource", !.document = d], IF InFiles THEN "loadIndex" ELSE "saveIndex")
    BY <2>1 DEF NoTask, Task, Op, Lesson, Begins
  <2> QED
    BY <2>1, <2>2
<1>11. CASE Initialise(p)
  <2>1. Start(p, [NoTask EXCEPT !.op = "init"], "saveIndex")
    BY <1>11 DEF Initialise
  <2>2. Begins([NoTask EXCEPT !.op = "init"], "saveIndex")
    BY <1>11 DEF Initialise, NoTask, Task, Op, Lesson, Begins
  <2> QED
    BY <2>1, <2>2
<1> QED
  BY <1>1, <1>2, <1>3, <1>4, <1>5, <1>6, <1>7, <1>8, <1>9, <1>10, <1>11 DEF Call

\* A new candidate is permitted in its first status.
LEMMA AddedWell ==
    ASSUME Types, Gate, NEW p \in Process, NEW l \in Lesson, AddCandidate(p, l),
           pc[p] = "load", task[p].op \in {"propose", "learn"},
           UNCHANGED <<faults, store, index, damaged, endorsed>>
    PROVE  LoadStep(p)
<1>1. PICK c \in Candidate \ Known :
        /\ lessonOf' = [lessonOf EXCEPT ![c] = l]
        /\ Loaded(p, {c}, [store EXCEPT ![c] = IF l = "blocked" THEN "rejected" ELSE "needs_review"], "save")
  BY DEF AddCandidate
<1>a. PICK status \in Status : status = IF l = "blocked" THEN "rejected" ELSE "needs_review"
  BY DEF Status
<1>b. PICK statuses \in Statuses : statuses = [store EXCEPT ![c] = status]
  BY DEF Types, Statuses
<1>2. /\ Grows /\ c \in Known' /\ lessonOf[c] = None
  BY <1>1, KnowledgeAssumption DEF Types, Grows, Known, Lesson
<1>3. status \notin Approved /\ status # "absent"
  BY <1>a DEF Approved
<1>4. store[c] = "absent"
  BY <1>1 DEF Gate, Permitted
<1>5. \A d \in Candidate : statuses[d] = IF d = c THEN status ELSE store[d]
  BY <1>b DEF Types, Statuses
<1>6. Permitted(store)'
  <2>1. Permitted(store) /\ store \in Statuses
    BY DEF Gate, Types
  <2>2. \A d \in Candidate \ {c} : lessonOf'[d] = lessonOf[d] /\ (d \in Known => d \in Known')
    BY <1>1 DEF Types, Known
  <2>3. store' = store /\ endorsed' = endorsed
    OBVIOUS
  <2> QED
    BY <1>4, <2>1, <2>2, <2>3 DEF Permitted, Good, Approved
<1>7. Permitted(statuses)'
  <2>1. lessonOf'[c] = "blocked" => status = "rejected"
    BY <1>1, <1>a DEF Types
  <2>2. store' = store
    OBVIOUS
  <2> QED
    BY <1>2, <1>3, <1>5, <1>6, <2>1, <2>2 DEF Permitted
<1>8. Faithful(task[p].op, {c}, statuses)
  BY <1>3, <1>4, <1>5 DEF Faithful, Approved
<1>9. Loaded(p, {c}, statuses, "save")
  BY <1>1, <1>a, <1>b
<1> QED
  BY <1>2, <1>3, <1>5, <1>7, <1>8, <1>9 DEF LoadStep

\* Nothing grows if no candidate is added or approved by a person.
LEMMA GrowsNot ==
    ASSUME Types, UNCHANGED <<lessonOf, endorsed>>
    PROVE  Grows
BY DEF Types, Grows, Known

\* Whatever an operation makes of the candidates it loads is permitted.
LEMMA LoadsWell ==
    ASSUME Types, Gate, Places, Alone, NEW p \in Process,
           \/ LoadToPropose(p) \/ LoadToLearn(p) \/ LoadToApprove(p)
           \/ LoadToReject(p) \/ LoadToReview(p) \/ Verify(p)
    PROVE  LoadStep(p)
<1>0. store \in Statuses /\ Permitted(store) /\ task[p] \in Task /\ task[p].on \subseteq Known
  BY DEF Types, Gate
<1>1. CASE LoadToPropose(p)
  <2>1. CASE Readable("candidates")
    <3>1. task[p].lesson \in Lesson
      BY <1>0 DEF Task
    <3> QED
      BY <1>1, <2>1, <3>1, AddedWell DEF LoadToPropose
  <2>2. CASE ~Readable("candidates")
    BY <1>1, <2>2, GrowsNot DEF LoadToPropose, LoadStep
  <2> QED
    BY <2>1, <2>2
<1>2. CASE LoadToLearn(p)
  <2> DEFINE there == Matching(task[p].lesson)
  <2>1. CASE ~Readable("candidates")
    BY <1>2, <2>1, GrowsNot DEF LoadToLearn, LoadStep
  <2>2. CASE Readable("candidates") /\ there = {}
    <3>1. task[p].lesson \in Lesson
      BY <1>0 DEF Task
    <3> QED
      BY <1>2, <2>2, <3>1, AddedWell DEF LoadToLearn
  <2>3. CASE Readable("candidates") /\ there # {}
    <3>1. PICK c \in there : Loaded(p, {c}, store, "save")
      BY <1>2, <2>3 DEF LoadToLearn
    <3>2. c \in Candidate /\ store[c] # "absent" /\ c \in Known
      BY <1>0, <3>1 DEF Matching, Permitted
    <3>3. UNCHANGED <<faults, store, index, damaged, lessonOf, endorsed>> /\ pc[p] = "load"
      BY <1>2, <2>3 DEF LoadToLearn
    <3>4. Grows /\ Permitted(store)' /\ c \in Known'
      BY <1>0, <3>2, <3>3, GrowsNot, GoodStays DEF Grows
    <3>5. PICK statuses \in Statuses : statuses = store
      BY <1>0
    <3>6. Faithful(task[p].op, {c}, statuses) /\ Permitted(statuses)'
      BY <3>3, <3>4, <3>5 DEF Faithful
    <3> QED
      BY <3>1, <3>2, <3>3, <3>4, <3>5, <3>6 DEF LoadStep
  <2> QED
    BY <2>1, <2>2, <2>3
<1>3. CASE LoadToApprove(p)
  <2>1. PICK c \in task[p].on :
           IF Readable("candidates") /\ store[c] \notin {"absent", "rejected"}
           THEN /\ Loaded(p, {c}, [store EXCEPT ![c] = "approved"], "save")
                /\ endorsed' = endorsed \cup {c}
           ELSE Done(p) /\ UNCHANGED endorsed
    BY <1>3 DEF LoadToApprove
  <2>2. /\ UNCHANGED <<faults, store, lessonOf, index, damaged>> /\ pc[p] = "load"
        /\ task[p].op = "approve"
    BY <1>3 DEF LoadToApprove
  <2>3. CASE ~(Readable("candidates") /\ store[c] \notin {"absent", "rejected"})
    BY <2>1, <2>2, <2>3, GrowsNot DEF LoadStep
  <2>4. CASE Readable("candidates") /\ store[c] \notin {"absent", "rejected"}
    <3>1. c \in Known /\ c \in Candidate /\ lessonOf[c] # "blocked"
      BY <1>0, <2>1, <2>4 DEF Permitted, Known
    <3>2. Grows /\ endorsed' = endorsed \cup {c}
      BY <2>1, <2>2, <2>4, <3>1 DEF Types, Grows, Known
    <3>3. PICK statuses \in Statuses : statuses = [store EXCEPT ![c] = "approved"]
      BY <1>0 DEF Statuses, Status, Approved
    <3>4. \A d \in Candidate : statuses[d] = IF d = c THEN "approved" ELSE store[d]
      BY <1>0, <3>3 DEF Statuses
    <3>5. Permitted(store)' /\ store' = store
      BY <1>0, <2>2, <3>2, GoodStays
    <3>6. Good(c)' /\ c \in Known' /\ lessonOf'[c] # "blocked"
      BY <3>1, <3>2, <2>2 DEF Good, Known
    <3>7. Permitted(statuses)'
      BY <3>4, <3>5, <3>6 DEF Permitted, Approved
    <3>8. Faithful(task[p].op, {c}, statuses)
      BY <2>2, <2>4, <3>4 DEF Faithful, Reviewing
    <3>9. Loaded(p, {c}, statuses, "save") /\ \A d \in {c} : statuses[d] # "absent"
      BY <2>1, <2>4, <3>1, <3>3, <3>4
    <3> QED
      BY <2>2, <3>1, <3>2, <3>6, <3>7, <3>8, <3>9 DEF LoadStep
  <2> QED
    BY <2>3, <2>4
<1>4. CASE LoadToReject(p)
  <2>1. PICK c \in task[p].on :
           IF Readable("candidates") /\ store[c] # "absent"
           THEN Loaded(p, {c}, [store EXCEPT ![c] = "rejected"], "save")
           ELSE Done(p)
    BY <1>4 DEF LoadToReject
  <2>2. /\ UNCHANGED <<faults, store, lessonOf, index, damaged, endorsed>> /\ pc[p] = "load"
    BY <1>4 DEF LoadToReject
  <2>3. CASE ~(Readable("candidates") /\ store[c] # "absent")
    BY <2>1, <2>2, <2>3, GrowsNot DEF LoadStep
  <2>4. CASE Readable("candidates") /\ store[c] # "absent"
    <3>1. c \in Known /\ c \in Candidate
      BY <1>0, <2>1 DEF Known
    <3>2. Grows /\ c \in Known'
      BY <2>2, <3>1, GrowsNot DEF Grows
    <3>3. PICK statuses \in Statuses : statuses = [store EXCEPT ![c] = "rejected"]
      BY <1>0 DEF Statuses, Status
    <3>4. \A d \in Candidate : statuses[d] = IF d = c THEN "rejected" ELSE store[d]
      BY <1>0, <3>3 DEF Statuses
    <3>5. Permitted(store)' /\ store' = store
      BY <1>0, <2>2, <3>2, GoodStays
    <3>6. Permitted(statuses)'
      BY <3>2, <3>4, <3>5 DEF Permitted, Approved
    <3>7. Faithful(task[p].op, {c}, statuses)
      BY <3>4 DEF Faithful, Approved
    <3>8. Loaded(p, {c}, statuses, "save") /\ \A d \in {c} : statuses[d] # "absent"
      BY <2>1, <2>4, <3>1, <3>3, <3>4
    <3> QED
      BY <2>2, <3>1, <3>2, <3>6, <3>7, <3>8 DEF LoadStep
  <2> QED
    BY <2>3, <2>4
<1>5. CASE LoadToReview(p)
  <2> DEFINE chosen == IF task[p].op = "review" THEN task[p].on
                       ELSE {c \in Candidate : store[c] = "needs_review"}
             ends == ~Readable("candidates") \/ chosen = {} \/ \E c \in chosen : store[c] = "absent"
  <2>1. /\ UNCHANGED <<faults, store, lessonOf, index, damaged, endorsed>> /\ pc[p] = "load"
        /\ task[p].op \in {"review", "reviewAll"}
    BY <1>5 DEF LoadToReview
  <2>2. CASE ends
    BY <1>5, <2>1, <2>2, GrowsNot DEF LoadToReview, LoadStep
  <2>3. CASE ~ends
    <3>1. PICK verdict \in [chosen -> Status] :
             /\ \A c \in chosen : verdict[c] \in Verdicts(c)
             /\ \E l \in {"verify", "save"} :
                  Loaded(p, chosen, [c \in Candidate |-> IF c \in chosen THEN verdict[c] ELSE store[c]], l)
      <4>1. PICK verdict \in [chosen -> Status] :
               /\ \A c \in chosen : verdict[c] \in Verdicts(c)
               /\ LET verify == InFiles /\ \E c \in chosen : verdict[c] = "auto_approved"
                  IN Loaded(p, chosen, [c \in Candidate |-> IF c \in chosen THEN verdict[c] ELSE store[c]],
                            IF verify THEN "verify" ELSE "save")
        BY <1>5, <2>3 DEF LoadToReview
      <4> QED
        BY <4>1
    <3>2. PICK on \in SUBSET Candidate : on = chosen
      BY <1>0 DEF Known
    <3>3. on \subseteq Known /\ \A c \in on : store[c] # "absent"
      BY <1>0, <2>3, <3>2 DEF Permitted
    <3>4. PICK statuses \in Statuses :
             statuses = [c \in Candidate |-> IF c \in on THEN verdict[c] ELSE store[c]]
      BY <1>0, <3>1, <3>2 DEF Statuses
    <3>5. \A c \in Candidate : statuses[c] = IF c \in on THEN verdict[c] ELSE store[c]
      BY <3>4
    <3>6. Grows /\ Permitted(store)' /\ store' = store /\ on \subseteq Known'
      BY <1>0, <2>1, <3>3, GrowsNot, GoodStays DEF Grows
    <3>7. \A c \in on : /\ verdict[c] \in {"auto_approved", "needs_review", "rejected"}
                        /\ verdict[c] \in Approved => lessonOf[c] = "plain"
                        /\ lessonOf[c] = "blocked" => verdict[c] = "rejected"
      BY <3>1, <3>2 DEF Verdicts, Approved
    <3>8. Permitted(statuses)'
      BY <2>1, <3>3, <3>5, <3>6, <3>7 DEF Permitted, Good, Known
    <3>9. "peers" \notin faults => Faithful(task[p].op, on, statuses)
      BY <2>1, <3>2, <3>5 DEF Faithful, Reviewing, Places, Place
    <3>10. \E l \in {"verify", "save"} : Loaded(p, on, statuses, l)
      BY <3>1, <3>2, <3>4
    <3>11. \A c \in on : statuses[c] # "absent"
      BY <3>5, <3>7
    <3> QED
      BY <2>1, <3>6, <3>8, <3>9, <3>10, <3>11 DEF LoadStep
  <2> QED
    BY <2>2, <2>3
<1>6. CASE Verify(p)
  <2>1. /\ UNCHANGED <<faults, store, lessonOf, index, damaged, endorsed>> /\ pc[p] = "verify"
    BY <1>6 DEF Verify
  <2>2. CASE ~Readable("index") \/ ~index.built
    BY <1>6, <2>1, <2>2, GrowsNot DEF Verify, LoadStep
  <2>3. CASE ~(~Readable("index") \/ ~index.built)
    <3>1. PICK missed \in SUBSET {c \in task[p].on : copy[p][c] = "auto_approved"} :
             Loaded(p, task[p].on,
                    [c \in Candidate |-> IF c \in missed THEN "needs_review" ELSE copy[p][c]], "save")
      BY <1>6, <2>3 DEF Verify
    <3>2. copy[p] \in Statuses /\ Permitted(copy[p]) /\ \A c \in task[p].on : copy[p][c] # "absent"
      BY <2>1 DEF Types, Gate
    <3>3. PICK statuses \in Statuses :
             statuses = [c \in Candidate |-> IF c \in missed THEN "needs_review" ELSE copy[p][c]]
      BY <3>2 DEF Statuses, Status
    <3>4. \A c \in Candidate : statuses[c] = IF c \in missed THEN "needs_review" ELSE copy[p][c]
      BY <3>3
    <3>5. Grows /\ task[p].on \subseteq Known' /\ task[p].on \in SUBSET Candidate
      BY <1>0, <2>1, GrowsNot DEF Grows, Known
    <3>6. Permitted(statuses)
      BY <1>0, <3>1, <3>2, <3>4 DEF Permitted, Approved
    <3>7. Permitted(statuses)'
      BY <3>5, <3>6, GoodStays
    <3>8. "peers" \notin faults => Faithful(task[p].op, task[p].on, statuses)
      <4> SUFFICES ASSUME "peers" \notin faults PROVE Faithful(task[p].op, task[p].on, statuses)
        OBVIOUS
      <4>1. Faithful(task[p].op, task[p].on, copy[p])
        BY <2>1 DEF Alone, Solo
      <4>2. \A c \in missed : c \in task[p].on /\ copy[p][c] = "auto_approved"
        BY <3>1
      <4> QED
        BY <3>4, <4>1, <4>2 DEF Faithful, Approved
    <3> QED
      BY <2>1, <3>1, <3>2, <3>3, <3>4, <3>5, <3>7, <3>8 DEF LoadStep
  <2> QED
    BY <2>2, <2>3
<1> QED
  BY <1>1, <1>2, <1>3, <1>4, <1>5, <1>6

-----------------------------------------------------------------------------
(* Types, permitted statuses, good indexes.                                *)

\* At first there is nothing.
LEMMA InitInv == Init => IInv
<1> SUFFICES ASSUME Init PROVE IInv
  OBVIOUS
<1> USE DEF Init, NoIndex, NewIndex, NoTask, NoneThere
<1>1. Types
  <2>1. NoIndex \in Index /\ NewIndex \in Index
    BY DEF Index, Documents
  <2>2. NoneThere \in Statuses /\ NoTask \in Task
    BY DEF Statuses, Status, Task, Op, Lesson
  <2> QED
    BY <2>1, <2>2 DEF Types, Label
<1>2. Gate
  BY DEF Gate, Permitted, Approved
<1>3. Indexes
  BY DEF Indexes, GoodIndex
<1>4. Places
  BY DEF Places, Place
<1>5. Alone /\ Calm
  BY DEF Alone, Solo, Calm, Approved
<1> QED
  BY <1>1, <1>2, <1>3, <1>4, <1>5 DEF IInv

\* What the steps other than those of LoadStep leave as it is.
OtherStep(p) ==
    \/ CheckLesson(p) \/ Truncate(p, "save", "candidates") \/ SaveCandidates(p)
    \/ UpsertCandidate(p) \/ EnsureIndex(p) \/ LoadIndex(p) \/ Truncate(p, "embed", "index")
    \/ SaveEmbedding(p) \/ Truncate(p, "saveIndex", "index") \/ SaveIndex(p) \/ UpsertItems(p)
    \/ Crash(p)

Begin(p) == \E t, l : Begins(t, l) /\ Start(p, t, l)

\* Every step is one of these.
LEMMA StepKinds ==
    ASSUME Types, Gate, Places, Alone, [Next]_vars
    PROVE  UNCHANGED vars \/ \E p \in Process : Begin(p) \/ LoadStep(p) \/ OtherStep(p)
<1>1. ASSUME NEW p \in Process, Call(p) PROVE Begin(p)
  BY <1>1, CallBegins DEF Begin
<1>2. ASSUME NEW p \in Process, Work(p) PROVE LoadStep(p) \/ OtherStep(p)
  BY <1>2, LoadsWell DEF Work, OtherStep
<1> QED
  BY <1>1, <1>2 DEF Next, OtherStep

\* Whatever happens, lessons and approvals stay.
LEMMA StepGrows ==
    ASSUME Types, NEW p \in Process, Begin(p) \/ LoadStep(p) \/ OtherStep(p)
    PROVE  Grows
<1>1. CASE Begin(p)
  BY <1>1, GrowsNot DEF Begin, Start
<1>2. CASE LoadStep(p)
  BY <1>2 DEF LoadStep
<1>3. CASE OtherStep(p)
  BY <1>3, GrowsNot DEF OtherStep, CheckLesson, Truncate, SaveCandidates, UpsertCandidate, EnsureIndex,
     LoadIndex, SaveEmbedding, SaveIndex, UpsertItems, Crash
<1> QED
  BY <1>1, <1>2, <1>3

\* Changing an index leaves it an index, and a good one.
LEMMA ChangedIsGood ==
    ASSUME NEW ix \in Index, NEW t \in Task
    PROVE  /\ Changed(ix, t) \in Index
           /\ GoodIndex(ix) /\ (\A c \in t.items : Good(c)) /\ (ix.built \/ t.op \in {"init", "learn"}) =>
                GoodIndex(Changed(ix, t))
<1> USE DEF Index, Task, Changed, GoodIndex, Found, NewIndex, NoIndex, Documents
<1>1. CASE t.op = "search"
  BY <1>1
<1>2. CASE t.op = "ingest"
  BY <1>2
<1>3. CASE t.op = "approveSource"
  BY <1>3
<1>4. CASE t.op \in {"init", "learn"}
  BY <1>4
<1>5. CASE t.op \notin {"search", "ingest", "approveSource", "init", "learn"}
  BY <1>5
<1> QED
  BY <1>1, <1>2, <1>3, <1>4, <1>5

\* A task with other candidates, items or another operation is a task.
LEMMA TaskChanges ==
    ASSUME NEW t \in Task, NEW x \in SUBSET Candidate
    PROVE  /\ [t EXCEPT !.on = x] \in Task /\ [t EXCEPT !.items = x] \in Task
           /\ [t EXCEPT !.op = "review"] \in Task
BY DEF Task, Op

\* What the changes of an index keep of it.
LEMMA ChangedKeeps ==
    ASSUME NEW ix \in Index, NEW t \in Task, t.op \notin {"init", "learn"}
    PROVE  /\ Changed(ix, t).built = ix.built /\ ix.lessons \subseteq Changed(ix, t).lessons
           /\ t.op \in Reviewing => t.items \subseteq Changed(ix, t).lessons
<1> USE DEF Index, Task, Changed, Found, Documents, Reviewing
<1>1. CASE t.op = "search"
  BY <1>1
<1>2. CASE t.op \in {"ingest", "approveSource"}
  BY <1>2
<1>3. CASE t.op \notin {"search", "ingest", "approveSource"}
  BY <1>3
<1> QED
  BY <1>1, <1>2, <1>3

\* Every step keeps the types.
LEMMA TypesStep ==
    ASSUME Types, Gate, Places, NEW p \in Process, Begin(p) \/ LoadStep(p) \/ OtherStep(p)
    PROVE  Types'
<1>a. /\ NoTask \in Task /\ NoneThere \in Statuses /\ NoIndex \in Index
  BY DEF NoTask, Task, Op, Lesson, NoneThere, Statuses, Status, NoIndex, Index, Documents
<1>1. CASE Begin(p)
  BY <1>1, KnowledgeAssumption DEF Begin, Begins, Start, Goto, Types, Label
<1>2. CASE LoadStep(p)
  <2>1. CASE Done(p)
    BY <1>a, <1>2, <2>1 DEF LoadStep, Grows, Done, Return, Goto, Types, Label
  <2>2. CASE ~Done(p)
    <3>1. PICK on \in SUBSET Candidate, statuses \in Statuses, l \in {"verify", "save"} :
             Loaded(p, on, statuses, l)
      BY <1>2, <2>2 DEF LoadStep
    <3>2. [task[p] EXCEPT !.on = on] \in Task
      BY DEF Types, Task
    <3>3. task' = [task EXCEPT ![p] = [task[p] EXCEPT !.on = on]]
      BY <3>1 DEF Loaded
    <3> QED
      BY <1>2, <3>1, <3>2, <3>3 DEF LoadStep, Grows, Loaded, Goto, Types, Label
  <2> QED
    BY <2>1, <2>2
<1>3. CASE CheckLesson(p)
  BY <1>3, <1>a DEF CheckLesson, Done, Return, Goto, Types, Label
<1>4. CASE Truncate(p, "save", "candidates")
  BY <1>4 DEF Truncate, Files, Types, Label
<1>5. CASE SaveCandidates(p)
  <2>1. Items(p) \in SUBSET Candidate /\ task[p] \in Task
    BY DEF Items, Types, Task
  <2>2. \/ task' = [task EXCEPT ![p] = [task[p] EXCEPT !.items = Items(p)]]
        \/ task' = [task EXCEPT ![p] = [task[p] EXCEPT !.op = "review"]]
        \/ task' = [task EXCEPT ![p] = NoTask]
    BY <1>5 DEF SaveCandidates, AfterSave, Return
  <2>3. task' \in [Process -> Task]
    <3>1. PICK t \in Task : task' = [task EXCEPT ![p] = t]
      <4>1. CASE task' = [task EXCEPT ![p] = [task[p] EXCEPT !.items = Items(p)]]
        BY <2>1, <4>1, TaskChanges
      <4>2. CASE task' = [task EXCEPT ![p] = [task[p] EXCEPT !.op = "review"]]
        BY <2>1, <4>2, TaskChanges
      <4>3. CASE task' = [task EXCEPT ![p] = NoTask]
        BY <1>a, <4>3
      <4> QED
        BY <2>2, <4>1, <4>2, <4>3
    <3> QED
      BY <3>1 DEF Types
  <2> QED
    BY <1>5, <1>a, <2>3 DEF SaveCandidates, Written, AfterSave, Items, Return, Goto, Types, Label, Files
<1>6. CASE UpsertCandidate(p)
  <2>1. PICK c \in task[p].on :
         /\ store' = [store EXCEPT ![c] = copy[p][c]]
         /\ LET left == task[p].on \ {c}
                items == task[p].items \cup (Items(p) \cap {c})
            IN IF left # {}
               THEN /\ task' = [task EXCEPT ![p].on = left, ![p].items = items]
                    /\ UNCHANGED <<pc, copy, indexCopy>>
               ELSE IF items # {}
               THEN /\ task' = [task EXCEPT ![p].items = items]
                    /\ Goto(p, "saveIndex")
                    /\ UNCHANGED <<copy, indexCopy>>
               ELSE AfterSave(p)
    BY <1>6 DEF UpsertCandidate
  <2>2. task[p] \in Task /\ task[p].on \ {c} \in SUBSET Candidate /\ Items(p) \in SUBSET Candidate
        /\ task[p].items \cup (Items(p) \cap {c}) \in SUBSET Candidate
    BY DEF Types, Task, Items
  <2>3. task' \in [Process -> Task]
    <3>1. CASE task[p].on \ {c} # {}
      <4>1. PICK first \in [Process -> Task] : first = [task EXCEPT ![p].on = task[p].on \ {c}]
        BY <2>2, TaskChanges DEF Types
      <4>2. task' = [first EXCEPT ![p].items = task[p].items \cup (Items(p) \cap {c})]
        BY <2>1, <3>1, <4>1
      <4> QED
        BY <2>2, <4>1, <4>2, TaskChanges
    <3>2. CASE task[p].on \ {c} = {} /\ task[p].items \cup (Items(p) \cap {c}) # {}
      <4>1. PICK t \in Task : t = [task[p] EXCEPT !.items = task[p].items \cup (Items(p) \cap {c})]
        BY <2>2, TaskChanges
      <4>2. task' = [task EXCEPT ![p] = t]
        BY <2>1, <3>2, <4>1
      <4> QED
        BY <4>2 DEF Types
    <3>3. CASE task[p].on \ {c} = {} /\ task[p].items \cup (Items(p) \cap {c}) = {}
      <4>1. \/ task' = [task EXCEPT ![p] = [task[p] EXCEPT !.items = Items(p)]]
            \/ task' = [task EXCEPT ![p] = [task[p] EXCEPT !.op = "review"]]
            \/ task' = [task EXCEPT ![p] = NoTask]
        BY <2>1, <3>3 DEF AfterSave, Return
      <4>2. PICK t \in Task : task' = [task EXCEPT ![p] = t]
        <5>1. CASE task' = [task EXCEPT ![p] = [task[p] EXCEPT !.items = Items(p)]]
          BY <2>2, <5>1, TaskChanges
        <5>2. CASE task' = [task EXCEPT ![p] = [task[p] EXCEPT !.op = "review"]]
          BY <2>2, <5>2, TaskChanges
        <5>3. CASE task' = [task EXCEPT ![p] = NoTask]
          BY <1>a, <5>3
        <5> QED
          BY <4>1, <5>1, <5>2, <5>3
      <4> QED
        BY <4>2 DEF Types
    <3> QED
      BY <3>1, <3>2, <3>3
  <2>4. c \in Candidate /\ store' \in Statuses
    BY <2>1 DEF Types, Statuses, Task
  <2> QED
    BY <1>6, <1>a, <2>1, <2>3, <2>4 DEF UpsertCandidate, AfterSave, Items, Return, Goto, Types, Label
<1>7. CASE EnsureIndex(p)
  BY <1>7 DEF EnsureIndex, Goto, Types, Label
<1>8. CASE LoadIndex(p)
  BY <1>8, <1>a DEF LoadIndex, Done, Return, Goto, Types, Label
<1>9. CASE Truncate(p, "embed", "index")
  BY <1>9 DEF Truncate, Files, Types, Label
<1>10. CASE SaveEmbedding(p)
  BY <1>10 DEF SaveEmbedding, Written, Goto, Types, Label, Files
<1>11. CASE Truncate(p, "saveIndex", "index")
  BY <1>11 DEF Truncate, Files, Types, Label
<1>12. CASE SaveIndex(p)
  <2>1. Changed(indexCopy[p], task[p]) \in Index
    BY ChangedIsGood DEF Types
  <2> QED
    <3>1. damaged' \subseteq Files /\ writing' \in [Process -> Files \cup {None}] /\ overlapped' \subseteq Process
      BY <1>12 DEF SaveIndex, Written, Types, Files
    <3>2. /\ task' \in [Process -> Task] /\ pc' \in [Process -> Label]
          /\ copy' \in [Process -> Statuses] /\ indexCopy' \in [Process -> Index]
      BY <1>12, <1>a DEF SaveIndex, AfterSaveIndex, Return, Goto, Types, Label
    <3> QED
      BY <1>12, <2>1, <3>1, <3>2 DEF SaveIndex, Types
<1>13. CASE UpsertItems(p)
  <2>1. index \in Index /\ task[p].items \in SUBSET Candidate /\ task[p].document \in Document \cup {None}
    BY DEF Types, Task
  <2>2. PICK more \in SUBSET Candidate, docs \in Documents :
          index' = [index EXCEPT !.built = TRUE, !.lessons = more, !.documents = docs]
    <3>1. index.lessons \cup task[p].items \in SUBSET Candidate
          /\ index.documents \cup ({task[p].document} \ {None}) \in Documents
      BY <2>1 DEF Index, Documents
    <3> QED
      BY <1>13, <3>1 DEF UpsertItems
  <2>3. index' \in Index
    BY <2>1, <2>2 DEF Index
  <2> QED
    BY <1>13, <1>a, <2>3 DEF UpsertItems, AfterSaveIndex, Return, Goto, Types, Label
<1>14. CASE Crash(p)
  BY <1>14, <1>a DEF Crash, Return, Goto, Types, Label, Files
<1> QED
  BY <1>1, <1>2, <1>3, <1>4, <1>5, <1>6, <1>7, <1>8, <1>9, <1>10, <1>11, <1>12, <1>13, <1>14 DEF OtherStep


\* Statuses that are none are permitted, and so are those a process already has.
LEMMA CopiesStay ==
    ASSUME Types, Gate, Grows, NEW q \in Process,
           \/ copy'[q] = copy[q]
           \/ copy'[q] = NoneThere
    PROVE  Permitted(copy[q])'
<1>1. copy[q] \in Statuses /\ Permitted(copy[q])
  BY DEF Types, Gate
<1>2. \A c : Good(c) => Good(c)'
  BY GoodStays
<1>3. CASE copy'[q] = copy[q]
  BY <1>1, <1>3, GoodStays
<1>4. CASE copy'[q] = NoneThere
  BY <1>4 DEF Permitted, NoneThere, Approved
<1> QED
  BY <1>3, <1>4

\* After a save a task has its candidates, and items that were approved in it.
LEMMA AfterSaveKeeps ==
    ASSUME Types, NEW p \in Process, AfterSave(p)
    PROVE  /\ task'[p].on \subseteq task[p].on
           /\ task'[p].items \subseteq task[p].items \cup Items(p)
           /\ pc'[p] \notin {"verify", "save"}
<1>1. task[p] \in Task
  BY DEF Types
<1>2. CASE Items(p) # {}
  BY <1>1, <1>2 DEF AfterSave, Goto, Types, Task
<1>3. CASE Items(p) = {} /\ ~Return(p)
  <2>1. /\ task' = [task EXCEPT ![p] = [task[p] EXCEPT !.op = "review"]]
        /\ pc' = [pc EXCEPT ![p] = "load"]
    BY <1>3 DEF AfterSave, Goto
  <2>2. task'[p] = [task[p] EXCEPT !.op = "review"] /\ pc'[p] = "load"
    BY <2>1 DEF Types
  <2> QED
    BY <1>1, <2>2 DEF Task
<1>4. CASE Return(p)
  BY <1>1, <1>4 DEF Return, Goto, NoTask, Types, Task
<1> QED
  BY <1>2, <1>3, <1>4

\* No step lets anything else into the store or a copy.
LEMMA GateStep ==
    ASSUME Types, Gate, Places, NEW p \in Process, Begin(p) \/ LoadStep(p) \/ OtherStep(p)
    PROVE  Gate'
<1>a. /\ Grows /\ \A c : Good(c) => Good(c)'
      /\ \A c \in Known : c \in Known' /\ lessonOf'[c] = lessonOf[c]
  BY StepGrows, GoodStays DEF Grows
<1>b. NoTask.on = {} /\ NoTask.items = {} /\ \A c \in Candidate : NoneThere[c] = "absent"
  BY DEF NoTask, NoneThere
<1>c. Permitted(store)'
  <2>1. CASE OtherStep(p)
    <3>1. lessonOf' = lessonOf /\ endorsed' = endorsed /\ Known' = Known
      BY <2>1 DEF OtherStep, CheckLesson, Truncate, SaveCandidates, UpsertCandidate, EnsureIndex,
         LoadIndex, SaveEmbedding, SaveIndex, UpsertItems, Crash, Known
    <3>2. CASE store' = store
      BY <1>a, <3>1, <3>2 DEF Gate, Permitted
    <3>3. CASE store' # store
      <4>1. /\ \A c \in Candidate : store'[c] = store[c] \/ store'[c] = copy[p][c]
            /\ Permitted(store) /\ Permitted(copy[p])
        BY <2>1, <3>3 DEF OtherStep, CheckLesson, Truncate, SaveCandidates, UpsertCandidate, EnsureIndex,
           LoadIndex, SaveEmbedding, SaveIndex, UpsertItems, Crash, Gate, Types, Statuses
      <4> QED
        BY <1>a, <3>1, <4>1 DEF Permitted
    <3> QED
      BY <3>2, <3>3
  <2>2. CASE Begin(p) \/ LoadStep(p)
    <3>1. store' = store /\ Permitted(store) /\ store \in Statuses
      BY <2>2 DEF Begin, Start, LoadStep, Gate, Types
    <3> QED
      BY <1>a, <3>1, GoodStays
  <2> QED
    BY <2>1, <2>2
<1>1. CASE Begin(p)
  <2>1. PICK t, l : Begins(t, l) /\ Start(p, t, l)
    BY <1>1 DEF Begin
  <2>2. \A q \in Process \ {p} : copy'[q] = copy[q] /\ task'[q] = task[q] /\ pc'[q] = pc[q]
    BY <2>1 DEF Start, Goto, Types
  <2>3. copy' = copy /\ task'[p] = t /\ pc'[p] = l
    BY <2>1 DEF Start, Goto, Types
  <2> QED
    BY <1>a, <1>c, <2>1, <2>2, <2>3, CopiesStay DEF Gate, Begins
<1>2. CASE LoadStep(p)
  <2>1. CASE Done(p)
    <3>1. \A q \in Process \ {p} : copy'[q] = copy[q] /\ task'[q] = task[q] /\ pc'[q] = pc[q]
      BY <2>1 DEF Done, Return, Goto, Types
    <3>2. copy'[p] = NoneThere /\ task'[p] = NoTask /\ pc'[p] = "idle"
      BY <2>1 DEF Done, Return, Goto, Types
    <3> QED
      BY <1>a, <1>b, <1>c, <3>1, <3>2, CopiesStay DEF Gate
  <2>2. CASE ~Done(p)
    <3>1. PICK on \in SUBSET Candidate, statuses \in Statuses, l \in {"verify", "save"} :
             /\ Loaded(p, on, statuses, l)
             /\ on \subseteq Known' /\ Permitted(statuses)'
             /\ \A c \in on : statuses[c] # "absent"
      BY <1>2, <2>2 DEF LoadStep
    <3>2. \A q \in Process \ {p} : copy'[q] = copy[q] /\ task'[q] = task[q] /\ pc'[q] = pc[q]
      BY <3>1 DEF Loaded, Goto, Types
    <3>3. /\ copy'[p] = statuses /\ pc'[p] = l
          /\ task'[p].on = on /\ task'[p].items = task[p].items
      BY <3>1 DEF Loaded, Goto, Types, Task
    <3>4. Permitted(copy[p])'
      BY <3>1, <3>3 DEF Permitted
    <3> QED
      BY <1>a, <1>c, <3>1, <3>2, <3>3, <3>4, CopiesStay DEF Gate
  <2> QED
    BY <2>1, <2>2
<1>3. CASE CheckLesson(p)
  <2>1. \A q \in Process \ {p} : copy'[q] = copy[q] /\ task'[q] = task[q] /\ pc'[q] = pc[q]
    BY <1>3 DEF CheckLesson, Done, Return, Goto, Types
  <2>2. copy'[p] = copy[p] \/ copy'[p] = NoneThere
    BY <1>3 DEF CheckLesson, Done, Return, Goto, Types
  <2>3. /\ task'[p].on \subseteq Known' /\ \A c \in task'[p].items : Good(c)'
        /\ pc'[p] \in {"verify", "save"} => \A c \in task'[p].on : copy'[p][c] # "absent"
    BY <1>a, <1>b, <1>3 DEF CheckLesson, Done, Return, Goto, Types, Gate, Task
  <2> QED
    BY <1>a, <1>c, <2>1, <2>2, <2>3, CopiesStay DEF Gate
<1>4. CASE Truncate(p, "save", "candidates")
  <2>1. \A q \in Process \ {p} : copy'[q] = copy[q] /\ task'[q] = task[q] /\ pc'[q] = pc[q]
    BY <1>4 DEF Truncate, Files, Types
  <2>2. copy'[p] = copy[p] \/ copy'[p] = NoneThere
    BY <1>4 DEF Truncate, Files, Types
  <2>3. /\ task'[p].on \subseteq Known' /\ \A c \in task'[p].items : Good(c)'
        /\ pc'[p] \in {"verify", "save"} => \A c \in task'[p].on : copy'[p][c] # "absent"
    BY <1>a, <1>b, <1>4 DEF Truncate, Files, Types, Gate, Task
  <2> QED
    BY <1>a, <1>c, <2>1, <2>2, <2>3, CopiesStay DEF Gate
<1>5. CASE SaveCandidates(p)
  <2>1. \A q \in Process \ {p} : copy'[q] = copy[q] /\ task'[q] = task[q] /\ pc'[q] = pc[q]
    BY <1>5 DEF SaveCandidates, Written, AfterSave, Items, Return, Goto, Types
  <2>2. copy'[p] = copy[p] \/ copy'[p] = NoneThere
    BY <1>5 DEF SaveCandidates, Written, AfterSave, Items, Return, Goto, Types
  <2>3. task[p] \in Task /\ \A c \in Items(p) : Good(c)
    BY DEF Items, Types, Task, Gate, Permitted
  <2>4. /\ task'[p].on \subseteq task[p].on /\ task'[p].items \subseteq task[p].items \cup Items(p)
        /\ pc'[p] \in {"verify", "save"} => copy'[p] = copy[p]
    <3>1. AfterSave(p)
      BY <1>5 DEF SaveCandidates
    <3> QED
      BY <3>1, AfterSaveKeeps
  <2>5. /\ task'[p].on \subseteq Known' /\ \A c \in task'[p].items : Good(c)'
        /\ pc'[p] \in {"verify", "save"} => \A c \in task'[p].on : copy'[p][c] # "absent"
    BY <1>a, <1>5, <2>3, <2>4 DEF Gate, SaveCandidates
  <2> QED
    BY <1>a, <1>c, <2>1, <2>2, <2>5, CopiesStay DEF Gate
<1>6. CASE UpsertCandidate(p)
  <2>1. \A q \in Process \ {p} : copy'[q] = copy[q] /\ task'[q] = task[q] /\ pc'[q] = pc[q]
    BY <1>6 DEF UpsertCandidate, AfterSave, Items, Return, Goto, Types
  <2>2. copy'[p] = copy[p] \/ copy'[p] = NoneThere
    BY <1>6 DEF UpsertCandidate, AfterSave, Items, Return, Goto, Types
  <2>3. task[p] \in Task /\ \A c \in Items(p) : Good(c)
    BY DEF Items, Types, Task, Gate, Permitted
  <2>4. /\ task'[p].on \subseteq task[p].on /\ task'[p].items \subseteq task[p].items \cup Items(p)
        /\ pc'[p] \in {"verify", "save"} => copy'[p] = copy[p]
    <3>1. PICK c \in task[p].on :
            LET left == task[p].on \ {c}
                items == task[p].items \cup (Items(p) \cap {c})
            IN IF left # {}
               THEN /\ task' = [task EXCEPT ![p].on = left, ![p].items = items]
                    /\ UNCHANGED <<pc, copy, indexCopy>>
               ELSE IF items # {}
               THEN /\ task' = [task EXCEPT ![p].items = items]
                    /\ Goto(p, "saveIndex")
                    /\ UNCHANGED <<copy, indexCopy>>
               ELSE AfterSave(p)
      BY <1>6 DEF UpsertCandidate
    <3>2. CASE task[p].on \ {c} # {}
      BY <2>3, <3>1, <3>2 DEF Types, Task
    <3>3. CASE task[p].on \ {c} = {} /\ task[p].items \cup (Items(p) \cap {c}) # {}
      BY <2>3, <3>1, <3>3 DEF Goto, Types, Task
    <3>4. CASE task[p].on \ {c} = {} /\ task[p].items \cup (Items(p) \cap {c}) = {}
      BY <3>1, <3>4, AfterSaveKeeps
    <3> QED
      BY <3>2, <3>3, <3>4
  <2>5. /\ task'[p].on \subseteq Known' /\ \A c \in task'[p].items : Good(c)'
        /\ pc'[p] \in {"verify", "save"} => \A c \in task'[p].on : copy'[p][c] # "absent"
    BY <1>a, <1>6, <2>3, <2>4 DEF Gate, UpsertCandidate
  <2> QED
    BY <1>a, <1>c, <2>1, <2>2, <2>5, CopiesStay DEF Gate
<1>7. CASE EnsureIndex(p)
  <2>1. \A q \in Process \ {p} : copy'[q] = copy[q] /\ task'[q] = task[q] /\ pc'[q] = pc[q]
    BY <1>7 DEF EnsureIndex, Goto, Types
  <2>2. copy'[p] = copy[p] \/ copy'[p] = NoneThere
    BY <1>7 DEF EnsureIndex, Goto, Types
  <2>3. /\ task'[p].on \subseteq Known' /\ \A c \in task'[p].items : Good(c)'
        /\ pc'[p] \in {"verify", "save"} => \A c \in task'[p].on : copy'[p][c] # "absent"
    BY <1>a, <1>b, <1>7 DEF EnsureIndex, Goto, Types, Gate, Task
  <2> QED
    BY <1>a, <1>c, <2>1, <2>2, <2>3, CopiesStay DEF Gate
<1>8. CASE LoadIndex(p)
  <2>1. \A q \in Process \ {p} : copy'[q] = copy[q] /\ task'[q] = task[q] /\ pc'[q] = pc[q]
    BY <1>8 DEF LoadIndex, Done, Return, Goto, Types
  <2>2. copy'[p] = copy[p] \/ copy'[p] = NoneThere
    BY <1>8 DEF LoadIndex, Done, Return, Goto, Types
  <2>3. /\ task'[p].on \subseteq Known' /\ \A c \in task'[p].items : Good(c)'
        /\ pc'[p] \in {"verify", "save"} => \A c \in task'[p].on : copy'[p][c] # "absent"
    BY <1>a, <1>b, <1>8 DEF LoadIndex, Done, Return, Goto, Types, Gate, Task
  <2> QED
    BY <1>a, <1>c, <2>1, <2>2, <2>3, CopiesStay DEF Gate
<1>9. CASE Truncate(p, "embed", "index")
  <2>1. \A q \in Process \ {p} : copy'[q] = copy[q] /\ task'[q] = task[q] /\ pc'[q] = pc[q]
    BY <1>9 DEF Truncate, Files, Types
  <2>2. copy'[p] = copy[p] \/ copy'[p] = NoneThere
    BY <1>9 DEF Truncate, Files, Types
  <2>3. /\ task'[p].on \subseteq Known' /\ \A c \in task'[p].items : Good(c)'
        /\ pc'[p] \in {"verify", "save"} => \A c \in task'[p].on : copy'[p][c] # "absent"
    BY <1>a, <1>b, <1>9 DEF Truncate, Files, Types, Gate, Task
  <2> QED
    BY <1>a, <1>c, <2>1, <2>2, <2>3, CopiesStay DEF Gate
<1>10. CASE SaveEmbedding(p)
  <2>1. \A q \in Process \ {p} : copy'[q] = copy[q] /\ task'[q] = task[q] /\ pc'[q] = pc[q]
    BY <1>10 DEF SaveEmbedding, Written, Goto, Types
  <2>2. copy'[p] = copy[p] \/ copy'[p] = NoneThere
    BY <1>10 DEF SaveEmbedding, Written, Goto, Types
  <2>3. /\ task'[p].on \subseteq Known' /\ \A c \in task'[p].items : Good(c)'
        /\ pc'[p] \in {"verify", "save"} => \A c \in task'[p].on : copy'[p][c] # "absent"
    BY <1>a, <1>b, <1>10 DEF SaveEmbedding, Written, Goto, Types, Gate, Task
  <2> QED
    BY <1>a, <1>c, <2>1, <2>2, <2>3, CopiesStay DEF Gate
<1>11. CASE Truncate(p, "saveIndex", "index")
  <2>1. \A q \in Process \ {p} : copy'[q] = copy[q] /\ task'[q] = task[q] /\ pc'[q] = pc[q]
    BY <1>11 DEF Truncate, Files, Types
  <2>2. copy'[p] = copy[p] \/ copy'[p] = NoneThere
    BY <1>11 DEF Truncate, Files, Types
  <2>3. /\ task'[p].on \subseteq Known' /\ \A c \in task'[p].items : Good(c)'
        /\ pc'[p] \in {"verify", "save"} => \A c \in task'[p].on : copy'[p][c] # "absent"
    BY <1>a, <1>b, <1>11 DEF Truncate, Files, Types, Gate, Task
  <2> QED
    BY <1>a, <1>c, <2>1, <2>2, <2>3, CopiesStay DEF Gate
<1>12. CASE SaveIndex(p)
  <2>1. \A q \in Process \ {p} : copy'[q] = copy[q] /\ task'[q] = task[q] /\ pc'[q] = pc[q]
    BY <1>12 DEF SaveIndex, Written, AfterSaveIndex, Return, Goto, Types
  <2>2. copy'[p] = copy[p] \/ copy'[p] = NoneThere
    BY <1>12 DEF SaveIndex, Written, AfterSaveIndex, Return, Goto, Types
  <2>3. /\ task'[p].on \subseteq Known' /\ \A c \in task'[p].items : Good(c)'
        /\ pc'[p] \in {"verify", "save"} => \A c \in task'[p].on : copy'[p][c] # "absent"
    BY <1>a, <1>b, <1>12 DEF SaveIndex, Written, AfterSaveIndex, Return, Goto, Types, Gate, Task
  <2> QED
    BY <1>a, <1>c, <2>1, <2>2, <2>3, CopiesStay DEF Gate
<1>13. CASE UpsertItems(p)
  <2>1. \A q \in Process \ {p} : copy'[q] = copy[q] /\ task'[q] = task[q] /\ pc'[q] = pc[q]
    BY <1>13 DEF UpsertItems, AfterSaveIndex, Return, Goto, Types
  <2>2. copy'[p] = copy[p] \/ copy'[p] = NoneThere
    BY <1>13 DEF UpsertItems, AfterSaveIndex, Return, Goto, Types
  <2>3. /\ task'[p].on \subseteq Known' /\ \A c \in task'[p].items : Good(c)'
        /\ pc'[p] \in {"verify", "save"} => \A c \in task'[p].on : copy'[p][c] # "absent"
    BY <1>a, <1>b, <1>13 DEF UpsertItems, AfterSaveIndex, Return, Goto, Types, Gate, Task
  <2> QED
    BY <1>a, <1>c, <2>1, <2>2, <2>3, CopiesStay DEF Gate
<1>14. CASE Crash(p)
  <2>1. \A q \in Process \ {p} : copy'[q] = copy[q] /\ task'[q] = task[q] /\ pc'[q] = pc[q]
    BY <1>14 DEF Crash, Return, Goto, Types
  <2>2. copy'[p] = copy[p] \/ copy'[p] = NoneThere
    BY <1>14 DEF Crash, Return, Goto, Types
  <2>3. /\ task'[p].on \subseteq Known' /\ \A c \in task'[p].items : Good(c)'
        /\ pc'[p] \in {"verify", "save"} => \A c \in task'[p].on : copy'[p][c] # "absent"
    BY <1>a, <1>b, <1>14 DEF Crash, Return, Goto, Types, Gate, Task
  <2> QED
    BY <1>a, <1>c, <2>1, <2>2, <2>3, CopiesStay DEF Gate
<1> QED
  BY <1>1, <1>2, <1>3, <1>4, <1>5, <1>6, <1>7, <1>8, <1>9, <1>10, <1>11, <1>12, <1>13, <1>14 DEF OtherStep

\* After a save a task goes on with its operation or a review, or is over.
LEMMA AfterSavePlace ==
    ASSUME Types, Places, NEW p \in Process, AfterSave(p), writing'[p] = None, faults' = faults
    PROVE  Place(p)'
<1>1. task[p] \in Task /\ Place(p)
  BY DEF Types, Places
<1>2. CASE Items(p) # {}
  <2>1. task[p].op \in Reviewing
    BY <1>2 DEF Items, Reviewing
  <2>2. task'[p] = [task[p] EXCEPT !.items = Items(p)]
        /\ pc'[p] = IF InFiles THEN "loadIndex" ELSE "saveIndex"
    BY <1>2 DEF AfterSave, Goto, Types
  <2> QED
    BY <1>1, <2>1, <2>2 DEF Place, Task, Reviewing, InFiles
<1>3. CASE Items(p) = {} /\ ~Return(p)
  <2>1. /\ task' = [task EXCEPT ![p] = [task[p] EXCEPT !.op = "review"]]
        /\ pc' = [pc EXCEPT ![p] = "load"] /\ task[p].op = "learn"
    BY <1>3 DEF AfterSave, Goto
  <2>2. task'[p] = [task[p] EXCEPT !.op = "review"] /\ pc'[p] = "load"
    BY <2>1 DEF Types
  <2> QED
    BY <1>1, <2>1, <2>2 DEF Place, Task, Reviewing
<1>4. CASE Return(p)
  BY <1>1, <1>4 DEF Return, Goto, NoTask, Types, Place
<1> QED
  BY <1>2, <1>3, <1>4

\* The step a process goes to fits its operation.
LEMMA PlacesStep ==
    ASSUME Types, Indexes, Places, NEW p \in Process, Begin(p) \/ LoadStep(p) \/ OtherStep(p)
    PROVE  Places'
<1>a. /\ task[p] \in Task /\ Place(p) /\ index \in Index /\ indexCopy[p] \in Index
      /\ ~InFiles => writing[p] = None
  BY DEF Types, Places, Indexes
<1>b. faults' = faults
  BY DEF Begin, Start, LoadStep, OtherStep, CheckLesson, Truncate, SaveCandidates, UpsertCandidate,
     EnsureIndex, LoadIndex, SaveEmbedding, SaveIndex, UpsertItems, Crash
<1>1. CASE Begin(p)
  <2>1. PICK t, l : Begins(t, l) /\ Start(p, t, l)
    BY <1>1 DEF Begin
  <2>2. \A q \in Process \ {p} : indexCopy'[q] = indexCopy[q] /\ task'[q] = task[q] /\ pc'[q] = pc[q] /\ writing'[q] = writing[q]
    BY <2>1 DEF Start, Goto, Types
  <2>3. /\ task'[p] = t /\ pc'[p] = l /\ pc[p] = "idle" /\ writing'[p] = writing[p]
        /\ indexCopy'[p] = indexCopy[p]
    BY <2>1 DEF Start, Goto, Types
  <2>4. Place(p)'
    BY <1>a, <1>b, <2>1, <2>3 DEF Begins, Place, InFiles
  <2> QED
    BY <1>b, <2>2, <2>4 DEF Places, Place, InFiles
<1>2. CASE LoadStep(p)
  <2>1. CASE Done(p)
    <3>1. \A q \in Process \ {p} : indexCopy'[q] = indexCopy[q] /\ task'[q] = task[q] /\ pc'[q] = pc[q] /\ writing'[q] = writing[q]
      BY <2>1 DEF Done, Return, Goto, Types
    <3>2. Place(p)'
      BY <1>a, <1>2, <2>1 DEF LoadStep, Done, Return, Goto, Types, Place, NoTask
    <3> QED
      BY <1>b, <3>1, <3>2 DEF Places, Place, InFiles
  <2>2. CASE ~Done(p)
    <3>1. PICK on \in SUBSET Candidate, statuses \in Statuses, l \in {"verify", "save"} :
             Loaded(p, on, statuses, l)
      BY <1>2, <2>2 DEF LoadStep
    <3>2. \A q \in Process \ {p} : indexCopy'[q] = indexCopy[q] /\ task'[q] = task[q] /\ pc'[q] = pc[q] /\ writing'[q] = writing[q]
      BY <3>1 DEF Loaded, Goto, Types
    <3>3. /\ pc'[p] = l /\ writing'[p] = writing[p] /\ pc[p] \in {"load", "verify"}
          /\ task'[p].op = task[p].op /\ task'[p].items = task[p].items
      BY <1>2, <3>1 DEF LoadStep, Loaded, Goto, Types, Task
    <3>4. Place(p)'
      BY <1>a, <1>b, <3>3 DEF Place
    <3> QED
      BY <1>b, <3>2, <3>4 DEF Places, Place, InFiles
  <2> QED
    BY <2>1, <2>2
<1>3. CASE CheckLesson(p)
  <2>1. \A q \in Process \ {p} : indexCopy'[q] = indexCopy[q] /\ task'[q] = task[q] /\ pc'[q] = pc[q] /\ writing'[q] = writing[q]
    BY <1>3 DEF CheckLesson, Done, Return, Goto, Types
  <2>2. Place(p)'
    BY <1>a, <1>3 DEF CheckLesson, Done, Return, Goto, Types, Place, Task, Index, InFiles, NoTask
  <2> QED
    BY <1>b, <2>1, <2>2 DEF Places, Place, InFiles
<1>4. CASE Truncate(p, "save", "candidates")
  <2>1. \A q \in Process \ {p} : indexCopy'[q] = indexCopy[q] /\ task'[q] = task[q] /\ pc'[q] = pc[q] /\ writing'[q] = writing[q]
    BY <1>4 DEF Truncate, Files, Types
  <2>2. Place(p)'
    BY <1>a, <1>4 DEF Truncate, Files, Types, Place, Task, Index, InFiles, NoTask
  <2> QED
    BY <1>b, <2>1, <2>2 DEF Places, Place, InFiles
<1>5. CASE SaveCandidates(p)
  <2>1. \A q \in Process \ {p} : indexCopy'[q] = indexCopy[q] /\ task'[q] = task[q] /\ pc'[q] = pc[q] /\ writing'[q] = writing[q]
    BY <1>5 DEF SaveCandidates, Written, AfterSave, Items, Return, Goto, Types
  <2>2. Place(p)'
    BY <1>5, AfterSavePlace DEF SaveCandidates, Written, Types
  <2> QED
    BY <1>b, <2>1, <2>2 DEF Places, Place, InFiles
<1>6. CASE UpsertCandidate(p)
  <2>1. \A q \in Process \ {p} : indexCopy'[q] = indexCopy[q] /\ task'[q] = task[q] /\ pc'[q] = pc[q] /\ writing'[q] = writing[q]
    BY <1>6 DEF UpsertCandidate, AfterSave, Items, Return, Goto, Types
  <2>2. Place(p)'
    <3>1. PICK c \in task[p].on :
            LET left == task[p].on \ {c}
                items == task[p].items \cup (Items(p) \cap {c})
            IN IF left # {}
               THEN /\ task' = [task EXCEPT ![p].on = left, ![p].items = items]
                    /\ UNCHANGED <<pc, copy, indexCopy>>
               ELSE IF items # {}
               THEN /\ task' = [task EXCEPT ![p].items = items]
                    /\ Goto(p, "saveIndex")
                    /\ UNCHANGED <<copy, indexCopy>>
               ELSE AfterSave(p)
      BY <1>6 DEF UpsertCandidate
    <3>2. CASE task[p].on \ {c} # {}
      BY <1>a, <1>6, <3>1, <3>2 DEF UpsertCandidate, Types, Task, Place, InFiles, Items, Reviewing
    <3>3. CASE task[p].on \ {c} = {} /\ task[p].items \cup (Items(p) \cap {c}) # {}
      BY <1>a, <1>6, <3>1, <3>3 DEF UpsertCandidate, Goto, Types, Task, Place, InFiles, Items, Reviewing
    <3>4. CASE task[p].on \ {c} = {} /\ task[p].items \cup (Items(p) \cap {c}) = {}
      BY <1>a, <1>b, <1>6, <3>1, <3>4, AfterSavePlace DEF UpsertCandidate, InFiles
    <3> QED
      BY <3>2, <3>3, <3>4
  <2> QED
    BY <1>b, <2>1, <2>2 DEF Places, Place, InFiles
<1>7. CASE EnsureIndex(p)
  <2>1. \A q \in Process \ {p} : indexCopy'[q] = indexCopy[q] /\ task'[q] = task[q] /\ pc'[q] = pc[q] /\ writing'[q] = writing[q]
    BY <1>7 DEF EnsureIndex, Goto, Types
  <2>2. Place(p)'
    BY <1>a, <1>7 DEF EnsureIndex, Goto, Types, Place, Task, Index, InFiles, NoTask
  <2> QED
    BY <1>b, <2>1, <2>2 DEF Places, Place, InFiles
<1>8. CASE LoadIndex(p)
  <2>1. \A q \in Process \ {p} : indexCopy'[q] = indexCopy[q] /\ task'[q] = task[q] /\ pc'[q] = pc[q] /\ writing'[q] = writing[q]
    BY <1>8 DEF LoadIndex, Done, Return, Goto, Types
  <2>2. Place(p)'
    BY <1>a, <1>8 DEF LoadIndex, Done, Return, Goto, Types, Place, Task, Index, InFiles, NoTask
  <2> QED
    BY <1>b, <2>1, <2>2 DEF Places, Place, InFiles
<1>9. CASE Truncate(p, "embed", "index")
  <2>1. \A q \in Process \ {p} : indexCopy'[q] = indexCopy[q] /\ task'[q] = task[q] /\ pc'[q] = pc[q] /\ writing'[q] = writing[q]
    BY <1>9 DEF Truncate, Files, Types
  <2>2. Place(p)'
    BY <1>a, <1>9 DEF Truncate, Files, Types, Place, Task, Index, InFiles, NoTask
  <2> QED
    BY <1>b, <2>1, <2>2 DEF Places, Place, InFiles
<1>10. CASE SaveEmbedding(p)
  <2>1. \A q \in Process \ {p} : indexCopy'[q] = indexCopy[q] /\ task'[q] = task[q] /\ pc'[q] = pc[q] /\ writing'[q] = writing[q]
    BY <1>10 DEF SaveEmbedding, Written, Goto, Types
  <2>2. Place(p)'
    BY <1>a, <1>10 DEF SaveEmbedding, Written, Goto, Types, Place, Task, Index, InFiles, NoTask
  <2> QED
    BY <1>b, <2>1, <2>2 DEF Places, Place, InFiles
<1>11. CASE Truncate(p, "saveIndex", "index")
  <2>1. \A q \in Process \ {p} : indexCopy'[q] = indexCopy[q] /\ task'[q] = task[q] /\ pc'[q] = pc[q] /\ writing'[q] = writing[q]
    BY <1>11 DEF Truncate, Files, Types
  <2>2. Place(p)'
    BY <1>a, <1>11 DEF Truncate, Files, Types, Place, Task, Index, InFiles, NoTask
  <2> QED
    BY <1>b, <2>1, <2>2 DEF Places, Place, InFiles
<1>12. CASE SaveIndex(p)
  <2>1. \A q \in Process \ {p} : indexCopy'[q] = indexCopy[q] /\ task'[q] = task[q] /\ pc'[q] = pc[q] /\ writing'[q] = writing[q]
    BY <1>12 DEF SaveIndex, Written, AfterSaveIndex, Return, Goto, Types
  <2>2. Place(p)'
    BY <1>a, <1>12 DEF SaveIndex, Written, AfterSaveIndex, Return, Goto, Types, Place, Task, Index, InFiles, NoTask
  <2> QED
    BY <1>b, <2>1, <2>2 DEF Places, Place, InFiles
<1>13. CASE UpsertItems(p)
  <2>1. \A q \in Process \ {p} : indexCopy'[q] = indexCopy[q] /\ task'[q] = task[q] /\ pc'[q] = pc[q] /\ writing'[q] = writing[q]
    BY <1>13 DEF UpsertItems, AfterSaveIndex, Return, Goto, Types
  <2>2. Place(p)'
    BY <1>a, <1>13 DEF UpsertItems, AfterSaveIndex, Return, Goto, Types, Place, Task, Index, InFiles, NoTask
  <2> QED
    BY <1>b, <2>1, <2>2 DEF Places, Place, InFiles
<1>14. CASE Crash(p)
  <2>1. \A q \in Process \ {p} : indexCopy'[q] = indexCopy[q] /\ task'[q] = task[q] /\ pc'[q] = pc[q] /\ writing'[q] = writing[q]
    BY <1>14 DEF Crash, Return, Goto, Types
  <2>2. Place(p)'
    BY <1>a, <1>14 DEF Crash, Return, Goto, Types, Place, Task, Index, InFiles, NoTask
  <2> QED
    BY <1>b, <2>1, <2>2 DEF Places, Place, InFiles
<1> QED
  BY <1>1, <1>2, <1>3, <1>4, <1>5, <1>6, <1>7, <1>8, <1>9, <1>10, <1>11, <1>12, <1>13, <1>14 DEF OtherStep

\* A good index stays one, and none is one.
LEMMA IndexStays ==
    ASSUME Types, Grows, NEW ix, GoodIndex(ix)
    PROVE  /\ \A c \in ix.lessons : Good(c)'
           /\ ix.cache # None => ix.cache.lessons = ix.lessons /\ ix.cache.documents \subseteq ix.documents
           /\ ix.built \/ ix.lessons = {}
BY GoodStays DEF GoodIndex

\* Whatever index is written is a good one.
LEMMA IndexesStep ==
    ASSUME Types, Gate, Indexes, Places, NEW p \in Process, Begin(p) \/ LoadStep(p) \/ OtherStep(p)
    PROVE  Indexes'
<1>a. faults' = faults /\ (InFiles \/ (index.cache = None /\ \A q \in Process : writing[q] = None))
  BY DEF Begin, Start, LoadStep, OtherStep, CheckLesson, Truncate, SaveCandidates, UpsertCandidate,
     EnsureIndex, LoadIndex, SaveEmbedding, SaveIndex, UpsertItems, Crash, Indexes
<1>b. /\ Grows /\ \A c : Good(c) => Good(c)'
      /\ NoIndex.lessons = {} /\ NoIndex.cache = None /\ ~NoIndex.built
  BY StepGrows, GoodStays DEF NoIndex
<1>c. GoodIndex(index) /\ \A q \in Process : GoodIndex(indexCopy[q])
  BY DEF Indexes
<1>1. CASE Begin(p)
  <2>1. PICK t, l : Begins(t, l) /\ Start(p, t, l)
    BY <1>1 DEF Begin
  <2>2. index' = index /\ indexCopy' = indexCopy /\ writing' = writing /\ InFiles' = InFiles
    BY <2>1 DEF Start, InFiles
  <2> QED
    BY <1>a, <1>b, <1>c, <2>2, IndexStays DEF Indexes, GoodIndex
<1>2. CASE LoadStep(p)
  <2>1. index' = index /\ writing' = writing /\ InFiles' = InFiles
    BY <1>2 DEF LoadStep, Done, Loaded, InFiles
  <2>2. \A q \in Process : indexCopy'[q] \in {indexCopy[q], NoIndex}
    BY <1>2 DEF LoadStep, Done, Return, Loaded, Types
  <2> QED
    BY <1>a, <1>b, <1>c, <2>1, <2>2, IndexStays DEF Indexes, GoodIndex
<1>3. CASE CheckLesson(p)
  <2>1. index' = index /\ \A q \in Process : indexCopy'[q] \in {indexCopy[q], index, NoIndex}
    BY <1>3 DEF CheckLesson, Done, Return, Goto, Types
  <2>2. InFiles' \/ \A q \in Process : writing'[q] = None
    BY <1>a, <1>3 DEF CheckLesson, Done, Return, Goto, Types, InFiles
  <2> QED
    BY <1>a, <1>b, <1>c, <2>1, <2>2, IndexStays DEF Indexes, GoodIndex, InFiles
<1>4. CASE Truncate(p, "save", "candidates")
  <2>1. index' = index /\ \A q \in Process : indexCopy'[q] \in {indexCopy[q], index, NoIndex}
    BY <1>4 DEF Truncate, Files, Types
  <2>2. InFiles' \/ \A q \in Process : writing'[q] = None
    BY <1>a, <1>4 DEF Truncate, Files, Types, InFiles
  <2> QED
    BY <1>a, <1>b, <1>c, <2>1, <2>2, IndexStays DEF Indexes, GoodIndex, InFiles
<1>5. CASE SaveCandidates(p)
  <2>1. index' = index /\ \A q \in Process : indexCopy'[q] \in {indexCopy[q], index, NoIndex}
    BY <1>5 DEF SaveCandidates, Written, AfterSave, Items, Return, Goto, Types
  <2>2. InFiles' \/ \A q \in Process : writing'[q] = None
    BY <1>a, <1>5 DEF SaveCandidates, Written, AfterSave, Items, Return, Goto, Types, InFiles
  <2> QED
    BY <1>a, <1>b, <1>c, <2>1, <2>2, IndexStays DEF Indexes, GoodIndex, InFiles
<1>6. CASE UpsertCandidate(p)
  <2>1. index' = index /\ \A q \in Process : indexCopy'[q] \in {indexCopy[q], index, NoIndex}
    BY <1>6 DEF UpsertCandidate, AfterSave, Items, Return, Goto, Types
  <2>2. InFiles' \/ \A q \in Process : writing'[q] = None
    BY <1>a, <1>6 DEF UpsertCandidate, AfterSave, Items, Return, Goto, Types, InFiles
  <2> QED
    BY <1>a, <1>b, <1>c, <2>1, <2>2, IndexStays DEF Indexes, GoodIndex, InFiles
<1>7. CASE EnsureIndex(p)
  <2>1. index' = index /\ \A q \in Process : indexCopy'[q] \in {indexCopy[q], index, NoIndex}
    BY <1>7 DEF EnsureIndex, Goto, Types
  <2>2. InFiles' \/ \A q \in Process : writing'[q] = None
    BY <1>a, <1>7 DEF EnsureIndex, Goto, Types, InFiles
  <2> QED
    BY <1>a, <1>b, <1>c, <2>1, <2>2, IndexStays DEF Indexes, GoodIndex, InFiles
<1>8. CASE LoadIndex(p)
  <2>1. index' = index /\ \A q \in Process : indexCopy'[q] \in {indexCopy[q], index, NoIndex}
    BY <1>8 DEF LoadIndex, Done, Return, Goto, Types
  <2>2. InFiles' \/ \A q \in Process : writing'[q] = None
    BY <1>a, <1>8 DEF LoadIndex, Done, Return, Goto, Types, InFiles
  <2> QED
    BY <1>a, <1>b, <1>c, <2>1, <2>2, IndexStays DEF Indexes, GoodIndex, InFiles
<1>9. CASE Truncate(p, "embed", "index")
  <2>1. index' = index /\ \A q \in Process : indexCopy'[q] \in {indexCopy[q], index, NoIndex}
    BY <1>9 DEF Truncate, Files, Types
  <2>2. InFiles' \/ \A q \in Process : writing'[q] = None
    BY <1>a, <1>9 DEF Truncate, Files, Types, InFiles
  <2> QED
    BY <1>a, <1>b, <1>c, <2>1, <2>2, IndexStays DEF Indexes, GoodIndex, InFiles
<1>10. CASE SaveEmbedding(p)
  <2>1. \A q \in Process : indexCopy'[q] \in {indexCopy[q], NoIndex}
    BY <1>10 DEF SaveEmbedding, Written, Goto, Types
  <2>2. GoodIndex(index)'
    BY <1>b, <1>c, <1>10, IndexStays DEF SaveEmbedding, GoodIndex
  <2>3. InFiles' \/ (index'.cache = None /\ \A q \in Process : writing'[q] = None)
    BY <1>a, <1>10, KnowledgeAssumption DEF SaveEmbedding, Written, Goto, Types, InFiles, Index
  <2> QED
    BY <1>b, <2>1, <2>2, <2>3, IndexStays DEF Indexes, GoodIndex
<1>11. CASE Truncate(p, "saveIndex", "index")
  <2>1. index' = index /\ \A q \in Process : indexCopy'[q] \in {indexCopy[q], index, NoIndex}
    BY <1>11 DEF Truncate, Files, Types
  <2>2. InFiles' \/ \A q \in Process : writing'[q] = None
    BY <1>a, <1>11 DEF Truncate, Files, Types, InFiles
  <2> QED
    BY <1>a, <1>b, <1>c, <2>1, <2>2, IndexStays DEF Indexes, GoodIndex, InFiles
<1>12. CASE SaveIndex(p)
  <2>1. \A q \in Process : indexCopy'[q] \in {indexCopy[q], NoIndex}
    BY <1>12 DEF SaveIndex, Written, AfterSaveIndex, Return, Goto, Types
  <2>2. GoodIndex(index)'
    <3>1. /\ indexCopy[p].built \/ task[p].op \in {"init", "learn"}
          /\ indexCopy[p] \in Index /\ task[p] \in Task /\ GoodIndex(indexCopy[p])
          /\ \A c \in task[p].items : Good(c)
      BY <1>a, <1>12, KnowledgeAssumption DEF SaveIndex, Types, Places, Place, Gate, Indexes
    <3>2. GoodIndex(Changed(indexCopy[p], task[p]))
      BY <3>1, ChangedIsGood
    <3> QED
      BY <1>b, <1>12, <3>2, IndexStays DEF SaveIndex, GoodIndex
  <2>3. InFiles' \/ (index'.cache = None /\ \A q \in Process : writing'[q] = None)
    BY <1>a, <1>12, KnowledgeAssumption DEF SaveIndex, Written, AfterSaveIndex, Return, Goto, Types, InFiles, Index
  <2> QED
    BY <1>b, <2>1, <2>2, <2>3, IndexStays DEF Indexes, GoodIndex
<1>13. CASE UpsertItems(p)
  <2>1. \A q \in Process : indexCopy'[q] \in {indexCopy[q], NoIndex}
    BY <1>13 DEF UpsertItems, AfterSaveIndex, Return, Goto, Types
  <2>2. GoodIndex(index)'
    <3>1. /\ index \in Index /\ index.cache = None /\ GoodIndex(index)
          /\ \A c \in task[p].items : Good(c)
      BY <1>a, <1>13 DEF UpsertItems, Types, Gate, Indexes
    <3>2. /\ index'.built /\ index'.lessons = index.lessons \cup task[p].items /\ index'.cache = None
      BY <1>13, <3>1 DEF UpsertItems, Index
    <3> QED
      BY <1>b, <3>1, <3>2 DEF GoodIndex
  <2>3. InFiles' \/ (index'.cache = None /\ \A q \in Process : writing'[q] = None)
    BY <1>a, <1>13, KnowledgeAssumption DEF UpsertItems, AfterSaveIndex, Return, Goto, Types, InFiles, Index
  <2> QED
    BY <1>b, <2>1, <2>2, <2>3, IndexStays DEF Indexes, GoodIndex
<1>14. CASE Crash(p)
  <2>1. index' = index /\ \A q \in Process : indexCopy'[q] \in {indexCopy[q], index, NoIndex}
    BY <1>14 DEF Crash, Return, Goto, Types
  <2>2. InFiles' \/ \A q \in Process : writing'[q] = None
    BY <1>a, <1>14 DEF Crash, Return, Goto, Types, InFiles
  <2> QED
    BY <1>a, <1>b, <1>c, <2>1, <2>2, IndexStays DEF Indexes, GoodIndex, InFiles
<1> QED
  BY <1>1, <1>2, <1>3, <1>4, <1>5, <1>6, <1>7, <1>8, <1>9, <1>10, <1>11, <1>12, <1>13, <1>14 DEF OtherStep

\* Processes that take turns go on with what is there.
LEMMA AloneStep ==
    ASSUME Types, Indexes, Places, Alone, NEW p \in Process, Begin(p) \/ LoadStep(p) \/ OtherStep(p)
    PROVE  Alone'
<1> SUFFICES ASSUME "peers" \notin faults'
             PROVE  /\ \A r, q \in Process : pc'[r] # "idle" /\ pc'[q] # "idle" => r = q
                    /\ overlapped' = {}
                    /\ \A q \in Process : Solo(q)'
  BY DEF Alone
<1>b. faults' = faults
  BY DEF Begin, Start, LoadStep, OtherStep, CheckLesson, Truncate, SaveCandidates, UpsertCandidate,
     EnsureIndex, LoadIndex, SaveEmbedding, SaveIndex, UpsertItems, Crash
<1>a. /\ task[p] \in Task /\ Place(p) /\ Solo(p) /\ index \in Index /\ indexCopy[p] \in Index
      /\ overlapped = {} /\ \A q \in Process : pc[p] # "idle" /\ pc[q] # "idle" => p = q
      /\ "peers" \notin faults
  BY <1>b DEF Types, Places, Alone
<1>c. Places
  OBVIOUS
<1>1. CASE Begin(p)
  <2>1. PICK t, l : Begins(t, l) /\ Start(p, t, l)
    BY <1>1 DEF Begin
  <2>2. \A q \in Process \ {p} : pc'[q] = pc[q] /\ pc[q] = "idle"
    BY <1>a, <2>1 DEF Start, Goto, Types
  <2>3. /\ task'[p] = t /\ pc'[p] = l /\ overlapped' = {} /\ InFiles' = InFiles
    BY <1>a, <2>1 DEF Start, Goto, Types, InFiles
  <2>4. Solo(p)'
    BY <2>1, <2>3 DEF Begins, Solo
  <2> QED
    BY <2>2, <2>3, <2>4 DEF Solo
<1>2. CASE LoadStep(p)
  <2>1. \A q \in Process \ {p} : pc'[q] = pc[q] /\ pc[p] # "idle"
    BY <1>2 DEF LoadStep, Done, Return, Loaded, Goto, Types
  <2>2. \A q \in Process \ {p} : pc[q] = "idle"
    BY <1>a, <2>1
  <2>3. overlapped' = {} /\ store' = store /\ faults' = faults
    BY <1>a, <1>2 DEF LoadStep, Done, Loaded
  <2>4. Solo(p)'
    <3>1. CASE Done(p)
      BY <3>1 DEF Done, Return, Goto, Types, Solo
    <3>2. CASE ~Done(p)
      <4>1. PICK on \in SUBSET Candidate, statuses \in Statuses, l \in {"verify", "save"} :
               Loaded(p, on, statuses, l) /\ Faithful(task[p].op, on, statuses)
        BY <1>a, <1>2, <3>2 DEF LoadStep
      <4>2. /\ pc'[p] = l /\ copy'[p] = statuses
            /\ task'[p].op = task[p].op /\ task'[p].on = on
        BY <1>a, <4>1 DEF Loaded, Goto, Types, Task
      <4> QED
        BY <2>3, <4>1, <4>2 DEF Solo, Faithful
    <3> QED
      BY <3>1, <3>2
  <2> QED
    BY <2>1, <2>2, <2>3, <2>4 DEF Solo
<1>3. CASE CheckLesson(p)
  <2>1. \A q \in Process \ {p} : pc'[q] = pc[q] /\ pc[p] # "idle"
    BY <1>3 DEF CheckLesson, Done, Return, Goto, Types
  <2>2. \A q \in Process \ {p} : pc[q] = "idle" /\ writing[q] = None
    BY <1>a, <2>1 DEF Places, Place
  <2>3. overlapped' = {}
    BY <1>a, <1>3, <2>2, KnowledgeAssumption DEF CheckLesson, Done, Return, Goto
  <2>4. Solo(p)'
    BY <1>a, <1>b, <1>3 DEF CheckLesson, Done, Return, Goto, Types, Solo, Place, InFiles, Index, Task
  <2> QED
    BY <1>c, <2>1, <2>2, <2>3, <2>4 DEF Solo
<1>4. CASE Truncate(p, "save", "candidates")
  <2>1. \A q \in Process \ {p} : pc'[q] = pc[q] /\ pc[p] # "idle"
    BY <1>4 DEF Truncate, Files, Types
  <2>2. \A q \in Process \ {p} : pc[q] = "idle" /\ writing[q] = None
    BY <1>a, <2>1 DEF Places, Place
  <2>3. overlapped' = {}
    BY <1>a, <1>4, <2>2, KnowledgeAssumption DEF Truncate, Files
  <2>4. Solo(p)'
    BY <1>a, <1>4 DEF Truncate, Solo, Faithful, InFiles
  <2> QED
    BY <1>c, <2>1, <2>2, <2>3, <2>4 DEF Solo
<1>5. CASE SaveCandidates(p)
  <2>1. \A q \in Process \ {p} : pc'[q] = pc[q] /\ pc[p] # "idle"
    BY <1>5 DEF SaveCandidates, Written, AfterSave, Items, Return, Goto, Types
  <2>2. \A q \in Process \ {p} : pc[q] = "idle" /\ writing[q] = None
    BY <1>a, <2>1 DEF Places, Place
  <2>3. overlapped' = {}
    BY <1>a, <1>5, <2>2, KnowledgeAssumption DEF SaveCandidates, Written, AfterSave, Items, Return, Goto
  <2>4. Solo(p)'
    <3>1. InFiles' = InFiles /\ pc'[p] \in IF InFiles THEN {"loadIndex", "load", "idle"} ELSE {"saveIndex", "load", "idle"}
      BY <1>5 DEF SaveCandidates, AfterSave, Return, Goto, Types, InFiles
    <3> QED
      BY <3>1 DEF Solo
  <2> QED
    BY <1>c, <2>1, <2>2, <2>3, <2>4 DEF Solo
<1>6. CASE UpsertCandidate(p)
  <2>1. \A q \in Process \ {p} : pc'[q] = pc[q] /\ pc[p] # "idle"
    BY <1>6 DEF UpsertCandidate, AfterSave, Items, Return, Goto, Types
  <2>2. \A q \in Process \ {p} : pc[q] = "idle" /\ writing[q] = None
    BY <1>a, <2>1 DEF Places, Place
  <2>3. overlapped' = {}
    BY <1>a, <1>6, <2>2, KnowledgeAssumption DEF UpsertCandidate, AfterSave, Items, Return, Goto
  <2>4. Solo(p)'
    <3>1. PICK c \in task[p].on :
            LET left == task[p].on \ {c}
                items == task[p].items \cup (Items(p) \cap {c})
            IN IF left # {}
               THEN /\ task' = [task EXCEPT ![p].on = left, ![p].items = items]
                    /\ UNCHANGED <<pc, copy, indexCopy>>
               ELSE IF items # {}
               THEN /\ task' = [task EXCEPT ![p].items = items]
                    /\ Goto(p, "saveIndex")
                    /\ UNCHANGED <<copy, indexCopy>>
               ELSE AfterSave(p)
      BY <1>6 DEF UpsertCandidate
    <3>2. CASE task[p].on \ {c} # {}
      <4>1. /\ task'[p].on = task[p].on \ {c} /\ task'[p].op = task[p].op
            /\ pc' = pc /\ copy' = copy /\ InFiles' = InFiles /\ ~InFiles /\ pc[p] = "save"
            /\ faults' = faults
        BY <1>a, <1>6, <3>1, <3>2 DEF UpsertCandidate, Types, Task, InFiles
      <4>2. \A d \in Candidate : store'[d] = IF d = c THEN copy[p][d] ELSE store[d]
        BY <1>a, <1>6, <3>1 DEF UpsertCandidate, Types, Statuses, Task
      <4>3. Faithful(task[p].op, task[p].on, copy[p])
        BY <1>a, <4>1 DEF Solo
      <4>4. Faithful(task[p].op, task[p].on, copy[p])'
        BY <4>1, <4>2, <4>3 DEF Faithful
      <4> QED
        BY <4>1, <4>4 DEF Solo
    <3>3. CASE task[p].on \ {c} = {}
      <4>1. InFiles' = InFiles /\ ~InFiles /\ pc'[p] \in {"saveIndex", "load", "idle"}
        BY <1>6, <3>1, <3>3 DEF UpsertCandidate, AfterSave, Return, Goto, Types, InFiles
      <4> QED
        BY <4>1 DEF Solo
    <3> QED
      BY <3>2, <3>3
  <2> QED
    BY <1>c, <2>1, <2>2, <2>3, <2>4 DEF Solo
<1>7. CASE EnsureIndex(p)
  <2>1. \A q \in Process \ {p} : pc'[q] = pc[q] /\ pc[p] # "idle"
    BY <1>7 DEF EnsureIndex, Goto, Types
  <2>2. \A q \in Process \ {p} : pc[q] = "idle" /\ writing[q] = None
    BY <1>a, <2>1 DEF Places, Place
  <2>3. overlapped' = {}
    BY <1>a, <1>7, <2>2, KnowledgeAssumption DEF EnsureIndex, Goto
  <2>4. Solo(p)'
    BY <1>a, <1>b, <1>7 DEF EnsureIndex, Goto, Types, Solo, Place, InFiles, Index, Task
  <2> QED
    BY <1>c, <2>1, <2>2, <2>3, <2>4 DEF Solo
<1>8. CASE LoadIndex(p)
  <2>1. \A q \in Process \ {p} : pc'[q] = pc[q] /\ pc[p] # "idle"
    BY <1>8 DEF LoadIndex, Done, Return, Goto, Types
  <2>2. \A q \in Process \ {p} : pc[q] = "idle" /\ writing[q] = None
    BY <1>a, <2>1 DEF Places, Place
  <2>3. overlapped' = {}
    BY <1>a, <1>8, <2>2, KnowledgeAssumption DEF LoadIndex, Done, Return, Goto
  <2>4. Solo(p)'
    BY <1>a, <1>b, <1>8 DEF LoadIndex, Done, Return, Goto, Types, Solo, Place, InFiles, Index, Task
  <2> QED
    BY <1>c, <2>1, <2>2, <2>3, <2>4 DEF Solo
<1>9. CASE Truncate(p, "embed", "index")
  <2>1. \A q \in Process \ {p} : pc'[q] = pc[q] /\ pc[p] # "idle"
    BY <1>9 DEF Truncate, Files, Types
  <2>2. \A q \in Process \ {p} : pc[q] = "idle" /\ writing[q] = None
    BY <1>a, <2>1 DEF Places, Place
  <2>3. overlapped' = {}
    BY <1>a, <1>9, <2>2, KnowledgeAssumption DEF Truncate, Files
  <2>4. Solo(p)'
    BY <1>a, <1>b, <1>9 DEF Truncate, Files, Types, Solo, Place, InFiles, Index, Task
  <2> QED
    BY <1>c, <2>1, <2>2, <2>3, <2>4 DEF Solo
<1>10. CASE SaveEmbedding(p)
  <2>1. \A q \in Process \ {p} : pc'[q] = pc[q] /\ pc[p] # "idle"
    BY <1>10 DEF SaveEmbedding, Written, Goto, Types
  <2>2. \A q \in Process \ {p} : pc[q] = "idle" /\ writing[q] = None
    BY <1>a, <2>1 DEF Places, Place
  <2>3. overlapped' = {}
    BY <1>a, <1>10, <2>2, KnowledgeAssumption DEF SaveEmbedding, Written, Goto
  <2>4. Solo(p)'
    BY <1>a, <1>b, <1>10 DEF SaveEmbedding, Written, Goto, Types, Solo, Place, InFiles, Index, Task
  <2> QED
    BY <1>c, <2>1, <2>2, <2>3, <2>4 DEF Solo
<1>11. CASE Truncate(p, "saveIndex", "index")
  <2>1. \A q \in Process \ {p} : pc'[q] = pc[q] /\ pc[p] # "idle"
    BY <1>11 DEF Truncate, Files, Types
  <2>2. \A q \in Process \ {p} : pc[q] = "idle" /\ writing[q] = None
    BY <1>a, <2>1 DEF Places, Place
  <2>3. overlapped' = {}
    BY <1>a, <1>11, <2>2, KnowledgeAssumption DEF Truncate, Files
  <2>4. Solo(p)'
    BY <1>a, <1>b, <1>11 DEF Truncate, Files, Types, Solo, Place, InFiles, Index, Task
  <2> QED
    BY <1>c, <2>1, <2>2, <2>3, <2>4 DEF Solo
<1>12. CASE SaveIndex(p)
  <2>1. \A q \in Process \ {p} : pc'[q] = pc[q] /\ pc[p] # "idle"
    BY <1>12 DEF SaveIndex, Written, AfterSaveIndex, Return, Goto, Types
  <2>2. \A q \in Process \ {p} : pc[q] = "idle" /\ writing[q] = None
    BY <1>a, <2>1 DEF Places, Place
  <2>3. overlapped' = {}
    BY <1>a, <1>12, <2>2, KnowledgeAssumption DEF SaveIndex, Written, AfterSaveIndex, Return, Goto
  <2>4. Solo(p)'
    BY <1>a, <1>b, <1>12 DEF SaveIndex, Written, AfterSaveIndex, Return, Goto, Types, Solo, Place, InFiles, Index, Task
  <2> QED
    BY <1>c, <2>1, <2>2, <2>3, <2>4 DEF Solo
<1>13. CASE UpsertItems(p)
  <2>1. \A q \in Process \ {p} : pc'[q] = pc[q] /\ pc[p] # "idle"
    BY <1>13 DEF UpsertItems, AfterSaveIndex, Return, Goto, Types
  <2>2. \A q \in Process \ {p} : pc[q] = "idle" /\ writing[q] = None
    BY <1>a, <2>1 DEF Places, Place
  <2>3. overlapped' = {}
    BY <1>a, <1>13, <2>2, KnowledgeAssumption DEF UpsertItems, AfterSaveIndex, Return, Goto
  <2>4. Solo(p)'
    BY <1>a, <1>b, <1>13 DEF UpsertItems, AfterSaveIndex, Return, Goto, Types, Solo, Place, InFiles, Index, Task
  <2> QED
    BY <1>c, <2>1, <2>2, <2>3, <2>4 DEF Solo
<1>14. CASE Crash(p)
  <2>1. \A q \in Process \ {p} : pc'[q] = pc[q] /\ pc[p] # "idle"
    BY <1>14 DEF Crash, Return, Goto, Types
  <2>2. \A q \in Process \ {p} : pc[q] = "idle" /\ writing[q] = None
    BY <1>a, <2>1 DEF Places, Place
  <2>3. overlapped' = {}
    BY <1>a, <1>14, <2>2, KnowledgeAssumption DEF Crash, Return, Goto
  <2>4. Solo(p)'
    BY <1>a, <1>b, <1>14 DEF Crash, Return, Goto, Types, Solo, Place, InFiles, Index, Task
  <2> QED
    BY <1>c, <2>1, <2>2, <2>3, <2>4 DEF Solo
<1> QED
  BY <1>1, <1>2, <1>3, <1>4, <1>5, <1>6, <1>7, <1>8, <1>9, <1>10, <1>11, <1>12, <1>13, <1>14 DEF OtherStep

\* What is approved gets into the index.
LEMMA CalmStep ==
    ASSUME Types, Indexes, Places, Alone, Calm, NEW p \in Process, Begin(p) \/ LoadStep(p) \/ OtherStep(p)
    PROVE  Calm'
<1> SUFFICES ASSUME faults' \subseteq {"database", "learn"}
             PROVE  /\ index'.built /\ damaged' = {}
                    /\ \A x \in Candidate :
                         store'[x] \in Approved => x \in index'.lessons \/ \E q \in Process : Pending(q, x)'
  BY DEF Calm
<1>b. faults' = faults
  BY DEF Begin, Start, LoadStep, OtherStep, CheckLesson, Truncate, SaveCandidates, UpsertCandidate,
     EnsureIndex, LoadIndex, SaveEmbedding, SaveIndex, UpsertItems, Crash
<1>c. "peers" \notin faults /\ "crash" \notin faults /\ "rebuild" \notin faults
  BY <1>b
<1>a. /\ task[p] \in Task /\ Place(p) /\ Solo(p) /\ index \in Index /\ indexCopy[p] \in Index
      /\ overlapped = {} /\ \A q \in Process : pc[p] # "idle" /\ pc[q] # "idle" => p = q
      /\ "peers" \notin faults /\ "crash" \notin faults /\ "rebuild" \notin faults
      /\ index.built /\ damaged = {}
      /\ \A x \in Candidate :
           store[x] \in Approved => x \in index.lessons \/ \E q \in Process : Pending(q, x)
  BY <1>b, <1>c DEF Types, Places, Alone, Calm
<1>d. \A q \in Process \ {p} : pc[p] # "idle" => writing[q] = None
  BY <1>a DEF Places, Place
<1>1. CASE Begin(p)
  <2>1. PICK t, l : Begins(t, l) /\ Start(p, t, l)
    BY <1>1 DEF Begin
  <2>2. /\ store' = store /\ index' = index /\ damaged' = damaged /\ InFiles' = InFiles /\ pc[p] = "idle"
        /\ \A q \in Process \ {p} : pc'[q] = pc[q] /\ task'[q] = task[q]
    BY <2>1 DEF Start, Goto, Types, InFiles
  <2> QED
    BY <1>a, <2>2 DEF Pending
<1>2. CASE LoadStep(p)
  <2>1. /\ store' = store /\ index' = index /\ damaged' = damaged /\ InFiles' = InFiles
        /\ pc[p] \in {"load", "verify"}
    BY <1>2 DEF LoadStep, InFiles
  <2>2. \A q \in Process \ {p} : pc'[q] = pc[q] /\ task'[q] = task[q]
    BY <1>2 DEF LoadStep, Done, Return, Loaded, Goto, Types
  <2> QED
    BY <1>a, <2>1, <2>2 DEF Pending
<1>3. CASE CheckLesson(p)
  <2>1. /\ store' = store /\ index' = index /\ damaged' = {} /\ InFiles' = InFiles
        /\ \A q \in Process \ {p} : pc'[q] = pc[q] /\ task'[q] = task[q]
    BY <1>a, <1>3 DEF CheckLesson, Done, Return, Goto, Types, InFiles
  <2>2. \A x \in Candidate : Pending(p, x) => Pending(p, x)'
    BY <1>a, <1>3, <2>1 DEF CheckLesson, Done, Return, Goto, Pending, Types, Place
  <2> QED
    BY <1>a, <2>1, <2>2 DEF Pending
<1>4. CASE Truncate(p, "save", "candidates")
  <2>1. /\ store' = store /\ index' = index /\ damaged' = {} /\ InFiles' = InFiles
        /\ \A q \in Process \ {p} : pc'[q] = pc[q] /\ task'[q] = task[q]
    BY <1>a, <1>4 DEF Truncate, Files, Types, InFiles
  <2>2. \A x \in Candidate : Pending(p, x) => Pending(p, x)'
    BY <1>a, <1>4, <2>1 DEF Truncate, Files, Pending, Types, Place
  <2> QED
    BY <1>a, <2>1, <2>2 DEF Pending
<1>5. CASE SaveCandidates(p)
  <2>1. /\ store' = copy[p] /\ index' = index /\ damaged' = {} /\ InFiles' = InFiles /\ InFiles
        /\ \A q \in Process \ {p} : pc'[q] = pc[q] /\ task'[q] = task[q]
    BY <1>a, <1>5, KnowledgeAssumption DEF SaveCandidates, Written, AfterSave, Return, Goto, Types, InFiles, Indexes
  <2>2. Faithful(task[p].op, task[p].on, copy[p]) /\ pc[p] = "save"
    BY <1>a, <1>5 DEF SaveCandidates, Solo
  <2>3. \A x \in Items(p) : Pending(p, x)'
    <3>1. CASE Items(p) # {}
      <4>1. task'[p].items = Items(p) /\ pc'[p] = "loadIndex"
        BY <1>a, <1>5, <2>1, <3>1 DEF SaveCandidates, AfterSave, Goto, Types, Task
      <4> QED
        BY <2>1, <4>1 DEF Pending
    <3> QED
      BY <3>1
  <2>4. ASSUME NEW x \in Candidate, copy[p][x] \in Approved
        PROVE  store[x] \in Approved \/ x \in Items(p)
    BY <2>2, <2>4 DEF Faithful, Items, Reviewing
  <2>5. \A q \in Process, x \in Candidate : ~Pending(q, x)
    BY <1>a, <2>1, <2>2 DEF Pending
  <2> QED
    BY <1>a, <2>1, <2>3, <2>4, <2>5
<1>6. CASE UpsertCandidate(p)
  <2>1. /\ index' = index /\ damaged' = {} /\ InFiles' = InFiles /\ ~InFiles /\ pc[p] = "save"
    BY <1>a, <1>6 DEF UpsertCandidate, InFiles
  <2>2. Faithful(task[p].op, task[p].on, copy[p])
    BY <1>a, <2>1 DEF Solo
  <2>3. PICK c \in task[p].on :
         /\ store' = [store EXCEPT ![c] = copy[p][c]]
         /\ LET left == task[p].on \ {c}
                items == task[p].items \cup (Items(p) \cap {c})
            IN IF left # {}
               THEN /\ task' = [task EXCEPT ![p].on = left, ![p].items = items]
                    /\ UNCHANGED <<pc, copy, indexCopy>>
               ELSE IF items # {}
               THEN /\ task' = [task EXCEPT ![p].items = items]
                    /\ Goto(p, "saveIndex")
                    /\ UNCHANGED <<copy, indexCopy>>
               ELSE AfterSave(p)
    BY <1>6 DEF UpsertCandidate
  <2>4. \A x \in Candidate : store'[x] = IF x = c THEN copy[p][x] ELSE store[x]
    BY <2>3 DEF Types, Statuses, Task
  <2>5. \A q \in Process \ {p} : pc'[q] = pc[q] /\ task'[q] = task[q]
    BY <2>3 DEF AfterSave, Return, Goto, Types
  <2>6. \A x \in task[p].items \cup (Items(p) \cap {c}) : Pending(p, x)'
    <3>1. CASE task[p].on \ {c} # {}
      BY <1>a, <2>1, <2>3, <3>1 DEF Pending, Types, Task
    <3>2. CASE task[p].on \ {c} = {} /\ task[p].items \cup (Items(p) \cap {c}) # {}
      BY <1>a, <2>1, <2>3, <3>2 DEF Pending, Goto, Types, Task
    <3> QED
      BY <3>1, <3>2
  <2>7. copy[p][c] \in Approved => store[c] \in Approved \/ c \in Items(p)
    BY <1>a, <2>2 DEF Faithful, Items, Reviewing, Task
  <2>8. \A x \in Candidate : Pending(p, x) => Pending(p, x)'
    BY <2>6 DEF Pending
  <2> QED
    BY <1>a, <2>1, <2>4, <2>5, <2>6, <2>7, <2>8 DEF Pending
<1>7. CASE EnsureIndex(p)
  <2>1. /\ store' = store /\ index' = index /\ damaged' = {} /\ InFiles' = InFiles
        /\ \A q \in Process \ {p} : pc'[q] = pc[q] /\ task'[q] = task[q]
    BY <1>a, <1>7 DEF EnsureIndex, Goto, Types, InFiles
  <2>2. \A x \in Candidate : Pending(p, x) => Pending(p, x)'
    BY <1>a, <1>7, <2>1 DEF EnsureIndex, Goto, Pending, Types, Place
  <2> QED
    BY <1>a, <2>1, <2>2 DEF Pending
<1>8. CASE LoadIndex(p)
  <2>1. Readable("index") /\ index.built
    BY <1>a, <1>d, <1>8, KnowledgeAssumption DEF LoadIndex, Readable, Place
  <2>2. /\ store' = store /\ index' = index /\ damaged' = {} /\ InFiles' = InFiles /\ task' = task
        /\ \A q \in Process \ {p} : pc'[q] = pc[q]
    BY <1>a, <1>8, <2>1 DEF LoadIndex, Goto, Types, InFiles
  <2>3. \A x \in Candidate : Pending(p, x) => Pending(p, x)'
    <3>1. task[p].op \in Reviewing => pc'[p] = "saveIndex"
      BY <1>8, <2>1 DEF LoadIndex, Goto, Types, Reviewing
    <3> QED
      BY <1>a, <2>2, <3>1 DEF Pending, Place
  <2> QED
    BY <1>a, <2>2, <2>3 DEF Pending
<1>9. CASE Truncate(p, "embed", "index")
  <2>1. /\ store' = store /\ index' = index /\ damaged' = {} /\ InFiles' = InFiles
        /\ \A q \in Process \ {p} : pc'[q] = pc[q] /\ task'[q] = task[q]
    BY <1>a, <1>9 DEF Truncate, Files, Types, InFiles
  <2>2. \A x \in Candidate : Pending(p, x) => Pending(p, x)'
    BY <1>a, <1>9, <2>1 DEF Truncate, Files, Pending, Types, Place
  <2> QED
    BY <1>a, <2>1, <2>2 DEF Pending
<1>10. CASE SaveEmbedding(p)
  <2>1. /\ store' = store /\ damaged' = {} /\ InFiles' = InFiles
        /\ \A q \in Process \ {p} : pc'[q] = pc[q] /\ task'[q] = task[q]
    BY <1>a, <1>10 DEF SaveEmbedding, Written, Goto, Types, InFiles
  <2>2. index' = index
    BY <1>a, <1>10 DEF SaveEmbedding, Solo, Place
  <2>3. \A x \in Candidate : ~Pending(p, x)
    BY <1>10 DEF SaveEmbedding, Pending
  <2> QED
    BY <1>a, <2>1, <2>2, <2>3 DEF Pending
<1>11. CASE Truncate(p, "saveIndex", "index")
  <2>1. /\ store' = store /\ index' = index /\ damaged' = {} /\ InFiles' = InFiles
        /\ \A q \in Process \ {p} : pc'[q] = pc[q] /\ task'[q] = task[q]
    BY <1>a, <1>11 DEF Truncate, Files, Types, InFiles
  <2>2. \A x \in Candidate : Pending(p, x) => Pending(p, x)'
    BY <1>a, <1>11, <2>1 DEF Truncate, Files, Pending, Types, Place
  <2> QED
    BY <1>a, <2>1, <2>2 DEF Pending
<1>12. CASE SaveIndex(p)
  <2>1. /\ store' = store /\ damaged' = {} /\ InFiles' = InFiles
        /\ \A q \in Process \ {p} : pc'[q] = pc[q] /\ task'[q] = task[q]
    BY <1>a, <1>12 DEF SaveIndex, Written, AfterSaveIndex, Return, Goto, Types, InFiles
  <2>2. InFiles /\ pc[p] = "saveIndex"
    BY <1>12, KnowledgeAssumption DEF SaveIndex, Indexes
  <2>3. task[p].op \notin {"init", "learn"} /\ indexCopy[p] = index
    BY <1>a, <2>2 DEF Solo, Place
  <2>4. /\ index'.built /\ index.lessons \subseteq index'.lessons
        /\ task[p].items \subseteq index'.lessons
    BY <1>a, <1>12, <2>3, ChangedKeeps DEF SaveIndex, Place
  <2> QED
    BY <1>a, <2>1, <2>4 DEF Pending
<1>13. CASE UpsertItems(p)
  <2>1. /\ store' = store /\ damaged' = {} /\ InFiles' = InFiles
        /\ \A q \in Process \ {p} : pc'[q] = pc[q] /\ task'[q] = task[q]
    BY <1>a, <1>13 DEF UpsertItems, AfterSaveIndex, Return, Goto, Types, InFiles
  <2>2. index'.built /\ index'.lessons = index.lessons \cup task[p].items
    BY <1>a, <1>13 DEF UpsertItems, Index
  <2> QED
    BY <1>a, <2>1, <2>2 DEF Pending
<1>14. CASE Crash(p)
  BY <1>a, <1>14 DEF Crash
<1> QED
  BY <1>1, <1>2, <1>3, <1>4, <1>5, <1>6, <1>7, <1>8, <1>9, <1>10, <1>11, <1>12, <1>13, <1>14 DEF OtherStep

-----------------------------------------------------------------------------
(* The theorems.                                                           *)

\* The invariant is inductive.
LEMMA InvStep == IInv /\ [Next]_vars => IInv'
<1> SUFFICES ASSUME IInv, [Next]_vars PROVE IInv'
  OBVIOUS
<1> USE DEF IInv
<1>1. CASE UNCHANGED vars
  <2>1. UNCHANGED <<faults, store, lessonOf, index, damaged, task, pc, copy, indexCopy, writing,
                    overlapped, endorsed>>
    BY <1>1 DEF vars, local
  <2>2. Known' = Known /\ InFiles' = InFiles /\ \A c : Good(c)' <=> Good(c)
    BY <2>1 DEF Known, InFiles, Good
  <2>3. Types' /\ Gate'
    BY <2>1, <2>2 DEF Types, Gate, Permitted
  <2>4. Indexes' /\ Places'
    BY <2>1, <2>2 DEF Indexes, GoodIndex, Places, Place
  <2>5. Alone' /\ Calm'
    BY <2>1, <2>2 DEF Alone, Solo, Faithful, Calm, Pending
  <2> QED
    BY <2>3, <2>4, <2>5
<1>2. ASSUME NEW p \in Process, Begin(p) \/ LoadStep(p) \/ OtherStep(p) PROVE IInv'
  BY <1>2, TypesStep, GateStep, IndexesStep, PlacesStep, AloneStep, CalmStep
<1> QED
  BY <1>1, <1>2, StepKinds

\* In every behaviour the invariant holds.
LEMMA Invariance == Spec => []IInv
BY InitInv, InvStep, PTL DEF Spec

\* Nothing unreviewed is ever found, whatever is lost or overwritten by concurrent
\* processes and crashes; a cached result is that of its index; and without them what
\* is approved is found (search_knowledge, approve_candidate, the automatic review).
THEOREM KnowledgeStaysSound == Spec => []KnowledgeIsSound
<1>1. IInv => KnowledgeIsSound
  <2> SUFFICES ASSUME IInv PROVE KnowledgeIsSound
    OBVIOUS
  <2>1. NothingUnreviewedIsFound
    BY DEF IInv, Indexes, GoodIndex, NothingUnreviewedIsFound, InSearch, Good
  <2>2. CacheIsFresh
    BY DEF IInv, Indexes, GoodIndex, CacheIsFresh
  <2>3. ApprovedIsFound
    BY DEF IInv, Calm, Pending, ApprovedIsFound, Idle
  <2> QED
    BY <2>1, <2>2, <2>3 DEF KnowledgeIsSound
<1> QED
  BY <1>1, Invariance, PTL

\* What a step may not lose: lessons in the index and candidates, in a database or by
\* processes that take turns, and the rejection of a candidate.
Keeps ==
    /\ ~InFiles \/ faults \cap {"peers", "rebuild"} = {} =>
         /\ index.lessons \subseteq index'.lessons
         /\ \A c \in Candidate : store[c] # "absent" => store'[c] # "absent"
    /\ faults \cap {"peers", "learn"} = {} =>
         \A c \in Candidate : store[c] = "rejected" => store'[c] = "rejected"

\* A save or a row holds what the store held, changed as the operation may.
LEMMA SavesKeep ==
    ASSUME IInv, NEW p \in Process, SaveCandidates(p) \/ UpsertCandidate(p)
    PROVE  Keeps
<1>1. pc[p] = "save" /\ index' = index
  BY DEF SaveCandidates, UpsertCandidate
<1>2. "peers" \notin faults => Faithful(task[p].op, task[p].on, copy[p])
  BY <1>1 DEF IInv, Alone, Solo
<1>3. \A c \in task[p].on : copy[p][c] # "absent"
  BY <1>1 DEF IInv, Gate
<1>4. CASE SaveCandidates(p)
  <2>1. store' = copy[p] /\ InFiles
    BY <1>4, KnowledgeAssumption DEF SaveCandidates, IInv, Indexes
  <2> QED
    BY <1>1, <1>2, <1>3, <2>1 DEF Keeps, Faithful
<1>5. CASE UpsertCandidate(p)
  <2>1. PICK c \in task[p].on : store' = [store EXCEPT ![c] = copy[p][c]]
    BY <1>5 DEF UpsertCandidate
  <2>2. \A d \in Candidate : store'[d] = IF d = c THEN copy[p][d] ELSE store[d]
    BY <2>1 DEF IInv, Types, Statuses, Task
  <2> QED
    BY <1>1, <1>2, <1>3, <2>2 DEF Keeps, Faithful
<1> QED
  BY <1>4, <1>5

\* An index that is written holds the lessons of the one it replaces.
LEMMA IndexesKeep ==
    ASSUME IInv, NEW p \in Process, SaveEmbedding(p) \/ SaveIndex(p) \/ UpsertItems(p)
    PROVE  Keeps
<1>1. store' = store /\ task[p] \in Task /\ Place(p) /\ ("peers" \notin faults => Solo(p))
      /\ index \in Index
  BY DEF SaveEmbedding, SaveIndex, UpsertItems, IInv, Types, Places, Alone
<1>2. CASE UpsertItems(p)
  <2>1. index.lessons \subseteq index'.lessons
    BY <1>1, <1>2 DEF UpsertItems, Index
  <2> QED
    BY <1>1, <2>1 DEF Keeps
<1>3. CASE SaveEmbedding(p) \/ SaveIndex(p)
  <2>1. InFiles
    BY <1>3, KnowledgeAssumption DEF SaveEmbedding, SaveIndex, IInv, Indexes
  <2>2. CASE faults \cap {"peers", "rebuild"} = {}
    <3>1. CASE SaveEmbedding(p)
      BY <1>1, <2>1, <2>2, <3>1 DEF SaveEmbedding, Solo, Place, Keeps
    <3>2. CASE SaveIndex(p) /\ task[p].op = "learn"
      <4>1. index.lessons = {}
        BY <1>1, <2>1, <2>2, <3>2 DEF SaveIndex, Solo, IInv, Indexes, GoodIndex
      <4> QED
        BY <1>1, <4>1 DEF Keeps
    <3>3. CASE SaveIndex(p) /\ task[p].op # "learn"
      <4>1. task[p].op \notin {"init", "learn"} /\ indexCopy[p] = index
        BY <1>1, <2>1, <2>2, <3>3 DEF SaveIndex, Solo, Place
      <4>2. index.lessons \subseteq index'.lessons
        BY <1>1, <3>3, <4>1, ChangedKeeps DEF SaveIndex
      <4> QED
        BY <1>1, <4>2 DEF Keeps
    <3> QED
      BY <1>3, <3>1, <3>2, <3>3
  <2>3. CASE faults \cap {"peers", "rebuild"} # {}
    BY <1>1, <2>1, <2>3 DEF Keeps
  <2> QED
    BY <2>2, <2>3
<1> QED
  BY <1>2, <1>3

\* In a database no candidate and no lesson is lost, whatever order the rows are written
\* in and wherever a process dies; in files none is if processes take turns and nobody
\* initialises the base again (write_json, _upsert_db_candidate, _upsert_db_items).
THEOREM KnowledgeStays == Spec => KnowledgeIsKept
<1>1. IInv /\ [Next]_vars => Keeps \/ UNCHANGED vars
  <2> SUFFICES ASSUME IInv, [Next]_vars PROVE Keeps \/ UNCHANGED vars
    OBVIOUS
  <2>1. ASSUME NEW p \in Process, Begin(p) \/ LoadStep(p) \/ OtherStep(p) PROVE Keeps
    <3>1. CASE SaveCandidates(p) \/ UpsertCandidate(p)
      BY <3>1, SavesKeep
    <3>2. CASE SaveEmbedding(p) \/ SaveIndex(p) \/ UpsertItems(p)
      BY <3>2, IndexesKeep
    <3>3. CASE ~(SaveCandidates(p) \/ UpsertCandidate(p) \/ SaveEmbedding(p) \/ SaveIndex(p) \/ UpsertItems(p))
      <4>1. store' = store /\ index' = index
        BY <2>1, <3>3 DEF Begin, Start, LoadStep, OtherStep, CheckLesson, Truncate, EnsureIndex, LoadIndex, Crash
      <4> QED
        BY <4>1 DEF Keeps
    <3> QED
      BY <3>1, <3>2, <3>3
  <2> QED
    BY <2>1, StepKinds DEF IInv
<1>2. IInv /\ [Next]_vars =>
        [/\ ~InFiles \/ faults \cap {"peers", "rebuild"} = {} =>
              /\ index.lessons \subseteq index'.lessons
              /\ \A c \in Candidate : store[c] # "absent" => store'[c] # "absent"
         /\ faults \cap {"peers", "learn"} = {} =>
              \A c \in Candidate : store[c] = "rejected" => store'[c] = "rejected"]_vars
  BY <1>1 DEF Keeps
<1> QED
  BY <1>2, Invariance, PTL DEF Spec, KnowledgeIsKept
=============================================================================
