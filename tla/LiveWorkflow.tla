---------------------------- MODULE LiveWorkflow ----------------------------
(***************************************************************************)
(* One live generation (generate_live): the multi-agent workflow, the      *)
(* compact one of the free tier, and the single-model one of debug runs.   *)
(* Strategy, code and their repairs are versions of one artifact; what the *)
(* validator, a reviewer and the policy scan say of a version is whatever  *)
(* they may say.  Each stage a model performs is a call of ModelCalls.     *)
(***************************************************************************)
EXTENDS ModelCalls

CONSTANTS
    Workflows,           \* the workflows of this instance
    WebSearch,           \* market research is to run ...
    RequireWebSearch,    \* ... and to succeed
    MaxRepairs,          \* max_repair_loops of the user tier
    MaxLlmRepairs,       \* max_llm_repair_loops
    MaxPostReviews,      \* max_post_repair_reviews
    RepairAfterBudget,   \* allow_deterministic_repair_after_budget
    Persisted            \* routes the health table may know of

ASSUME LiveWorkflowAssumption ==
    /\ Workflows \subseteq {"multi", "compact", "single"}
    /\ {"research", "reasoning", "coding", "pine", "review", "repair", "compact", "single"}
           \subseteq Stages
    /\ WebSearch \in BOOLEAN /\ RequireWebSearch \in BOOLEAN
    /\ MaxRepairs \in Nat /\ MaxLlmRepairs \in Nat /\ MaxPostReviews \in Nat
    /\ RepairAfterBudget \in BOOLEAN
    /\ Persisted \subseteq Health

MaxFreeRepairs == 1   \* max_validation_repairs
FreshVerdict == [verdict |-> "none", fixes |-> "none"]
Verdicts == [verdict : {"none", "pass", "needs_fix", "fail"}, fixes : {"none", "soft", "blocking"}]
Validations == {"pass", "manual_required", "fail"}

VARIABLES
    workflow,
    at,             \* where the workflow is
    code,           \* version of the artifact, 0 before there is one
    validated,      \* the version the last validation saw ...
    validation,     \* ... and its status
    reviewed,       \* the version the last review saw ...
    review,         \* ... and its verdict and required fixes
    claims,         \* the artifact makes a claim the policy blocks
    repairs,        \* repair_count
    llmRepairs,     \* llm_repair_count
    postReviews,    \* post_repair_review_count
    asked,          \* provider calls made for each stage
    result          \* what the generation returned or raised

artifact == <<code, validated, validation, claims>>
verdict  == <<reviewed, review>>
budget   == <<repairs, llmRepairs, postReviews>>
liveVars == <<callVars, workflow, at, artifact, verdict, budget, asked, result>>

LiveInit ==
    /\ CallInit
    /\ workflow \in Workflows
    /\ at = "start"
    /\ code = 0 /\ validated = 0 /\ validation = "pass" /\ claims = FALSE
    /\ reviewed = 0 /\ review = FreshVerdict
    /\ repairs = 0 /\ llmRepairs = 0 /\ postReviews = 0
    /\ asked = [s \in Stages |-> 0]
    /\ result = "none"

----------------------------------------------------------------------------
\* The parts the steps below are made of.

\* Go to a place where the model of stage s is called.
Ask(place, s) ==
    /\ at' = place
    /\ Call(s)
    /\ asked' = [asked EXCEPT ![s] = @ + 1]

Goto(place) == at' = place /\ NoCall /\ UNCHANGED asked

Finish(outcome) ==
    /\ at' = "done"
    /\ result' = outcome
    /\ NoCall
    /\ UNCHANGED asked

Answered(place) == at = place /\ phase = "answered"

\* A spec and code of which the validator may say anything.
NewArtifact ==
    /\ code' = code + 1
    /\ validated' = code'
    /\ validation' \in Validations
    /\ claims' \in BOOLEAN

\* validation_allows_artifact
Allows(status) == status # "fail"

\* _requires_repair
RequiresRepair ==
    \/ ~Allows(validation)
    \/ review.verdict = "fail"
    \/ review.fixes = "blocking"

\* _static_review_payload: local, and only as good as the validation.
StaticReview ==
    IF Allows(validation)
      THEN [verdict |-> "pass", fixes |-> "none"]
      ELSE [verdict |-> "needs_fix", fixes |-> "soft"]

\* _align_review_with_validation
Aligned(r) ==
    IF Allows(validation) \/ (r.verdict # "pass" /\ r.fixes # "none")
      THEN r
      ELSE [verdict |-> "needs_fix", fixes |-> IF r.fixes = "none" THEN "soft" ELSE r.fixes]

\* Record a review of the current version.
Reviewed(r) == reviewed' = code /\ review' = Aligned(r)

----------------------------------------------------------------------------
\* The gateway must be configured for every route of the workflow; then the
\* health table's counts and cooldowns are merged into this process's own.

PreflightStages ==
    CASE workflow = "multi"   -> {"reasoning", "coding", "pine", "review", "repair"}
                                   \cup (IF WebSearch THEN {"research"} ELSE {})
      [] workflow = "compact" -> {"pine"}
      [] workflow = "single"  -> {"single"}

Misconfigured ==
    \E s \in PreflightStages : \E i \in 1 .. Len(Routes[s]) :
        Routes[s][i] \in Proxied \cap missing

RejectMisconfigured ==
    /\ at = "start"
    /\ Misconfigured
    /\ Finish("configuration")
    /\ UNCHANGED <<missing, health, abandoned, workflow, artifact, verdict, budget>>

LoadRouteHealth ==
    \E tired \in SUBSET Persisted : \E hot \in SUBSET Persisted :
        /\ consecutive' = [k \in Health |->
               IF k \in tired THEN MaxConsecutive[k[1]] ELSE consecutive[k]]
        /\ cooling' = [k \in Health |-> cooling[k] \/ k \in hot]

StartWorkflow ==
    /\ at = "start"
    /\ ~Misconfigured
    /\ LoadRouteHealth
    /\ \/ workflow = "multi" /\ WebSearch /\ Ask("research", "research")
       \/ workflow = "multi" /\ ~WebSearch /\ Ask("reasoning", "reasoning")
       \/ workflow = "compact" /\ Ask("compact", "compact")
       \/ workflow = "single" /\ Ask("single", "single")
    /\ UNCHANGED <<missing, abandoned, workflow, artifact, verdict, budget, result>>

----------------------------------------------------------------------------
\* The multi-agent workflow.

\* Research that fails, for whatever reason, is done without unless required.
ResearchEnds ==
    /\ at = "research"
    /\ phase \in {"answered", "failed", "refused"}
    /\ \/ phase = "answered" \/ ~RequireWebSearch
    /\ Ask("reasoning", "reasoning")
    /\ UNCHANGED <<missing, health, abandoned, workflow, artifact, verdict, budget, result>>

StrategyReasoned ==
    /\ Answered("reasoning")
    /\ Ask("coding", "coding")
    /\ UNCHANGED <<missing, health, abandoned, workflow, artifact, verdict, budget, result>>

\* The spec must validate against its schema after the stage answered.
StrategyCoded ==
    /\ Answered("coding")
    /\ \/ Ask("pine", "pine") /\ UNCHANGED result
       \/ Finish("schema")
    /\ UNCHANGED <<missing, health, abandoned, workflow, artifact, verdict, budget>>

PineGenerated ==
    /\ Answered("pine")
    /\ \/ /\ NewArtifact
          /\ Goto("initial_repair")
          /\ UNCHANGED result
       \/ Finish("schema") /\ UNCHANGED artifact
    /\ UNCHANGED <<missing, health, abandoned, workflow, verdict, budget>>

\* Keeps the validation of the code before the repair.
RepairWithoutValidation ==
    /\ code' = code + 1
    /\ claims' \in BOOLEAN
    /\ UNCHANGED <<validated, validation>>
    /\ repairs' = repairs + 1

\* _maybe_run_deterministic_repair, when one of its rules changes anything.
DeterministicRepair ==
    /\ NewArtifact
    /\ repairs' = repairs + 1

InitialRepair ==
    /\ at = "initial_repair"
    /\ \/ /\ ~Allows(validation)
          /\ DeterministicRepair
       \/ UNCHANGED <<artifact, repairs>>
    /\ Goto("review")
    /\ UNCHANGED <<missing, health, abandoned, workflow, verdict, llmRepairs, postReviews, result>>

\* The first review: local where the validation blocks.
ReviewStatically ==
    /\ at = "review"
    /\ ~Allows(validation)
    /\ Reviewed(StaticReview)
    /\ Goto("loop")
    /\ UNCHANGED <<missing, health, abandoned, workflow, artifact, budget, result>>

AskReviewer ==
    /\ at = "review"
    /\ Allows(validation)
    /\ Ask("reviewing", "review")
    /\ UNCHANGED <<missing, health, abandoned, workflow, artifact, verdict, budget, result>>

ReviewAnswered ==
    /\ Answered("reviewing")
    /\ \E r \in Verdicts : r.verdict # "none" /\ Reviewed(r)
    /\ Goto("loop")
    /\ UNCHANGED <<missing, health, abandoned, workflow, artifact, budget, result>>

\* _balanced_review_fallback: no reviewer could be understood or was in time.
Unheard == seen \ Skips # {} /\ seen \ Skips \subseteq {"malformed", "timeout"}

ReviewFallsBack ==
    /\ at = "reviewing"
    /\ phase = "failed"
    /\ Unheard
    /\ Reviewed(StaticReview)
    /\ Goto("loop")
    /\ UNCHANGED <<missing, health, abandoned, workflow, artifact, budget, result>>

\* The repair loop: a deterministic repair when one of its rules applies, or
\* the repair model while its budget lasts.
Repairing == at = "loop" /\ RequiresRepair /\ repairs < MaxRepairs

RepairDeterministically ==
    /\ Repairing
    /\ llmRepairs < MaxLlmRepairs \/ RepairAfterBudget
    /\ DeterministicRepair
    /\ Goto("re_review")
    /\ UNCHANGED <<missing, health, abandoned, workflow, verdict, llmRepairs, postReviews, result>>

AskRepairer ==
    /\ Repairing
    /\ llmRepairs < MaxLlmRepairs
    /\ repairs' = repairs + 1
    /\ llmRepairs' = llmRepairs + 1
    /\ Ask("repairing", "repair")
    /\ UNCHANGED <<missing, health, abandoned, workflow, artifact, verdict, postReviews, result>>

RepairAnswered ==
    /\ Answered("repairing")
    /\ \/ NewArtifact /\ Goto("re_review") /\ UNCHANGED result
       \/ Finish("schema") /\ UNCHANGED artifact
    /\ UNCHANGED <<missing, health, abandoned, workflow, verdict, budget>>

\* Every repair is reviewed; by a model while its budget lasts.
ReReviewStatically ==
    /\ at = "re_review"
    /\ ~Allows(validation) \/ postReviews >= MaxPostReviews
    /\ Reviewed(StaticReview)
    /\ Goto("loop")
    /\ UNCHANGED <<missing, health, abandoned, workflow, artifact, budget, result>>

\* Does not count the review.
AskReviewerUncounted ==
    /\ at = "re_review"
    /\ Allows(validation)
    /\ postReviews < MaxPostReviews
    /\ Ask("reviewing", "review")
    /\ UNCHANGED <<missing, health, abandoned, workflow, artifact, verdict, budget, result>>

AskReviewerAgain ==
    /\ at = "re_review"
    /\ Allows(validation)
    /\ postReviews < MaxPostReviews
    /\ postReviews' = postReviews + 1
    /\ Ask("reviewing", "review")
    /\ UNCHANGED <<missing, health, abandoned, workflow, artifact, verdict, repairs, llmRepairs, result>>

LeaveLoop ==
    /\ at = "loop"
    /\ \/ ~RequiresRepair
       \/ repairs >= MaxRepairs
       \/ llmRepairs >= MaxLlmRepairs
    /\ Goto("gate")
    /\ UNCHANGED <<missing, health, abandoned, workflow, artifact, verdict, budget, result>>

\* The hard gate.
HardGateFailed ==
    \/ ~Allows(validation)
    \/ review.verdict = "fail"
    \/ Enforce /\ claims

FinalGate ==
    /\ at = "gate"
    /\ Finish(IF ~HardGateFailed THEN "returned" ELSE IF claims THEN "safety" ELSE "provider")
    /\ UNCHANGED <<missing, health, abandoned, workflow, artifact, verdict, budget>>

----------------------------------------------------------------------------
\* The compact workflow: one call, and one more if what failed can be repaired.

CompactAnswered ==
    /\ Answered("compact")
    /\ NewArtifact
    /\ \E repairable \in BOOLEAN :
         LET again == repairable /\ validation' # "pass" /\ repairs < MaxFreeRepairs IN
         \/ /\ Enforce /\ claims'
            /\ Finish("safety")
            /\ UNCHANGED <<health, repairs>>
         \/ /\ ~(Enforce /\ claims')
            /\ Allows(validation') /\ ~again
            /\ Finish("returned")
            /\ UNCHANGED <<health, repairs>>
         \/ /\ ~(Enforce /\ claims')
            /\ ~Allows(validation') \/ again
            /\ RecordFailure("static_validation")
            /\ \/ again /\ Ask("compact", "compact") /\ repairs' = repairs + 1 /\ UNCHANGED result
               \/ ~again /\ Finish("provider") /\ UNCHANGED repairs
    /\ UNCHANGED <<missing, abandoned, workflow, verdict, llmRepairs, postReviews>>

\* The single workflow returns what the model answered.
SingleAnswered ==
    /\ Answered("single")
    /\ code' = code + 1
    /\ claims' \in BOOLEAN
    /\ Enforce => ~claims'
    /\ Finish("returned")
    /\ UNCHANGED <<missing, health, abandoned, workflow, validated, validation, verdict, budget>>

\* Whatever a call raises ends the generation, except where it is caught.
CallRaises ==
    /\ phase \in {"failed", "refused"}
    /\ at = "research" => RequireWebSearch
    /\ ~(at = "reviewing" /\ phase = "failed" /\ CallError = "provider" /\ Unheard)
    /\ Finish(IF phase = "refused" THEN "safety" ELSE CallError)
    /\ UNCHANGED <<missing, health, abandoned, workflow, artifact, verdict, budget>>

----------------------------------------------------------------------------
Multi ==
    \/ ResearchEnds \/ StrategyReasoned \/ StrategyCoded \/ PineGenerated \/ InitialRepair
    \/ ReviewStatically \/ AskReviewer \/ ReviewAnswered \/ ReviewFallsBack
    \/ RepairDeterministically \/ AskRepairer \/ RepairAnswered
    \/ ReReviewStatically \/ AskReviewerAgain \/ LeaveLoop \/ FinalGate

WorkflowStep ==
    \/ RejectMisconfigured \/ StartWorkflow
    \/ Multi \/ CompactAnswered \/ SingleAnswered \/ CallRaises

Generate ==
    \/ WorkflowStep
    \/ CallStep /\ UNCHANGED <<workflow, at, artifact, verdict, budget, asked, result>>

Environment ==
    (AbandonedCallEnds \/ CooldownEnds)
        /\ UNCHANGED <<workflow, at, artifact, verdict, budget, asked, result>>

GenerationOver == at = "done" /\ UNCHANGED liveVars

LiveNext == Generate \/ Environment \/ GenerationOver

\* The process takes its steps, and a call somebody waits for ends: by its
\* deadline, once it runs.  An abandoned one ends when the provider's own
\* timeout closes it.
LiveFairness ==
    /\ WF_liveVars(Generate)
    /\ WF_liveVars(AbandonedCallEnds /\ UNCHANGED <<workflow, at, artifact, verdict, budget, asked, result>>)

LiveSpec == LiveInit /\ [][LiveNext]_liveVars /\ LiveFairness
----------------------------------------------------------------------------
LiveTypeOK ==
    /\ CallTypeOK
    /\ workflow \in Workflows
    /\ at \in {"start", "research", "reasoning", "coding", "pine", "initial_repair", "review",
               "reviewing", "loop", "repairing", "re_review", "gate", "compact", "single", "done"}
    /\ code \in Nat /\ validated \in Nat /\ validation \in Validations /\ claims \in BOOLEAN
    /\ reviewed \in Nat /\ review \in Verdicts
    /\ repairs \in Nat /\ llmRepairs \in Nat /\ postReviews \in Nat
    /\ asked \in [Stages -> Nat]
    /\ result \in {"none", "returned", "safety", "provider", "credential", "configuration", "schema"}

(***************************************************************************)
(* The artifact the multi-agent workflow returns is the version that was   *)
(* validated and the version that was reviewed last, whatever repairs came *)
(* before; the validator allows it, no review rejects it and, under the    *)
(* enforcing policy, it makes no blocked claim.                            *)
(***************************************************************************)
ReturnedArtifactIsSound ==
    (result = "returned" /\ workflow = "multi") =>
        /\ validated = code /\ reviewed = code
        /\ Allows(validation)
        /\ review.verdict # "fail"
        /\ ~(Enforce /\ claims)

(***************************************************************************)
(* Static validation is authoritative: whatever was reviewed before the    *)
(* repairs, and whoever reviewed it - a model, the fallback for an unheard *)
(* model, the local review - the gate never meets a version that the       *)
(* validator blocks and the review passes, so the failure class for that   *)
(* disagreement is never used.                                             *)
(***************************************************************************)
ReviewNeverOverridesValidation ==
    (at = "gate" /\ ~Allows(validation)) => review.verdict # "pass"

(***************************************************************************)
(* What a generation may spend: the repair model and the reviewer are      *)
(* asked within the budgets of the tier however repairs, reviews, their    *)
(* fallbacks and the deterministic repairs follow each other; every other  *)
(* stage once, and the compact call at most twice.                         *)
(***************************************************************************)
SpendsWithinBudget ==
    /\ asked["repair"] <= MaxLlmRepairs
    /\ asked["review"] <= 1 + MaxPostReviews
    /\ asked["compact"] <= 1 + MaxFreeRepairs
    /\ \A s \in Stages \ {"repair", "review", "compact"} : asked[s] <= 1
    /\ repairs <= IF MaxRepairs = 0 THEN 1 ELSE MaxRepairs

\* Another request goes to a provider.
Sends ==
    /\ phase' = "calling"
    /\ phase # "calling" \/ attempt' > attempt

(***************************************************************************)
(* While a route cools down nothing is sent to it: not by the retries of   *)
(* the attempt that put it to rest, nor by a later stage, repair or review *)
(* of the same generation.                                                 *)
(***************************************************************************)
NoCallWhileCooling ==
    [][Sends => ~cooling'[<<stage', Routes[stage'][route']>>]]_liveVars

(***************************************************************************)
(* A generation ends, with a result or an error, although a provider may   *)
(* never answer and a call abandoned at its deadline holds up the direct   *)
(* ones behind it until it returns.                                        *)
(***************************************************************************)
GenerationEnds == <>(at = "done")

\* What the workflow may return: both of the above on artifacts.
ResultIsSound == ReturnedArtifactIsSound /\ ReviewNeverOverridesValidation

\* No counter leaves the budget it counts against.
BudgetsHold == LiveTypeOK /\ SpendsWithinBudget
=============================================================================
