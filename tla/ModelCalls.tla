----------------------------- MODULE ModelCalls -----------------------------
(***************************************************************************)
(* One call of a model with its fallbacks: the routes of a stage are tried *)
(* in order, each at most MaxRetries + 1 times, and a route that fails in  *)
(* the way routes fail is put into a cooldown that outlives the call.      *)
(*                                                                         *)
(* A call through the LiteLLM proxy, or from another thread than the main  *)
(* one, runs in a thread of its own that a deadline abandons and nothing   *)
(* stops; it holds the lock on the captured output until it returns, and a *)
(* direct call takes that lock before its own deadline begins.             *)
(***************************************************************************)
EXTENDS Naturals, Sequences

CONSTANTS
    Stages,          \* what models are called for
    Models,
    Routes,          \* the models of a stage, in the order they are tried
    Proxied,         \* models reached through the LiteLLM proxy
    MaxRetries,      \* max_retries of the stage's route policy ...
    MaxConsecutive,  \* ... and its max_consecutive_failures
    Enforce          \* the policy is "enforce" rather than "observe"

ASSUME ModelCallsAssumption ==
    /\ Routes \in [Stages -> Seq(Models)]
    /\ Proxied \subseteq Models
    /\ MaxRetries \in [Stages -> Nat]
    /\ MaxConsecutive \in [Stages -> Nat \ {0}]
    /\ Enforce \in BOOLEAN

Health == Stages \X Models

\* Failure classes that count against the health of a route.
ProviderFailures == {"error", "timeout", "not_found", "static_validation"}
Failures == ProviderFailures \cup {"malformed", "schema", "policy", "other"}
Skips == {"cooldown", "no_credential"}

VARIABLES
    missing,      \* models whose credential is not in the environment
    consecutive,  \* RouteHealthState.consecutive_failure_count
    cooling,      \* cooldown_until is in the future
    phase,        \* what the call is doing
    stage,        \* the stage it is for
    route,        \* index of the route being tried
    attempt,      \* which attempt on that route
    seen,         \* failure classes and skip reasons among the call's attempts
    abandoned     \* a thread nobody waits for holds the capture lock

health    == <<consecutive, cooling>>
callVars  == <<missing, health, phase, stage, route, attempt, seen, abandoned>>

Model == Routes[stage][route]
Key   == <<stage, Model>>

\* Runs in a thread of its own, under a deadline that covers the wait.
Deferred(m) == m \in Proxied

CallInit ==
    /\ missing \in SUBSET Models
    /\ consecutive = [k \in Health |-> 0]
    /\ cooling = [k \in Health |-> FALSE]
    /\ phase = "idle"
    /\ stage = CHOOSE s \in Stages : TRUE
    /\ route = 1
    /\ attempt = 1
    /\ seen = {}
    /\ abandoned = FALSE

\* A caller starts a call for s, or goes on without one.
Call(s) ==
    /\ phase' = IF Routes[s] = <<>> THEN "failed" ELSE "route"
    /\ stage' = s
    /\ route' = 1
    /\ attempt' = 1
    /\ seen' = {}

NoCall ==
    /\ phase' = "idle"
    /\ route' = 1
    /\ attempt' = 1
    /\ seen' = {}
    /\ UNCHANGED stage

NextRoute ==
    IF route < Len(Routes[stage])
      THEN phase' = "route" /\ route' = route + 1 /\ attempt' = 1
      ELSE phase' = "failed" /\ UNCHANGED <<route, attempt>>

SkipReason ==
    IF cooling[Key] THEN "cooldown"
    ELSE IF Model \in missing THEN "no_credential" ELSE "none"

SkipRoute ==
    /\ phase = "route"
    /\ SkipReason # "none"
    /\ seen' = seen \cup {SkipReason}
    /\ NextRoute
    /\ UNCHANGED <<missing, health, stage, abandoned>>

TryRoute ==
    /\ phase = "route"
    /\ SkipReason = "none"
    /\ phase' = "calling"
    /\ UNCHANGED <<missing, health, stage, route, attempt, seen, abandoned>>

\* What the route's health becomes after a failure of this class.
AfterFailure(class) ==
    IF class \in ProviderFailures /\ consecutive[Key] < MaxConsecutive[stage]
      THEN consecutive[Key] + 1
      ELSE consecutive[Key]

CoolsDown(class) ==
    \/ class \in {"timeout", "not_found"}
    \/ class \in ProviderFailures /\ AfterFailure(class) >= MaxConsecutive[stage]

RecordFailure(class) ==
    /\ consecutive' = [consecutive EXCEPT ![Key] = AfterFailure(class)]
    /\ cooling' = [cooling EXCEPT ![Key] = @ \/ CoolsDown(class)]

RecordSuccess == consecutive' = [consecutive EXCEPT ![Key] = 0]

\* The provider's thread may run: the lock is the abandoned one's, and a
\* direct call waits for it.
Running == phase = "calling" /\ (Deferred(Model) \/ ~abandoned)

\* The answer arrived in time, parsed, and met the stage's schema.
Accept ==
    /\ Running
    /\ RecordSuccess
    /\ phase' = "answered"
    /\ UNCHANGED <<missing, cooling, stage, route, attempt, seen, abandoned>>

\* The answer holds a claim the policy blocks.
Refuse ==
    /\ Running
    /\ Enforce
    /\ RecordFailure("policy")
    /\ seen' = seen \cup {"policy"}
    /\ phase' = "refused"
    /\ UNCHANGED <<missing, stage, route, attempt, abandoned>>

\* Goes on with the retries of a route that was just put to rest.
RetryWhileCooling ==
    IF attempt > MaxRetries[stage]
      THEN NextRoute
      ELSE attempt' = attempt + 1 /\ UNCHANGED <<phase, route>>

\* After a failed attempt: another one, unless the route was put to rest.
RetryOrNextRoute ==
    IF cooling'[Key] \/ attempt > MaxRetries[stage]
      THEN NextRoute
      ELSE attempt' = attempt + 1 /\ UNCHANGED <<phase, route>>

\* A malformed answer, an answer against the schema, or a provider error.
AttemptFails(class) ==
    /\ Running
    /\ RecordFailure(class)
    /\ seen' = seen \cup {class}
    /\ RetryOrNextRoute
    /\ UNCHANGED <<missing, stage, abandoned>>

\* An answer past the stage's timeout is discarded.
DiscardLateAnswer ==
    /\ Running
    /\ RecordFailure("timeout")
    /\ seen' = seen \cup {"timeout"}
    /\ NextRoute
    /\ UNCHANGED <<missing, stage, abandoned>>

\* The deadline passes.  A deferred call is left to its thread, which holds
\* the capture lock if no other abandoned thread does.
Deadline ==
    /\ Running
    /\ RecordFailure("timeout")
    /\ seen' = seen \cup {"timeout"}
    /\ NextRoute
    /\ abandoned' = (abandoned \/ Deferred(Model))
    /\ UNCHANGED <<missing, stage>>

\* The thread ends without releasing the lock.
AbandonedCallKeepsLock ==
    /\ abandoned
    /\ UNCHANGED callVars

AbandonedCallEnds ==
    /\ abandoned
    /\ abandoned' = FALSE
    /\ UNCHANGED <<missing, health, phase, stage, route, attempt, seen>>

CooldownEnds ==
    /\ \E k \in Health :
          /\ cooling[k]
          /\ cooling' = [cooling EXCEPT ![k] = FALSE]
    /\ UNCHANGED <<missing, consecutive, phase, stage, route, attempt, seen, abandoned>>

CallStep ==
    \/ SkipRoute
    \/ TryRoute
    \/ Accept
    \/ Refuse
    \/ \E class \in {"malformed", "schema", "error", "not_found", "other"} : AttemptFails(class)
    \/ DiscardLateAnswer
    \/ Deadline

\* _raise_live_failure: no credential only when no route was reached at all.
CallError ==
    IF seen # {} /\ seen \subseteq Skips /\ "cooldown" \notin seen
      THEN "credential"
      ELSE "provider"

CallTypeOK ==
    /\ missing \subseteq Models
    /\ consecutive \in [Health -> Nat]
    /\ cooling \in [Health -> BOOLEAN]
    /\ phase \in {"idle", "route", "calling", "answered", "refused", "failed"}
    /\ stage \in Stages
    /\ route \in Nat
    /\ attempt \in Nat
    /\ seen \subseteq Failures \cup Skips
    /\ abandoned \in BOOLEAN
=============================================================================
