----------------------------- MODULE LeaseQueue -----------------------------
(***************************************************************************)
(* What the run_jobs table promises whoever works from it, without its     *)
(* workers: a bounded number of numbered leases per job, handed out one at *)
(* a time and only when the job waits or its last lease lapsed.  It does   *)
(* not promise that a job is handed out once, nor that only the holder of  *)
(* the lease finishes it.                                                  *)
(***************************************************************************)
EXTENDS Naturals

CONSTANTS Job, Holder, MaxAttempts, NoHolder

VARIABLES
    state,  \* absent, queued, leased, lapsed or done
    leases, \* how many leases were handed out
    holder  \* who got the one that is leased or lapsed

vars == <<state, leases, holder>>

Init ==
    /\ state = [j \in Job |-> "absent"]
    /\ leases = [j \in Job |-> 0]
    /\ holder = [j \in Job |-> NoHolder]

\* A job enters the queue once.
Put(j) ==
    /\ state[j] = "absent"
    /\ state' = [state EXCEPT ![j] = "queued"]
    /\ UNCHANGED <<leases, holder>>

\* h gets a lease with the next number.
Take(j, h) ==
    /\ state[j] \in {"queued", "lapsed"}
    /\ leases[j] < MaxAttempts
    /\ state' = [state EXCEPT ![j] = "leased"]
    /\ leases' = [leases EXCEPT ![j] = @ + 1]
    /\ holder' = [holder EXCEPT ![j] = h]

Lapse(j) ==
    /\ state[j] = "leased"
    /\ state' = [state EXCEPT ![j] = "lapsed"]
    /\ UNCHANGED <<leases, holder>>

\* The last holder may have its lapsed lease back, as long as nobody took it.
Extend(j) ==
    /\ state[j] = "lapsed"
    /\ state' = [state EXCEPT ![j] = "leased"]
    /\ UNCHANGED <<leases, holder>>

\* The job waits again (release) or is finished, and keeps its count.
Leave(j, s) ==
    /\ state[j] # "absent"
    /\ s \in {"queued", "done"}
    /\ state' = [state EXCEPT ![j] = s]
    /\ holder' = [holder EXCEPT ![j] = NoHolder]
    /\ UNCHANGED leases

Next == \E j \in Job :
    \/ Put(j) \/ Lapse(j) \/ Extend(j) \/ Leave(j, "queued") \/ Leave(j, "done")
    \/ \E h \in Holder : Take(j, h)

Spec == Init /\ [][Next]_vars
=============================================================================
