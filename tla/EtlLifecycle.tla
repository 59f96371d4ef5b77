---------------------------- MODULE EtlLifecycle ----------------------------
(***************************************************************************)
(* What the ETL queue promises about one report's job, with no worker,     *)
(* lease or clock in sight: the lifecycle of docs/operations/              *)
(* operational_model.md, with the attempt budget of app/core/queue.        *)
(*                                                                         *)
(*   absent -> pending -> processing -> completed                          *)
(*                ^           |                                            *)
(*                +-----------+--> dead_letter                             *)
(*                ^  (budget left)  (budget spent)   |                     *)
(*                +----------------------------------+  operator replay    *)
(*                                                                         *)
(* A job finishes exactly when its business result is committed.  EtlQueue *)
(* is shown to implement this specification when workers keep their        *)
(* heartbeats and replays of one job do not overlap.                       *)
(***************************************************************************)
EXTENDS Naturals

CONSTANTS Job, MaxAttempts

VARIABLES
    phase,      \* Job -> lifecycle phase
    tries,      \* Job -> claims since the job was queued or last revived
    result      \* Job -> whether the business result is committed

vars == <<phase, tries, result>>

Init ==
    /\ phase = [j \in Job |-> "absent"]
    /\ tries = [j \in Job |-> 0]
    /\ result = [j \in Job |-> FALSE]

(* Moves of a single job, as relations between its old and its new state. *)
Submitted(j) ==
    phase[j] = "absent" /\ phase'[j] = "pending" /\ tries'[j] = 0

Started(j) ==
    /\ phase[j] = "pending" /\ phase'[j] = "processing"
    /\ tries[j] < MaxAttempts
    /\ tries'[j] = tries[j] + 1

Finished(j) ==
    phase[j] = "processing" /\ phase'[j] = "completed" /\ tries'[j] = tries[j]

GivenBack(j) ==
    /\ phase[j] = "processing" /\ phase'[j] = "pending"
    /\ tries[j] < MaxAttempts
    /\ tries'[j] = tries[j]

Buried(j) ==
    /\ phase[j] = "processing" /\ phase'[j] = "dead_letter"
    /\ tries[j] = MaxAttempts
    /\ tries'[j] = tries[j]

Revived(j) ==
    phase[j] = "dead_letter" /\ phase'[j] = "pending" /\ tries'[j] = 0

Unmoved(j) == phase'[j] = phase[j] /\ tries'[j] = tries[j]

JobStep(j) ==
    \/ Finished(j) /\ result'[j]
    \/ /\ result'[j] = result[j]
       /\ \/ Submitted(j) \/ Started(j) \/ GivenBack(j)
          \/ Buried(j) \/ Revived(j) \/ Unmoved(j)

(* A stale-claim sweep may move several jobs in one transaction. *)
Next ==
    /\ DOMAIN phase' = Job /\ DOMAIN tries' = Job /\ DOMAIN result' = Job
    /\ \A j \in Job : JobStep(j)

Spec == Init /\ [][Next]_vars
=============================================================================
