----------------------------- MODULE OwnedProcess -----------------------------
(* A child process that a worker thread spawns and keeps: OwnedProcessLease of  *)
(* the review runtime.  Whoever asked for the process is handed it, but only    *)
(* the worker ends it, and it does so once it is told to settle, whether or not *)
(* the other side ever heard of the process.                                    *)
EXTENDS Naturals

CONSTANT MaxFaults    \* bound on failing calls

VARIABLES worker,     \* none, ready, spawning, published, killing, again, proving, dead
          requested, settling,
          refused,    \* the factory raised: _spawn_error
          proof,      \* _quiescence_proven
          child,      \* none, alive, orphaned (its group outlives it), gone
          faults

lease == <<worker, requested, settling, refused, proof, child>>

LeaseTypeOK ==
    /\ worker \in {"none", "ready", "spawning", "published", "killing", "again", "proving", "dead"}
    /\ requested \in BOOLEAN /\ settling \in BOOLEAN /\ refused \in BOOLEAN /\ proof \in BOOLEAN
    /\ child \in {"none", "alive", "orphaned", "gone"}
    /\ faults \in 0..MaxFaults

LeaseInit ==
    /\ worker = "none" /\ requested = FALSE /\ settling = FALSE
    /\ refused = FALSE /\ proof = FALSE /\ child = "none" /\ faults = 0

Fault == faults < MaxFaults /\ faults' = faults + 1
Lives == child \in {"alive", "orphaned"}

--------------------------------------------------------------------------------
(* The worker thread *)

(* it refuses a request that comes together with the order to settle *)
Begin ==
    /\ worker = "ready" /\ requested
    /\ IF settling THEN worker' = "dead" /\ proof' = TRUE
                   ELSE worker' = "spawning" /\ UNCHANGED proof
    /\ UNCHANGED <<requested, settling, refused, child, faults>>

Spawn ==
    /\ worker = "spawning"
    /\ \/ child' = "alive" /\ worker' = "published" /\ UNCHANGED <<refused, proof, faults>>
       \/ Fault /\ refused' = TRUE /\ proof' = TRUE /\ worker' = "dead" /\ UNCHANGED child
    /\ UNCHANGED <<requested, settling>>

(* _process_is_quiescent, which may also fail to tell *)
LookFirst ==
    /\ worker = "published" /\ settling
    /\ \/ worker' = (IF Lives THEN "killing" ELSE "proving") /\ UNCHANGED faults
       \/ Fault /\ worker' = "killing"
    /\ UNCHANGED <<requested, settling, refused, proof, child>>

(* terminate_process_group and a look at what it left: twice at most *)
Kill ==
    /\ worker \in {"killing", "again"}
    /\ \/ child' = "gone" /\ worker' = "proving" /\ UNCHANGED faults
       \/ Fault /\ UNCHANGED child /\ worker' = IF worker = "killing" /\ Lives THEN "again" ELSE "proving"
    /\ UNCHANGED <<requested, settling, refused, proof>>

(* the streams are closed and the process is looked at once more *)
Prove ==
    /\ worker = "proving"
    /\ worker' = "dead"
    /\ \/ proof' = ~Lives /\ UNCHANGED faults
       \/ Fault /\ proof' = FALSE
    /\ UNCHANGED <<requested, settling, refused, child>>

Worker == Begin \/ Spawn \/ LookFirst \/ Kill \/ Prove

Exit ==
    /\ \/ child = "alive" /\ child' \in {"orphaned", "gone"}
       \/ child = "orphaned" /\ child' = "gone"
    /\ UNCHANGED <<worker, requested, settling, refused, proof, faults>>

--------------------------------------------------------------------------------
(* What the other side does with the lease *)

(* _start_worker_with_child_mask: it may fail before or after the thread runs *)
StartWorker == worker = "none" /\ worker' = "ready"
               /\ UNCHANGED <<requested, settling, refused, proof, child>>
Request == requested' = TRUE /\ UNCHANGED <<worker, settling, refused, proof, child>>
AskToSettle == settling' = TRUE /\ requested' = TRUE
               /\ UNCHANGED <<worker, refused, proof, child>>

(* what settle concludes: without a thread there never was a process *)
Proven == worker = "none" \/ (worker = "dead" /\ proof)
WorkerOver == worker \in {"none", "dead"}
================================================================================
