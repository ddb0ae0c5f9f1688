--------------------------- MODULE AttemptLifecycle ---------------------------
(***************************************************************************)
(* One review attempt and every process that may write its durable record: *)
(* the outer process (`run`), the attempt supervisor it forks, the         *)
(* supervisor's checkout worker, the short-lived helpers that commit on    *)
(* behalf of a process, the reviewer process (the leader) and the operator *)
(* that runs `recover` and `final` later.  Any of them can be killed at    *)
(* any step, every wait can time out, and the machine can reboot.          *)
(*                                                                         *)
(* pc[p] is what process p does next.  A label that is a kind of commit    *)
(* (see AttemptRecord) means that p is committing that kind: it spawns a   *)
(* helper, the helper checks the predecessor digest and the allowlist,     *)
(* writes the record, and answers.  Those are four separate steps, because *)
(* p may die or give up between any two of them.                           *)
(***************************************************************************)
EXTENDS Naturals, AttemptRecord

CONSTANT MaxBoot      \* bound on the number of reboots of the machine
ASSUME BootAssumption == MaxBoot \in Nat

VARIABLES
  rec,       \* the durable record on disk
  pc,        \* what each process does next
  helper,    \* the commit helper of each process
  fresh,     \* the processes whose cached digest is that of the disk record
  worker,    \* the checkout worker
  leader,    \* the last reviewer-stage process launched: its stage and state
  tree,      \* the checkout, or its Git registration, exists on disk
  toSup,     \* the handoff message in flight to the supervisor
  toOuter,   \* the message in flight to the outer process
  delivered, \* a review result was handed to the user
  boot       \* how often the machine was rebooted since the attempt began

vars == <<rec, pc, helper, fresh, worker, leader, tree, toSup, toOuter,
          delivered, boot>>

Procs    == {"outer", "sup", "operator"}
Finished == {"exit0", "exit1", "exit2", "dead"}

OuterLabels ==
  {"off", "prompt", "spawn", "custody", "pending", "await-accepted",
   "await-complete", "owned", "await-terminal", "reap-ok", "reap-fail",
   "reap-held", "acquire", "final-auth", "terminating", "abort", "cleanup", "absent",
   "cleanup-intent", "delete", "cleanup-progress", "removed", "manual",
   "settle"} \cup Finished

SupLabels ==
  {"off", "ready", "await-offer", "accepted", "await-start", "complete",
   "await-ack", "adding", "await-worker", "index", "phase0", "validated",
   "spawn-refresh", "spawn-reviewer", "launch", "checkpoint", "launched",
   "running", "closed-zero", "closed-nonzero", "publish", "auth-pending",
   "authorize", "reviewed", "failure", "failure-child", "failure-abandoned",
   "cleanup", "absent", "cleanup-intent", "delete", "cleanup-progress",
   "removed", "manual", "terminal", "settle", "send-terminal"} \cup Finished

OperatorLabels ==
  {"idle", "conserve", "recovered", "cleanup", "absent", "cleanup-intent",
   "delete", "cleanup-progress", "removed", "manual", "manual-recover",
   "settle", "charge"}

LabelsOf(p) == CASE p = "outer"    -> OuterLabels
                 [] p = "sup"      -> SupLabels
                 [] p = "operator" -> OperatorLabels
Labels == OuterLabels \cup SupLabels \cup OperatorLabels

WorkerLabels ==
  {"off", "control", "control-done", "add", "registered", "registered-done",
   "fill-index", "index-done", "check", "phase0-done", "materialize",
   "complete", "failed", "dead"}

WorkerCommits == {"control", "registered"}

NoHelper == [kind |-> "none", st |-> "off", base |-> ReservedRecord]

Init ==
  /\ rec = ReservedRecord
  /\ pc = [p \in Procs |-> IF p = "operator" THEN "idle" ELSE "off"]
  /\ helper = [p \in Procs |-> NoHelper]
  /\ fresh = {}
  /\ worker = "off"
  /\ leader = [stage |-> "none", st |-> "none"]
  /\ tree = FALSE
  /\ toSup = "none" /\ toOuter = "none"
  /\ delivered = FALSE
  /\ boot = 0

-----------------------------------------------------------------------------
(* The retention lease: one flock on an open file description that the     *)
(* outer process shares with the supervisor it forks, and every process    *)
(* with its helpers and its worker, by passing the descriptor.  It is free *)
(* when the last holder is gone.  The reviewer process does not get it.    *)

OuterHolds == pc["outer"] \in OuterLabels
                \ ({"off", "await-terminal", "reap-ok", "reap-fail",
                    "acquire"} \cup Finished)
SupHolds      == pc["sup"] \in SupLabels \ ({"off"} \cup Finished)
OperatorHolds == pc["operator"] # "idle"
WorkerLive    == worker \notin {"off", "dead"}
HelperLive(p) == helper[p].st # "off"

LeaseFree ==
  /\ ~OuterHolds /\ ~SupHolds /\ ~OperatorHolds /\ ~WorkerLive
  /\ \A p \in Procs : ~HelperLive(p)

(* The outer's end of the handoff socket is open. *)
OuterConnected ==
  pc["outer"] \in {"spawn", "custody", "pending", "await-accepted",
                   "await-complete", "owned", "await-terminal", "reap-ok"}

-----------------------------------------------------------------------------
(* commit_via_helper and the helper processes. *)

(* p spawns a helper, passes it the lease and sends it the request, which  *)
(* names the digest p has.                                                 *)
Request(p) ==
  /\ pc[p] \in Kinds /\ ~HelperLive(p)
  /\ helper' = [helper EXCEPT ![p] =
                  [kind |-> pc[p], st |-> "requested",
                   base |-> ReservedRecord]]
  /\ UNCHANGED <<rec, pc, fresh, worker, leader, tree, toSup, toOuter,
                 delivered, boot>>

(* The helper reads the record, compares its digest with the requested     *)
(* predecessor and validates the transition.  The authorization helper     *)
(* also asks whether the outer process is still there, the final           *)
(* authorization whether the supervisor is gone.                           *)
HelperCheck(p) ==
  /\ helper[p].st = "requested"
  /\ helper' = [helper EXCEPT ![p] =
        IF /\ p \in fresh /\ Allowed(helper[p].kind, rec)
           /\ helper[p].kind = "authorize" => OuterConnected
           /\ helper[p].kind = "final-auth" =>
                pc["sup"] \in Finished \cup {"off"}
        THEN [kind |-> helper[p].kind, st |-> "checked", base |-> rec]
        ELSE [kind |-> helper[p].kind, st |-> "refused",
              base |-> ReservedRecord]]
  /\ UNCHANGED <<rec, pc, fresh, worker, leader, tree, toSup, toOuter,
                 delivered, boot>>

(* It writes the successor of the record it read. *)
HelperCommit(p) ==
  /\ helper[p].st = "checked"
  /\ rec' = Update(helper[p].kind, helper[p].base)
  /\ fresh' = {}
  /\ helper' = [helper EXCEPT ![p] =
                  [kind |-> helper[p].kind, st |-> "landed",
                   base |-> ReservedRecord]]
  /\ UNCHANGED <<pc, worker, leader, tree, toSup, toOuter, delivered, boot>>

(* A helper can fail at any step before the write; the authorization       *)
(* helper also answers no when the outer is gone after its write.          *)
HelperFail(p) ==
  /\ \/ helper[p].st \in {"requested", "checked"}
     \/ helper[p].st = "landed" /\ helper[p].kind = "authorize"
        /\ ~OuterConnected
  /\ helper' = [helper EXCEPT ![p] =
                  [kind |-> helper[p].kind, st |-> "refused",
                   base |-> ReservedRecord]]
  /\ UNCHANGED <<rec, pc, fresh, worker, leader, tree, toSup, toOuter,
                 delivered, boot>>

(* A helper whose process is gone answers nobody and exits. *)
Orphaned(p) == pc[p] \in Finished \/ (p = "operator" /\ pc[p] = "idle")
(* (A variant that keeps waiting when its answer would be a refusal; it    *)
(* breaks LeaseIsReleased.)                                                *)
OrphanExitOnlyLanded(p) ==
  /\ Orphaned(p) /\ helper[p].st = "landed"
  /\ helper' = [helper EXCEPT ![p] = NoHelper]
  /\ UNCHANGED <<rec, pc, fresh, worker, leader, tree, toSup, toOuter,
                 delivered, boot>>

OrphanExit(p) ==
  /\ Orphaned(p) /\ helper[p].st \in {"landed", "refused"}
  /\ helper' = [helper EXCEPT ![p] = NoHelper]
  /\ UNCHANGED <<rec, pc, fresh, worker, leader, tree, toSup, toOuter,
                 delivered, boot>>

-----------------------------------------------------------------------------
(* What a process does after its commit of kind k was acknowledged. *)

SupFailures == IF OuterConnected THEN {"failure"}
               ELSE {"failure", "failure-abandoned"}

(* _cleanup_worktree returned: the owner goes on to its settlement. *)
AfterCleanup(p) ==
  CASE p = "outer" -> {"settle"}
    [] p = "sup"   -> {"terminal"}
    [] p = "operator" ->
         {IF rec.psettle = "exact" THEN "charge" ELSE "settle"}

AfterCheckout == {"spawn-refresh", "spawn-reviewer"} \cup SupFailures

(* A stage that exited zero may still have failed its session. *)
AfterClosed ==
  IF rec.exit = "zero"
  THEN {IF rec.stage = "auth-refresh" THEN "spawn-reviewer" ELSE "publish"}
         \cup SupFailures
  ELSE SupFailures

After(p, k) ==
  CASE k = "prompt"    -> {"spawn"}
    [] k = "pending"   -> {"await-accepted"}
    [] k = "accepted"  -> {"await-start"}
    [] k = "complete"  -> {"await-ack"}
    [] k = "abort"     -> {"cleanup"}
    [] k \in {"adding", "index", "phase0"} -> {"await-worker"}
    [] k = "validated" -> AfterCheckout
    [] k \in SpawnKinds  -> {"launch"}
    [] k = "launched"    -> {"running"}
    [] k \in ClosedKinds -> AfterClosed
    [] k = "auth-pending" -> {"authorize"}
    [] k = "authorize"    -> {"reviewed"}
    [] k \in FailureKinds \cup {"reviewed"} -> {"cleanup"}
    [] k = "cleanup-intent"   -> {"delete"}
    [] k = "cleanup-progress" -> {"removed"}
    [] k \in {"absent", "removed", "manual", "manual-recover"} ->
         AfterCleanup(p)
    [] k = "terminal"   -> {"settle"}
    [] k = "settle" /\ p = "sup"   -> {"send-terminal"}
    [] k = "settle" /\ p = "outer" -> {"exit2"}
    [] k = "settle" /\ p = "operator" -> {"idle"}
    [] k = "final-auth" -> {"exit0"}
    [] k = "conserve"   -> {"recovered"}
    [] k = "recovered"  -> IF rec.csettle = "exact"
                           THEN AfterCleanup(p) ELSE {"cleanup"}
    [] k = "charge"     -> {"idle"}

(* The message or the worker command that accompanies the return; a worker *)
(* that is gone does not come back to take it.                             *)
SupSends(k)   == CASE k = "accepted" -> "accepted"
                   [] k = "complete" -> "complete"
                   [] OTHER          -> toOuter
OuterSends(k) == IF k = "pending" THEN "offer" ELSE toSup
WorkerAfter(k) == CASE k = "adding" -> "control"
                    [] k = "index"  /\ WorkerLive -> "check"
                    [] k = "phase0" /\ WorkerLive -> "materialize"
                    [] OTHER        -> worker

(* p receives the result, reaps the helper and finds the record it asked   *)
(* for on disk.                                                            *)
Reply(p) ==
  /\ helper[p].st = "landed" /\ pc[p] = helper[p].kind
  /\ \E l \in After(p, pc[p]) : pc' = [pc EXCEPT ![p] = l]
  /\ helper' = [helper EXCEPT ![p] = NoHelper]
  /\ fresh' = fresh \cup {p}
  /\ toOuter' = IF p = "sup" THEN SupSends(pc[p]) ELSE toOuter
  /\ toSup' = IF p = "outer" THEN OuterSends(pc[p]) ELSE toSup
  /\ worker' = IF p = "sup" THEN WorkerAfter(pc[p]) ELSE worker
  /\ UNCHANGED <<rec, leader, tree, delivered, boot>>

(* Where a process goes when its commit failed: the helper refused, a      *)
(* deadline passed or the answer was lost.  The helper is killed and       *)
(* reaped; whether its write landed is unknown to the process.             *)
CleanupCommits == {"absent", "cleanup-intent", "cleanup-progress", "removed"}

CleanupFailures(p) ==
  {"manual", IF p = "operator" THEN "manual-recover" ELSE "exit2"}

OnFail(p, k) ==
  CASE k = "prompt"  -> {"abort"}
    [] k = "pending" -> {"terminating"}
    [] k \in {"adding", "validated", "auth-pending", "reviewed"}
         \cup SpawnKinds -> SupFailures
    [] k = "authorize"   -> {"failure-abandoned"}
    [] k \in CleanupCommits -> CleanupFailures(p)
    [] p = "operator" /\ k = "manual" -> {"manual-recover"}
    [] p = "operator" /\ k # "manual" -> {"idle"}
    [] OTHER -> {"exit2"}

(* The labels whose code reads the record again before it commits. *)
Rereads(l) == l \in FailureKinds \cup {"manual", "abort"}

(* recover handles a failed cleanup with the state it had before it. *)
StaleAfterFailure(l) == l = "manual-recover" /\ rec.last # "recovered"

(* A failed commit of the launch ends with the reviewer terminated, one of *)
(* the checkout with the worker terminated.                                *)
Fail(p) ==
  /\ pc[p] \in Kinds
  /\ \E l \in OnFail(p, pc[p]) :
       /\ pc' = [pc EXCEPT ![p] = l]
       /\ fresh' = CASE Rereads(l) -> fresh \cup {p}
                     [] StaleAfterFailure(l) -> fresh \ {p}
                     [] OTHER -> fresh
  /\ helper' = [helper EXCEPT ![p] = NoHelper]
  /\ worker' = IF pc[p] \in {"index", "phase0"} THEN "dead" ELSE worker
  /\ leader' = IF pc[p] = "launched" /\ leader.st = "running"
               THEN [leader EXCEPT !.st = "nonzero"] ELSE leader
  /\ UNCHANGED <<rec, tree, toSup, toOuter, delivered, boot>>

-----------------------------------------------------------------------------
(* The outer process: run. *)

OuterGoto(l) == pc' = [pc EXCEPT !["outer"] = l]
OuterOnly == UNCHANGED <<rec, helper, worker, leader, tree, delivered, boot>>

(* The lease is acquired, the attempt reserved, the prompt about to be     *)
(* published.                                                              *)
OuterStart ==
  /\ pc["outer"] = "off" /\ LeaseFree /\ boot = 0
  /\ OuterGoto("prompt")
  /\ fresh' = fresh \cup {"outer"}
  /\ OuterOnly /\ UNCHANGED <<toSup, toOuter>>

SpawnSup ==
  /\ pc["outer"] = "spawn"
  /\ pc' = [pc EXCEPT !["outer"] = "custody", !["sup"] = "ready"]
  /\ OuterOnly /\ UNCHANGED <<fresh, toSup, toOuter>>

(* The supervisor is ready and takes custody of the frozen source. *)
SupTakeCustody ==
  /\ pc["sup"] = "ready" /\ pc["outer"] = "custody"
  /\ pc' = [pc EXCEPT !["sup"] = "await-offer"]
  /\ toOuter' = "custody-accepted"
  /\ OuterOnly /\ UNCHANGED <<fresh, toSup>>

OuterCustodyAccepted ==
  /\ pc["outer"] = "custody" /\ toOuter = "custody-accepted"
  /\ OuterGoto("pending") /\ toOuter' = "none"
  /\ OuterOnly /\ UNCHANGED <<fresh, toSup>>

(* handoff-accepted is answered by handoff-start once the accepted record  *)
(* is read back from disk.                                                 *)
OuterAccepted ==
  /\ pc["outer"] = "await-accepted" /\ toOuter = "accepted"
  /\ rec.handoff = "accepted" /\ rec.owner = "outer"
  /\ OuterGoto("await-complete")
  /\ toOuter' = "none" /\ toSup' = "start"
  /\ OuterOnly /\ UNCHANGED fresh

(* handoff-complete, read back: from here on the supervisor owns the       *)
(* attempt, although it has not been told yet.                             *)
OuterOwnershipComplete ==
  /\ pc["outer"] = "await-complete" /\ toOuter = "complete"
  /\ rec.handoff = "complete" /\ rec.owner = "attempt-supervisor"
  /\ OuterGoto("owned") /\ toOuter' = "none"
  /\ OuterOnly /\ UNCHANGED <<fresh, toSup>>

(* The acknowledgement is sent and the lease closed. *)
OuterAck ==
  /\ pc["outer"] = "owned"
  /\ OuterGoto("await-terminal") /\ toSup' = "ack"
  /\ OuterOnly /\ UNCHANGED <<fresh, toOuter>>

OuterTerminal ==
  /\ pc["outer"] = "await-terminal" /\ toOuter = "terminal"
  /\ OuterGoto("reap-ok") /\ toOuter' = "none"
  /\ OuterOnly /\ UNCHANGED <<fresh, toSup>>

(* Two variants of OuterGiveUp.  The first aborts an incomplete handoff     *)
(* without terminating the supervisor and breaks NoLostUpdate; the second   *)
(* waits for the accepted handoff without a deadline and breaks RunEnds.    *)
OuterGiveUpWithoutTermination ==
  /\ \/ /\ pc["outer"] \in {"spawn", "custody", "await-accepted",
                             "await-complete"} /\ OuterGoto("abort")
     \/ /\ pc["outer"] = "owned" /\ OuterGoto("reap-held")
     \/ /\ pc["outer"] \in {"await-terminal", "reap-ok"}
        /\ OuterGoto("reap-fail")
     \/ /\ pc["outer"] \in {"terminating", "reap-fail", "reap-held",
                            "acquire"}
        /\ OuterGoto("exit2")
  /\ fresh' = fresh \cup {"outer"}
  /\ OuterOnly /\ UNCHANGED <<toSup, toOuter>>

OuterGiveUpWithoutDeadline ==
  /\ \/ /\ pc["outer"] = "spawn" /\ OuterGoto("abort")
     \/ /\ pc["outer"] \in {"custody", "await-complete"}
        /\ OuterGoto("terminating")
     \/ /\ pc["outer"] = "owned" /\ OuterGoto("reap-held")
     \/ /\ pc["outer"] \in {"await-terminal", "reap-ok"}
        /\ OuterGoto("reap-fail")
     \/ /\ pc["outer"] \in {"terminating", "reap-fail", "reap-held",
                            "acquire"}
        /\ OuterGoto("exit2")
  /\ fresh' = IF pc["outer"] = "spawn" THEN fresh \cup {"outer"} ELSE fresh
  /\ OuterOnly /\ UNCHANGED <<toSup, toOuter>>

(* A deadline, an EOF or an invalid message.  Before the ownership is      *)
(* complete the supervisor is terminated; after it, only awaited, with the *)
(* lease still held when the acknowledgement was not sent.                 *)
OuterGiveUp ==
  /\ \/ /\ pc["outer"] = "spawn" /\ OuterGoto("abort")
     \/ /\ pc["outer"] \in {"custody", "await-accepted", "await-complete"}
        /\ OuterGoto("terminating")
     \/ /\ pc["outer"] = "owned" /\ OuterGoto("reap-held")
     \/ /\ pc["outer"] \in {"await-terminal", "reap-ok"}
        /\ OuterGoto("reap-fail")
     \/ /\ pc["outer"] \in {"terminating", "reap-fail", "reap-held",
                            "acquire"}
        /\ OuterGoto("exit2")
  /\ fresh' = IF pc["outer"] = "spawn" THEN fresh \cup {"outer"} ELSE fresh
  /\ OuterOnly /\ UNCHANGED <<toSup, toOuter>>

(* A variant that kills the supervisor but not its helpers; it breaks      *)
(* SingleWriter and ConclusionIsPermanent.                                 *)
OuterTerminateSupAlone ==
  /\ pc["outer"] = "terminating"
  /\ pc' = [pc EXCEPT !["outer"] = "abort",
                      !["sup"] = IF @ \in Finished THEN @ ELSE "dead"]
  /\ fresh' = fresh \cup {"outer"}
  /\ UNCHANGED <<rec, helper, worker, leader, tree, toSup, toOuter, delivered,
                 boot>>

(* _terminate_incomplete_handoff: the supervisor's process group, with its *)
(* helpers, is killed and reaped; the abort then reads the record again.   *)
OuterTerminateSup ==
  /\ pc["outer"] = "terminating"
  /\ pc' = [pc EXCEPT !["outer"] = "abort",
                      !["sup"] = IF @ \in Finished THEN @ ELSE "dead"]
  /\ helper' = [helper EXCEPT !["sup"] = NoHelper]
  /\ fresh' = fresh \cup {"outer"}
  /\ UNCHANGED <<rec, worker, leader, tree, toSup, toOuter, delivered, boot>>

(* The reaped supervisor's exit status decides: 0 and 1 are completed      *)
(* under a lease acquired again, anything else is not authenticated.       *)
OuterReap ==
  /\ pc["outer"] \in {"reap-ok", "reap-fail", "reap-held"}
  /\ pc["sup"] \in Finished
  /\ OuterGoto(IF pc["outer"] = "reap-ok" /\ pc["sup"] \in {"exit0", "exit1"}
               THEN "acquire" ELSE "exit2")
  /\ OuterOnly /\ UNCHANGED <<fresh, toSup, toOuter>>

OuterSelect ==
  /\ pc["outer"] = "acquire" /\ LeaseFree
  /\ OuterGoto(IF pc["sup"] = "exit0" THEN "final-auth" ELSE "exit1")
  /\ fresh' = fresh \cup {"outer"}
  /\ OuterOnly /\ UNCHANGED <<toSup, toOuter>>

-----------------------------------------------------------------------------
(* The attempt supervisor: attempt_supervisor_main. *)

SupGoto(l) == pc' = [pc EXCEPT !["sup"] = l]
SupOnly == UNCHANGED <<rec, helper, tree, delivered, boot>>

SupOffer ==
  /\ pc["sup"] = "await-offer" /\ toSup = "offer"
  /\ rec.handoff = "pending" /\ rec.owner = "outer"
  /\ SupGoto("accepted") /\ toSup' = "none"
  /\ fresh' = fresh \cup {"sup"}
  /\ SupOnly /\ UNCHANGED <<worker, leader, toOuter>>

(* (A variant that starts the checkout at handoff-start, before ownership   *)
(* is recorded; it breaks EffectsFollowHandoff.)                           *)
SupStartUnrecorded ==
  /\ pc["sup"] = "await-start" /\ toSup = "start"
  /\ SupGoto("adding") /\ toSup' = "none"
  /\ SupOnly /\ UNCHANGED <<fresh, worker, leader, toOuter>>

SupStart ==
  /\ pc["sup"] = "await-start" /\ toSup = "start"
  /\ SupGoto("complete") /\ toSup' = "none"
  /\ SupOnly /\ UNCHANGED <<fresh, worker, leader, toOuter>>

(* (A variant that does not wait for the acknowledgement; it breaks        *)
(* LeaseDiscipline.)                                                       *)
SupUnacknowledged ==
  /\ pc["sup"] = "await-ack"
  /\ SupGoto("adding") /\ toSup' = "none"
  /\ SupOnly /\ UNCHANGED <<fresh, worker, leader, toOuter>>

SupAcknowledged ==
  /\ pc["sup"] = "await-ack" /\ toSup = "ack"
  /\ SupGoto("adding") /\ toSup' = "none"
  /\ SupOnly /\ UNCHANGED <<fresh, worker, leader, toOuter>>

(* A deadline or an EOF.  Before the handoff is complete nothing is        *)
(* recorded; after it the failure is, against the record on disk.          *)
SupGiveUp ==
  /\ \/ /\ pc["sup"] \in {"ready", "await-offer", "await-start"}
        /\ SupGoto("exit2") /\ UNCHANGED fresh
     \/ /\ pc["sup"] \in {"await-ack", "publish"}
        /\ \E l \in SupFailures : SupGoto(l)
        /\ fresh' = fresh \cup {"sup"}
     \/ /\ pc["sup"] \in {"cleanup", "delete"}
        /\ \E l \in CleanupFailures("sup") : SupGoto(l)
        /\ fresh' = fresh \cup {"sup"}
     \/ /\ pc["sup"] = "send-terminal"
        /\ SupGoto("exit2") /\ UNCHANGED fresh
  /\ SupOnly /\ UNCHANGED <<worker, leader, toSup, toOuter>>

(* _run_checkout: the worker's record is matched with the disk and the     *)
(* worker released into its next step, or its milestone is committed.      *)
SupReleaseWorker ==
  /\ pc["sup"] = "await-worker"
  /\ worker \in {"control-done", "registered-done"}
  /\ worker' = IF worker = "control-done" THEN "add" ELSE "fill-index"
  /\ fresh' = fresh \cup {"sup"}
  /\ SupOnly /\ UNCHANGED <<pc, leader, toSup, toOuter>>

SupWorkerMilestone ==
  /\ pc["sup"] = "await-worker" /\ worker \in {"index-done", "phase0-done"}
  /\ SupGoto(IF worker = "index-done" THEN "index" ELSE "phase0")
  /\ SupOnly /\ UNCHANGED <<fresh, worker, leader, toSup, toOuter>>

(* The worker is complete, or reported its failure: it is reaped. *)
SupReapWorker ==
  /\ pc["sup"] = "await-worker" /\ worker \in {"complete", "failed"}
  /\ \/ worker = "complete" /\ SupGoto("validated") /\ UNCHANGED fresh
     \/ worker = "failed" /\ fresh' = fresh \cup {"sup"}
        /\ \E l \in SupFailures : SupGoto(l)
  /\ worker' = "off"
  /\ SupOnly /\ UNCHANGED <<leader, toSup, toOuter>>

(* An EOF of the outer, a deadline or the worker's death: the worker's     *)
(* group is terminated and the closure of the checkout stays unproven.     *)
SupLoseWorker ==
  /\ pc["sup"] = "await-worker"
  /\ worker' = "dead" /\ SupGoto("exit2")
  /\ SupOnly /\ UNCHANGED <<fresh, leader, toSup, toOuter>>

(* The reviewer process of the recorded stage is launched ... *)
SupLaunch ==
  /\ pc["sup"] = "launch"
  /\ leader' = [stage |-> rec.stage, st |-> "running"]
  /\ SupGoto("checkpoint")
  /\ SupOnly /\ UNCHANGED <<fresh, worker, toSup, toOuter>>

(* ... or is not: only a live outer makes it a possibly started child. *)
SupLaunchFails ==
  /\ pc["sup"] = "launch"
  /\ SupGoto(IF OuterConnected THEN "failure-child" ELSE "failure-abandoned")
  /\ fresh' = fresh \cup {"sup"}
  /\ SupOnly /\ UNCHANGED <<worker, leader, toSup, toOuter>>

(* A variant of the checkpoint below that does not terminate the child; it *)
(* breaks KeepsItsPromise.                                                 *)
SupCheckpointLeavesChild ==
  /\ pc["sup"] = "checkpoint"
  /\ \/ OuterConnected /\ SupGoto("launched") /\ UNCHANGED fresh
     \/ /\ SupGoto(IF OuterConnected THEN "failure-child"
                   ELSE "failure-abandoned")
        /\ fresh' = fresh \cup {"sup"}
  /\ SupOnly /\ UNCHANGED <<worker, leader, toSup, toOuter>>

(* The checkpoints between the launch and its publication: a signal, the   *)
(* outer gone or a Seatbelt profile of another digest.  Each terminates    *)
(* and reaps the child; with the outer gone nothing is recorded of it.     *)
SupCheckpoint ==
  /\ pc["sup"] = "checkpoint"
  /\ \/ /\ OuterConnected /\ SupGoto("launched")
        /\ UNCHANGED <<leader, fresh>>
     \/ /\ SupGoto(IF OuterConnected THEN "failure-child"
                   ELSE "failure-abandoned")
        /\ leader' = [leader EXCEPT !.st = IF @ = "running"
                                           THEN "nonzero" ELSE @]
        /\ fresh' = fresh \cup {"sup"}
  /\ SupOnly /\ UNCHANGED <<worker, toSup, toOuter>>

(* A variant of SupSettleProcess that judges the process before it is       *)
(* reaped; it breaks VerdictIsEarned.                                      *)
SupSettleBeforeReap ==
  /\ pc["sup"] = "running"
  /\ leader' = [leader EXCEPT !.st = IF @ = "running" THEN "nonzero" ELSE @]
  /\ SupGoto(IF leader.st = "nonzero" THEN "closed-nonzero"
             ELSE "closed-zero")
  /\ SupOnly /\ UNCHANGED <<fresh, worker, toSup, toOuter>>

(* The launched process ends by itself, or is terminated: at a deadline,   *)
(* after a failed session or with the outer gone.                          *)
SupSettleProcess ==
  /\ pc["sup"] = "running"
  /\ leader' = [leader EXCEPT !.st = IF @ = "running" THEN "nonzero" ELSE @]
  /\ SupGoto(IF leader.st = "zero" THEN "closed-zero" ELSE "closed-nonzero")
  /\ SupOnly /\ UNCHANGED <<fresh, worker, toSup, toOuter>>

(* publish_terminal_review writes final.txt, then asks for the commits. *)
SupPublish ==
  /\ pc["sup"] = "publish"
  /\ SupGoto("auth-pending")
  /\ SupOnly /\ UNCHANGED <<fresh, worker, leader, toSup, toOuter>>

SupSendTerminal ==
  /\ pc["sup"] = "send-terminal"
  /\ toOuter' = "terminal"
  /\ SupGoto(IF /\ rec.review = "verdict" /\ rec.csettle = "exact"
                /\ rec.wt # "manual-recovery-required" /\ ~rec.warn
             THEN "exit0" ELSE "exit1")
  /\ SupOnly /\ UNCHANGED <<fresh, worker, leader, toSup>>

-----------------------------------------------------------------------------
(* The checkout worker: checkout_worker_main.  It commits two of the       *)
(* records itself, while the supervisor waits for it.                      *)

WorkerOnly == UNCHANGED <<pc, helper, leader, toSup, toOuter, delivered, boot>>

WorkerCommit ==
  /\ worker \in WorkerCommits /\ Allowed(worker, rec)
  /\ rec' = Update(worker, rec)
  /\ fresh' = {}
  /\ worker' = IF worker = "control" THEN "control-done"
               ELSE "registered-done"
  /\ WorkerOnly /\ UNCHANGED tree

(* git worktree add creates the checkout before it is registered. *)
WorkerAdd ==
  /\ worker = "add" /\ worker' = "registered" /\ tree' = TRUE
  /\ WorkerOnly /\ UNCHANGED <<rec, fresh>>

WorkerStep ==
  /\ \/ worker = "fill-index"  /\ worker' = "index-done"
     \/ worker = "check"       /\ worker' = "phase0-done"
     \/ worker = "materialize" /\ worker' = "complete"
  /\ WorkerOnly /\ UNCHANGED <<rec, fresh, tree>>

WorkerFails ==
  /\ worker \in {"control", "add", "registered", "fill-index", "check",
                 "materialize"}
  /\ worker' = "failed"
  /\ WorkerOnly /\ UNCHANGED <<rec, fresh, tree>>

(* Killed, or gone because nobody answers it any more. *)
WorkerDies ==
  /\ WorkerLive /\ worker' = "dead"
  /\ WorkerOnly /\ UNCHANGED <<rec, fresh, tree>>

-----------------------------------------------------------------------------
(* The reviewer process. *)

LeaderExits ==
  /\ leader.st = "running"
  /\ \E e \in {"zero", "nonzero"} : leader' = [leader EXCEPT !.st = e]
  /\ UNCHANGED <<rec, pc, helper, fresh, worker, tree, toSup, toOuter,
                 delivered, boot>>

-----------------------------------------------------------------------------
(* _cleanup_worktree, run by the supervisor, the aborting outer process    *)
(* and the recovering operator.                                            *)

CleanupOnly == UNCHANGED <<rec, helper, fresh, worker, leader, toSup, toOuter,
                           delivered, boot>>

(* A variant that asks the record, not the disk, whether there is anything *)
(* to delete; it breaks CheckoutExactMeansGone.                            *)
CleanupStartFromRecord(p) ==
  /\ pc[p] = "cleanup"
  /\ pc' = [pc EXCEPT ![p] = CASE rec.intent = "outstanding" -> "manual"
                               [] rec.intent # "outstanding"
                                    /\ ~rec.registered -> "absent"
                               [] OTHER -> "cleanup-intent"]
  /\ CleanupOnly /\ UNCHANGED tree

CleanupStart(p) ==
  /\ pc[p] = "cleanup"
  /\ pc' = [pc EXCEPT ![p] = CASE rec.intent = "outstanding" -> "manual"
                               [] rec.intent # "outstanding" /\ ~tree ->
                                    "absent"
                               [] OTHER -> "cleanup-intent"]
  /\ CleanupOnly /\ UNCHANGED tree

CleanupDelete(p) ==
  /\ pc[p] = "delete"
  /\ tree' = FALSE
  /\ pc' = [pc EXCEPT ![p] = "cleanup-progress"]
  /\ CleanupOnly

(* The outer's abort and the operator's recovery meet an error. *)
CleanupGivesUp(p) ==
  /\ p # "sup" /\ pc[p] \in {"cleanup", "delete"}
  /\ \E l \in CleanupFailures(p) :
       /\ pc' = [pc EXCEPT ![p] = l]
       /\ fresh' = CASE Rereads(l) -> fresh \cup {p}
                     [] StaleAfterFailure(l) -> fresh \ {p}
                     [] OTHER -> fresh
  /\ UNCHANGED <<rec, helper, worker, leader, tree, toSup, toOuter,
                 delivered, boot>>

-----------------------------------------------------------------------------
(* The operator: recover and final. *)

(* Two variants of OperatorRecover.  The first does not ask whether the     *)
(* machine was rebooted and breaks ExactSettlementIsQuiescent, the second   *)
(* recovers settled attempts, too, and breaks DeliveredIsFinal.             *)
OperatorRecoverSameBoot ==
  /\ pc["operator"] = "idle" /\ pc["outer"] # "off" /\ LeaseFree
  /\ ~Settled(rec)
  /\ rec.phase \in PostReview => ReviewerClosureEvidence(rec)
  /\ pc' = [pc EXCEPT !["operator"] =
              IF rec.psettle = "exact" THEN "conserve" ELSE "recovered"]
  /\ fresh' = fresh \cup {"operator"}
  /\ UNCHANGED <<rec, helper, worker, leader, tree, toSup, toOuter,
                 delivered, boot>>

OperatorRecoverSettled ==
  /\ pc["operator"] = "idle" /\ pc["outer"] # "off" /\ LeaseFree
  /\ boot # 0
  /\ rec.phase \in PostReview => ReviewerClosureEvidence(rec)
  /\ pc' = [pc EXCEPT !["operator"] =
              IF rec.psettle = "exact" THEN "conserve" ELSE "recovered"]
  /\ fresh' = fresh \cup {"operator"}
  /\ UNCHANGED <<rec, helper, worker, leader, tree, toSup, toOuter,
                 delivered, boot>>

(* recover under the lease.  A settled attempt and one of the same boot    *)
(* are left alone, and so is a reviewed attempt without closure evidence.  *)
OperatorRecover ==
  /\ pc["operator"] = "idle" /\ pc["outer"] # "off" /\ LeaseFree
  /\ ~Settled(rec)
  /\ boot # 0
  /\ rec.phase \in PostReview => ReviewerClosureEvidence(rec)
  /\ pc' = [pc EXCEPT !["operator"] =
              IF rec.psettle = "exact" THEN "conserve" ELSE "recovered"]
  /\ fresh' = fresh \cup {"operator"}
  /\ UNCHANGED <<rec, helper, worker, leader, tree, toSup, toOuter,
                 delivered, boot>>

(* final_result under the lease. *)
OperatorFinal ==
  /\ pc["operator"] = "idle" /\ LeaseFree
  /\ rec.psettle = "exact" /\ rec.review = "verdict" /\ rec.authorized
  /\ FinalAuthorizationExact(rec)
  /\ delivered' = TRUE
  /\ UNCHANGED <<rec, pc, helper, fresh, worker, leader, tree, toSup,
                 toOuter, boot>>

-----------------------------------------------------------------------------
(* Crashes.  A killed process leaves its helper, its worker and its        *)
(* reviewer running; a reboot leaves only the disk.                        *)

Crash(p) ==
  /\ pc[p] \notin Finished \cup {"off", "idle"}
  /\ pc' = [pc EXCEPT ![p] = IF p = "operator" THEN "idle" ELSE "dead"]
  /\ UNCHANGED <<rec, helper, fresh, worker, leader, tree, toSup, toOuter,
                 delivered, boot>>

Reboot ==
  /\ boot < MaxBoot /\ pc["outer"] # "off"
  /\ boot' = boot + 1
  /\ pc' = [p \in Procs |-> CASE p = "operator" -> "idle"
                              [] p = "sup" /\ pc["sup"] = "off" -> "off"
                              [] pc[p] \in Finished -> pc[p]
                              [] OTHER -> "dead"]
  /\ helper' = [p \in Procs |-> NoHelper]
  /\ fresh' = {}
  /\ worker' = IF WorkerLive THEN "dead" ELSE worker
  /\ leader' = IF leader.st = "running"
               THEN [leader EXCEPT !.st = "nonzero"] ELSE leader
  /\ toSup' = "none" /\ toOuter' = "none"
  /\ UNCHANGED <<rec, tree, delivered>>

-----------------------------------------------------------------------------
CommitStep(p) == \/ Request(p) \/ HelperCheck(p) \/ HelperCommit(p)
                 \/ HelperFail(p) \/ OrphanExit(p) \/ Reply(p) \/ Fail(p)

OuterStep == \/ SpawnSup \/ OuterCustodyAccepted
             \/ OuterAccepted \/ OuterOwnershipComplete \/ OuterAck
             \/ OuterTerminal \/ OuterGiveUp \/ OuterTerminateSup
             \/ OuterReap \/ OuterSelect

SupStep == \/ SupTakeCustody \/ SupOffer \/ SupStart \/ SupAcknowledged
           \/ SupGiveUp \/ SupReleaseWorker \/ SupWorkerMilestone
           \/ SupReapWorker \/ SupLoseWorker \/ SupLaunch \/ SupLaunchFails
           \/ SupCheckpoint \/ SupSettleProcess \/ SupPublish
           \/ SupSendTerminal

WorkerNext == \/ WorkerCommit \/ WorkerAdd \/ WorkerStep \/ WorkerFails
              \/ WorkerDies

CleanupStep(p) == CleanupStart(p) \/ CleanupDelete(p) \/ CleanupGivesUp(p)

Next ==
  \/ \E p \in Procs : CommitStep(p) \/ CleanupStep(p) \/ Crash(p)
  \/ OuterStart \/ OuterStep \/ SupStep \/ WorkerNext \/ LeaderExits
  \/ OperatorRecover \/ OperatorFinal
  \/ Reboot

Spec == Init /\ [][Next]_vars

(* Every wait of a process has a deadline and every helper a bounded       *)
(* lifetime, so each process, its helper and the worker keep moving until  *)
(* they stop or are killed.  Nothing obliges a user to start or recover a  *)
(* run, the reviewer to end by itself, or a crash to happen.               *)
Fairness ==
  /\ \A p \in Procs : WF_vars(CommitStep(p)) /\ WF_vars(CleanupStep(p))
  /\ WF_vars(OuterStep) /\ WF_vars(SupStep) /\ WF_vars(WorkerNext)

FairSpec == Spec /\ Fairness

-----------------------------------------------------------------------------
(* Properties. *)

HelperStates == {"off", "requested", "checked", "landed", "refused"}
Messages == {"none", "offer", "start", "ack"}
Answers  == {"none", "custody-accepted", "accepted", "complete", "terminal"}

(* Every variable stays within its type: the durable record is always one  *)
(* that the code can write.                                                *)
TypeOK ==
  /\ rec \in Record
  /\ pc \in [Procs -> Labels] /\ \A p \in Procs : pc[p] \in LabelsOf(p)
  /\ helper \in [Procs -> [kind : Kinds \cup {"none"}, st : HelperStates,
                           base : Record]]
  /\ fresh \in SUBSET Procs
  /\ worker \in WorkerLabels
  /\ leader \in [stage : Stages \cup {"none"},
                 st : {"none", "running", "zero", "nonzero"}]
  /\ \A p \in Procs : HelperLive(p) => helper[p].kind \in Kinds
  /\ tree \in BOOLEAN
  /\ toSup \in Messages /\ toOuter \in Answers
  /\ delivered \in BOOLEAN
  /\ boot \in 0..MaxBoot

(* No lost update: when a helper writes, the record on disk is still the   *)
(* one it validated.  The digest comparison and the write are two steps;   *)
(* that nobody commits in between rests on the lease, which a helper keeps *)
(* after its process died, and on the handoff protocol while outer and     *)
(* supervisor share the lease.                                             *)
NoLostUpdate == \A p \in Procs : helper[p].st = "checked"
                                   => helper[p].base = rec

(* Nobody can be in the middle of a commit for one process while another   *)
(* process, its worker included, is in the middle of one.                  *)
Committing(p) == helper[p].st \in {"requested", "checked"}
SingleWriter ==
  /\ \A p, q \in Procs : Committing(p) /\ Committing(q) => p = q
  /\ worker \in WorkerCommits => \A p \in Procs : ~Committing(p)

(* The discipline NoLostUpdate and SingleWriter rest on: who may write in  *)
(* which phase of the handoff, and what a live helper excludes.            *)
PreOffer  == {"off", "prompt", "spawn", "custody", "pending"}
OuterSole == {"prompt", "spawn", "abort", "cleanup", "absent",
              "cleanup-intent", "delete", "cleanup-progress", "removed",
              "manual", "settle", "final-auth"}
PostOwned == {"await-terminal", "reap-ok", "reap-fail", "reap-held", "acquire"}
               \cup Finished
SupIdle   == {"off"} \cup Finished
SupEarly  == {"ready", "await-offer"} \cup SupIdle

(* A live helper serves the commit its process is waiting for, or nobody. *)
HelperServesOwner ==
  \A p \in Procs : HelperLive(p) /\ ~Orphaned(p) => pc[p] = helper[p].kind

OperatorAlone ==
  OperatorHolds \/ HelperLive("operator") =>
    /\ ~OuterHolds /\ ~SupHolds /\ ~WorkerLive
    /\ ~HelperLive("outer") /\ ~HelperLive("sup")

OuterAlone ==
  /\ pc["outer"] = "off" => pc["sup"] = "off" /\ ~HelperLive("sup")
                              /\ ~WorkerLive
  /\ pc["outer"] \in OuterSole =>
       pc["sup"] \in SupIdle /\ ~HelperLive("sup") /\ ~WorkerLive
  /\ pc["outer"] \in {"custody", "pending"} =>
       pc["sup"] \in SupEarly /\ ~HelperLive("sup") /\ ~WorkerLive
  /\ HelperLive("outer") =>
       pc["sup"] \in SupEarly /\ ~HelperLive("sup") /\ ~WorkerLive

HandoffOrder ==
  /\ pc["outer"] \in PreOffer => toSup = "none"
  /\ toSup = "offer" /\ pc["sup"] \in {"ready", "await-offer"}
       => ~HelperLive("outer")
  /\ toSup = "ack" => pc["outer"] \in PostOwned \cup {"final-auth"}
  /\ pc["sup"] \in {"adding", "await-worker", "index", "phase0"}
       => pc["outer"] \in PostOwned

WorkerLockstep ==
  WorkerLive =>
    /\ pc["outer"] \in PostOwned
    /\ \/ pc["sup"] \in {"await-worker"} \cup Finished
          /\ ~HelperLive("sup")
       \/ /\ worker \in {"index-done", "phase0-done"}
          /\ pc["sup"] \in {"await-worker", "index", "phase0"}
               \cup Finished

LeaseDiscipline ==
  HelperServesOwner /\ OperatorAlone /\ OuterAlone /\ HandoffOrder
    /\ WorkerLockstep

(* A process settlement is exact only when nothing of the attempt runs any *)
(* more: neither the reviewer nor the checkout worker.                     *)
ExactSettlementIsQuiescent ==
  rec.psettle = "exact" => leader.st # "running" /\ ~WorkerLive

(* A checkout settlement is exact only when the checkout is gone, and      *)
(* nobody can create it again.                                             *)
CheckoutExactMeansGone ==
  rec.csettle = "exact" => ~tree /\ ~WorkerLive

(* The worker, the reviewer and the checkout exist only for an attempt     *)
(* whose record says that the handoff to the supervisor is complete.       *)
EffectsFollowHandoff ==
  WorkerLive \/ leader.st = "running" \/ tree
    => rec.handoff = "complete" /\ rec.owner = "attempt-supervisor"

(* A verdict is in the record only if the reviewer process really ended    *)
(* with exit status zero, and an authorization precedes it.                *)
VerdictIsEarned ==
  rec.review = "verdict" \/ rec.authorized
    => leader = [stage |-> "reviewer", st |-> "zero"]

(* What was handed to the user, by `final` or by the exit status of `run`, *)
(* stays the attempt's authorized outcome: no later recovery, crash or     *)
(* late helper takes it back, and the checkout is gone.                    *)
DeliveredIsFinal ==
  delivered \/ pc["outer"] = "exit0"
    => FinalAuthorizationExact(rec) /\ ~tree

(* Between commands the record offers one of the views the ledger model    *)
(* relies on: in particular a settled attempt whose checkout is not known  *)
(* to be gone is always seen by admission as a retained worktree.          *)
ViewIsKnown == LeaseFree => LedgerView(rec) \in LedgerViews

(* A concluded attempt is never reopened: an abort or an inconclusive      *)
(* outcome does not become a verdict, whoever still writes the record.     *)
Concluded(r) == r.review = "inconclusive" \/ r.phase = "prelaunch-aborted"
ConclusionIsPermanent ==
  [][Concluded(rec) => Concluded(rec') /\ rec'.review # "verdict"]_vars

(* The lease becomes free again after every crash and every failure. *)
LeaseIsReleased == []<>LeaseFree

(* A run that was started ends. *)
RunEnds == (pc["outer"] # "off") ~> (pc["outer"] \in Finished)

(* The attempt implements what it promises (ReviewAttempt): the reviewer    *)
(* starts once and in a checkout, no outcome is concluded under a running  *)
(* reviewer, a failed outcome and a final one never change.                *)
Outcome ==
  CASE Concluded(rec) -> "failed"
    [] ~Concluded(rec) /\ FinalAuthorizationExact(rec) -> "final"
    [] ~Concluded(rec) /\ ~FinalAuthorizationExact(rec)
         /\ rec.review = "verdict" -> "reviewed"
    [] OTHER -> IF rec.authorized THEN "authorized" ELSE "open"

Promise == INSTANCE ReviewAttempt
             WITH outcome  <- Outcome,
                  reviewer <- IF leader.stage = "reviewer"
                              THEN leader.st ELSE "none",
                  checkout <- tree,
                  shown    <- delivered

KeepsItsPromise == Promise!ASpec

(* The journal's claim that prelaunch-aborted is reserved for attempts of  *)
(* which it is proven that no reviewer was ever started.                   *)
PrelaunchAbortedMeansNoReviewer ==
  rec.phase = "prelaunch-aborted" => leader.stage # "reviewer"
=============================================================================
