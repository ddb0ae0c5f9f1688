---------------------------- MODULE AttemptRecord ----------------------------
(***************************************************************************)
(* The durable record of one review attempt (state.json) and the commits   *)
(* that may rewrite it.  Every writer of the record -- the outer process,  *)
(* the attempt supervisor, the checkout worker, the authorization helper   *)
(* and the recovering operator -- publishes one of the kinds of commit     *)
(* below; Update gives the successor record of each kind and Allowed the   *)
(* guard its helper enforces.  The module has no variables: it is the data *)
(* part of AttemptLifecycle, kept apart so that lemmas about one commit    *)
(* can be stated without any process.                                      *)
(***************************************************************************)

(* The kinds of commit, grouped by the code that builds their updates. *)

HandoffKinds   == {"prompt", "pending", "accepted", "complete", "abort"}
CheckoutKinds  == {"adding", "control", "registered", "index", "phase0",
                   "validated"}
SpawnKinds     == {"spawn-refresh", "spawn-reviewer"}
ClosedKinds    == {"closed-zero", "closed-nonzero"}
LifecycleKinds == SpawnKinds \cup {"launched"} \cup ClosedKinds
VerdictKinds   == {"auth-pending", "authorize", "reviewed"}
FailureKinds   == {"failure", "failure-child", "failure-abandoned"}
CleanupKinds   == {"absent", "cleanup-intent", "cleanup-progress", "removed",
                   "manual", "manual-recover"}
SettleKinds    == {"terminal", "settle", "final-auth"}
RecoverKinds   == {"conserve", "recovered", "charge"}

Kinds == HandoffKinds \cup CheckoutKinds \cup LifecycleKinds
           \cup VerdictKinds \cup FailureKinds \cup CleanupKinds
           \cup SettleKinds \cup RecoverKinds

-----------------------------------------------------------------------------
Phases == {"reserved", "worktree-adding", "validating", "spawn-intent",
           "launched", "review-finished", "terminal-authorization-pending",
           "reviewed", "prelaunch-aborted", "post-review-aborted"}

PostReview == {"review-finished", "terminal-authorization-pending",
               "reviewed", "post-review-aborted"}

Stages       == {"auth-refresh", "reviewer"}
Exits        == {"none", "zero", "nonzero"}
Handoffs     == {"none", "pending", "accepted", "complete", "aborted"}
Owners       == {"outer", "attempt-supervisor"}
Launches     == {"not-attempted", "spawn-intent", "launched", "completed",
                 "uncertain", "prelaunch-aborted"}
RecordStages == Stages \cup {"none"}
Reviews      == {"not-run", "inconclusive", "verdict"}
Closures     == {"unproven", "proven-by-owner", "proven-by-boot-change"}
Abandonments == {"unset", "no", "yes"}
Worktrees    == {"absent", "adding", "active", "index-initialized",
                 "validated", "retained-worktree", "removed",
                 "manual-recovery-required"}
Settlements  == {"outstanding", "exact"}
Intents      == {"none", "outstanding", "complete"}
Terminals    == {"none", "completed", "blocked"}
Charges      == {"envelope", "exact"}
LastCommits  == Kinds \cup {"created"}

(* The fields of state.json that some guard or some property reads.  The   *)
(* digest chain is abstracted to the kind of the last commit, "last":      *)
(* "predecessor_sha256 is the digest before this record" holds exactly     *)
(* when nothing was committed in between.                                  *)
Record ==
  [phase : Phases, handoff : Handoffs, owner : Owners, launch : Launches,
   stage : RecordStages, exit : Exits, review : Reviews, closure : Closures,
   abandoned : Abandonments, authorized : BOOLEAN, refreshed : Exits,
   finished : Exits, sealed : BOOLEAN, custodyIn : BOOLEAN,
   custodyOut : BOOLEAN, create : BOOLEAN, bound : BOOLEAN,
   registered : BOOLEAN, wt : Worktrees, csettle : Settlements,
   warn : BOOLEAN, intent : Intents, terminal : Terminals,
   psettle : Settlements, charge : Charges, last : LastCommits]

(* create_reserved_attempt *)
ReservedRecord ==
  [phase |-> "reserved", handoff |-> "none", owner |-> "outer",
   launch |-> "not-attempted", stage |-> "none", exit |-> "none",
   review |-> "not-run", closure |-> "unproven", abandoned |-> "unset",
   authorized |-> FALSE, refreshed |-> "none", finished |-> "none",
   sealed |-> FALSE, custodyIn |-> FALSE, custodyOut |-> FALSE,
   create |-> FALSE, bound |-> FALSE, registered |-> FALSE, wt |-> "absent",
   csettle |-> "outstanding", warn |-> FALSE, intent |-> "none",
   terminal |-> "none", psettle |-> "outstanding", charge |-> "envelope",
   last |-> "created"]

-----------------------------------------------------------------------------
(* Successor records. *)

(* The prompt publication, the three handoff commits and the outer's       *)
(* prequiescence abort.                                                    *)
HandoffUpdate(k, r) ==
  CASE k = "prompt"   -> r
    [] k = "pending"  -> [r EXCEPT !.handoff = "pending", !.custodyIn = TRUE]
    [] k = "accepted" -> [r EXCEPT !.handoff = "accepted"]
    [] k = "complete" -> [r EXCEPT !.handoff = "complete",
                                   !.owner = "attempt-supervisor"]
    [] k = "abort"    -> [r EXCEPT !.phase = "prelaunch-aborted",
                                   !.handoff = "aborted", !.owner = "outer",
                                   !.launch = "prelaunch-aborted",
                                   !.review = "not-run",
                                   !.closure = "proven-by-owner"]

(* A variant that reports a status the record does not know; it breaks     *)
(* TypeOK.                                                                 *)
CheckoutUpdateUnknownStatus(k, r) ==
  CASE k = "adding"     -> [r EXCEPT !.phase = "worktree-adding",
                                     !.create = TRUE, !.wt = "adding"]
    [] k = "control"    -> [r EXCEPT !.bound = TRUE]
    [] k = "registered" -> [r EXCEPT !.registered = TRUE, !.wt = "registered"]
    [] k = "index"      -> [r EXCEPT !.wt = "index-initialized"]
    [] k = "phase0"     -> [r EXCEPT !.phase = "validating"]
    [] k = "validated"  -> [r EXCEPT !.wt = "validated", !.custodyOut = TRUE]

(* The commits of the checkout: "control" and "registered" are made by the *)
(* worker process itself, the others by the supervisor.                    *)
CheckoutUpdate(k, r) ==
  CASE k = "adding"     -> [r EXCEPT !.phase = "worktree-adding",
                                     !.create = TRUE, !.wt = "adding"]
    [] k = "control"    -> [r EXCEPT !.bound = TRUE]
    [] k = "registered" -> [r EXCEPT !.registered = TRUE, !.wt = "active"]
    [] k = "index"      -> [r EXCEPT !.wt = "index-initialized"]
    [] k = "phase0"     -> [r EXCEPT !.phase = "validating"]
    [] k = "validated"  -> [r EXCEPT !.wt = "validated", !.custodyOut = TRUE]

(* DurableProcessLifecycle: begin, launched and closed of the two stages. *)
LifecycleUpdate(k, r) ==
  LET close(e) ==
        IF r.stage = "auth-refresh"
        THEN [r EXCEPT !.phase = "validating", !.launch = "completed",
                       !.closure = "proven-by-owner", !.exit = e,
                       !.refreshed = e]
        ELSE [r EXCEPT !.phase = "review-finished", !.launch = "completed",
                       !.closure = "proven-by-owner", !.exit = e,
                       !.finished = e]
      begin(s) == [r EXCEPT !.phase = "spawn-intent", !.stage = s,
                            !.launch = "spawn-intent", !.exit = "none",
                            !.closure = "unproven"]
  IN CASE k = "spawn-refresh"  -> begin("auth-refresh")
       [] k = "spawn-reviewer" -> begin("reviewer")
       [] k = "launched"       -> [r EXCEPT !.phase = "launched",
                                            !.launch = "launched"]
       [] k = "closed-zero"    -> close("zero")
       [] k = "closed-nonzero" -> close("nonzero")

(* publish_terminal_review and the authorization helper. *)
VerdictUpdate(k, r) ==
  CASE k = "auth-pending" -> [r EXCEPT
                                !.phase = "terminal-authorization-pending"]
    [] k = "authorize"    -> [r EXCEPT !.authorized = TRUE,
                                       !.abandoned = "no"]
    [] k = "reviewed"     -> [r EXCEPT !.phase = "reviewed",
                                       !.review = "verdict",
                                       !.sealed = TRUE]

(* _record_failure: what a failure of the supervisor is recorded as, by    *)
(* the phase found on disk.  "failure-child" is a failure that carries     *)
(* reviewer_child_started, "failure-abandoned" is OuterAbandoned.          *)
FailureUpdate(k, r) ==
  LET gone == IF k = "failure-abandoned" THEN "yes" ELSE "no"
      noLaunch == [r EXCEPT !.phase = "prelaunch-aborted",
                            !.launch = "prelaunch-aborted",
                            !.review = "not-run",
                            !.closure = "proven-by-owner",
                            !.abandoned = gone]
  IN CASE r.phase \in {"reserved", "worktree-adding", "validating"} ->
            noLaunch
       [] r.phase = "spawn-intent" /\ k # "failure-child" -> noLaunch
       [] r.phase = "spawn-intent" /\ k = "failure-child" ->
            [r EXCEPT !.launch = "uncertain", !.review = "inconclusive",
                      !.closure = "unproven", !.abandoned = gone]
       [] r.phase = "launched" ->
            [r EXCEPT !.launch = "launched", !.review = "inconclusive",
                      !.closure = "unproven", !.abandoned = gone]
       [] OTHER ->
            [r EXCEPT !.review = "inconclusive", !.abandoned = gone,
                      !.closure = IF r.closure = "proven-by-owner"
                                  THEN "proven-by-owner" ELSE "unproven"]

(* Variant of the next operator, in which the record of a cleanup that     *)
(* needs manual work carries a warning only; it breaks ViewIsKnown.        *)
CleanupUpdateWarns(k, r) ==
  CASE k = "absent" ->
         [r EXCEPT !.wt = IF r.registered THEN "removed" ELSE "absent",
                   !.csettle = "exact"]
    [] k = "cleanup-intent" ->
         [r EXCEPT !.csettle = "outstanding", !.warn = TRUE,
                   !.intent = "outstanding"]
    [] k = "removed" ->
         [r EXCEPT !.wt = "removed", !.csettle = "exact",
                   !.warn = FALSE, !.intent = "complete"]
    [] k = "manual" -> [r EXCEPT !.csettle = "outstanding", !.warn = TRUE]
    [] OTHER -> r

(* _cleanup_worktree and _manual_worktree_recovery; "manual-recover" is    *)
(* the commit recover makes when the cleanup itself raised.                *)
CleanupUpdate(k, r) ==
  CASE k = "absent" ->
         [r EXCEPT !.wt = IF r.registered THEN "removed" ELSE "absent",
                   !.csettle = "exact"]
    [] k = "cleanup-intent" ->
         [r EXCEPT !.wt = "retained-worktree", !.csettle = "outstanding",
                   !.warn = TRUE, !.intent = "outstanding"]
    [] k = "cleanup-progress" -> r
    [] k = "removed" ->
         [r EXCEPT !.wt = "removed", !.csettle = "exact",
                   !.warn = FALSE, !.intent = "complete"]
    [] k = "manual" ->
         [r EXCEPT !.wt = "manual-recovery-required",
                   !.csettle = "outstanding", !.warn = TRUE]
    [] k = "manual-recover" ->
         [r EXCEPT !.wt = "manual-recovery-required"]

(* The supervisor's terminal commit, the exact process settlement and the  *)
(* outer's final authorization.                                            *)
SettleUpdate(k, r) ==
  CASE k = "terminal" ->
         [r EXCEPT !.terminal = IF r.csettle = "exact"
                                THEN "completed" ELSE "blocked"]
    [] k = "settle"     -> [r EXCEPT !.psettle = "exact", !.charge = "exact"]
    [] k = "final-auth" -> [r EXCEPT !.charge = "exact"]

(* recover after a boot change: the conservative charge, the record of the *)
(* lost owner, and the exact charge of an attempt that was already settled.*)
RecoverUpdate(k, r) ==
  LET lost(ph, l, v) ==
        [r EXCEPT !.phase = ph, !.launch = l, !.review = v,
                  !.closure = IF r.phase \in PostReview
                              THEN "proven-by-owner"
                              ELSE "proven-by-boot-change",
                  !.abandoned = "yes", !.terminal = "completed"]
  IN CASE k = "conserve" -> [r EXCEPT !.charge = "envelope"]
       [] k = "charge"   -> [r EXCEPT !.charge = "exact"]
       [] k = "recovered" ->
            CASE r.phase = "spawn-intent" ->
                   lost("spawn-intent", "uncertain", "inconclusive")
              [] r.phase = "launched" ->
                   lost("launched", "launched", "inconclusive")
              [] r.phase \in PostReview ->
                   lost("post-review-aborted", "completed", "inconclusive")
              [] OTHER ->
                   lost("prelaunch-aborted", "prelaunch-aborted", "not-run")

Update(k, r) ==
  LET next == CASE k \in HandoffKinds   -> HandoffUpdate(k, r)
                [] k \in CheckoutKinds  -> CheckoutUpdate(k, r)
                [] k \in LifecycleKinds -> LifecycleUpdate(k, r)
                [] k \in VerdictKinds   -> VerdictUpdate(k, r)
                [] k \in FailureKinds   -> FailureUpdate(k, r)
                [] k \in CleanupKinds   -> CleanupUpdate(k, r)
                [] k \in SettleKinds    -> SettleUpdate(k, r)
                [] k \in RecoverKinds   -> RecoverUpdate(k, r)
  IN [next EXCEPT !.last = k]

-----------------------------------------------------------------------------
(* Guards. *)

(* The phases the transition allowlist admits as predecessor of a kind. *)
AllowedFrom(k) ==
  CASE k \in HandoffKinds \cup {"adding"}     -> {"reserved"}
    [] k \in {"control", "registered", "index", "phase0"} ->
         {"worktree-adding"}
    [] k \in {"validated"} \cup SpawnKinds    -> {"validating"}
    [] k = "launched"                         -> {"spawn-intent"}
    [] k \in ClosedKinds                      -> {"launched"}
    [] k = "auth-pending"                     -> {"review-finished"}
    [] k = "reviewed"                         ->
         {"terminal-authorization-pending"}
    [] k = "final-auth"                       -> {"reviewed"}
    [] OTHER                                  -> Phases

(* _validate_begin_predecessor: the reviewer follows a pristine record or  *)
(* a successful auth-refresh, the auth-refresh only a pristine one.        *)
BeginPredecessor(k, r) ==
  \/ /\ r.refreshed = "none" /\ r.finished = "none"
     /\ r.launch = "not-attempted" /\ r.stage = "none"
     /\ r.closure = "unproven"
  \/ /\ k = "spawn-reviewer"
     /\ r.refreshed = "zero" /\ r.finished = "none"
     /\ r.launch = "completed" /\ r.stage = "auth-refresh"
     /\ r.exit = "zero" /\ r.closure = "proven-by-owner"

(* _require_reviewer_closure_evidence, asked of an attempt past its review. *)
ReviewerClosureEvidence(r) ==
  /\ r.launch = "completed"
  /\ r.handoff = "complete" /\ r.owner = "attempt-supervisor"
  /\ r.closure = "proven-by-owner"
  /\ r.stage = "reviewer" /\ r.finished # "none" /\ r.exit = r.finished
  /\ r.refreshed # "nonzero"

(* _validate_terminal_lifecycle: what a final authorization demands of the *)
(* record it extends.                                                      *)
TerminalLifecycle(r) ==
  /\ r.phase = "reviewed" /\ r.launch = "completed" /\ r.review = "verdict"
  /\ r.handoff = "complete" /\ r.owner = "attempt-supervisor"
  /\ r.closure = "proven-by-owner" /\ r.abandoned = "no"
  /\ r.psettle = "exact" /\ r.csettle = "exact" /\ r.wt = "removed"
  /\ r.custodyIn /\ r.custodyOut
  /\ r.terminal = "completed"
  /\ r.exit = "zero" /\ r.finished = "zero" /\ r.refreshed # "nonzero"
  /\ r.sealed /\ r.authorized

(* What the helper of a commit checks of the record before it writes. *)
Allowed(k, r) ==
  /\ r.phase \in AllowedFrom(k)
  /\ k = "pending" => r.handoff = "none" /\ r.owner = "outer"
  /\ k \in SpawnKinds => BeginPredecessor(k, r)
  /\ k = "authorize" => r.exit = "zero"
  /\ k = "reviewed" => r.authorized /\ r.last = "authorize"
  /\ k = "settle" => r.closure # "unproven"
  /\ k = "final-auth" => TerminalLifecycle(r)

(* _validate_final_authorization: exact only while it is the last commit. *)
FinalAuthorizationExact(r) == r.last = "final-auth" /\ TerminalLifecycle(r)

(* recover has nothing left to do for the record. *)
Settled(r) ==
  /\ r.psettle = "exact" /\ r.csettle = "exact" /\ r.charge = "exact"
  /\ r.review = "verdict" => FinalAuthorizationExact(r)

-----------------------------------------------------------------------------
(* What the retention ledger reads of a record between commands: the two   *)
(* settlements, whether the checkout still counts as a retained worktree   *)
(* (reconcile_ledger), and the result.                                     *)
RetainedWorktree(r) ==
  /\ r.csettle = "outstanding"
  /\ \/ r.wt \in {"retained-worktree", "manual-recovery-required"}
     \/ r.registered
     \/ r.phase \in {"worktree-adding", "validating", "spawn-intent", "launched"}

LedgerView(r) ==
  [settled |-> r.psettle = "exact", csettle |-> r.csettle,
   wt |-> IF ~RetainedWorktree(r) THEN "hidden"
          ELSE IF r.wt = "manual-recovery-required" THEN "manual" ELSE "visible",
   verdict |-> r.review = "verdict",
   delivered |-> FinalAuthorizationExact(r)]

(* The views an attempt can offer while nobody holds the retention lock:   *)
(* RetentionLedger relies on them and AttemptLifecycle guarantees them.    *)
LedgerViews ==
  {o \in [settled : BOOLEAN, csettle : Settlements,
          wt : {"hidden", "visible", "manual"},
          verdict : BOOLEAN, delivered : BOOLEAN] :
     /\ o.csettle = "exact" => o.wt = "hidden"
     /\ o.settled /\ o.csettle = "outstanding" => o.wt # "hidden"
     /\ o.delivered => o.verdict /\ o.settled /\ o.csettle = "exact"}
=============================================================================
