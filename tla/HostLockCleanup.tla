---------------------------- MODULE HostLockCleanup ----------------------------
(***************************************************************************)
(* _HostRefreshLockCleanupCoordinator of claude_linux.py: a thread started *)
(* with every forwarded signal blocked, so that no signal can cut short    *)
(* the handling of the host's refresh lock.  The owner publishes the lease *)
(* and the watcher to it and later a decision; the worker executes it.     *)
(* Whatever fails, the lease is kept rather than released, and if the      *)
(* worker is gone the owner cleans up in its place.  What the phases say   *)
(* is decided under one state lock; events and the condition only hint.    *)
(***************************************************************************)
EXTENDS Naturals

CONSTANT MaxFaults      \* bound on the exceptions in either thread

VARIABLES
  phase,     \* 0 created, 1 worker entered, 2 startup ready, 3 cleanup, 4 terminal
  decision,  \* open, release, retain or cancel
  open,      \* whether the lease may still be published
  lease,     \* none, held, released or settled (kept for good, descriptors accounted for)
  watcher,   \* the staged credential's watcher: none, running or ended
  anchor,    \* the source directory: open, handed (to the watcher), closed or residue
  source,    \* [req, term]: _source_retention_required, _source_terminal
  claimed,   \* _synchronous_cleanup_claimed
  proven,    \* _cleanup_terminal_proven
  pc,        \* program counters of the two threads
  stable,    \* the lease each thread will prove: whether it saw one
  failed,    \* worker_failed, _retaining
  raised,    \* the owner was told that the cleanup is not proven
  faults,
  late       \* history: the directory was closed under a running watcher

vars == <<phase, decision, open, lease, watcher, anchor, source, claimed, proven, pc, stable,
          failed, raised, faults, late>>

Truth == <<phase, decision, open, claimed, proven>>
Held == <<lease, watcher, anchor, source, late>>

Init ==
  /\ phase = 0 /\ decision = "open" /\ open = TRUE /\ lease = "none" /\ watcher = "none"
  /\ anchor = "open" /\ source = [req |-> FALSE, term |-> FALSE]
  /\ claimed = FALSE /\ proven = FALSE /\ pc = [owner |-> "start", worker |-> "off"]
  /\ stable = [owner |-> FALSE, worker |-> FALSE]
  /\ failed = [worker |-> FALSE, retaining |-> FALSE] /\ raised = FALSE /\ faults = 0 /\ late = FALSE

Goto(t, l) == pc' = [pc EXCEPT ![t] = l]
Fault == faults < MaxFaults /\ faults' = faults + 1
HasLease == lease # "none"
Marked(has) == [source EXCEPT !.req = @ \/ has \/ watcher # "none"]

-----------------------------------------------------------------------------
(* Cleanup steps that either thread may run. *)

\* Where the directory goes: to a watcher that still runs, else it is closed here.
Kept == IF anchor \notin {"open", "handed"} THEN anchor
        ELSE IF watcher = "running" THEN "handed" ELSE "closed"

\* Descriptors are closed while the watcher runs.
Late(closed) == late \/ (closed /\ anchor \in {"open", "handed"} /\ watcher = "running")

\* _retain_source_anchor: stop the watcher, wait a bounded time, hand the directory over.  It
\* may fail to observe anything, or to close what it owns.
RetainSource(t, next) ==
  /\ Goto(t, next)
  /\ \/ source.term /\ UNCHANGED <<anchor, source, faults, late>>
     \/ /\ ~source.term /\ anchor' = Kept /\ source' = [source EXCEPT !.term = TRUE]
        /\ late' = Late(Kept = "closed") /\ UNCHANGED faults
     \/ ~source.term /\ Fault /\ UNCHANGED <<anchor, source, late>>
     \/ /\ ~source.term /\ Fault /\ Kept = "closed" /\ anchor # "closed"
        /\ anchor' = "residue" /\ source' = [source EXCEPT !.term = TRUE] /\ late' = late
  /\ UNCHANGED <<Truth, lease, watcher, stable, failed, raised>>

\* _retain_lease: prohibit the deletion and abandon, twice; else settle it with its descriptors.
RetainLease(t, next) ==
  /\ Goto(t, next)
  /\ \/ lease' = (IF lease = "held" THEN "settled" ELSE lease) /\ UNCHANGED faults
     \/ lease = "held" /\ Fault /\ UNCHANGED lease
  /\ UNCHANGED <<Truth, watcher, anchor, source, stable, failed, raised, late>>

\* _fail_closed_worker
FailClosed(t, next, after) ==
  /\ source' = Marked(HasLease)
  /\ IF HasLease \/ watcher # "none"
     THEN Goto(t, next) /\ failed' = [failed EXCEPT !.retaining = TRUE]
     ELSE Goto(t, after) /\ UNCHANGED failed
  /\ UNCHANGED <<Truth, lease, watcher, anchor, stable, raised, faults, late>>

\* _finalize_worker_retention: a lease that is not terminal now is kept now, its directory first.
Finalize(t, next) ==
  /\ IF lease # "held" \/ failed.retaining
     THEN Goto(t, IF lease = "held" THEN "settle" ELSE next) /\ UNCHANGED <<source, failed>>
     ELSE /\ Goto(t, "late-source") /\ source' = Marked(TRUE)
          /\ failed' = [failed EXCEPT !.retaining = TRUE]
  /\ UNCHANGED <<Truth, lease, watcher, anchor, stable, raised, faults, late>>

\* _wait_for_cleanup_terminal_proof: the directory must have come to its end, if need be as
\* residue; otherwise the thread gives up.
ProveSource(t, next, lost) ==
  /\ IF ~source.req \/ source.term THEN Goto(t, next) /\ UNCHANGED <<anchor, source, faults>>
     ELSE \/ Goto(t, next) /\ anchor' = Kept /\ source' = [source EXCEPT !.term = TRUE] /\ UNCHANGED faults
          \/ Fault /\ Goto(t, next) /\ anchor' = "residue" /\ source' = [source EXCEPT !.term = TRUE]
          \/ /\ Fault /\ Goto(t, lost) /\ UNCHANGED source         \* latched, not published
             /\ anchor' = IF anchor = "closed" THEN "closed" ELSE "residue"
  /\ UNCHANGED <<Truth, lease, watcher, stable, failed, raised, late>>

\* The outcome of the proof: whether the lease this thread saw is terminal, or can be settled.
LeaseProof(t) == IF ~stable[t] \/ lease # "held" THEN {<<TRUE, lease, faults>>}
                 ELSE {<<TRUE, "settled", faults>>}
                      \cup (IF faults < MaxFaults THEN {<<FALSE, lease, faults + 1>>} ELSE {})

\* The terminal phase is published last, with the proof.
PublishTerminal(t, next) ==
  /\ Goto(t, next) /\ phase' = 4
  /\ \E p \in LeaseProof(t) : proven' = p[1] /\ lease' = p[2] /\ faults' = p[3]
  /\ claimed' = IF t = "owner" THEN FALSE ELSE claimed
  /\ UNCHANGED <<decision, open, watcher, anchor, source, stable, failed, raised, late>>

-----------------------------------------------------------------------------
(* The worker: _run. *)

At(t, l) == pc[t] = l
Quiet == <<watcher, anchor, lease, late, raised>>

\* Variant: the worker enters a coordinator that was cleaned up meanwhile.
EnterAnyway ==
  /\ At("worker", "claim") /\ Goto("worker", "hints") /\ phase' = 1
  /\ UNCHANGED <<decision, open, claimed, proven, Held, stable, failed, raised, faults>>
\* _claim_worker_entry
WorkerClaims ==
  /\ At("worker", "claim")
  /\ IF phase = 0 THEN phase' = 1 /\ Goto("worker", "hints") ELSE UNCHANGED phase /\ Goto("worker", "dead")
  /\ UNCHANGED <<decision, open, claimed, proven, Held, stable, failed, raised, faults>>

WorkerFails == /\ Fault /\ Goto("worker", "failing") /\ failed' = [failed EXCEPT !.worker = TRUE]

WorkerReady ==
  /\ At("worker", "hints")
  /\ \/ phase' = 2 /\ Goto("worker", "await") /\ UNCHANGED <<failed, faults>>
     \/ WorkerFails /\ UNCHANGED phase
  /\ UNCHANGED <<decision, open, claimed, proven, Held, stable, raised>>

\* Variant: only a release wakes the worker.
AwaitRelease ==
  /\ At("worker", "await") /\ Goto("worker", IF decision = "release" THEN "enter" ELSE "await")
  /\ UNCHANGED <<Truth, Held, stable, failed, raised, faults>>
\* _await_worker_decision, its fallback included
WorkerAwaits ==
  /\ At("worker", "await")
  /\ \/ decision # "open" /\ Goto("worker", "enter") /\ UNCHANGED <<failed, faults>>
     \/ WorkerFails
  /\ UNCHANGED <<Truth, Held, stable, raised>>

\* _enter_cleanup_phase_and_close_publication: from here on the lease is what it is.
EnterCleanup(t, next, req) ==
  /\ Goto(t, next) /\ phase' = (IF phase < 3 THEN 3 ELSE phase) /\ open' = FALSE
  /\ stable' = [stable EXCEPT ![t] = HasLease]
  /\ source' = IF req THEN Marked(HasLease) ELSE source
  /\ UNCHANGED <<decision, claimed, proven, Quiet, failed, faults>>

WorkerEnters == At("worker", "enter")
                /\ EnterCleanup("worker", "execute", decision \in {"cancel", "retain"})

\* _execute_worker_decision
Execute ==
  /\ At("worker", "execute")
  /\ IF decision = "cancel" /\ ~HasLease
     THEN Goto("worker", "final") /\ UNCHANGED <<source, lease, failed, faults>>
     ELSE IF decision # "release"
     THEN /\ Goto("worker", "source") /\ failed' = [failed EXCEPT !.retaining = TRUE]
          /\ UNCHANGED <<source, lease, faults>>
     ELSE \/ /\ lease' = (IF lease = "held" THEN "released" ELSE lease)
             /\ Goto("worker", "final") /\ UNCHANGED <<source, failed, faults>>
          \/ /\ lease = "held" /\ Fault /\ source' = Marked(TRUE)      \* the release is inconclusive
             /\ failed' = [failed EXCEPT !.retaining = TRUE] /\ Goto("worker", "source") /\ UNCHANGED lease
  /\ UNCHANGED <<Truth, watcher, anchor, stable, raised, late>>

\* The handler of a failure; closing the publication may fail too and is done again below.
WorkerHandles ==
  /\ At("worker", "failing")
  /\ \/ EnterCleanup("worker", "fail-closed", TRUE)
     \/ /\ Fault /\ Goto("worker", "fail-closed") /\ source' = Marked(stable["worker"])
        /\ UNCHANGED <<Truth, Quiet, stable, failed>>

\* close_publication, retried: it latches before it takes the lock.
Reclose ==
  /\ At("worker", "reclose") /\ open' = FALSE /\ stable' = [stable EXCEPT !["worker"] = HasLease]
  /\ source' = IF failed.worker THEN Marked(HasLease) ELSE source
  /\ Goto("worker", "final-again")
  /\ UNCHANGED <<phase, decision, claimed, proven, Quiet, failed, faults>>

Retention(t) ==
  \/ At(t, "source") /\ RetainSource(t, "lease")
  \/ At(t, "lease") /\ RetainLease(t, "final")
  \/ At(t, "fail-closed") /\ FailClosed(t, "source", "final")
  \/ At(t, "late-source") /\ RetainSource(t, "late-lease")
  \/ At(t, "late-lease") /\ RetainLease(t, "settle")

Worker ==
  \/ WorkerClaims \/ WorkerReady \/ WorkerAwaits \/ WorkerEnters \/ Execute \/ WorkerHandles
  \/ Reclose \/ Retention("worker")
  \/ At("worker", "final") /\ Finalize("worker", "reclose")
  \/ At("worker", "settle") /\ RetainLease("worker", IF open THEN "reclose" ELSE "prove")
  \/ At("worker", "final-again") /\ Finalize("worker", "prove")
  \/ At("worker", "prove") /\ ProveSource("worker", "publish", "dead")
  \/ At("worker", "publish") /\ PublishTerminal("worker", "dead")

-----------------------------------------------------------------------------
(* The owner. *)

\* _claim_synchronous_cleanup_locked
MayClaim(required) == phase \in required /\ ~claimed
Claim(next) ==
  /\ Goto("owner", next) /\ claimed' = TRUE /\ phase' = (IF phase < 3 THEN 3 ELSE phase)
  /\ decision' = IF decision = "open" THEN "cancel" ELSE decision
  /\ open' = FALSE /\ stable' = [stable EXCEPT !["owner"] = HasLease] /\ source' = Marked(HasLease)
  /\ UNCHANGED <<proven, Quiet, failed, faults>>

\* _decide: once, and not for a worker that already cleans up without one.
Refused(d) == \/ phase >= 3 /\ decision = "open" /\ d # "cancel"
              \/ decision \notin {"open", d}
Decide(d, next, refused) ==
  /\ IF Refused(d) THEN Goto("owner", refused) /\ raised' = TRUE /\ UNCHANGED decision
                   ELSE Goto("owner", next) /\ decision' = d /\ UNCHANGED raised
  /\ UNCHANGED <<phase, open, claimed, proven, Held, stable, failed, faults>>

\* start: the thread may run although Thread.start raised.
Start ==
  /\ At("owner", "start")
  /\ \/ pc' = [owner |-> "ready", worker |-> "claim"] /\ UNCHANGED faults
     \/ Fault /\ pc' \in {[owner |-> "unstarted", worker |-> w] : w \in {"off", "claim"}}
  /\ UNCHANGED <<Truth, Held, stable, failed, raised>>

Unstarted ==
  /\ At("owner", "unstarted")
  /\ IF MayClaim({0}) THEN Claim("fail-closed")
     ELSE Decide("cancel", "wait", "outer")

\* The worker is not seen to live: it never began, ended, or will not begin any more.
Gone == pc.worker \in {"off", "dead"}

\* The loop of start
Ready ==
  /\ At("owner", "ready")
  /\ \/ /\ phase \in {2, 3, 4} /\ Goto("owner", IF phase = 2 THEN "acquire" ELSE IF phase = 3 THEN "wait" ELSE "outer")
        /\ UNCHANGED <<Truth, Held, stable, failed, raised, faults>>
     \/ phase < 3 /\ Gone /\ MayClaim(0 .. 3) /\ Claim("fail-closed")
     \/ /\ Fault /\ Goto("owner", "abort")                 \* waiting failed, twice
        /\ UNCHANGED <<Truth, Held, stable, failed, raised>>

Abort == At("owner", "abort") /\ Decide("cancel", "wait", "outer")

\* acquire_claude_refresh_lock publishes the lease to the coordinator's owner, or cleans up
\* what it made if that is refused.
Acquire ==
  /\ At("owner", "acquire")
  /\ \/ open /\ lease' = "held" /\ Goto("owner", "watch")
     \/ UNCHANGED lease /\ Goto("owner", "outer")
  /\ UNCHANGED <<Truth, watcher, anchor, source, stable, failed, raised, faults, late>>

\* publish_watcher, and the watcher starts
Watch ==
  /\ At("owner", "watch")
  /\ IF decision # "open" \/ phase >= 3 THEN Goto("owner", "outer") /\ UNCHANGED watcher
     ELSE Goto("owner", "body") /\ watcher' \in {"none", "running"}
  /\ UNCHANGED <<Truth, lease, anchor, source, stable, failed, raised, faults, late>>

WatcherEnds ==
  /\ watcher = "running" /\ watcher' = "ended"
  /\ anchor' = IF anchor = "handed" THEN "closed" ELSE anchor
  /\ UNCHANGED <<Truth, lease, source, pc, stable, failed, raised, faults, late>>

\* The body is over.  The signal mask stands or not: only with it is the watcher stopped and
\* joined by the owner, its directory handed over if it does not stop.
Body ==
  /\ At("owner", "body")
  /\ \/ /\ watcher # "running" /\ Goto("owner", "outer") /\ UNCHANGED anchor
     \/ /\ watcher = "running" /\ Goto("owner", "retain")
        /\ anchor' = IF anchor = "open" THEN "handed" ELSE anchor
     \/ /\ watcher = "running" /\ Goto("owner", "retain") /\ UNCHANGED anchor   \* not masked
  /\ UNCHANGED <<Truth, lease, watcher, source, stable, failed, raised, faults, late>>

Outer ==
  \/ At("owner", "retain") /\ Decide("retain", "wait", "close")
  \/ At("owner", "outer") /\ \E d \in (IF HasLease THEN {"retain", "release"} ELSE {"cancel"}) :
                               Decide(d, "wait", "close")

MayTakeOver == phase # 4 /\ Gone

\* _wait_until_terminal: the phase decides; a worker that is gone is replaced.
Wait ==
  /\ At("owner", "wait")
  /\ \/ /\ phase = 4 /\ raised' = (raised \/ ~proven) /\ Goto("owner", "close")
        /\ UNCHANGED <<Truth, Held, stable, failed, faults>>
     \/ MayTakeOver /\ MayClaim(0 .. 3) /\ Claim("fail-closed")

\* _complete_synchronous_cleanup gives its claim back when it fails.
GiveUp == At("owner", "lost") /\ claimed' = FALSE /\ raised' = TRUE /\ Goto("owner", "close")
          /\ UNCHANGED <<phase, decision, open, proven, Held, stable, failed, faults>>

\* stage_claude_credentials closes a directory it was not relieved of.
Close ==
  /\ At("owner", "close") /\ Goto("owner", "done")
  /\ anchor' = IF anchor = "open" THEN "closed" ELSE anchor
  /\ late' = Late(anchor = "open")
  /\ UNCHANGED <<Truth, lease, watcher, source, stable, failed, raised, faults>>

Done == pc.owner = "done" /\ Gone /\ UNCHANGED vars

Owner ==
  \/ Start \/ Unstarted \/ Ready \/ Abort \/ Acquire \/ Watch \/ Outer \/ Wait \/ GiveUp \/ Close
  \/ Retention("owner")
  \/ At("owner", "final") /\ Finalize("owner", "prove")
  \/ At("owner", "settle") /\ RetainLease("owner", "prove")
  \/ At("owner", "prove") /\ ProveSource("owner", "publish", "lost")
  \/ At("owner", "publish") /\ PublishTerminal("owner", "wait")

Next == Owner \/ Worker \/ Body \/ WatcherEnds \/ Done
Spec == Init /\ [][Next]_vars /\ WF_vars(Owner) /\ WF_vars(Worker)

-----------------------------------------------------------------------------
Cleaning(t) == pc[t] \in {"source", "lease", "fail-closed", "late-source", "late-lease", "final",
                          "settle", "reclose", "final-again", "prove", "publish", "execute", "enter"}

TypeOK ==
  /\ phase \in 0 .. 4 /\ decision \in {"open", "release", "retain", "cancel"}
  /\ lease \in {"none", "held", "released", "settled"} /\ watcher \in {"none", "running", "ended"}
  /\ anchor \in {"open", "handed", "closed", "residue"} /\ (claimed => Cleaning("owner") \/ At("owner", "lost"))
  /\ source \in [req : BOOLEAN, term : BOOLEAN] /\ faults \in 0 .. MaxFaults

\* The two threads never clean up at the same time.
OneCleaner == ~(Cleaning("owner") /\ Cleaning("worker"))

\* A proof is true: the lease is released or kept for good, and none can come after it.
ProvenIsSettled == phase = 4 /\ proven => lease # "held" /\ ~open

\* The lock is removed only because the owner said so.
ReleaseIsDecided == lease = "released" => decision = "release"

\* The owner leaves a lease that nobody has settled only with an error.
OwnerIsTold == At("owner", "done") /\ lease = "held" => raised

\* The directory is not closed under the watcher that uses it, unless the owner was told that
\* the worker failed before it took the decision.
WatcherKeepsDirectory == late => raised /\ failed.worker

\* A decision and the terminal phase stand.
NothingIsTakenBack ==
  /\ decision # "open" => decision' = decision
  /\ phase = 4 => phase' = 4 /\ proven' = proven /\ lease' = lease
TerminalStands == [][NothingIsTakenBack]_vars

\* A decision, once asked for, ends in the owner's return.
Begun == At("owner", "outer") \/ At("owner", "retain")
Ended == At("owner", "done")
WaitEnds == Begun ~> Ended
=============================================================================
