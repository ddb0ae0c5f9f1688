--------------------------- MODULE RetentionLedger ---------------------------
(***************************************************************************)
(* The retention root: the private directory that holds every review       *)
(* attempt, and the commands that admit, authorize, recover, release and   *)
(* reclaim attempts in it.  Commands serialize on one lock on the root, so *)
(* the model runs one command at a time; what is hard is that a command    *)
(* is many durable steps and may stop between any two of them, and that    *)
(* the next command decides what to do from what the last one left.        *)
(*                                                                         *)
(* AttemptLifecycle models one attempt while its own run holds the lock;   *)
(* here that is the single step RunEnds, whose possible results are        *)
(* AttemptRecord's LedgerViews, which AttemptLifecycle is checked to produce. *)
(*                                                                         *)
(* Sizes are counted in units: state.json, the evidence (final message and *)
(* logs), each leftover temporary and a retained review-runtime directory  *)
(* weigh one unit each.                                                    *)
(***************************************************************************)
EXTENDS Integers, FiniteSets, FiniteSetsExt

CONSTANTS
  Attempts,   \* directory names in the root; a name is reused once removed
  None,       \* no attempt
  Envelope,   \* PROCESS_ENVELOPE_BYTES
  Cap,        \* RETENTION_CAP_BYTES
  MaxTemps    \* bound on the temporaries left in one attempt

(* 257 MiB and 512 MiB: one envelope fits, two do not. *)
ASSUME EnvelopeAssumption ==
  /\ Envelope \in Nat /\ Cap \in Nat /\ MaxTemps \in Nat \ {0}
  /\ MaxTemps + 3 <= Envelope
  /\ Envelope <= Cap /\ Cap < 2 * Envelope
ASSUME NoneAssumption == None \notin Attempts /\ IsFiniteSet(Attempts)

VARIABLES
  dir,        \* what is found in the root under each name
  st,         \* state.json of each attempt that has one
  art,        \* what else its directory holds
  job,        \* the command that holds the lock, and how far it is
  waiting,    \* attempts whose `run` still has to authorize the result
  thisBoot,   \* attempts recorded under the current boot identifier
  young,      \* state-less attempts too recent for the crash reclaim
  aged        \* released attempts whose time to live has passed

vars == <<dir, st, art, job, waiting, thisBoot, young, aged>>

AR == INSTANCE AttemptRecord

-----------------------------------------------------------------------------
(* The data *)

Dirs == {"none", "empty", "temp", "live", "isolated"}

Rewrite == [op : {"none", "release", "runtime-cleanup"},
            status : {"pending", "complete"}, needs : BOOLEAN]
NoRewrite == [op |-> "none", status |-> "complete", needs |-> FALSE]

(* auth is "last" while the final authorization is the latest generation,  *)
(* "stale" once any other commit has followed it: the field itself is      *)
(* never cleared.                                                          *)
State == [retention : {"active", "held", "released", "reclaiming", "reclaimed"},
          csettle : {"outstanding", "exact"},
          wt : {"hidden", "visible", "manual"},
          verdict : BOOLEAN, auth : {"none", "last", "stale"},
          charge : 0..Envelope, rw : Rewrite]

(* create_reserved_attempt *)
Reserved == [retention |-> "active", csettle |-> "outstanding",
             wt |-> "hidden", verdict |-> FALSE, auth |-> "none",
             charge |-> Envelope, rw |-> NoRewrite]

Artifacts == [files : 0..1, temps : 0..MaxTemps, runtime : 0..1]
NoArtifacts == [files |-> 0, temps |-> 0, runtime |-> 0]

Commands == {"run", "authorize", "release", "recover", "cleanup"}
CommitSteps == {"release-begin", "clean-begin", "clean-remove", "settle",
                "finish", "conserve", "purge", "mark", "worktree", "settle-process",
                "reclaim-mark", "reclaim-done", "authorize"}
Steps == CommitSteps \cup
         {"scan", "ttl", "ttl-next", "admit", "create-temp", "create-state",
          "review", "reclaim-files", "unlink", "isolate", "rmdir"}

Job == [cmd : Commands, step : Steps, cur : Attempts \cup {None},
        back : {"idle", "scan", "ttl-next", "admit"}, todo : SUBSET Attempts]
Idle == [cmd |-> "idle", step |-> "none", cur |-> None, back |-> "idle",
         todo |-> {}]

Init ==
  /\ dir = [a \in Attempts |-> "none"]
  /\ st = [a \in Attempts |-> Reserved]
  /\ art = [a \in Attempts |-> NoArtifacts]
  /\ job = Idle
  /\ waiting = {} /\ thisBoot = {} /\ young = {} /\ aged = {}

-----------------------------------------------------------------------------
(* What the commands read *)

Live == {a \in Attempts : dir[a] = "live"}

Settled(a) == st[a].retention # "active"          \* process_settlement exact
BothSettled(a) == Settled(a) /\ st[a].csettle = "exact"

(* allocated_bytes_fd *)
Used(a) == 1 + art[a].files + art[a].temps + art[a].runtime

(* _process_accounting_is_exact *)
Exact(a) == Settled(a) /\ st[a].charge = Used(a)

(* validate_final_authorization_rewrite, where it can fail *)
RewriteValid(a) == st[a].rw.op = "release" => st[a].retention = "released"

(* _validate_final_authorization_record: terminal lifecycle, direct        *)
(* predecessor, exact accounting                                           *)
AuthorizationRecordExact(a) ==
  st[a].verdict /\ BothSettled(a) /\ st[a].auth = "last" /\ Exact(a)

(* _has_exact_final_authorization *)
AuthExact(a) ==
  AuthorizationRecordExact(a) /\ RewriteValid(a) /\ st[a].rw.status = "complete"

(* build_final_authorization_rewrite *)
MayBeginRewrite(a) ==
  IF st[a].verdict THEN AuthorizationRecordExact(a) ELSE st[a].auth = "none"

(* Variant: an attempt that is not settled is charged what it has written. *)
LedgerChargeMeasured(a) ==
  IF ~Settled(a) THEN Used(a)
  ELSE IF st[a].retention = "reclaimed" THEN 0 ELSE Max({st[a].charge, Used(a)})

(* What reconcile_ledger charges an attempt, and when it gives up. *)
LedgerCharge(a) ==
  IF ~Settled(a) THEN Envelope
  ELSE IF st[a].retention = "reclaimed" THEN 0 ELSE Max({st[a].charge, Used(a)})

RetainedWorktrees ==
  {a \in Live : st[a].csettle = "outstanding" /\ st[a].wt # "hidden"}

Readable ==
  /\ \A a \in Live :
       st[a].retention = "reclaimed" => st[a].charge = 0 /\ Used(a) = 1
  /\ Cardinality(RetainedWorktrees) <= 1

(* The sum of what each attempt weighs, counted unit by unit *)
Units(weight) == UNION {{a} \X (1..weight[a]) : a \in DOMAIN weight}
Total(weight) == Cardinality(Units(weight))

ProcessBytes == Total([a \in Live |-> LedgerCharge(a)])

(* _released_attempt_candidates; TtlOnly is its released_before cutoff *)
Eligible(a) == BothSettled(a) /\ st[a].wt # "manual"
CandidatesFail ==
  \E a \in Live : st[a].retention \in {"reclaiming", "reclaimed"} /\ ~Eligible(a)
Candidates(ttlOnly) ==
  {a \in Live : /\ st[a].retention \in {"released", "reclaiming", "reclaimed"}
                /\ Eligible(a)
                /\ ttlOnly /\ st[a].retention = "released" => a \in aged}

(* Variant: the rewrite of the release need not be complete. *)
ReclaimableWhilePending(a) ==
  LET s == st[a] IN
  /\ s.retention \in {"released", "reclaiming", "reclaimed"}
  /\ s.rw.op # "none" => RewriteValid(a)
  /\ Eligible(a)
  /\ s.retention = "reclaimed" => s.charge = 0

(* The guards of _reclaim_attempt_locked, in one conjunction *)
Reclaimable(a) ==
  LET s == st[a] IN
  /\ s.retention \in {"released", "reclaiming", "reclaimed"}
  /\ s.rw.op # "none" =>
       /\ RewriteValid(a)
       /\ s.rw.status = "complete"
       /\ s.rw.needs => AuthExact(a)
       /\ s.retention = "released" /\ ~s.rw.needs => Exact(a)
  /\ Eligible(a)
  /\ s.retention = "reclaimed" => s.charge = 0

-----------------------------------------------------------------------------
(* Steps every command is made of *)

At(step) == job.step = step
Goto(step) == job' = [job EXCEPT !.step = step]
Refused == job' = Idle /\ UNCHANGED <<dir, st, art, waiting, thisBoot, young, aged>>
OnlyJob == UNCHANGED <<dir, st, art, waiting, thisBoot, young, aged>>
OnlyRecord == UNCHANGED <<dir, art, waiting, thisBoot, young, aged>>

(* commit_state: whatever else it writes, the final authorization is no    *)
(* longer the latest generation.                                           *)
Commit(a, s) ==
  st' = [st EXCEPT ![a] =
           [s EXCEPT !.auth = IF @ = "last" THEN "stale" ELSE @]]

(* A command stops: its process dies or one of its steps raises.  A death  *)
(* inside a write leaves the temporary it had not renamed yet.             *)
Crash ==
  /\ job.cmd # "idle" /\ ~At("review")
  /\ job' = Idle
  /\ art' \in {art} \cup
       {[art EXCEPT ![a].temps = @ + 1] :
          a \in {b \in Live : /\ job.cur = b /\ job.step \in CommitSteps
                              /\ art[b].temps < MaxTemps}}
  /\ waiting' = IF job.cmd = "authorize" THEN waiting \ {job.cur} ELSE waiting
  /\ UNCHANGED <<dir, st, thisBoot, young, aged>>

(* The machine restarts; a run in progress has ended before it. *)
Reboot ==
  /\ job.cmd = "idle"
  /\ thisBoot # {}
  /\ thisBoot' = {} /\ waiting' = {}
  /\ UNCHANGED <<dir, st, art, job, young, aged>>

(* Time passes for released evidence and for crash residue. *)
TtlElapses(a) ==
  /\ a \in Live /\ st[a].retention = "released" /\ a \notin aged
  /\ aged' = aged \cup {a}
  /\ UNCHANGED <<dir, st, art, job, waiting, thisBoot, young>>

ResidueAges(a) ==
  /\ a \in young
  /\ young' = young \ {a}
  /\ UNCHANGED <<dir, st, art, job, waiting, thisBoot, aged>>

-----------------------------------------------------------------------------
(* reconcile_ledger's walk of the root (_attempt_directories): residue of  *)
(* interrupted creations and removals is put back, emptied and removed     *)
(* before any record is read.                                              *)

RunStarts ==
  /\ job.cmd = "idle"
  /\ job' = [Idle EXCEPT !.cmd = "run", !.step = "scan"]
  /\ OnlyJob

ScanRestores(a) ==
  /\ At("scan") /\ dir[a] = "isolated"
  /\ dir' = [dir EXCEPT ![a] = "empty"]
  /\ UNCHANGED <<st, art, job, waiting, thisBoot, young, aged>>

(* _reclaim_initial_crash_attempt *)
ScanDropsResidue(a) ==
  /\ At("scan") /\ dir[a] = "temp"
  /\ IF a \in young
     THEN Refused
     ELSE /\ dir' = [dir EXCEPT ![a] = "empty"]
          /\ UNCHANGED <<st, art, job, waiting, thisBoot, young, aged>>

ScanRemoves(a) ==
  /\ At("scan") /\ dir[a] = "empty"
  /\ job' = [job EXCEPT !.cur = a, !.back = "scan", !.step = "isolate"]
  /\ OnlyJob

ScanEnds ==
  /\ At("scan")
  /\ \A a \in Attempts : dir[a] \in {"none", "live"}
  /\ IF Readable THEN Goto("ttl") /\ OnlyJob ELSE Refused

-----------------------------------------------------------------------------
(* Reclaiming one attempt: _reclaim_attempt_locked, for the time to live,  *)
(* for admission pressure and for an explicit cleanup.                     *)

ReclaimOrFail(a, back) ==
  IF Reclaimable(a)
  THEN /\ job' = [job EXCEPT
            !.cur = a, !.back = back, !.todo = @ \ {a},
            !.step = IF st[a].retention = "reclaimed" THEN "unlink"
                     ELSE "reclaim-mark"]
       /\ OnlyJob
  ELSE Refused

ReclaimMarks ==
  /\ At("reclaim-mark")
  /\ Commit(job.cur, [st[job.cur] EXCEPT !.retention = "reclaiming",
                                         !.charge = Envelope])
  /\ Goto("reclaim-files")
  /\ OnlyRecord

(* _remove_reclaim_artifacts unlinks regular files in the order of their   *)
(* names and gives up at the first entry that is not one: a retained       *)
(* review-runtime directory.                                               *)
ReclaimUnlinks ==
  /\ At("reclaim-files")
  /\ \/ /\ art[job.cur].files > 0
        /\ art' = [art EXCEPT ![job.cur].files = @ - 1]
     \/ /\ art[job.cur].temps > 0
        /\ art' = [art EXCEPT ![job.cur].temps = @ - 1]
  /\ UNCHANGED <<dir, st, job, waiting, thisBoot, young, aged>>

ReclaimMeetsRuntime ==
  /\ At("reclaim-files") /\ art[job.cur].runtime > 0
  /\ Refused

ReclaimEmptied ==
  /\ At("reclaim-files") /\ art[job.cur] = NoArtifacts
  /\ Goto("reclaim-done") /\ OnlyJob

ReclaimTombstone ==
  /\ At("reclaim-done")
  /\ Commit(job.cur, [st[job.cur] EXCEPT !.retention = "reclaimed",
                                         !.charge = 0])
  /\ Goto("unlink")
  /\ OnlyRecord

(* _remove_reclaimed_attempt: the record goes last, then the directory. *)
RemoveRecord ==
  /\ At("unlink")
  /\ IF art[job.cur] # NoArtifacts
     THEN Refused
     ELSE /\ dir' = [dir EXCEPT ![job.cur] = "empty"]
          /\ st' = [st EXCEPT ![job.cur] = Reserved]
          /\ aged' = aged \ {job.cur}
          /\ thisBoot' = thisBoot \ {job.cur}
          /\ Goto("isolate")
          /\ UNCHANGED <<art, waiting, young>>

(* _remove_bound_attempt_directory: rename aside, then rmdir; an error     *)
(* between the two renames back.                                           *)
Isolate ==
  /\ At("isolate")
  /\ dir' = [dir EXCEPT ![job.cur] = "isolated"]
  /\ Goto("rmdir")
  /\ UNCHANGED <<st, art, waiting, thisBoot, young, aged>>

(* Variant: the directory renamed aside is left there. *)
RemoveDirectoryAside ==
  /\ At("rmdir")
  /\ job' = IF job.back = "idle" THEN Idle
            ELSE [job EXCEPT !.cur = None, !.step = job.back, !.back = "idle"]
  /\ UNCHANGED <<dir, st, art, waiting, thisBoot, young, aged>>

RemoveDirectory ==
  /\ At("rmdir")
  /\ dir' = [dir EXCEPT ![job.cur] = "none"]
  /\ job' = IF job.back = "idle" THEN Idle
            ELSE [job EXCEPT !.cur = None, !.step = job.back, !.back = "idle"]
  /\ UNCHANGED <<st, art, waiting, thisBoot, young, aged>>

RemovalUndone ==
  /\ At("rmdir")
  /\ dir' = [dir EXCEPT ![job.cur] = "empty"]
  /\ job' = Idle
  /\ UNCHANGED <<st, art, waiting, thisBoot, young, aged>>

(* cleanup: the operator's reclaim; a directory without a record is empty  *)
(* residue to remove, or not this command's business.                      *)
CleanupStarts(a) ==
  /\ job.cmd = "idle"
  /\ \/ /\ dir[a] = "empty"
        /\ job' = [Idle EXCEPT !.cmd = "cleanup", !.step = "isolate", !.cur = a]
     \/ /\ dir[a] = "live" /\ Reclaimable(a)
        /\ job' = [Idle EXCEPT !.cmd = "cleanup", !.cur = a,
             !.step = IF st[a].retention = "reclaimed" THEN "unlink"
                      ELSE "reclaim-mark"]
  /\ OnlyJob

-----------------------------------------------------------------------------
(* Admission: _prepare_with_reclamation, calculate_admission and           *)
(* create_reserved_attempt                                                 *)

TtlBegins ==
  /\ At("ttl")
  /\ IF CandidatesFail
     THEN Refused
     ELSE job' = [job EXCEPT !.step = "ttl-next", !.todo = Candidates(TRUE)]
          /\ OnlyJob

TtlReclaims(a) == At("ttl-next") /\ a \in job.todo /\ ReclaimOrFail(a, "ttl-next")

TtlEnds == At("ttl-next") /\ job.todo = {} /\ Goto("admit") /\ OnlyJob

OverCap == ProcessBytes + Envelope > Cap

AdmitFails ==
  /\ At("admit")
  /\ \/ ~Readable
     \/ RetainedWorktrees # {}                \* blocked-worktree-capacity
  /\ Refused

(* blocked-retention, by the cap or by the free space of the host, which   *)
(* is unknown here: one released attempt is reclaimed and the admission is *)
(* computed again.                                                         *)
AdmitUnderPressure ==
  /\ At("admit") /\ Readable /\ RetainedWorktrees = {}
  /\ IF CandidatesFail \/ Candidates(FALSE) = {}
     THEN Refused
     ELSE \E a \in Candidates(FALSE) : ReclaimOrFail(a, "admit")

(* Variant: a retained worktree does not block admission. *)
AdmitBesideRetained(a) ==
  /\ At("admit") /\ Readable /\ ~OverCap
  /\ dir[a] = "none"
  /\ dir' = [dir EXCEPT ![a] = "empty"]
  /\ job' = [job EXCEPT !.cur = a, !.step = "create-temp"]
  /\ UNCHANGED <<st, art, waiting, thisBoot, young, aged>>

Admit(a) ==
  /\ At("admit") /\ Readable /\ RetainedWorktrees = {} /\ ~OverCap
  /\ dir[a] = "none"
  /\ dir' = [dir EXCEPT ![a] = "empty"]
  /\ job' = [job EXCEPT !.cur = a, !.step = "create-temp"]
  /\ UNCHANGED <<st, art, waiting, thisBoot, young, aged>>

CreateTemp ==
  /\ At("create-temp")
  /\ dir' = [dir EXCEPT ![job.cur] = "temp"]
  /\ young' = young \cup {job.cur}
  /\ Goto("create-state")
  /\ UNCHANGED <<st, art, waiting, thisBoot, aged>>

(* atomic_write_json_at takes its temporary back when the write raises. *)
CreateFails ==
  /\ At("create-state")
  /\ dir' = [dir EXCEPT ![job.cur] = "empty"]
  /\ young' = young \ {job.cur}
  /\ job' = Idle
  /\ UNCHANGED <<st, art, waiting, thisBoot, aged>>

CreateRecord ==
  /\ At("create-state")
  /\ dir' = [dir EXCEPT ![job.cur] = "live"]
  /\ st' = [st EXCEPT ![job.cur] = Reserved]
  /\ young' = young \ {job.cur}
  /\ thisBoot' = thisBoot \cup {job.cur}
  /\ Goto("review")
  /\ UNCHANGED <<art, waiting, aged>>

(* The run gives the lock up with the attempt in one of the views          *)
(* AttemptLifecycle allows.  publish_exact_process_settlement leaves the   *)
(* predecessor of the settled record behind, inside the recorded charge; a *)
(* crash may have left one more temporary since, outside it.  The result   *)
(* of an attempt that is not settled is never read again.                  *)
RunEnds ==
  /\ At("review")
  /\ \E v \in {w \in AR!LedgerViews : ~w.delivered}, r, extra \in 0..1 :
       LET t == (IF v.settled THEN 1 ELSE 0) + extra IN
       /\ t <= MaxTemps
       /\ art' = [art EXCEPT ![job.cur] = [files |-> 1, temps |-> t, runtime |-> r]]
       /\ st' = [st EXCEPT ![job.cur] =
                   [@ EXCEPT !.retention = IF v.settled THEN "held" ELSE "active",
                             !.csettle = v.csettle, !.wt = v.wt,
                             !.verdict = v.verdict /\ v.settled,
                             !.charge = IF v.settled THEN 3 + r ELSE Envelope]]
       /\ waiting' = IF v.verdict /\ v.settled /\ v.csettle = "exact"
                     THEN waiting \cup {job.cur} ELSE waiting
  /\ job' = Idle
  /\ UNCHANGED <<dir, thisBoot, young, aged>>

-----------------------------------------------------------------------------
(* The final authorization `run` adds once its supervisor has been reaped, *)
(* under the lock taken a second time; other commands may run before.      *)

AuthorizeStarts(a) ==
  /\ job.cmd = "idle" /\ a \in waiting
  /\ IF a \in Live /\ st[a].verdict /\ BothSettled(a)
     THEN /\ job' = [Idle EXCEPT !.cmd = "authorize", !.step = "authorize", !.cur = a]
          /\ UNCHANGED waiting
     ELSE waiting' = waiting \ {a} /\ UNCHANGED job
  /\ UNCHANGED <<dir, st, art, thisBoot, young, aged>>

(* _publish_final_authorization: it also completes a pending rewrite. *)
Authorized(a) ==
  [st[a] EXCEPT !.auth = "last", !.charge = Used(a), !.rw.status = "complete"]

AuthorizeCommits ==
  /\ At("authorize")
  /\ st' = [st EXCEPT ![job.cur] = Authorized(job.cur)]
  /\ waiting' = waiting \ {job.cur}
  /\ job' = Idle
  /\ UNCHANGED <<dir, art, thisBoot, young, aged>>

-----------------------------------------------------------------------------
(* Rewrites of a settled record.  A rewrite first charges the envelope and *)
(* records what it is doing, then changes the directory or the record,     *)
(* then settles the charge and publishes the final authorization again.    *)

(* Variant: the envelope is charged on top of what is recorded. *)
BeginRewriteOnTop(a, op, retention) ==
  Commit(a, [st[a] EXCEPT !.retention = retention, !.charge = @ + Envelope,
               !.rw = [op |-> op, status |-> "pending", needs |-> st[a].verdict]])

BeginRewrite(a, op, retention) ==
  Commit(a, [st[a] EXCEPT !.retention = retention, !.charge = Envelope,
               !.rw = [op |-> op, status |-> "pending", needs |-> st[a].verdict]])

(* _settle_rewritten_process_charge *)
Settles ==
  /\ At("settle")
  /\ IF st[job.cur].charge = Used(job.cur)
     THEN UNCHANGED st
     ELSE Commit(job.cur, [st[job.cur] EXCEPT !.charge = Used(job.cur)])
  /\ Goto("finish")
  /\ OnlyRecord

(* The end of _finish_release_authorization_rewrite and of                 *)
(* _recover_exact_settled_runtime; a rewrite that needs an authorization   *)
(* raises unless the terminal lifecycle still holds.                       *)
Finishes ==
  /\ At("finish")
  /\ LET a == job.cur IN
     \/ /\ st[a].rw.needs /\ st[a].verdict /\ BothSettled(a)
        /\ st' = [st EXCEPT ![a] = Authorized(a)]
     \/ /\ ~st[a].rw.needs /\ st[a].rw.status = "pending"
        /\ Commit(a, [st[a] EXCEPT !.rw.status = "complete"])
     \/ /\ ~st[a].rw.needs /\ st[a].rw.status = "complete"
        /\ UNCHANGED st
  /\ job' = Idle
  /\ OnlyRecord

(* release *)
ReleaseDone(a) ==
  /\ st[a].retention = "released"
  /\ \/ /\ st[a].rw.op = "release" /\ st[a].rw.status = "complete"
        /\ st[a].rw.needs => AuthExact(a)
        /\ Exact(a)
     \/ st[a].rw.op # "release" /\ AuthExact(a)

ReleaseStarts(a) ==
  /\ job.cmd = "idle" /\ a \in Live
  /\ RewriteValid(a)
  /\ ~(st[a].rw.op = "runtime-cleanup" /\ st[a].rw.status = "pending")
  /\ st[a].retention \in {"held", "released"}
  /\ ~ReleaseDone(a)
  /\ st[a].rw.op # "release" => MayBeginRewrite(a)
  /\ job' = [Idle EXCEPT !.cmd = "release", !.cur = a,
               !.step = IF st[a].rw.op = "release" THEN "settle" ELSE "release-begin"]
  /\ OnlyJob

ReleaseBegins ==
  /\ At("release-begin")
  /\ BeginRewrite(job.cur, "release", "released")
  /\ Goto("settle")
  /\ OnlyRecord

-----------------------------------------------------------------------------
(* recover, in the order of its branches *)

(* Variant: a release counts as finished once its rewrite is complete. *)
ReleaseInterruptedPending(a) ==
  st[a].rw.op = "release" /\ st[a].rw.status = "pending"

(* A release whose rewrite was interrupted is finished first. *)
ReleaseInterrupted(a) ==
  /\ st[a].rw.op = "release"
  /\ \/ st[a].rw.status = "pending"
     \/ ~Exact(a)
     \/ st[a].rw.needs /\ ~AuthExact(a)

(* Variant: an interrupted cleanup has to show its authorization, too. *)
CleanNeededAuthorized(a) ==
  LET cleaning == st[a].rw.op = "runtime-cleanup" IN
  /\ BothSettled(a)
  /\ Exact(a) \/ cleaning
  /\ ~st[a].verdict \/ AuthExact(a)
  /\ \/ art[a].runtime > 0 \/ art[a].temps > 0
     \/ cleaning /\ \/ st[a].rw.status = "pending"
                    \/ st[a].rw.needs /\ ~AuthExact(a)
                    \/ ~Exact(a)

(* exact_cleanup_needed: a settled attempt still holds a review-runtime    *)
(* directory or temporaries, or an earlier removal was interrupted.        *)
CleanNeeded(a) ==
  LET cleaning == st[a].rw.op = "runtime-cleanup" IN
  /\ BothSettled(a)
  /\ Exact(a) \/ cleaning
  /\ ~st[a].verdict \/ AuthExact(a) \/ cleaning
  /\ \/ art[a].runtime > 0 \/ art[a].temps > 0
     \/ cleaning /\ \/ st[a].rw.status = "pending"
                    \/ st[a].rw.needs /\ ~AuthExact(a)
                    \/ ~Exact(a)

AlreadySettled(a) ==
  /\ BothSettled(a) /\ Exact(a)
  /\ st[a].verdict => AuthExact(a)

Recovers(a, step) ==
  /\ job' = [Idle EXCEPT !.cmd = "recover", !.cur = a, !.step = step]
  /\ OnlyJob

RecoverStarts(a) ==
  /\ job.cmd = "idle" /\ a \in Live /\ RewriteValid(a)
  /\ CASE ReleaseInterrupted(a) -> Recovers(a, "settle")
       [] ~ReleaseInterrupted(a) /\ CleanNeeded(a) ->
            IF st[a].rw.op # "none" /\ st[a].rw.status = "pending"
            THEN Recovers(a, "clean-remove")
            ELSE MayBeginRewrite(a) /\ Recovers(a, "clean-begin")
       [] OTHER ->
            /\ ~AlreadySettled(a)
            /\ a \notin thisBoot               \* same-boot-owner-required
            /\ Recovers(a, IF Settled(a) THEN "conserve" ELSE "purge")

CleanBegins ==
  /\ At("clean-begin")
  /\ BeginRewrite(job.cur, "runtime-cleanup", st[job.cur].retention)
  /\ Goto("clean-remove")
  /\ OnlyRecord

(* Variant: the removal lists the directory again and finds its own        *)
(* manifest.                                                               *)
RemovesResidueAgain ==
  /\ job.step \in {"clean-remove", "purge"}
  /\ art' = [art EXCEPT ![job.cur].temps = IF @ > 0 THEN @ - 1 ELSE 1]
  /\ UNCHANGED <<dir, st, job, waiting, thisBoot, young, aged>>

(* _remove_exact_settled_runtime, and _remove_recovery_artifacts after a    *)
(* restart: temporaries one by one, then the runtime directory.            *)
RemovesResidue ==
  /\ job.step \in {"clean-remove", "purge"}
  /\ \/ /\ art[job.cur].temps > 0
        /\ art' = [art EXCEPT ![job.cur].temps = @ - 1]
        /\ UNCHANGED job
     \/ /\ art[job.cur].temps = 0
        /\ art' = [art EXCEPT ![job.cur].runtime = 0]
        /\ Goto(IF At("purge") THEN "mark" ELSE "settle")
  /\ UNCHANGED <<dir, st, waiting, thisBoot, young, aged>>

(* After a restart of the machine the owner is known to be gone: the       *)
(* attempt is closed as aborted or inconclusive and settled.               *)
RecoverConserves ==
  /\ At("conserve")
  /\ Commit(job.cur, [st[job.cur] EXCEPT !.charge = Envelope])
  /\ Goto("purge")
  /\ OnlyRecord

RecoverMarks ==
  /\ At("mark")
  /\ Commit(job.cur, [st[job.cur] EXCEPT !.verdict = FALSE])
  /\ Goto(IF st[job.cur].csettle = "outstanding" THEN "worktree" ELSE "settle-process")
  /\ OnlyRecord

RecoverCleansWorktree ==
  /\ At("worktree")
  /\ \/ Commit(job.cur, [st[job.cur] EXCEPT !.csettle = "exact", !.wt = "hidden"])
     \/ Commit(job.cur, [st[job.cur] EXCEPT !.wt = "manual"])
  /\ Goto("settle-process")
  /\ OnlyRecord

(* Variant: the process is settled again whether or not it was. *)
RecoverSettlesAgain ==
  /\ At("settle-process")
  /\ art' = [art EXCEPT ![job.cur].temps = @ + 1]
  /\ Commit(job.cur, [st[job.cur] EXCEPT !.retention = "held",
                                         !.charge = Used(job.cur) + 1])
  /\ job' = Idle
  /\ UNCHANGED <<dir, waiting, thisBoot, young, aged>>

(* _settle_process, or the charge alone when the process was settled: the  *)
(* exchange keeps the predecessor of the settled record.                   *)
RecoverSettles ==
  /\ At("settle-process")
  /\ IF Settled(job.cur)
     THEN /\ Commit(job.cur, [st[job.cur] EXCEPT !.charge = Used(job.cur)])
          /\ UNCHANGED art
     ELSE /\ art' = [art EXCEPT ![job.cur].temps = @ + 1]
          /\ Commit(job.cur, [st[job.cur] EXCEPT !.retention = "held",
                                                 !.charge = Used(job.cur) + 1])
  /\ job' = Idle
  /\ UNCHANGED <<dir, waiting, thisBoot, young, aged>>

-----------------------------------------------------------------------------
(* The specification *)

RunStep ==
  \/ \E a \in Attempts :
       \/ ScanRestores(a) \/ ScanDropsResidue(a) \/ ScanRemoves(a)
       \/ TtlReclaims(a) \/ Admit(a)
  \/ ScanEnds \/ TtlBegins \/ TtlEnds
  \/ AdmitFails \/ AdmitUnderPressure
  \/ CreateTemp \/ CreateFails \/ CreateRecord \/ RunEnds

ReclaimStep ==
  \/ ReclaimMarks \/ ReclaimUnlinks \/ ReclaimMeetsRuntime \/ ReclaimEmptied
  \/ ReclaimTombstone \/ RemoveRecord \/ Isolate
  \/ RemoveDirectory \/ RemovalUndone

RewriteStep ==
  \/ AuthorizeCommits \/ ReleaseBegins \/ CleanBegins \/ RemovesResidue
  \/ Settles \/ Finishes
  \/ RecoverConserves \/ RecoverMarks \/ RecoverCleansWorktree \/ RecoverSettles

Step == RunStep \/ ReclaimStep \/ RewriteStep

Start ==
  \/ RunStarts
  \/ \E a \in Attempts :
       \/ CleanupStarts(a) \/ AuthorizeStarts(a)
       \/ ReleaseStarts(a) \/ RecoverStarts(a)

Environment ==
  \/ Crash \/ Reboot
  \/ \E a \in Attempts : TtlElapses(a) \/ ResidueAges(a)

Next == Start \/ Step \/ Environment

Spec == Init /\ [][Next]_vars

(* A command that runs takes its next step, unless it crashes; nobody is   *)
(* obliged to start one.                                                   *)
FairSpec == Spec /\ WF_vars(Step)

-----------------------------------------------------------------------------
(* Properties *)

TypeOK ==
  /\ dir \in [Attempts -> Dirs]
  /\ st \in [Attempts -> State]
  /\ art \in [Attempts -> Artifacts]
  /\ job \in Job \cup {Idle}
  /\ waiting \subseteq Attempts /\ thisBoot \subseteq Attempts
  /\ young \subseteq Attempts /\ aged \subseteq Attempts

(* The evidence of all attempts stays within the retention cap, counting   *)
(* the whole envelope for an attempt that may still be writing: admission  *)
(* never lets two such attempts coexist, however earlier runs, releases    *)
(* and recoveries were interrupted.                                        *)
Footprint(a) == IF Settled(a) THEN art[a].files + art[a].runtime ELSE Envelope
Evidence == Total([a \in Live |-> Footprint(a)])
EvidenceWithinCap == Evidence <= Cap

(* At most one attempt keeps a checkout: reconcile_ledger's error "more    *)
(* than one retained worktree record exists" never arises.                 *)
OneRetainedWorktree == Cardinality(RetainedWorktrees) <= 1

(* What a step of a command relies on: the facts its command read when it  *)
(* began still hold when the step is reached, after any other step of the  *)
(* command.  None of them is looked at again by the code.                  *)
StepsOnAttempt == Steps \ {"scan", "ttl", "ttl-next", "admit"}
RecoverySteps  == {"conserve", "purge", "mark", "worktree", "settle-process"}

OnOneAttempt == job.step \in StepsOnAttempt => job.cur \in Attempts
CreatesAnew ==
  /\ job.step \in {"create-temp", "create-state"} => dir[job.cur] # "live"
  /\ At("review") => st[job.cur].retention = "active" /\ st[job.cur].rw = NoRewrite
RewritesAuthorized ==
  /\ job.step \in {"release-begin", "clean-begin"} => MayBeginRewrite(job.cur)
  /\ At("release-begin") => st[job.cur].retention \in {"held", "released"}
RecoversUnpromised ==
  /\ job.step \in RecoverySteps => ~st[job.cur].rw.needs
  /\ job.step \in RecoverySteps \ {"conserve", "purge"} => art[job.cur].temps = 0
ReclaimsReleased ==
  job.step \in {"reclaim-mark", "reclaim-files", "reclaim-done"} =>
    /\ \/ st[job.cur].retention = "reclaiming"
       \/ At("reclaim-mark") /\ st[job.cur].retention = "released"
    /\ BothSettled(job.cur)
    /\ st[job.cur].rw.op # "none" /\ st[job.cur].rw.status = "complete"
StepRelies == OnOneAttempt /\ CreatesAnew /\ RewritesAuthorized
                /\ RecoversUnpromised /\ ReclaimsReleased

(* Evidence moves monotonically through active, held, released and         *)
(* reclaimed, whichever command rewrites the record after whichever crash. *)
Rank(r) == CASE r = "active" -> 0 [] r = "held" -> 1 [] r = "released" -> 2
             [] r = "reclaiming" -> 3 [] r = "reclaimed" -> 4
RetentionIsMonotone ==
  [][\A a \in Attempts :
       dir[a] = "live" /\ dir'[a] = "live"
         => Rank(st[a].retention) <= Rank(st'[a].retention)]_vars

(* A verdict that a release or a runtime cleanup undertook to publish      *)
(* again is still there, settled, however often it is interrupted.         *)
RewriteKeepsVerdict ==
  \A a \in Live : st[a].rw.needs =>
    st[a].verdict /\ BothSettled(a) /\ st[a].auth # "none"

(* Final messages and logs are deleted only after their release has been   *)
(* finished: a verdict had its authorization published again, and the      *)
(* checkout is gone.                                                       *)
EvidenceNeedsFinishedRelease ==
  [][\A a \in Attempts :
       dir[a] = "live" /\ art'[a].files < art[a].files /\ ~At("review")
         => /\ st[a].retention = "reclaiming" /\ BothSettled(a)
            /\ st[a].rw.op # "none" /\ st[a].rw.status = "complete"
            /\ st[a].rw.needs => st[a].auth # "none"]_vars

(* Every command ends: the reclaim loops of a run included. *)
CommandsEnd == job.cmd # "idle" ~> job.cmd = "idle"

(* What the tests of an interrupted reclaim state: a `cleanup` run again   *)
(* resumes it, from the marked record and from the tombstone.              *)
InterruptedReclaimResumes ==
  job.cmd = "idle" =>
    \A a \in Live : st[a].retention \in {"reclaiming", "reclaimed"} => Reclaimable(a)

(* What reconcile_ledger requires of a tombstone: a charge of zero and     *)
(* nothing beside its record.                                              *)
TombstoneIsEmpty ==
  \A a \in Live :
    st[a].retention = "reclaimed" => st[a].charge = 0 /\ art[a] = NoArtifacts

(* A result sealed by a final authorization is not changed afterwards. *)
AuthorizedVerdictStays == \A a \in Live : st[a].auth # "none" => st[a].verdict
=============================================================================
