------------------------------ MODULE RunCustody ------------------------------
(***************************************************************************)
(* A review run on disk (review_runtime: state.py, cleanup_worker.py,      *)
(* cli.py, and the preparation and removal of workspace.py).  A starter    *)
(* prepares a container and either reviews in the foreground or hands the  *)
(* runner lock to a runner process and returns.  Commands then look at the *)
(* run and clean it up, by themselves or through a cleaner process that    *)
(* inherits the cleanup lock and outlives them.  Every process may be      *)
(* killed between two steps and every step of a removal may fail.          *)
(* The cleanup lock stands for the two that all takers take in one order,  *)
(* the container's directory and cleanup.lock.                             *)
(***************************************************************************)
EXTENDS Naturals, FiniteSets

CONSTANTS
  Commands,   \* calls of status, wait and cleanup
  Starter,    \* the call that started the run
  Nobody,
  Artifacts,  \* the private files whose removal is receipted
  MaxKills    \* bound on processes killed

Dirs == {"workspace", "review.git"}
Actors == Commands \cup {Starter}

VARIABLES
  mode, keep,   \* "detached" or "foreground"; whether the workspace is to be kept
  starter,      \* the starter's next step
  runner,       \* the runner process
  marker,       \* the state marker: "none", "preparing", "ready"
  record,       \* whether state.json is there
  box,          \* the container: "absent", "present", "aside" (under its quarantine name)
  art,          \* each private file: "absent", "present", "aside"
  receipts,     \* the private files whose removal is recorded
  tree,         \* each directory: "absent", "whole", "partial", "blocked" (an entry aside), "aside"
  exit,         \* the exit code on disk: "none", "ran" (the runner's), "lost" (1, by a command)
  sealed,       \* whether the marker holds the preflight receipt
  lock, fds,    \* whose description holds the cleanup lock, and who shares it
  cmd,          \* each command: [pc, op, timed, saw, code, answer]
  worker,       \* its cleaner: "none", "check", "clean", "ok", "failed", "killed"
  job,          \* a removal in progress: [kind, step, item, todo, bad]
  kills

files == <<marker, record, box, art, receipts, tree, exit, sealed>>
locks == <<lock, fds>>
run == <<mode, keep, starter, runner>>
vars == <<run, files, locks, cmd, worker, job, kills>>

NoJob == [kind |-> "none", step |-> "idle", item |-> Nobody, todo |-> {}, bad |-> FALSE]

Init ==
  /\ mode \in {"detached", "foreground"} /\ keep \in BOOLEAN
  /\ starter = "create" /\ runner = "none"
  /\ marker = "none" /\ record = FALSE /\ box = "absent" /\ exit = "none" /\ sealed = FALSE
  /\ art = [a \in Artifacts |-> "absent"] /\ receipts = {}
  /\ tree = [d \in Dirs |-> "absent"]
  /\ lock = Nobody /\ fds = [c \in Commands |-> {}]
  /\ cmd = [c \in Commands |-> [pc |-> "idle", op |-> "status", timed |-> TRUE, saw |-> FALSE,
                                code |-> "none", answer |-> "none"]]
  /\ worker = [c \in Commands |-> "none"] /\ job = [p \in Actors |-> NoJob] /\ kills = 0

-----------------------------------------------------------------------------
(* Locks *)

RunnerLives == runner \notin {"none", "gone"}
RunnerLockHeld ==
  \/ starter \in {"build", "ready", "record", "spawn", "publish", "review", "lock", "clean", "undo"}
  \/ RunnerLives

(* A description's lock is gone with the last process that shares it. *)
Close(c, who) ==
  /\ fds' = [fds EXCEPT ![c] = @ \ {who}]
  /\ lock' = IF lock = c /\ fds'[c] = {} THEN Nobody ELSE lock
(* Unlocking frees it for everybody who shares the description. *)
Unlock(c) ==
  /\ fds' = [fds EXCEPT ![c] = @ \ {"self"}]
  /\ lock' = IF lock = c THEN Nobody ELSE lock

-----------------------------------------------------------------------------
(* Removal *)

Begin(p, kind) == job' = [job EXCEPT ![p] = [NoJob EXCEPT !.kind = kind, !.step = "scan"]]
Active(p) == job[p].step \notin {"idle", "done", "failed"}
Over(p) == ~Active(p) /\ job' = [job EXCEPT ![p] = NoJob]
At(p, s) == job[p].step = s
Step(p, s) == job' = [job EXCEPT ![p].step = s]
Receipted(p) == job[p].kind # "partial"
Quarantined == (\E a \in Artifacts : art[a] = "aside") \/ (\E d \in Dirs : tree[d] = "aside")
AfterArtifacts(p) ==
  CASE job[p].kind = "artifacts" -> "done"
    [] job[p].kind = "retain"    -> "enter-workspace"
    [] OTHER                     -> "enter-git"
AfterGit(p) == IF job[p].kind = "retain" THEN "done" ELSE "contents"

(* _unlink_private_review_artifacts: what is recorded as removed must be   *)
(* gone and the rest must be there; what is there is removed in any case.  *)
Scan(p) ==
  /\ At(p, "scan")
  /\ LET removed == IF Receipted(p) THEN receipts ELSE {} IN
     job' = [job EXCEPT ![p].step = "pick",
               ![p].todo = {a \in Artifacts \ removed : art[a] = "present"},
               ![p].bad = \/ \E a \in removed : art[a] # "absent"
                          \/ \E a \in Artifacts \ removed : art[a] # "present"]
  /\ UNCHANGED files

Pick(p) ==
  /\ At(p, "pick")
  /\ \/ /\ job[p].todo = {} /\ Step(p, IF job[p].bad THEN "failed" ELSE AfterArtifacts(p))
        /\ UNCHANGED files
     \/ \E a \in job[p].todo :
          /\ \/ /\ art' = [art EXCEPT ![a] = "aside"]
                /\ job' = [job EXCEPT ![p].step = "unlink", ![p].item = a, ![p].todo = @ \ {a}]
             \/ job' = [job EXCEPT ![p].todo = @ \ {a}, ![p].bad = TRUE] /\ UNCHANGED art
          /\ UNCHANGED <<marker, record, box, receipts, tree, exit, sealed>>

UnlinkArtifact(p) ==
  /\ At(p, "unlink")
  /\ \/ /\ art' = [art EXCEPT ![job[p].item] = "absent"]
        /\ Step(p, IF Receipted(p) THEN "receipt" ELSE "pick")
     \/ job' = [job EXCEPT ![p].step = "pick", ![p].bad = TRUE] /\ UNCHANGED art
  /\ UNCHANGED <<marker, record, box, receipts, tree, exit, sealed>>

Receipt(p) ==
  /\ At(p, "receipt")
  /\ \/ receipts' = receipts \cup {job[p].item} /\ Step(p, "pick")
     \/ job' = [job EXCEPT ![p].step = "pick", ![p].bad = TRUE] /\ UNCHANGED receipts
  /\ UNCHANGED <<marker, record, box, art, tree, exit, sealed>>

(* _remove_named_directory_tree, then _remove_open_directory_tree. *)
EnterDirectory(p, d, here, empty, next) ==
  /\ At(p, here)
  /\ Step(p, IF Quarantined THEN "failed" ELSE IF tree[d] = "absent" THEN next ELSE empty)
  /\ UNCHANGED files
EmptyDirectory(p, d, here, next) ==
  /\ At(p, here)
  /\ \/ tree[d] \in {"whole", "partial"} /\ tree' = [tree EXCEPT ![d] = "partial"] /\ Step(p, next)
     \/ tree' = [tree EXCEPT ![d] = "partial"] /\ tree[d] # "blocked" /\ Step(p, "failed")
     \/ tree' = [tree EXCEPT ![d] = "blocked"] /\ Step(p, "failed")
  /\ UNCHANGED <<marker, record, box, art, receipts, exit, sealed>>
RemoveDirectory(p, d, here, next) ==
  /\ At(p, here)
  /\ \/ tree[d] = "partial" /\ tree' = [tree EXCEPT ![d] = "aside"] /\ UNCHANGED job
     \/ tree[d] = "aside" /\ tree' = [tree EXCEPT ![d] = "absent"] /\ Step(p, next)
     \/ Step(p, "failed") /\ UNCHANGED tree
  /\ UNCHANGED <<marker, record, box, art, receipts, exit, sealed>>

Workspace(p) ==
  \/ EnterDirectory(p, "workspace", "enter-workspace", "empty-workspace", "enter-git")
  \/ EmptyDirectory(p, "workspace", "empty-workspace", "remove-workspace")
  \/ RemoveDirectory(p, "workspace", "remove-workspace", "enter-git")
Git(p) ==
  \/ EnterDirectory(p, "review.git", "enter-git", "empty-git", AfterGit(p))
  \/ EmptyDirectory(p, "review.git", "empty-git", "remove-git")
  \/ RemoveDirectory(p, "review.git", "remove-git", AfterGit(p))

(* Variant: the marker goes with the content. *)
ContentsWithMarker(p) ==
  /\ At(p, "contents")
  /\ \/ marker' = "none" /\ UNCHANGED <<record, tree, job>>
     \/ marker = "none" /\ record' = FALSE /\ tree' = [tree EXCEPT !["workspace"] = "absent"]
        /\ Step(p, "box") /\ UNCHANGED marker
  /\ UNCHANGED <<box, art, receipts, exit, sealed>>

(* The container: its content, then itself aside, and only then the locks  *)
(* and the marker.                                                         *)
Contents(p) ==
  /\ At(p, "contents")
  /\ \/ /\ ~Quarantined /\ tree["workspace"] # "blocked"
        /\ record' = FALSE /\ tree' = [tree EXCEPT !["workspace"] = "absent"] /\ Step(p, "box")
     \/ /\ record' \in {record, FALSE} /\ Step(p, "failed")
        /\ tree' \in {tree} \cup {[tree EXCEPT !["workspace"] = t] : t \in
                                    IF tree["workspace"] = "absent" THEN {"absent"} ELSE {"partial", "blocked"}}
        /\ tree["workspace"] = "blocked" => tree' = tree
  /\ UNCHANGED <<marker, box, art, receipts, exit, sealed>>
Box(p) ==
  /\ At(p, "box")
  /\ \/ box = "present" /\ box' = "aside" /\ UNCHANGED <<job, marker>>
     \/ box = "aside" /\ marker # "none" /\ marker' = "none" /\ UNCHANGED <<job, box>>
     \/ box = "aside" /\ marker = "none" /\ box' = "absent" /\ Step(p, "done") /\ UNCHANGED marker
     \/ Step(p, "failed") /\ UNCHANGED <<box, marker>>
  /\ UNCHANGED <<record, art, receipts, tree, exit, sealed>>

Removing(p) == Scan(p) \/ Pick(p) \/ UnlinkArtifact(p) \/ Receipt(p) \/ Workspace(p) \/ Git(p) \/ Contents(p) \/ Box(p)

(* A command removes by itself, or its cleaner does, alive or not. *)
ByWorker(c) == worker[c] = "clean"
Remove(p) ==
  /\ Active(p) /\ Removing(p)
  /\ p # Starter => (cmd[p].pc = "job" \/ ByWorker(p))
  /\ UNCHANGED <<run, locks, cmd, worker, kills>>

-----------------------------------------------------------------------------
(* The starter *)

Starting(here, next) == starter = here /\ starter' = next
Undo(kind) == starter' = "undo" /\ Begin(Starter, kind)

Create ==
  /\ Starting("create", "accept")
  /\ box' = "present" /\ art' = [a \in Artifacts |-> "present"]
  /\ UNCHANGED <<mode, keep, runner, marker, record, receipts, tree, exit, sealed, locks, cmd, worker, job, kills>>

(* The lock is created and taken before the marker that names it. *)
Accept ==
  /\ \/ Starting("accept", "build") /\ marker' = "preparing" /\ UNCHANGED job
     \/ starter = "accept" /\ Undo("partial") /\ UNCHANGED marker
  /\ UNCHANGED <<mode, keep, runner, record, box, art, receipts, tree, exit, sealed, locks, cmd, worker, kills>>

Build ==
  /\ starter = "build"
  /\ tree' \in {[d \in Dirs |-> "whole"], tree}
  /\ \/ tree' # tree /\ starter' = "ready" /\ UNCHANGED job
     \/ Undo("partial")
  /\ UNCHANGED <<mode, keep, runner, marker, record, box, art, receipts, exit, sealed, locks, cmd, worker, kills>>

Ready ==
  /\ \/ /\ Starting("ready", IF mode = "foreground" THEN "review" ELSE "record")
        /\ marker' = "ready" /\ UNCHANGED job
     \/ starter = "ready" /\ Undo("partial") /\ UNCHANGED marker
  /\ UNCHANGED <<mode, keep, runner, record, box, art, receipts, tree, exit, sealed, locks, cmd, worker, kills>>

Record ==
  /\ \/ Starting("record", "spawn") /\ record' = TRUE /\ UNCHANGED job
     \/ starter = "record" /\ Undo("ready") /\ UNCHANGED record
  /\ UNCHANGED <<mode, keep, runner, marker, box, art, receipts, tree, exit, sealed, locks, cmd, worker, kills>>

Spawn ==
  /\ \/ Starting("spawn", "publish") /\ runner' = "check" /\ UNCHANGED job
     \/ starter = "spawn" /\ Undo("ready") /\ UNCHANGED runner
  /\ UNCHANGED <<mode, keep, files, locks, cmd, worker, kills>>

(* start returns, or ends the runner and takes everything back. *)
Publish ==
  /\ \/ Starting("publish", "gone") /\ UNCHANGED <<runner, job>>
     \/ starter = "publish" /\ runner' = "gone" /\ Undo("ready")
  /\ UNCHANGED <<mode, keep, files, locks, cmd, worker, kills>>

UndoEnds ==
  /\ Starting("undo", "gone") /\ Over(Starter)
  /\ UNCHANGED <<mode, keep, runner, files, locks, cmd, worker, kills>>

(* The foreground run reviews under the runner lock, takes the cleanup     *)
(* lock, or gives up, and cleans.                                          *)
Foreground ==
  /\ \/ Starting("review", "lock") /\ UNCHANGED <<lock, job>>
     \/ /\ Starting("lock", "clean") /\ lock = Nobody /\ lock' = Starter
        /\ \/ keep /\ Begin(Starter, "artifacts")
           \/ ~keep /\ \E kind \in {"ready", "retain"} : Begin(Starter, kind)
     \/ Starting("lock", "gone") /\ UNCHANGED <<lock, job>>
     \/ Starting("clean", "gone") /\ Over(Starter) /\ lock' = Nobody
  /\ UNCHANGED <<mode, keep, runner, files, fds, cmd, worker, kills>>

StarterSteps ==
  Create \/ Accept \/ Build \/ Ready \/ Record \/ Spawn \/ Publish \/ UndoEnds \/ Foreground

(* run_state: prove the inherited lease, review, seal, record the code. *)
RunnerSteps ==
  /\ \/ runner = "check" /\ runner' \in {"review", "gone"} /\ UNCHANGED <<sealed, exit>>
     \/ runner = "review" /\ runner' \in {"seal", "record"} /\ UNCHANGED <<sealed, exit>>
     \/ runner = "seal" /\ runner' = "record" /\ sealed' \in BOOLEAN /\ UNCHANGED exit
     \/ runner = "record" /\ runner' = "gone" /\ exit' \in {"ran", exit} /\ UNCHANGED sealed
  /\ UNCHANGED <<mode, keep, starter, marker, record, box, art, receipts, tree, locks, cmd, worker, job, kills>>

-----------------------------------------------------------------------------
(* Commands *)

Is(c, p) == cmd[c].pc = p
Go(c, p) == cmd' = [cmd EXCEPT ![c].pc = p]
(* What a command that ended had seen is forgotten. *)
Ending(c, code, a) ==
  cmd' = [cmd EXCEPT ![c] = [@ EXCEPT !.pc = "end", !.timed = TRUE, !.saw = FALSE, !.code = code, !.answer = a]]
End(c, code) == Ending(c, code, cmd[c].answer)
Answer(c, a) == Ending(c, "ok", a)
Forced(c) == cmd[c].op = "cleanup"
Late(c) == cmd[c].timed /\ End(c, "late")

Call(c) ==
  /\ Is(c, "idle")
  /\ \E op \in {"status", "wait", "cleanup"}, timed \in BOOLEAN :
       (op = "status" => timed) /\ cmd' = [cmd EXCEPT ![c].pc = "load", ![c].op = op, ![c].timed = timed]
  /\ UNCHANGED <<run, files, locks, worker, job, kills>>

(* load_review_state, and the marker once more; cleanup reads only that. *)
Load(c) ==
  /\ Is(c, "load")
  /\ IF box = "present" /\ marker # "none" /\ (record \/ Forced(c))
     THEN cmd' = [cmd EXCEPT ![c].pc = "probe", ![c].saw = sealed]
     ELSE End(c, "error")
  /\ UNCHANGED <<run, files, locks, worker, job, kills>>

Probe(c) ==
  /\ Is(c, "probe")
  /\ \/ box # "present" /\ End(c, "error")
     \/ box = "present" /\ ~RunnerLockHeld /\ Go(c, IF Forced(c) THEN "lock" ELSE "exit")
     \/ /\ box = "present" /\ RunnerLockHeld
        /\ CASE cmd[c].op = "status" -> Answer(c, "pending")
             [] cmd[c].op = "cleanup" -> End(c, "running")
             [] OTHER -> Go(c, "load") \/ Late(c)
  /\ UNCHANGED <<run, files, locks, worker, job, kills>>

(* A run that ended without an exit code gets one. *)
Exit(c) ==
  /\ Is(c, "exit")
  /\ \/ /\ box = "present" /\ exit' = IF exit = "none" THEN "lost" ELSE exit
        /\ IF cmd[c].op = "wait" THEN Go(c, "lock")
           ELSE Answer(c, IF cmd[c].saw THEN "sealed" ELSE "unsealed")
     \/ (exit = "none" \/ box # "present") /\ End(c, "error") /\ UNCHANGED exit
  /\ UNCHANGED <<run, marker, record, box, art, receipts, tree, sealed, locks, worker, job, kills>>

Acquire(c) ==
  /\ Is(c, "lock")
  /\ \/ box = "present" /\ lock = Nobody /\ Go(c, "locked")
        /\ lock' = c /\ fds' = [fds EXCEPT ![c] = {"self"}]
     \/ (Late(c) \/ (box # "present" /\ End(c, "error"))) /\ UNCHANGED locks
  /\ UNCHANGED <<run, files, worker, job, kills>>

(* _cleanup_terminal_workspace, once it holds the lock. *)
Refuse(c) ==
  /\ \/ box # "present" /\ End(c, "error")
     \/ box = "present" /\ RunnerLockHeld /\ End(c, "running")
     \/ /\ box = "present" /\ ~RunnerLockHeld /\ ~record /\ (~Forced(c) \/ marker = "none")
        /\ End(c, "error")
     \/ box = "present" /\ record /\ exit = "none" /\ End(c, "error")
  /\ Unlock(c) /\ UNCHANGED <<exit, worker, job>>
MayClean == box = "present" /\ ~RunnerLockHeld
CleanUnrecorded(c) ==
  /\ MayClean /\ ~record /\ Forced(c) /\ marker # "none"
  /\ Begin(c, IF marker = "preparing" THEN "partial" ELSE "ready") /\ Go(c, "job")
  /\ UNCHANGED <<exit, locks, worker>>
CleanRecorded(c) ==
  /\ MayClean /\ record /\ exit' = IF exit = "none" THEN "lost" ELSE exit
  /\ \/ keep /\ ~Forced(c) /\ Begin(c, "artifacts") /\ Go(c, "job") /\ UNCHANGED <<locks, worker>>
     \/ /\ (~keep \/ Forced(c)) /\ ~cmd[c].timed
        /\ Begin(c, "retain") /\ Go(c, "job") /\ UNCHANGED <<locks, worker>>
     \/ /\ (~keep \/ Forced(c)) /\ cmd[c].timed
        /\ \/ /\ worker' = [worker EXCEPT ![c] = "check"] /\ fds' = [fds EXCEPT ![c] = {"self", "worker"}]
              /\ Go(c, "poll") /\ UNCHANGED <<lock, job>>
           \/ (Late(c) \/ End(c, "failed")) /\ Unlock(c) /\ UNCHANGED <<worker, job>>
Clean(c) ==
  /\ Is(c, "locked")
  /\ Refuse(c) \/ CleanUnrecorded(c) \/ CleanRecorded(c)
  /\ UNCHANGED <<run, marker, record, box, art, receipts, tree, sealed, kills>>

Cleaned(c) ==
  /\ Is(c, "job") /\ Over(c)
  /\ End(c, IF At(c, "done") THEN "ok" ELSE "failed") /\ Unlock(c)
  /\ UNCHANGED <<run, files, worker, kills>>

(* _cleanup_before_deadline. *)
Poll(c) ==
  /\ Is(c, "poll")
  /\ \/ worker[c] = "ok" /\ End(c, "ok")
     \/ worker[c] \in {"failed", "killed"} /\ End(c, "failed")
     \/ Late(c)
  /\ Close(c, "self") /\ UNCHANGED <<run, files, worker, job, kills>>

CommandSteps(c) ==
  Load(c) \/ Probe(c) \/ Exit(c) \/ Acquire(c) \/ Clean(c) \/ Cleaned(c) \/ Poll(c)

(* cleanup_worker.py: prove both leases, load the run, clean. *)
WorkerSteps(c) ==
  /\ \/ /\ worker[c] = "check"
        /\ \/ /\ lock = c /\ "worker" \in fds[c] /\ box = "present" /\ record
              /\ worker' = [worker EXCEPT ![c] = "clean"] /\ Begin(c, "retain") /\ UNCHANGED locks
           \/ worker' = [worker EXCEPT ![c] = "failed"] /\ Close(c, "worker") /\ UNCHANGED job
     \/ /\ worker[c] = "clean" /\ Over(c)
        /\ worker' = [worker EXCEPT ![c] = IF At(c, "done") THEN "ok" ELSE "failed"]
        /\ Close(c, "worker")
  /\ UNCHANGED <<run, files, cmd, kills>>

-----------------------------------------------------------------------------
(* Kills *)

Kill == kills < MaxKills /\ kills' = kills + 1
StarterDies ==
  /\ starter \notin {"create", "gone"} /\ Kill /\ starter' = "gone"
  /\ job' = [job EXCEPT ![Starter] = NoJob] /\ lock' = IF lock = Starter THEN Nobody ELSE lock
  /\ UNCHANGED <<mode, keep, runner, files, fds, cmd, worker>>
RunnerDies ==
  /\ RunnerLives /\ Kill /\ runner' = "gone"
  /\ UNCHANGED <<mode, keep, starter, files, locks, cmd, worker, job>>
CommandDies(c) ==
  /\ cmd[c].pc \notin {"idle", "end"} /\ Kill /\ End(c, "killed") /\ Close(c, "self")
  /\ job' = IF Is(c, "job") THEN [job EXCEPT ![c] = NoJob] ELSE job
  /\ UNCHANGED <<run, files, worker>>
WorkerDies(c) ==
  /\ worker[c] \in {"check", "clean"} /\ Kill /\ worker' = [worker EXCEPT ![c] = "killed"]
  /\ Close(c, "worker") /\ job' = [job EXCEPT ![c] = NoJob]
  /\ UNCHANGED <<run, files, cmd>>

Steps ==
  \/ StarterSteps \/ RunnerSteps
  \/ \E p \in Actors : Remove(p)
  \/ \E c \in Commands : CommandSteps(c) \/ WorkerSteps(c)
Next ==
  \/ Steps \/ StarterDies \/ RunnerDies
  \/ \E c \in Commands : Call(c) \/ CommandDies(c) \/ WorkerDies(c)

Fairness ==
  /\ WF_vars(StarterSteps) /\ WF_vars(RunnerSteps) /\ \A p \in Actors : WF_vars(Remove(p))
  /\ \A c \in Commands : WF_vars(CommandSteps(c)) /\ WF_vars(WorkerSteps(c))
Spec == Init /\ [][Next]_vars /\ Fairness

-----------------------------------------------------------------------------
(* Properties *)

(* Every variable has its type; a description that nobody shares holds no  *)
(* lock, and only what was there can have been moved aside.                *)
TypeOK ==
  /\ mode \in {"detached", "foreground"} /\ keep \in BOOLEAN /\ record \in BOOLEAN /\ sealed \in BOOLEAN
  /\ marker \in {"none", "preparing", "ready"} /\ box \in {"absent", "present", "aside"}
  /\ art \in [Artifacts -> {"absent", "present", "aside"}] /\ receipts \subseteq Artifacts
  /\ tree \in [Dirs -> {"absent", "whole", "partial", "blocked", "aside"}]
  /\ exit \in {"none", "ran", "lost"} /\ lock \in Actors \cup {Nobody}
  /\ \A c \in Commands : fds[c] \subseteq {"self", "worker"} /\ (lock = c => fds[c] # {})
  /\ kills \in 0..MaxKills

(* What is being reviewed is whole: nobody removes, or settles, the run of *)
(* a live reviewer, whoever of starter, runner, commands is killed.        *)
Reviewing == starter = "review" \/ (RunnerLives /\ starter # "undo")
ReviewUndisturbed ==
  Reviewing => /\ box = "present" /\ marker = "ready" /\ exit # "lost"
               /\ \A d \in Dirs : tree[d] = "whole"
               /\ \A a \in Artifacts : art[a] = "present"

(* No two processes remove from one container, a cleaner whose command has *)
(* long returned included.                                                 *)
OneCleaner == \A p, q \in Actors : Active(p) /\ Active(q) => p = q

(* A command that reports success has left nothing private behind, and no  *)
(* workspace that it was not told to keep.                                 *)
SuccessIsRemoval ==
  \A c \in Commands : cmd[c].code = "ok" /\ cmd[c].op # "status" =>
    /\ \A a \in Artifacts : art[a] = "absent"
    /\ ~keep \/ Forced(c) => \A d \in Dirs : tree[d] = "absent"

(* As long as anything that was prepared is left, the container is where   *)
(* cleanup looks for it, with the marker that says how to remove it.       *)
MarkerOutlivesContent ==
  (\E d \in Dirs : tree[d] # "absent") => box = "present" /\ marker # "none"

(* The runner's exit code is never replaced by a command's. *)
ExitStands == exit = "ran" => exit' # "lost"
ExitIsTheRunners == [][ExitStands]_vars

(* Every command ends, an untimed one too, whoever was killed. *)
Begun(c) == cmd[c].pc = "load"
Ended(c) == cmd[c].pc = "end"
CommandsEnd == \A c \in Commands : Begun(c) ~> Ended(c)

(* A test has a sealed receipt of an ended run answered by its evidence:   *)
(* violated, for the marker is read before the runner lock is probed.      *)
UnsealedMeansUnsealed ==
  [][\A c \in Commands : cmd[c].answer # "unsealed" /\ cmd'[c].answer = "unsealed" => ~sealed]_vars
=============================================================================
