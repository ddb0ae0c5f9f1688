-------------------------- MODULE WorkspaceRecovery --------------------------
(***************************************************************************)
(* A private review workspace and the ways it can be removed               *)
(* (review_runtime/review_workspace.py).  prepare_workspace builds it,     *)
(* validate_workspace checks it, both by Git children that may outlive the *)
(* process that started them.  Before a child starts, an external control  *)
(* file beside the workspace is armed; it is bound to the child, released  *)
(* when the child is proven gone, and otherwise sealed and named in the    *)
(* failure receipt.  Three things remove: the rollback of a preparation    *)
(* that failed, cleanup-workspace with the token of a published receipt,   *)
(* and recover-partial-workspace with a sealed control.                    *)
(*                                                                         *)
(* A control is rewritten in place (truncate, then write), so a crash or a *)
(* failed write leaves it Torn.  Everything that writes a control or scans *)
(* for one holds the flock of the parent directory; the rollback does not. *)
(* Signals are masked over all of this: a process is stopped only by a     *)
(* kill.  Entries of the workspace other than the marker are its "body".   *)
(***************************************************************************)
EXTENDS Naturals, FiniteSets

CONSTANTS Prep,         \* the process of prepare-workspace
          Validators,   \* processes of validate-workspace
          MaxKills,     \* processes or tools killed, and
          MaxFaults,    \* system calls that fail, in one behaviour
          MaxCalls      \* calls of cleanup-workspace

Procs == {Prep} \cup Validators
Cleaner == "cleanup-workspace"
Recoverer == "recover-partial-workspace"
Free == "free"
Slots == {"session", "exit"}   \* the control of a Git session, of an owner exit

NoFile == [state |-> "none", marker |-> "none", at |-> "none"]
Torn == [state |-> "torn", marker |-> "none", at |-> "none"]
Sealed == {"retained-quiescence-unproven", "retained-owner-exit-required"}
Records == [state : {"armed", "process-bound"} \cup Sealed,
            marker : {"none", "torn", "whole"}, at : {"root", "quarantine"}]

VARIABLES
  pc,        \* [Procs \cup {Cleaner, Recoverer} -> where each stands]
  stage,     \* [Procs -> the Git session, or "exit", it is at]
  writing,   \* [Procs -> why it is rewriting its control]
  mem,       \* [Procs -> the control's payload as its process holds it]
  failed,    \* [Procs -> whether its current session has failed]
  child,     \* [Procs -> its Git child: "none", "alive" or "gone"]
  ctl,       \* [Procs -> [Slots -> the control file on disk]]
  receipt,   \* [Procs -> "none", "told", or the slot its receipt recovers]
  root,      \* the workspace directory: "none", "root" or "quarantine"
  body,      \* its entries other than the marker
  marker,    \* its marker file: "none", "torn" or "whole"
  known,     \* whether Prep holds the marker's bytes
  lock,      \* holder of the parent directory's flock
  target,    \* the process whose sealed control is being recovered
  kills, faults, calls

procVars == <<stage, writing, mem, failed, child, receipt>>
dirVars == <<root, body, marker, known>>
bounds == <<kills, faults, calls>>
vars == <<pc, stage, writing, mem, failed, child, ctl, receipt, root, body,
          marker, known, lock, target, kills, faults, calls>>

Slot(p) == IF stage[p] = "exit" THEN "exit" ELSE "session"
Ended(p) == pc[p] \in {"done", "exited", "killed"}
Fault == faults < MaxFaults /\ faults' = faults + 1
Goto(a, l) == pc' = [pc EXCEPT ![a] = l]
Unlock(a) == lock' = IF lock = a THEN Free ELSE lock

Init ==
  /\ pc = [a \in Procs \cup {Cleaner, Recoverer} |-> "idle"]
  /\ stage = [p \in Procs |-> IF p = Prep THEN "pack" ELSE "validate"]
  /\ writing = [p \in Procs |-> "none"]
  /\ mem = [p \in Procs |-> NoFile]
  /\ failed = [p \in Procs |-> FALSE]
  /\ child = [p \in Procs |-> "none"]
  /\ ctl = [p \in Procs |-> [s \in Slots |-> NoFile]]
  /\ receipt = [p \in Procs |-> "none"]
  /\ root = "none" /\ body = {} /\ marker = "none" /\ known = FALSE
  /\ lock = Free /\ target = Prep
  /\ kills = 0 /\ faults = 0 /\ calls = 0

-----------------------------------------------------------------------------
(* Starting *)

\* The private directory is made and bound; if that fails it is removed again.
MakeRoot ==
  /\ pc[Prep] = "idle"
  /\ \/ root' = "root" /\ Goto(Prep, "create") /\ UNCHANGED faults
     \/ Fault /\ Goto(Prep, "failed") /\ UNCHANGED root
  /\ UNCHANGED <<procVars, ctl, body, marker, known, lock, target, kills, calls>>

\* A validation of a marked workspace whose preparation is over.
StartValidation(p) ==
  /\ p # Prep /\ pc[p] = "idle" /\ Ended(Prep)
  /\ root = "root" /\ marker = "whole"
  /\ Goto(p, "create")
  /\ UNCHANGED <<procVars, ctl, dirVars, lock, target, bounds>>

-----------------------------------------------------------------------------
(* The control file *)

\* A control is created under the flock, for the workspace at its path, with
\* the marker's digest as it is now; the file is still empty.
Create(p) ==
  /\ pc[p] = "create" /\ lock = Free
  /\ root = "root" \/ (stage[p] = "exit" /\ root = "quarantine")
  /\ lock' = p
  /\ ctl' = [ctl EXCEPT ![p][Slot(p)] = Torn]
  /\ mem' = [mem EXCEPT ![p] = [state |-> "armed", marker |-> marker, at |-> root]]
  /\ writing' = [writing EXCEPT ![p] = "create"]
  /\ Goto(p, "writing")
  /\ UNCHANGED <<stage, failed, child, receipt, dirVars, target, bounds>>

\* The workspace was moved or removed before its control could be created.
CreateFindsNothing(p) ==
  /\ pc[p] = "create" /\ lock = Free
  /\ ~(root = "root" \/ (stage[p] = "exit" /\ root = "quarantine"))
  /\ receipt' = [receipt EXCEPT ![p] = "told"]
  /\ Goto(p, "failed")
  /\ UNCHANGED <<stage, writing, mem, failed, child, ctl, dirVars, lock, target, bounds>>

\* The payload in memory changes first, then the file is rewritten in place.
Rewrite(p, why, state) ==
  /\ mem' = [mem EXCEPT ![p].state = state]
  /\ writing' = [writing EXCEPT ![p] = why]
  /\ Goto(p, "publish")

\* Variant: the receipt is committed before the record is written.
CommitEarly(p) ==
  /\ pc[p] = "publish" /\ lock = Free
  /\ lock' = p
  /\ ctl' = [ctl EXCEPT ![p][Slot(p)] = Torn]
  /\ receipt' = [receipt EXCEPT ![p] = IF mem[p].state \in Sealed THEN Slot(p) ELSE @]
  /\ Goto(p, "writing")
  /\ UNCHANGED <<stage, writing, mem, failed, child, dirVars, target, bounds>>
\* The flock is taken, the bindings hold, and the record is truncated.
Publish(p) ==
  /\ pc[p] = "publish" /\ lock = Free
  /\ lock' = p
  /\ ctl' = [ctl EXCEPT ![p][Slot(p)] = Torn]
  /\ Goto(p, "writing")
  /\ UNCHANGED <<procVars, dirVars, target, bounds>>

AfterWrite(p) ==
  CASE writing[p] = "create" -> IF stage[p] = "exit" THEN "seal" ELSE "spawn"
    [] writing[p] = "bind" -> "run"
    [] writing[p] \in {"release", "seal", "exit"} -> "close"

\* The record is written and synced; a sealed one is committed as the receipt.
Written(p) ==
  /\ pc[p] = "writing"
  /\ ctl' = [ctl EXCEPT ![p][Slot(p)] = mem[p]]
  /\ receipt' = [receipt EXCEPT ![p] = IF mem[p].state \in Sealed THEN Slot(p) ELSE @]
  /\ Goto(p, AfterWrite(p))
  /\ Unlock(p)
  /\ UNCHANGED <<stage, writing, mem, failed, child, dirVars, target, bounds>>

\* A failure before the record changed (the bindings no longer hold), or after
\* it was truncated or written.  A created control is unlinked again, and told
\* if that fails too; the operation the record was written for goes on failing.
RecordFails(p) ==
  /\ pc[p] \in {"publish", "writing"}
  /\ \E file \in IF pc[p] = "publish" THEN {ctl[p][Slot(p)]} ELSE {Torn, mem[p]} :
       LET committed == file = mem[p] /\ file.state \in Sealed IN
       \/ /\ writing[p] = "create"
          /\ \/ Fault /\ ctl' = [ctl EXCEPT ![p][Slot(p)] = NoFile]
                /\ receipt' = [receipt EXCEPT ![p] = IF stage[p] = "exit" THEN "told" ELSE @]
                /\ Goto(p, IF stage[p] = "exit" THEN "failed" ELSE "fail")
             \/ /\ faults + 1 < MaxFaults /\ faults' = faults + 2
                /\ ctl' = [ctl EXCEPT ![p][Slot(p)] = file]
                /\ receipt' = [receipt EXCEPT ![p] = "told"]
                /\ Goto(p, "failed")
       \/ /\ writing[p] # "create" /\ Fault
          /\ ctl' = [ctl EXCEPT ![p][Slot(p)] = file]
          /\ receipt' = [receipt EXCEPT ![p] = IF committed THEN Slot(p)
                          ELSE IF writing[p] \in {"seal", "exit"} THEN "told" ELSE @]
          /\ Goto(p, AfterWrite(p))
  /\ failed' = [failed EXCEPT ![p] = TRUE]
  /\ Unlock(p)
  /\ UNCHANGED <<stage, writing, mem, child, dirVars, target, kills, calls>>

-----------------------------------------------------------------------------
(* A Git session *)

\* The child starts in a process group of its own and is bound to the control.
Spawn(p) ==
  /\ pc[p] = "spawn"
  /\ child' = [child EXCEPT ![p] = "alive"]
  /\ Rewrite(p, "bind", "process-bound")
  /\ UNCHANGED <<stage, failed, ctl, receipt, dirVars, lock, target, bounds>>

SpawnFails(p) ==
  /\ pc[p] = "spawn" /\ Fault
  /\ failed' = [failed EXCEPT ![p] = TRUE]
  /\ Goto(p, "close")
  /\ UNCHANGED <<stage, writing, mem, child, ctl, receipt, dirVars, lock, target, kills, calls>>

\* The child ends, by itself or by its owner's signals, at any time.
ChildExit(p) ==
  /\ child[p] = "alive"
  /\ child' = [child EXCEPT ![p] = "gone"]
  /\ UNCHANGED <<pc, stage, writing, mem, failed, ctl, receipt, dirVars, lock, target, bounds>>

\* What a session may have added to the workspace when it is settled.
Grown(p, must) == IF p # Prep \/ stage[p] = "validate" THEN {body}
                  ELSE {body \cup {stage[p]}} \cup (IF must THEN {} ELSE {body})

\* The group is proven gone: a bound control is released; if the binding was
\* never published there is nothing to release.
SettleQuiet(p) ==
  /\ pc[p] = "run" /\ child[p] = "gone"
  /\ \E ok \in IF failed[p] THEN {FALSE} ELSE BOOLEAN :
       /\ failed' = [failed EXCEPT ![p] = ~ok]
       /\ body' \in Grown(p, ok)
  /\ IF failed[p] THEN Goto(p, "close") /\ UNCHANGED <<writing, mem>>
                  ELSE Rewrite(p, "release", "armed")
  /\ UNCHANGED <<stage, child, ctl, receipt, root, marker, known, lock, target, bounds>>

\* The group may still exist: the control is sealed for recovery.
SettleUnproven(p) ==
  /\ pc[p] = "run"
  /\ failed' = [failed EXCEPT ![p] = TRUE]
  /\ body' \in Grown(p, FALSE)
  /\ Rewrite(p, "seal", "retained-quiescence-unproven")
  /\ UNCHANGED <<stage, child, ctl, receipt, root, marker, known, lock, target, bounds>>

\* The workspace the rollback could not remove is sealed for the time after
\* this process, once its control is armed.
SealExit(p) ==
  /\ pc[p] = "seal"
  /\ Rewrite(p, "exit", "retained-owner-exit-required")
  /\ UNCHANGED <<stage, failed, child, ctl, receipt, dirVars, lock, target, bounds>>

Retain(p) == IF stage[p] = "exit" THEN receipt[p] = "exit" ELSE mem[p].state \in Sealed

\* A control that is retained stays as it is.
CloseRetained(p) ==
  /\ pc[p] = "close" /\ Retain(p)
  /\ Goto(p, "failed")
  /\ UNCHANGED <<procVars, ctl, dirVars, lock, target, bounds>>

AfterSession(p) ==
  CASE failed[p] -> "fail"
    [] ~failed[p] /\ stage[p] = "pack" -> "create"
    [] ~failed[p] /\ stage[p] = "checkout" -> "mark"
    [] ~failed[p] /\ stage[p] = "validate" -> IF p = Prep THEN "handoff" ELSE "done"

\* Any other is unlinked, without the flock; it may be left where it is.
Close(p) ==
  /\ pc[p] = "close" /\ ~Retain(p)
  /\ \/ ctl' = [ctl EXCEPT ![p][Slot(p)] = NoFile] /\ UNCHANGED <<failed, faults>>
        /\ Goto(p, IF stage[p] = "exit" THEN "failed" ELSE AfterSession(p))
        /\ stage' = [stage EXCEPT ![p] = IF @ = "pack" /\ ~failed[p] THEN "checkout" ELSE @]
     \/ Fault /\ failed' = [failed EXCEPT ![p] = TRUE] /\ UNCHANGED <<ctl, stage>>
        /\ Goto(p, IF stage[p] = "exit" THEN "failed" ELSE "fail")
  /\ child' = [child EXCEPT ![p] = IF @ = "gone" THEN "none" ELSE @]
  /\ UNCHANGED <<writing, mem, receipt, dirVars, lock, target, kills, calls>>

-----------------------------------------------------------------------------
(* Preparation: the marker, the hand-over, the rollback *)

BeginMark ==
  /\ pc[Prep] = "mark" /\ marker' = "torn" /\ Goto(Prep, "marking")
  /\ UNCHANGED <<procVars, ctl, root, body, known, lock, target, bounds>>

EndMark ==
  /\ pc[Prep] = "marking" /\ marker' = "whole" /\ known' = TRUE
  /\ stage' = [stage EXCEPT ![Prep] = "validate"]
  /\ Goto(Prep, "create")
  /\ UNCHANGED <<writing, mem, failed, child, ctl, receipt, root, body, lock, target, bounds>>

\* The bytes of a marker whose writing failed are not restored by the rollback.
MarkFails ==
  /\ pc[Prep] \in {"mark", "marking"} /\ Fault
  /\ marker' \in IF pc[Prep] = "mark" THEN {"none"} ELSE {"torn", "whole"}
  /\ Goto(Prep, "fail")
  /\ UNCHANGED <<procVars, ctl, root, body, known, lock, target, kills, calls>>

\* A failure that need not retain: the preparer removes what it made.
Fail(p) ==
  /\ pc[p] = "fail"
  /\ Goto(p, IF p = Prep THEN "removing" ELSE "failed")
  /\ UNCHANGED <<procVars, ctl, dirVars, lock, target, bounds>>

\* The receipt with the cleanup token goes out, or the workspace is cleaned up.
Handoff ==
  /\ pc[Prep] = "handoff"
  /\ \/ Goto(Prep, "done") /\ UNCHANGED faults
     \/ Fault /\ Goto(Prep, "clean")
  /\ UNCHANGED <<procVars, ctl, dirVars, lock, target, kills, calls>>

\* The process that told its failure ends.
Exit(p) ==
  /\ pc[p] = "failed" /\ Goto(p, "exited")
  /\ UNCHANGED <<procVars, ctl, dirVars, lock, target, bounds>>

-----------------------------------------------------------------------------
(* Removal, by the rollback (without the flock) or by cleanup-workspace *)

\* What a failed removal leads to: the preparer seals an owner-exit control for
\* the directory where it is; a cleanup fails and may be called again.
AfterFailure(a) ==
  /\ Unlock(a)
  /\ Goto(a, IF a = Prep THEN "create" ELSE "idle")
  /\ stage' = IF a = Prep THEN [stage EXCEPT ![Prep] = "exit"] ELSE stage

CallCleanup ==
  /\ pc[Cleaner] = "idle" /\ calls < MaxCalls /\ pc[Prep] = "done"
  /\ root # "none" /\ marker = "whole"
  /\ Goto(Cleaner, "clean") /\ calls' = calls + 1
  /\ UNCHANGED <<procVars, ctl, dirVars, lock, target, kills, faults>>

\* Under the flock no control may be bound to the workspace, whatever it says,
\* and none may be unreadable.
Clean(a) ==
  /\ pc[a] = "clean" /\ lock = Free
  /\ IF \A p \in Procs, s \in Slots : ctl[p][s] = NoFile
     THEN lock' = a /\ Goto(a, "rename") /\ UNCHANGED stage
     ELSE AfterFailure(a)
  /\ UNCHANGED <<writing, mem, failed, child, receipt, ctl, dirVars, target, bounds>>

\* The directory is moved aside by an exclusive rename.
Rename(a) ==
  /\ pc[a] = "rename" /\ root' = "quarantine" /\ Goto(a, "removing")
  /\ UNCHANGED <<procVars, ctl, body, marker, known, lock, target, bounds>>

RenameFails(a) ==
  /\ pc[a] = "rename" /\ Fault /\ AfterFailure(a)
  /\ UNCHANGED <<writing, mem, failed, child, receipt, ctl, dirVars, target, kills, calls>>

RemoveEntry(a) ==
  /\ pc[a] = "removing"
  /\ \E e \in body : body' = body \ {e}
  /\ UNCHANGED <<pc, procVars, ctl, root, marker, known, lock, target, bounds>>

\* The marker goes last, if its bytes are known.
RemoveMarker(a) ==
  /\ pc[a] = "removing" /\ marker # "none"
  /\ known => body = {}
  /\ marker' = "none"
  /\ UNCHANGED <<pc, procVars, ctl, root, body, known, lock, target, bounds>>

RemoveRoot(a) ==
  /\ pc[a] = "removing" /\ body = {} /\ marker = "none"
  /\ root' = "none"
  /\ Goto(a, IF a = Prep THEN "failed" ELSE "idle")
  /\ Unlock(a)
  /\ UNCHANGED <<procVars, ctl, body, marker, known, target, bounds>>

\* A removal that fails puts a marker it had removed back, unless that fails too.
RemovalFails(a) ==
  /\ pc[a] = "removing"
  /\ \/ Fault /\ marker' = IF known /\ marker = "none" THEN "whole" ELSE marker
     \/ /\ faults + 1 < MaxFaults /\ faults' = faults + 2
        /\ known /\ marker = "none" /\ UNCHANGED marker
  /\ AfterFailure(a)
  /\ UNCHANGED <<writing, mem, failed, child, receipt, ctl, root, body, known, target, kills, calls>>

-----------------------------------------------------------------------------
(* recover-partial-workspace *)

CallRecovery(p) ==
  /\ pc[Recoverer] = "idle"
  /\ pc[p] \in {"failed", "exited"} /\ receipt[p] \in Slots
  /\ target' = p /\ Goto(Recoverer, "recover")
  /\ UNCHANGED <<procVars, ctl, dirVars, lock, bounds>>

\* The control must be the bytes the receipt names, sealed; the workspace must
\* be where and what it says; its owner must have ended and its child be gone.
Recoverable(p) ==
  LET c == ctl[p][receipt[p]] IN
  /\ c.state \in Sealed /\ root = c.at /\ marker = c.marker
  /\ Ended(p)
  /\ c.state = "retained-quiescence-unproven" => child[p] # "alive"

Recover ==
  /\ pc[Recoverer] = "recover" /\ lock = Free
  /\ IF Recoverable(target) THEN lock' = Recoverer /\ Goto(Recoverer, "clearing")
                            ELSE Goto(Recoverer, "idle") /\ UNCHANGED lock
  /\ UNCHANGED <<procVars, ctl, dirVars, target, bounds>>

\* Every entry but the marker is removed.
ClearEntry ==
  /\ pc[Recoverer] = "clearing"
  /\ \E e \in body : body' = body \ {e}
  /\ UNCHANGED <<pc, procVars, ctl, root, marker, known, lock, target, bounds>>

\* What recovery leaves, and reports as already clean when it is run again.
Tombstone(p) == body = {} /\ root = ctl[p][receipt[p]].at /\ marker = ctl[p][receipt[p]].marker

RecoverEnds ==
  /\ pc[Recoverer] = "clearing"
  /\ \/ Tombstone(target) /\ UNCHANGED faults
     \/ Fault
  /\ Goto(Recoverer, "idle") /\ Unlock(Recoverer)
  /\ UNCHANGED <<procVars, ctl, dirVars, target, kills, calls>>

-----------------------------------------------------------------------------
\* A process or a tool is killed; its flock falls with it, its child does not.
Kill(a) ==
  /\ kills < MaxKills /\ kills' = kills + 1
  /\ pc[a] \notin {"idle", "done", "failed", "exited", "killed"}
  /\ Goto(a, IF a \in Procs THEN "killed" ELSE "idle")
  /\ Unlock(a)
  /\ UNCHANGED <<procVars, ctl, dirVars, target, faults, calls>>

Work(p) ==
  \/ Create(p) \/ CreateFindsNothing(p) \/ Publish(p) \/ Written(p) \/ RecordFails(p)
  \/ Spawn(p) \/ SpawnFails(p) \/ SettleQuiet(p) \/ SettleUnproven(p) \/ SealExit(p)
  \/ CloseRetained(p) \/ Close(p) \/ Fail(p) \/ Exit(p)

Preparing == MakeRoot \/ BeginMark \/ EndMark \/ MarkFails \/ Handoff

Cleaning(a) ==
  \/ Clean(a) \/ Rename(a) \/ RenameFails(a) \/ RemoveEntry(a) \/ RemoveMarker(a)
  \/ RemoveRoot(a) \/ RemovalFails(a)

Recovering == (\E p \in Procs : CallRecovery(p)) \/ Recover \/ ClearEntry \/ RecoverEnds

Next ==
  \/ Preparing \/ CallCleanup \/ Recovering
  \/ \E p \in Procs : Work(p) \/ StartValidation(p) \/ ChildExit(p)
  \/ \E a \in {Prep, Cleaner} : Cleaning(a)
  \/ \E a \in Procs \cup {Cleaner, Recoverer} : Kill(a)

\* Every process and tool goes on while it lives, a child ends sooner or later,
\* and a caller that was given a recovery command repeats it.
Spec == /\ Init /\ [][Next]_vars
        /\ \A p \in Procs : WF_vars(Work(p)) /\ WF_vars(ChildExit(p))
        /\ \A p \in Procs : WF_vars(CallRecovery(p))
        /\ WF_vars(Preparing)
        /\ \A a \in {Prep, Cleaner} : WF_vars(Cleaning(a))
        /\ WF_vars(Recover \/ ClearEntry \/ RecoverEnds)

-----------------------------------------------------------------------------
TypeOK ==
  /\ DOMAIN pc = Procs \cup {Cleaner, Recoverer}
  /\ stage \in [Procs -> {"pack", "checkout", "validate", "exit"}]
  /\ mem \in [Procs -> Records \cup {NoFile}]
  /\ failed \in [Procs -> BOOLEAN]
  /\ child \in [Procs -> {"none", "alive", "gone"}]
  /\ \A p \in Procs, s \in Slots : ctl[p][s] \in Records \cup {NoFile, Torn}
  /\ receipt \in [Procs -> {"none", "told"} \cup Slots]
  /\ root \in {"none", "root", "quarantine"} /\ body \subseteq {"pack", "checkout"}
  /\ marker \in {"none", "torn", "whole"} /\ known \in BOOLEAN
  /\ lock \in Procs \cup {Cleaner, Recoverer, Free} /\ target \in Procs

\* Nothing is removed from a workspace while a Git child runs in it, however its
\* owner ended: only the recovery of one run's control may overlook a later run
\* of another process, never the run it recovers.
SparesGit ==
  body' \subseteq body /\ body' # body =>
    \A p \in Procs : child[p] = "alive" => pc[Recoverer] = "clearing" /\ target # p
RemovalSparesGit ==
  [][SparesGit]_vars

\* A receipt with a recovery command stays good, whatever crashes or fails after
\* it was committed: the control it names is sealed on disk and the workspace is
\* still where and what the control says.
ReceiptIsHonoured ==
  \A p \in Procs : receipt[p] \in Slots =>
    LET c == ctl[p][receipt[p]] IN
    c.state \in Sealed /\ root = c.at /\ marker = c.marker

\* A handed-over workspace never loses the marker its cleanup needs while it
\* still has content, even when the cleanup is killed half-way.
MarkerOutlivesBody == pc[Prep] = "done" /\ body # {} => marker = "whole"

\* A preparation that failed and was not killed left nothing, or said so.
LeftoversAreTold ==
  pc[Prep] \in {"failed", "exited"} /\ root # "none" => receipt[Prep] # "none"

\* A workspace whose receipt carries a recovery command is cleared in the end.
Promised(p) == pc[p] = "exited" /\ receipt[p] \in Slots
Cleared == body = {}
RecoveryCompletes ==
  \A p \in Procs :
    Promised(p) ~> Cleared
=============================================================================
