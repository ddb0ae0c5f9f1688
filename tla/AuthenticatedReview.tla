------------------------- MODULE AuthenticatedReview -------------------------
(***************************************************************************)
(* run_authenticated_review of review_execution.py with the custody of the *)
(* executable's snapshot in codex_executable.py: a runtime directory is    *)
(* leased, the credential is refreshed if need be, then the review is run; *)
(* each of the two stages copies the executable, launches the copy, and    *)
(* must not delete it, nor the directory, before the launched process is   *)
(* proven closed.  What cannot be proven is kept and named by the error.   *)
(* Every step may fail; the launched process may outlive its deadlines.    *)
(***************************************************************************)
EXTENDS Naturals

CONSTANT MaxFaults      \* bound on failing steps

VARIABLES
  pc, stage,
  lease,    \* [dir: none, whole, partial or gone; kept: _RuntimeLease.retained]
  snap,     \* the stage's snapshot on disk: none, whole, gone
  custody,  \* its phase; none: the caller holds no custody
  launch,   \* whether _prepare_custodied_launch returned, with the handoff token
  roots,    \* the held writable roots: none, open, closed
  child,    \* the launched process: none, runs, dead (not reaped), reaped
  helper,   \* a helper process whose closure is reported as unproven
  state,    \* ProcessCustodyState
  known,    \* the finalizer's launched
  life,     \* the durable lifecycle: idle, begun, launched, closed
  owed,     \* its close is owed
  err,      \* [kind, names]: the error under way and the resources it names
  source,   \* direct_helper_closure_error is set
  errs,     \* what the finalizer has collected: none, plain, retention
  faults,
  blind,    \* history: what was lost of a report that the launch, or a helper, is unproven
  refused   \* history: custody refused the evidence of quiescence

vars == <<pc, stage, lease, snap, custody, launch, roots, child, helper, state, known, life, owed,
          err, source, errs, faults, blind, refused>>

Disk == <<lease, snap>>
Held == <<custody, launch, roots>>
Process == <<child, state, known>>
Life == <<life, owed>>
Error == <<err, source, errs>>
Past == <<helper, blind, refused>>

NoState == [pid |-> FALSE, reaped |-> FALSE, empty |-> FALSE, pipes |-> FALSE, exit |-> FALSE]

Init ==
  /\ pc = "allocate" /\ stage = "none" /\ lease = [dir |-> "none", kept |-> FALSE] /\ snap = "none"
  /\ custody = "none" /\ launch = FALSE /\ roots = "none" /\ child = "none" /\ helper = FALSE
  /\ state = NoState /\ known = FALSE /\ life = "idle" /\ owed = FALSE
  /\ err = [kind |-> "none", names |-> {}] /\ source = FALSE /\ errs = "none"
  /\ faults = 0 /\ blind = {} /\ refused = FALSE

Goto(l) == pc' = l
Fault == faults < MaxFaults /\ faults' = faults + 1
Throw(kind, names, l) ==
  /\ pc' = l /\ err' = [kind |-> kind, names |-> names] /\ source' = (kind = "unproven")
  /\ UNCHANGED errs
Raise(kind, names, l) == Fault /\ Throw(kind, names, l)
NoError == UNCHANGED <<Error, faults>>
\* A helper process does not end within its bound: the error says so by its type.
RaiseHelper(names, l) ==
  Raise("unproven", names \cup {"helper"}, l) /\ helper' = TRUE /\ UNCHANGED <<blind, refused>>

-----------------------------------------------------------------------------
(* The runtime directory and the credential *)

\* _allocate_runtime_lease: rolled back, or left behind and named.
Allocate ==
  /\ pc = "allocate"
  /\ \/ Goto("load") /\ lease' = [lease EXCEPT !.dir = "whole"] /\ NoError
     \/ Raise("plain", {}, "done") /\ UNCHANGED lease
     \/ Raise("retention", {"lease"}, "done") /\ lease' = [dir |-> "whole", kept |-> TRUE]
  /\ UNCHANGED <<stage, snap, Held, Process, Life, Past>>

\* load_external_auth and its revalidation: only the first load may ask for a refresh.
Load ==
  /\ pc = "load"
  /\ \/ Goto("dirs") /\ stage' = "review" /\ NoError
     \/ stage = "none" /\ Goto("dirs") /\ stage' = "refresh" /\ NoError
     \/ Raise("plain", {}, "handle") /\ UNCHANGED stage
  /\ UNCHANGED <<Disk, Held, Process, Life, Past>>

\* make_directory, for each directory of the stage, before its try statement.
Dirs ==
  /\ pc = "dirs"
  /\ \/ Goto("authenticate") /\ NoError /\ UNCHANGED lease
     \/ Raise("plain", {}, "handle") /\ UNCHANGED lease
     \/ Raise("retention", {"lease"}, "handle") /\ lease' = [lease EXCEPT !.kept = TRUE]
  /\ snap' = "none" /\ custody' = "none" /\ launch' = FALSE /\ roots' = "none"
  /\ child' = "none" /\ state' = NoState /\ known' = FALSE /\ owed' = FALSE
  /\ UNCHANGED <<stage, life, Past>>

-----------------------------------------------------------------------------
(* A stage *)

\* authenticate_codex_executable: on failure the snapshot is destroyed or named.
Authenticate ==
  /\ pc = "authenticate"
  /\ \/ Goto("attest") /\ custody' = "authenticated" /\ snap' = "whole" /\ NoError /\ UNCHANGED Past
     \/ Raise("plain", {}, "settle") /\ snap' = "none" /\ UNCHANGED <<custody, Past>>
     \/ Raise("retention", {"snapshot"}, "settle") /\ snap' = "whole" /\ UNCHANGED <<custody, Past>>
     \/ RaiseHelper({"snapshot"}, "settle") /\ snap' = "whole" /\ UNCHANGED custody
  /\ UNCHANGED <<stage, lease, launch, roots, Process, Life>>

\* The attestation of the snapshot and of the writable roots
Attest ==
  /\ pc = "attest"
  /\ \/ Goto("handoff") /\ roots' = "open" /\ NoError
     \/ Raise("plain", {}, "settle") /\ UNCHANGED roots
  /\ UNCHANGED <<stage, Disk, custody, launch, Process, Life, Past>>

\* The mutation probe, pre_fork_revalidate and child_revalidate_immediately_before_exec; with
\* the error the handoff token is lost to the caller, wherever custody has come to.
Handoff ==
  /\ pc = "handoff"
  /\ \/ /\ Goto("begin") /\ custody' = "child" /\ launch' = TRUE
        /\ NoError /\ UNCHANGED <<roots, Past>>
     \/ /\ Raise("plain", {}, "settle") /\ custody' \in {"authenticated", "pre-fork", "child"}
        /\ roots' = "closed" /\ UNCHANGED <<launch, Past>>
     \/ RaiseHelper({}, "settle") /\ roots' = "closed" /\ UNCHANGED <<custody, launch>>
  /\ UNCHANGED <<stage, Disk, Process, Life>>

\* lifecycle.begin commits through a helper process, and may fail after the commit.
Begin ==
  /\ pc = "begin"
  /\ \/ Goto("launch") /\ life' = "begun" /\ NoError /\ UNCHANGED Past
     \/ Raise("plain", {}, "settle") /\ life' \in {life, "begun"} /\ UNCHANGED Past
     \/ RaiseHelper({}, "settle") /\ life' \in {life, "begun"}
  /\ UNCHANGED <<stage, Disk, Held, Process, owed>>

Review == stage = "review"
\* The gate takes a launch that returned no process for one that made none.
GateState == IF Review THEN [state EXCEPT !.reaped = TRUE, !.empty = TRUE, !.pipes = TRUE] ELSE state

\* The launch within the gate, or within the refresh, which reports any failure of the launch
\* as a plain one; so does the gate when a signal was received meanwhile.
Launch ==
  /\ pc = "launch"
  /\ \/ /\ Goto("publish") /\ child' = "runs" /\ state' = [state EXCEPT !.pid = TRUE]
        /\ NoError /\ UNCHANGED Past
     \/ /\ Raise("plain", {}, "settle") /\ child' = "none" /\ state' = GateState /\ UNCHANGED Past
     \/ /\ child' = "runs" /\ state' = GateState /\ blind' = {"launch"} /\ UNCHANGED <<helper, refused>>
        /\ \/ Review /\ Raise("retention", {"launch"}, "settle")
           \/ Raise("plain", {}, "settle")
  /\ UNCHANGED <<stage, Disk, Held, known, Life>>

\* on_launch: the close is owed before the launch is recorded, which may fail after its commit.
Publish ==
  /\ pc = "publish"
  /\ \/ /\ Goto("bind") /\ known' = TRUE /\ owed' = TRUE /\ life' = "launched" /\ NoError /\ UNCHANGED Past
     \/ /\ Raise("plain", {}, "stop") /\ known' \in BOOLEAN /\ (Review \/ known') /\ UNCHANGED <<owed, life, Past>>
     \/ /\ known' = TRUE /\ owed' = TRUE /\ life' \in {"begun", "launched"}
        /\ \/ Raise("plain", {}, "stop") /\ UNCHANGED Past     \* a helper's too, in the refresh
           \/ Review /\ RaiseHelper({}, "stop")
  /\ UNCHANGED <<stage, Disk, Held, child, state>>

\* parent_revalidate_after_exec_handoff binds the PID before it looks at anything.
Bind ==
  /\ pc = "bind"
  /\ \/ Goto("serve") /\ custody' = "post" /\ NoError
     \/ Raise("plain", {}, "stop") /\ custody' \in {custody, "bound"}
  /\ UNCHANGED <<stage, Disk, launch, roots, Process, Life, Past>>

\* The session runs to its end, or fails, at its deadline if not before.
Serve ==
  /\ pc = "serve"
  /\ \/ /\ child = "dead" /\ child' = "reaped" /\ Goto("settle") /\ NoError
        /\ state' = [state EXCEPT !.reaped = TRUE, !.empty = TRUE, !.exit = TRUE, !.pipes = TRUE]
     \/ Throw("plain", {}, "stop") /\ UNCHANGED <<child, state, faults>>
  /\ UNCHANGED <<stage, Disk, Held, known, Life, Past>>

\* _terminate_process, _cleanup_process: the process is reaped, or survives the deadline; this
\* error supersedes the one under way.
Stop ==
  /\ pc = "stop" /\ Goto("settle")
  /\ \/ /\ child' = "reaped" /\ UNCHANGED <<err, source, faults, blind>>
        /\ state' = [state EXCEPT !.reaped = TRUE, !.empty = TRUE, !.exit = TRUE, !.pipes = Review]
     \/ /\ child = "runs" /\ UNCHANGED <<child, faults>> /\ state' = [state EXCEPT !.pipes = Review]
        /\ err' = [kind |-> "plain", names |-> {}] /\ source' = FALSE
        /\ blind' = IF source THEN blind \cup {"helper"} ELSE blind
  /\ UNCHANGED <<stage, Disk, Held, known, Life, errs, helper, refused>>

ChildExits == child = "runs" /\ child' = "dead"
              /\ UNCHANGED <<pc, stage, Disk, Held, state, known, Life, Error, faults, Past>>

-----------------------------------------------------------------------------
(* _finalize_custodied_stage *)

Entered == Review /\ pc = "settle" /\ (state.pid \/ state.reaped)   \* process_boundary_entered
Piped(s) == [s EXCEPT !.pipes = @ \/ ~Entered]

\* _settle_launched_process
Settle ==
  /\ pc = "settle" /\ Goto("judge")
  /\ \/ /\ ~known /\ UNCHANGED <<child, lease, errs, faults>>
        /\ state' = IF state.pid THEN Piped(state)
                    ELSE [Piped(state) EXCEPT !.reaped = TRUE, !.empty = TRUE]
     \/ /\ known /\ state' = [Piped(state) EXCEPT !.reaped = TRUE, !.empty = TRUE, !.exit = TRUE]
        /\ child' = "reaped" /\ UNCHANGED <<lease, errs, faults>>
     \/ /\ known /\ child = "runs" /\ state' = Piped(state)
        /\ lease' = [lease EXCEPT !.kept = TRUE] /\ errs' = "plain" /\ UNCHANGED <<child, faults>>
  /\ UNCHANGED <<stage, snap, Held, known, Life, err, source, Past>>

\* _closure_proven
Proven == state.reaped /\ state.empty /\ state.pipes

\* _raise_retained_unproven_closure and the owners it publishes to; one interrupt of the
\* publication is made good by a second attempt and leaves no trace.
RaiseRetained ==
  /\ Goto("handle") /\ lease' = [lease EXCEPT !.kept = TRUE]
  /\ err' = [kind |-> "unproven",
             names |-> (IF source THEN err.names ELSE {}) \cup {"lease"}
                       \cup (IF custody # "none" THEN {"snapshot"} ELSE {})
                       \cup (IF launch THEN {"roots"} ELSE {})]
  /\ UNCHANGED <<source, errs>>

\* Variant: only a process that is not proven closed is kept, not the helper.
UnclosedIgnoresHelper == custody # "none" /\ ~Proven
Unclosed == source \/ (custody # "none" /\ ~Proven)

Judge ==
  /\ pc = "judge"
  /\ \/ /\ Unclosed /\ RaiseRetained /\ UNCHANGED faults
     \/ /\ ~Unclosed /\ UNCHANGED <<lease, Error, faults>>
        /\ Goto(IF owed /\ Proven /\ state.exit THEN "close" ELSE "quiesce")
  /\ UNCHANGED <<stage, snap, Held, Process, Life, Past>>

\* lifecycle.closed: a close that fails leaves an open launch, and is an unproven closure.
Close ==
  /\ pc = "close"
  /\ \/ life = "launched" /\ life' = "closed" /\ Goto("quiesce") /\ UNCHANGED <<lease, Error, faults, Past>>
     \/ life # "launched" /\ RaiseRetained /\ UNCHANGED <<life, faults, Past>>
     \/ /\ life = "launched" /\ Fault /\ RaiseRetained /\ life' \in {"launched", "closed"}
        /\ helper' \in BOOLEAN /\ (helper => helper') /\ UNCHANGED <<blind, refused>>
  /\ UNCHANGED <<stage, snap, Held, Process, owed>>

\* _validate_quiescence: the token and the PID are those of the custody, at its phase.
Quiescent ==
  /\ custody = "authenticated" \/ launch
  /\ IF state.pid THEN custody \in {"bound", "post"} ELSE custody \notin {"bound", "post"}

\* confirm_process_quiescence and cleanup: what fails keeps the runtime directory as well.
Quiesce ==
  /\ pc = "quiesce" /\ Goto("leave")
  /\ \/ /\ custody = "none" /\ UNCHANGED <<Disk, custody, errs, faults, refused>>
     \/ /\ custody # "none" /\ Quiescent /\ custody' = "cleaned" /\ snap' = "gone"
        /\ UNCHANGED <<lease, errs, faults, refused>>
     \/ /\ custody # "none" /\ Quiescent /\ Fault /\ custody' = "stale-retained"
        /\ snap' \in {"whole", "gone"} /\ errs' = "retention"
        /\ lease' = [lease EXCEPT !.kept = TRUE] /\ UNCHANGED refused
     \/ /\ custody # "none" /\ ~Quiescent /\ errs' = "plain" /\ refused' = TRUE
        /\ lease' = [lease EXCEPT !.kept = TRUE] /\ UNCHANGED <<snap, custody, faults>>
  /\ UNCHANGED <<stage, launch, roots, Process, Life, err, source, helper, blind>>

\* The writable roots are closed and _raise_finalization_errors supersedes the stage's error.
Leave ==
  /\ pc = "leave" /\ roots' = (IF launch THEN "closed" ELSE roots)
  /\ Goto(IF err.kind # "none" \/ errs # "none" THEN "handle" ELSE IF Review THEN "result" ELSE "load")
  /\ err' = CASE errs = "none" -> err
              [] errs = "plain" -> [kind |-> "plain", names |-> {}]
              [] errs = "retention" -> [kind |-> "retention", names |-> {"snapshot", "lease"}]
  /\ UNCHANGED <<stage, Disk, custody, launch, Process, Life, source, errs, faults, Past>>

-----------------------------------------------------------------------------
(* The end *)

Result ==
  /\ pc = "result"
  /\ \/ Goto("cleanup") /\ NoError
     \/ Raise("plain", {}, "handle")
  /\ UNCHANGED <<stage, Disk, Held, Process, Life, Past>>

\* An error that retains anything retains the runtime directory.
Handle ==
  /\ pc = "handle" /\ Goto("cleanup")
  /\ IF err.kind \in {"retention", "unproven"}
     THEN lease' = [lease EXCEPT !.kept = TRUE] /\ err' = [err EXCEPT !.names = @ \cup {"lease"}]
     ELSE UNCHANGED <<lease, err>>
  /\ UNCHANGED <<stage, snap, Held, Process, Life, source, errs, faults, Past>>

\* _RuntimeLease.cleanup: the tree is deleted, or what is left of it is named.
Cleanup ==
  /\ pc = "cleanup"
  /\ \/ lease.kept /\ Goto("done") /\ NoError /\ UNCHANGED Disk
     \/ /\ ~lease.kept /\ Goto("done") /\ NoError /\ lease' = [lease EXCEPT !.dir = "gone"]
        /\ snap' = IF snap = "whole" THEN "gone" ELSE snap
     \/ /\ ~lease.kept /\ Raise("retention", {"lease"}, "done")
        /\ lease' \in {[dir |-> d, kept |-> TRUE] : d \in {"whole", "partial", "gone"}}
        /\ snap' = IF lease'.dir # "whole" /\ snap = "whole" THEN "gone" ELSE snap
  /\ UNCHANGED <<stage, Held, Process, Life, Past>>

Done == pc = "done" /\ UNCHANGED vars

Step ==
  \/ Allocate \/ Load \/ Dirs \/ Authenticate \/ Attest \/ Handoff \/ Begin \/ Launch \/ Publish
  \/ Bind \/ Serve \/ Stop \/ Settle \/ Judge \/ Close \/ Quiesce \/ Leave \/ Result \/ Handle
  \/ Cleanup

Next == Step \/ ChildExits \/ Done
Spec == Init /\ [][Next]_vars /\ WF_vars(Step)

-----------------------------------------------------------------------------
TypeOK ==
  /\ lease \in [dir : {"none", "whole", "partial", "gone"}, kept : BOOLEAN]
  /\ snap \in {"none", "whole", "gone"} /\ roots \in {"none", "open", "closed"}
  /\ custody \in {"none", "authenticated", "pre-fork", "child", "bound", "post", "cleaned", "stale-retained"}
  /\ child \in {"none", "runs", "dead", "reaped"} /\ life \in {"idle", "begun", "launched", "closed"}
  /\ err.kind \in {"none", "plain", "retention", "unproven"}
  /\ err.names \subseteq {"lease", "snapshot", "roots", "helper", "launch"}
  /\ errs \in {"none", "plain", "retention"} /\ faults \in 0 .. MaxFaults
  /\ launch => custody \notin {"none", "authenticated"}

AtEnd == pc = "done"

\* The copy that a process runs is not deleted, as long as the launch knew the process.
KnownKeepsSnapshot == snap = "gone" /\ child = "runs" => "launch" \in blind

\* ... and whether or not it knew it.
SnapshotOutlivesProcess == snap = "gone" => child # "runs"

\* A known process or a helper that may still run is told by the type of the error, and the
\* runtime directory is whole.
AliveIsUnproven ==
  AtEnd /\ ((child = "runs" /\ "launch" \notin blind) \/ (helper /\ "helper" \notin blind))
    => err.kind = "unproven" /\ lease.dir = "whole"

\* A launch left open in the durable record surfaces as unproven, never as a closed boundary.
OpenLaunchIsUnproven == AtEnd /\ life = "launched" => err.kind = "unproven"

\* What the error names is there; what is left is named, unless custody refused the evidence.
NamedIsKept ==
  AtEnd => /\ "lease" \in err.names => lease.kept
           /\ "snapshot" \in err.names => snap # "gone" \/ custody = "stale-retained"
           /\ lease.dir \in {"whole", "partial"} => "lease" \in err.names \/ refused

\* A result leaves nothing behind; the roots are closed or named.
NothingLeft ==
  AtEnd => /\ err.kind = "none" => /\ lease.dir = "gone" /\ snap = "gone" /\ child = "reaped"
                                   /\ life = "closed" /\ custody = "cleaned"
           /\ roots = "open" => "roots" \in err.names

\* The call returns.
ReviewEnds == <>AtEnd
=============================================================================
