--------------------------- MODULE SupervisedProcess ---------------------------
(* A command of the review runtime under supervision: a worker thread forks the *)
(* launcher, which waits at a gate; the caller's thread binds the launch, opens *)
(* the gate, watches the command and its output, and settles everything in one  *)
(* finally clause.  Signals, timeouts and failures strike at every step; what   *)
(* the command leaves behind may stay in its process group or leave it.         *)
EXTENDS Naturals, FiniteSets

CONSTANT MaxFaults    \* bound on failing and hanging calls

VARIABLES at,          \* the step of the caller's thread
          worker,      \* the step of the thread that spawns
          cancelled, requested, claimed,
          cleaned,     \* worker_cleaned_process
          handle,      \* the caller's thread knows the process
          leader,      \* none, gated, running, zombie, reaped
          kin,         \* a descendant: none, group, escaped (with the output streams)
          ran,         \* the command itself was executed
          gate,        \* held, open (the token is written), dropped
          bound,       \* the launch is recorded
          io,          \* the threads that drain: none, busy, done, stuck
          found,       \* what the watch found: overflow, drain, leftover
          signal,      \* none, pending, seen, consumed, caller
          sent,        \* the signal went to the process group
          primary,     \* the error of the operation
          failures,    \* the errors of the cleanup
          inconclusive, quiet, marked,
          outcome, faults

vars == <<at, worker, cancelled, requested, claimed, cleaned, handle, leader, kin, ran, gate, bound, io,
          found, signal, sent, primary, failures, inconclusive, quiet, marked, outcome, faults>>
child == <<leader, kin, ran>>
spawner == <<worker, cancelled, requested, claimed, cleaned>>
ending == <<inconclusive, quiet, marked, outcome>>

Running == {"prepare", "start", "request", "await", "claimed", "bind", "release", "handoff", "started", "io",
            "wait", "group", "joins", "result"}
Cleanup == {"cancel", "join", "terminate", "stop", "prove", "end"}

TypeOK ==
    /\ at \in Running \cup Cleanup \cup {"over", "crashed"}
    /\ worker \in {"none", "ready", "spawning", "offered", "cleaning", "done", "gone"}
    /\ cancelled \in BOOLEAN /\ requested \in BOOLEAN /\ claimed \in BOOLEAN /\ cleaned \in BOOLEAN
    /\ handle \in BOOLEAN /\ ran \in BOOLEAN /\ bound \in BOOLEAN /\ sent \in BOOLEAN
    /\ leader \in {"none", "gated", "running", "zombie", "reaped"}
    /\ kin \in {"none", "group", "escaped"}
    /\ gate \in {"held", "open", "dropped"}
    /\ io \in {"none", "busy", "done", "stuck"}
    /\ found \subseteq {"overflow", "drain", "leftover"}
    /\ signal \in {"none", "pending", "seen", "consumed", "caller"}
    /\ primary \in {"none", "signal", "timeout", "leak", "error"}
    /\ failures \subseteq {"spawn", "worker", "leak", "drain"}
    /\ inconclusive \in BOOLEAN /\ quiet \in BOOLEAN /\ marked \in BOOLEAN
    /\ outcome \in {"running", "result", "signal", "timeout", "leak", "error"}
    /\ faults \in 0..MaxFaults

GroupLives == leader \in {"gated", "running"} \/ kin = "group"
StreamsOpen == leader \in {"gated", "running"} \/ kin # "none"
Spawned == leader # "none"

Init ==
    /\ at = "prepare" /\ worker = "none"
    /\ cancelled = FALSE /\ requested = FALSE /\ claimed = FALSE /\ cleaned = FALSE /\ handle = FALSE
    /\ leader = "none" /\ kin = "none" /\ ran = FALSE /\ gate = "held" /\ bound = FALSE
    /\ io = "none" /\ found = {} /\ signal = "none" /\ sent = FALSE
    /\ primary = "none" /\ failures = {} /\ inconclusive = FALSE /\ quiet = FALSE /\ marked = FALSE
    /\ outcome = "running" /\ faults = 0

Go(a) == at' = a
Fault == faults < MaxFaults /\ faults' = faults + 1
Raise(kind) == primary' = kind /\ Go("cancel")

--------------------------------------------------------------------------------
(* Signals.  The handler only notes a signal while no process is known or the   *)
(* deferral is on; otherwise it forwards it to the group and raises.            *)

Arrive == signal = "none" /\ at # "over" /\ at # "crashed" /\ signal' = "pending"
          /\ UNCHANGED <<at, spawner, handle, child, gate, bound, io, found, sent, primary, failures, ending, faults>>

Deferred == at \in {"prepare", "started"} \/ (~handle /\ ~claimed)
Masked == at \in Cleanup \cup {"io", "over", "crashed"}

NoteSignal ==
    /\ signal = "pending" /\ ~Masked /\ Deferred
    /\ signal' = "seen"
    /\ UNCHANGED <<at, spawner, handle, child, gate, bound, io, found, sent, primary, failures, ending, faults>>

(* forward_signal with a process, and raise_pending_process_signal *)
ForwardSignal ==
    /\ \/ signal = "pending" /\ ~Masked /\ ~Deferred
       \/ signal = "seen" /\ at \in Running /\ at \notin {"prepare", "started", "io", "claimed"}
    /\ signal' = "seen" /\ sent' = (handle \/ claimed) /\ Raise("signal")
    /\ UNCHANGED <<spawner, handle, child, gate, bound, io, found, failures, ending, faults>>

(* every wait is bounded by the operation's deadline *)
TimesOut ==
    /\ at \in {"start", "request", "await", "bind", "release", "handoff", "wait"}
    /\ signal # "seen"
    /\ Raise("timeout")
    /\ UNCHANGED <<spawner, handle, child, gate, bound, io, found, signal, sent, failures, ending, faults>>

--------------------------------------------------------------------------------
(* The thread that spawns: _ProcessSpawnOwner.spawn *)

SpawnBegins ==
    /\ worker = "ready" /\ requested
    /\ worker' = IF cancelled THEN "done" ELSE "spawning"
    /\ UNCHANGED <<at, cancelled, requested, claimed, cleaned, handle, child, gate, bound, io, found, signal, sent,
                   primary, failures, ending, faults>>

Spawns ==
    /\ worker = "spawning"
    /\ \/ leader' = "gated" /\ worker' = (IF cancelled THEN "cleaning" ELSE "offered") /\ UNCHANGED <<failures, faults>>
       \/ Fault /\ worker' = "done" /\ failures' = failures \cup {"spawn"} /\ UNCHANGED leader
    /\ UNCHANGED <<at, cancelled, requested, claimed, cleaned, handle, kin, ran, gate, bound, io, found, signal, sent,
                   primary, ending>>

Offered ==
    /\ worker = "offered" /\ (claimed \/ cancelled)
    /\ worker' = IF claimed THEN "done" ELSE "cleaning"
    /\ UNCHANGED <<at, cancelled, requested, claimed, cleaned, handle, child, gate, bound, io, found, signal, sent,
                   primary, failures, ending, faults>>

(* terminate_process_group: a signal, a grace, a kill, two bounded waits; it is *)
(* silent about a process that did not go                                       *)
Terminated == leader' = "reaped" /\ kin' = (IF kin = "group" THEN "none" ELSE kin)
Terminate == \/ Terminated /\ UNCHANGED faults
             \/ Fault /\ GroupLives /\ UNCHANGED <<leader, kin>>

WorkerCleans ==
    /\ worker = "cleaning"
    /\ Terminate /\ worker' = "done" /\ cleaned' = TRUE
    /\ UNCHANGED <<at, cancelled, requested, claimed, handle, ran, gate, bound, io, found, signal, sent, primary,
                   failures, ending>>

Worker == SpawnBegins \/ Spawns \/ Offered \/ WorkerCleans

--------------------------------------------------------------------------------
(* The launcher and the command *)

(* fd_exec: the token opens the gate; the end of the control stream without it  *)
(* is a launch that was called off                                              *)
Executes ==
    /\ leader = "gated" /\ gate = "open"
    /\ \/ leader' = "running" /\ ran' = TRUE /\ UNCHANGED faults
       \/ Fault /\ leader' = "zombie" /\ UNCHANGED ran
    /\ UNCHANGED <<at, spawner, handle, kin, gate, bound, io, found, signal, sent, primary, failures, ending>>

GivesUp ==
    /\ leader = "gated" /\ gate = "dropped"
    /\ leader' = "zombie"
    /\ UNCHANGED <<at, spawner, handle, kin, ran, gate, bound, io, found, signal, sent, primary, failures, ending, faults>>

Forks ==
    /\ leader = "running" /\ kin = "none" /\ kin' = "group"
    /\ UNCHANGED <<at, spawner, handle, leader, ran, gate, bound, io, found, signal, sent, primary, failures, ending, faults>>

Leaves ==
    /\ kin = "group" /\ Fault /\ kin' = "escaped"
    /\ UNCHANGED <<at, spawner, handle, leader, ran, gate, bound, io, found, signal, sent, primary, failures, ending>>

Exits ==
    /\ \/ leader = "running" /\ leader' = "zombie" /\ UNCHANGED kin
       \/ kin # "none" /\ kin' = "none" /\ UNCHANGED leader
    /\ UNCHANGED <<at, spawner, handle, ran, gate, bound, io, found, signal, sent, primary, failures, ending, faults>>

Command == Executes \/ GivesUp \/ Forks \/ Leaves \/ Exits

--------------------------------------------------------------------------------
(* The caller's thread: the launch *)

(* handlers, pipes and the command line; a signal noted meanwhile ends it *)
Prepare ==
    /\ at = "prepare"
    /\ IF signal = "seen" THEN Raise("signal") /\ UNCHANGED faults
       ELSE \/ Go("start") /\ UNCHANGED <<primary, faults>>
            \/ Fault /\ Raise("error")
    /\ UNCHANGED <<spawner, handle, child, gate, bound, io, found, signal, sent, failures, ending>>

StartWorker ==
    /\ at = "start" /\ signal # "seen"
    /\ \/ worker' = "ready" /\ Go("request") /\ UNCHANGED <<primary, faults>>
       \/ Fault /\ Raise("error") /\ UNCHANGED worker
       \/ Fault /\ Raise("error") /\ worker' = "ready"
    /\ UNCHANGED <<cancelled, requested, claimed, cleaned, handle, child, gate, bound, io, found, signal, sent, failures,
                   ending>>

(* on_process_starting, then the spawn is asked for *)
Request ==
    /\ at = "request" /\ signal # "seen"
    /\ \/ requested' = TRUE /\ Go("await") /\ UNCHANGED <<primary, faults>>
       \/ Fault /\ Raise("error") /\ UNCHANGED requested
    /\ UNCHANGED <<worker, cancelled, claimed, cleaned, handle, child, gate, bound, io, found, signal, sent, failures,
                   ending>>

(* _await_owned_process_spawn: the handle is claimed before it is assigned *)
Claim ==
    /\ at = "await" /\ signal # "seen"
    /\ \/ worker = "offered" /\ claimed' = TRUE /\ Go("claimed") /\ UNCHANGED primary
       \/ worker = "done" /\ ~claimed /\ Raise("error") /\ UNCHANGED claimed
    /\ UNCHANGED <<worker, cancelled, requested, cleaned, handle, child, gate, bound, io, found, signal, sent, failures,
                   ending, faults>>

Assign ==
    /\ at = "claimed" /\ worker = "done"
    /\ handle' = TRUE /\ Go("bind")
    /\ UNCHANGED <<spawner, child, gate, bound, io, found, signal, sent, primary, failures, ending, faults>>

(* prepare_and_commit_process_spawn *)
Bind ==
    /\ at = "bind" /\ signal # "seen"
    /\ \/ bound' = TRUE /\ Go("release") /\ UNCHANGED <<primary, faults>>
       \/ Fault /\ Raise("error") /\ bound' \in BOOLEAN
    /\ UNCHANGED <<spawner, handle, child, gate, io, found, signal, sent, failures, ending>>

(* _release_exec_gate: the environment, the last look at signals, the token *)
Release ==
    /\ at = "release" /\ signal # "seen"
    /\ \/ leader = "gated" /\ gate' = "open" /\ Go("handoff") /\ UNCHANGED <<primary, faults>>
       \/ leader # "gated" /\ Raise("error") /\ UNCHANGED <<gate, faults>>
       \/ Fault /\ Raise("error") /\ UNCHANGED gate
    /\ UNCHANGED <<spawner, handle, child, bound, io, found, signal, sent, failures, ending>>

(* _await_descriptor_exec_handoff: the status pipe closes, or tells an error *)
Handoff ==
    /\ at = "handoff" /\ signal # "seen" /\ leader # "gated"
    /\ IF ran THEN Go("started") /\ UNCHANGED primary ELSE Raise("error")
    /\ UNCHANGED <<spawner, handle, child, gate, bound, io, found, signal, sent, failures, ending, faults>>

(* on_process_started, with the signals deferred *)
Started ==
    /\ at = "started"
    /\ IF signal = "seen" THEN sent' = TRUE /\ Raise("signal") /\ UNCHANGED faults
       ELSE /\ UNCHANGED sent
            /\ \/ Go("io") /\ UNCHANGED <<primary, faults>>
               \/ Fault /\ Raise("error")
    /\ UNCHANGED <<spawner, handle, child, gate, bound, io, found, signal, failures, ending>>

StartDrains ==
    /\ at = "io"
    /\ io' = "busy"
    /\ \/ Go("wait") /\ UNCHANGED <<primary, inconclusive, faults>>
       \/ Fault /\ inconclusive' = TRUE /\ Raise("error")
    /\ UNCHANGED <<spawner, handle, child, gate, bound, found, signal, sent, failures, quiet, marked, outcome>>

--------------------------------------------------------------------------------
(* The caller's thread: the watch *)

(* drain_bounded, write_stdin_bounded, monitor_regular_file_limit *)
Drains ==
    /\ io = "busy"
    /\ \/ ~StreamsOpen /\ io' = "done" /\ UNCHANGED <<found, faults>>
       \/ Fault /\ io' = "stuck" /\ UNCHANGED found
       \/ Fault /\ \E what \in {"overflow", "drain"} : found' = found \cup {what} /\ UNCHANGED io
    /\ UNCHANGED <<at, spawner, handle, child, gate, bound, signal, sent, primary, failures, ending>>

Watch ==
    /\ at = "wait" /\ signal # "seen"
    /\ \/ leader = "zombie" /\ leader' = "reaped" /\ UNCHANGED <<kin, faults>>
       \/ leader = "running" /\ found # {} /\ Terminate
    /\ Go("group")
    /\ UNCHANGED <<spawner, handle, ran, gate, bound, io, found, signal, sent, primary, failures, ending>>

(* what is left in the group when the command has gone had its grace *)
LookForKin ==
    /\ at = "group" /\ signal # "seen"
    /\ Go("joins")
    /\ IF GroupLives THEN found' = found \cup {"leftover"} /\ inconclusive' = TRUE /\ Terminate
       ELSE UNCHANGED <<found, inconclusive, leader, kin, faults>>
    /\ UNCHANGED <<spawner, handle, ran, gate, bound, io, signal, sent, primary, failures, quiet, marked, outcome>>

JoinDrains ==
    /\ at = "joins" /\ signal # "seen"
    /\ \/ io = "done" /\ Go("result") /\ UNCHANGED <<io, primary, inconclusive>>
       \/ /\ io = "stuck" \/ (io = "busy" /\ StreamsOpen)
          /\ io' = (IF io = "busy" THEN "done" ELSE io)
          /\ inconclusive' = TRUE /\ Raise("leak")
    /\ UNCHANGED <<spawner, handle, child, gate, bound, found, signal, sent, failures, quiet, marked, outcome, faults>>

Judge ==
    /\ at = "result" /\ signal # "seen"
    /\ Go("cancel")
    /\ inconclusive' = (inconclusive \/ "drain" \in found)
    /\ primary' = IF found \cap {"drain", "overflow"} # {} THEN "error"
                ELSE IF "leftover" \in found THEN "leak" ELSE "none"
    /\ UNCHANGED <<spawner, handle, child, gate, bound, io, found, signal, sent, failures, quiet, marked, outcome, faults>>

--------------------------------------------------------------------------------
(* The caller's thread: the finally clause, with the signals blocked *)

Cancel ==
    /\ at = "cancel"
    /\ cancelled' = (worker # "none") /\ requested' = (requested \/ worker # "none")
    /\ gate' = (IF gate = "held" THEN "dropped" ELSE gate)
    /\ Go("join")
    /\ UNCHANGED <<worker, claimed, cleaned, handle, child, bound, io, found, signal, sent, primary, failures, ending,
                   faults>>

(* the worker is joined for a bounded time; the process it leaves is adopted *)
Join ==
    /\ at = "join"
    /\ \/ /\ worker \in {"none", "done"}
          /\ handle' = (handle \/ Spawned)
          /\ UNCHANGED <<inconclusive, failures, faults>>
       \/ /\ worker \notin {"none", "done"} /\ Fault
          /\ handle' = (handle \/ claimed)
          /\ inconclusive' = TRUE /\ failures' = failures \cup {"worker"}
    /\ Go("terminate")
    /\ UNCHANGED <<spawner, child, gate, bound, io, found, signal, sent, primary, quiet, marked, outcome>>

Settle ==
    /\ at = "terminate"
    /\ Go("stop")
    /\ IF handle /\ ~cleaned THEN Terminate ELSE UNCHANGED <<leader, kin, faults>>
    /\ UNCHANGED <<spawner, handle, ran, gate, bound, io, found, signal, sent, primary, failures, ending>>

StopDrains ==
    /\ at = "stop"
    /\ Go("prove")
    /\ io' = (IF io = "busy" THEN "done" ELSE io)
    /\ inconclusive' = (inconclusive \/ io = "stuck" \/ "drain" \in found)
    /\ failures' = failures \cup (IF io = "stuck" THEN {"leak"} ELSE {})
                             \cup (IF "drain" \in found THEN {"drain"} ELSE {})
    /\ UNCHANGED <<spawner, handle, child, gate, bound, found, signal, sent, primary, quiet, marked, outcome, faults>>

(* the handlers are restored, pending signals are taken, and the process group  *)
(* is looked for a last time                                                    *)
Proves(gone) ==
    IF ~handle THEN UNCHANGED <<quiet, failures>>
    ELSE IF gone /\ ~inconclusive THEN quiet' = TRUE /\ UNCHANGED failures
    ELSE failures' = failures \cup {"leak"} /\ UNCHANGED quiet

Prove ==
    /\ at = "prove"
    /\ signal' = (IF signal = "pending" THEN "consumed" ELSE signal)
    /\ leader' = (IF leader = "zombie" THEN "reaped" ELSE leader)
    /\ \/ Proves(leader' = "reaped" /\ kin # "group") /\ UNCHANGED faults
       \/ Fault /\ Proves(FALSE)
    /\ Go("end")
    /\ UNCHANGED <<spawner, handle, kin, ran, gate, bound, io, found, sent, primary, inconclusive, marked, outcome>>

(* the masks are restored, which gives a later signal to the caller, and one    *)
(* error is selected: a signal first, the operation's own, then the cleanup's   *)
Selected ==
    IF signal \in {"seen", "consumed"} THEN "signal"
    ELSE IF primary # "none" THEN primary
    ELSE IF failures \cap {"leak", "worker"} # {} THEN "leak"
    ELSE IF failures # {} THEN "error"
    ELSE "result"

Unproven == inconclusive \/ primary = "leak" \/ failures \cap {"leak", "worker"} # {}

End ==
    /\ at = "end"
    /\ signal' = (IF signal = "pending" THEN "caller" ELSE signal)
    /\ outcome' = Selected /\ marked' = (Selected # "result" /\ Unproven)
    /\ Go("over")
    /\ UNCHANGED <<spawner, handle, child, gate, bound, io, found, sent, primary, failures, inconclusive, quiet, faults>>

Main == Prepare \/ StartWorker \/ Request \/ Claim \/ Assign \/ Bind \/ Release \/ Handoff \/ Started \/ StartDrains
        \/ Watch \/ LookForKin \/ JoinDrains \/ Judge \/ Cancel \/ Join \/ Settle \/ StopDrains \/ Prove \/ End
        \/ ForwardSignal \/ TimesOut

(* the caller's process is killed: its threads and its ends of the pipes go *)
Crash ==
    /\ at \notin {"over", "crashed"} /\ Fault
    /\ Go("crashed") /\ worker' = "gone" /\ io' = "none"
    /\ gate' = (IF gate = "held" THEN "dropped" ELSE gate)
    /\ UNCHANGED <<cancelled, requested, claimed, cleaned, handle, child, bound, found, signal, sent, primary, failures,
                   ending>>

Next == Arrive \/ NoteSignal \/ Main \/ Worker \/ Command \/ Drains \/ Crash
Spec == Init /\ [][Next]_vars /\ WF_vars(Main) /\ WF_vars(Worker) /\ WF_vars(Drains) /\ WF_vars(GivesUp)

--------------------------------------------------------------------------------
(* Properties *)

(* The caller is told that the command is quiet only when nothing of its group  *)
(* is left, and a result is handed over only when nobody holds its streams.     *)
(* common.py:3289, 3008                                                         *)
QuietMeansGone == (quiet => ~GroupLives) /\ (outcome = "result" => quiet /\ ~StreamsOpen)

(* An error that leaves something of the group, or a thread that may still      *)
(* spawn it, says so, whichever error was raised. common.py:3387, 3418          *)
LeftIsMarked == at = "over" /\ (GroupLives \/ worker \in {"spawning", "offered", "cleaning"}) => marked

(* The command runs only after its launch was recorded and its gate opened, so  *)
(* neither a launcher spawned too late nor one whose parent was killed ever     *)
(* runs it unrecorded. fd_exec.py:119, common.py:2229, 2338                     *)
CommandIsBound == ran => bound /\ gate = "open"

(* A termination signal is never lost: it is what the call ends with, or it     *)
(* reaches the caller's own handler. common.py:3284, 3349                       *)
SignalIsTold == at = "over" => signal # "pending" /\ (signal \in {"seen", "consumed"} <=> outcome = "signal")

(* The call keeps the promise of a bounded call. common.py:1285 *)
Call == INSTANCE BoundedCall WITH
    call <- (IF outcome = "running" THEN "running" ELSE IF outcome = "result" THEN "returned" ELSE "failed"),
    alive <- GroupLives
KeepsPromise == Call!Next \/ UNCHANGED Call!vars

(* Every call ends, and then no launcher waits at its gate and no thread spawns *)
(* any more. common.py:1801, 3102                                               *)
Settled == at \in {"over", "crashed"} /\ (gate = "dropped" => leader # "gated")
           /\ worker \notin {"ready", "spawning", "offered", "cleaning"}
================================================================================
