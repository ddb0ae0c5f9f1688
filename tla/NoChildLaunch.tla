---------------------------- MODULE NoChildLaunch ----------------------------
(***************************************************************************)
(* Launching the reviewer in its profile (no_child_profile.py,             *)
(* codex_executable.py): an error pipe opened by a worker thread, a fork   *)
(* whose child writes its PID into that pipe, the end of file that says    *)
(* the exec succeeded, and two owners in a row the result is published to. *)
(* Whatever is raised on the way, the launch closes the pipe, kills and    *)
(* reaps the child, or raises NoChildLaunchClosureUnproven.  The           *)
(* executable is checked three times before it runs, by path.              *)
(*                                                                         *)
(* `pc` is where the launching thread is.  An interrupt is an exception a  *)
(* signal handler raises between any two steps.                            *)
(***************************************************************************)
EXTENDS Naturals, FiniteSets

CONSTANTS
  MaxInterrupts,  \* bound on interrupts
  MaxSwaps,       \* bound on replacements of the executable
  Faults          \* whether calls other than fork may fail

VARIABLES
  pc,
  err,      \* what is being raised: "none", "fault", "interrupt"
  worker,   \* _NoChildLaunchPipeWorker: "none", "started", "calling", "done"
  escaped,  \* an interrupt hit the cleanup itself, outside its guarded calls
  receipt,  \* _NoChildLaunchReceipt
  outcome,  \* its close outcome of both pipe ends
  fd,       \* what the two integers refer to
  child,    \* "none", "forked", "checked", "running", "zombie", "gone"
  told,     \* the child's PID is in the pipe
  complaint,\* and so is its failure record
  leader,   \* the settlement knows whom to kill
  acked,    \* exec_acknowledged
  inner, outer,  \* the result, in the publication owner and in its caller's
  unproven, \* NoChildLaunchClosureUnproven has been raised
  file,     \* the file at the executable's path: replaced how often
  ran,      \* the file that runs
  interrupts

vars == <<pc, err, worker, escaped, receipt, outcome, fd, child, told, complaint, leader, acked,
          inner, outer, unproven, file, ran, interrupts>>
pipe == <<worker, escaped, outcome, fd>>
kid == <<child, told, complaint, ran>>
result == <<acked, inner, outer, unproven>>
world == <<file, interrupts>>

Ends == {"read", "write"}
NoReceipt == [opening |-> FALSE, opened |-> FALSE, refused |-> FALSE,
              forking |-> FALSE, forked |-> FALSE, failed |-> FALSE, returned |-> FALSE]

Init ==
  /\ pc = "check" /\ err = "none" /\ worker = "none" /\ escaped = FALSE /\ receipt = NoReceipt
  /\ outcome = [e \in Ends |-> "not-created"] /\ fd = [e \in Ends |-> "none"]
  /\ child = "none" /\ told = FALSE /\ complaint = FALSE /\ leader = FALSE /\ acked = FALSE
  /\ inner = FALSE /\ outer = FALSE /\ unproven = FALSE
  /\ file = 0 /\ ran = 0 /\ interrupts = 0

Goto(l) == pc' = l
Fail(e, l) == err' = e /\ Goto(l)
Living == {"forked", "checked", "running"}

-----------------------------------------------------------------------------
(* Descriptors *)

(* _close_descriptor: the uncertainty is recorded before the call, so an   *)
(* end whose close failed or was interrupted is never closed again.        *)
Closable == {"owned"}

CloseBoth(ends, o, f) ==
  /\ outcome' = [e \in Ends |-> IF e \in ends /\ outcome[e] \in Closable THEN o[e] ELSE outcome[e]]
  /\ fd' = [e \in Ends |-> IF e \in ends /\ outcome[e] \in Closable /\ f[e]
                           THEN (IF fd[e] = "reused" THEN "stolen" ELSE "closed") ELSE fd[e]]
Tried == {"closed"} \cup (IF Faults THEN {"close-outcome-unproven"} ELSE {})
Closing(ends) ==
  \E o \in [Ends -> Tried], f \in [Ends -> BOOLEAN] :
    (\A e \in Ends : o[e] = "closed" => f[e]) /\ CloseBoth(ends, o, f)

(* control_pipes_closed *)
PipesClosed(r, o) == /\ ~(r.opening /\ ~r.opened /\ ~r.refused)
                     /\ \A e \in Ends : o[e] \in {"closed", "not-created"}

(* Some other thread is given an integer that is free. *)
ReuseInteger(e) ==
  /\ fd[e] = "closed" /\ outcome[e] = "close-outcome-unproven" /\ fd' = [fd EXCEPT ![e] = "reused"]
  /\ UNCHANGED <<pc, err, worker, escaped, receipt, outcome, kid, leader, result, world>>

-----------------------------------------------------------------------------
(* The profile *)

(* require_compatible, _require_live_runtime, _revalidate_prepared_profile *)
(* in the parent.                                                          *)
Check ==
  /\ pc = "check"
  /\ IF file = 0 THEN Goto("pipe") /\ UNCHANGED err ELSE Fail("fault", "gate")
  /\ UNCHANGED <<receipt, pipe, kid, leader, result, world>>

-----------------------------------------------------------------------------
(* The error pipe: _open_launch_error_pipe *)

StartWorker ==
  /\ pc = "pipe" /\ Goto("pipe-wait") /\ worker' = "started"
  /\ UNCHANGED <<err, escaped, receipt, outcome, fd, kid, leader, result, world>>

WorkerCalls ==
  /\ worker = "started" /\ worker' = "calling" /\ receipt' = [receipt EXCEPT !.opening = TRUE]
  /\ UNCHANGED <<pc, err, escaped, outcome, fd, kid, leader, result, world>>

WorkerReturns ==
  /\ worker = "calling" /\ worker' = "done"
  /\ \/ /\ receipt' = [receipt EXCEPT !.opened = TRUE]
        /\ outcome' = [e \in Ends |-> "owned"] /\ fd' = [e \in Ends |-> "open"]
     \/ /\ Faults /\ receipt' = [receipt EXCEPT !.refused = TRUE] /\ UNCHANGED <<outcome, fd>>
  /\ UNCHANGED <<pc, err, escaped, kid, leader, result, world>>

(* The join; after an exception the worker is joined first, and then both  *)
(* ends are closed (_close_launch_pipe_after_failure).                     *)
JoinWorker ==
  /\ pc = "pipe-wait" /\ worker = "done"
  /\ \/ err = "none" /\ receipt.opened /\ Goto("fork") /\ UNCHANGED <<err, outcome, fd>>
     \/ /\ err # "none" \/ receipt.refused
        /\ Closing(Ends) /\ Fail(IF err = "none" THEN "fault" ELSE err, "settle")
  /\ UNCHANGED <<worker, escaped, receipt, kid, leader, result, world>>

-----------------------------------------------------------------------------
(* The fork: _fork_with_launch_error_pipe *)

(* When the call fails the after-fork hook of the parent has run all the   *)
(* same: CPython calls it before it looks at the result.  The handler then *)
(* does not take the failure for proven and closes nothing.                *)
ForkRefused ==
  /\ pc = "fork"
  /\ receipt' = [receipt EXCEPT !.forking = TRUE, !.forked = TRUE]
  /\ Fail("fault", "settle")
  /\ UNCHANGED <<pipe, kid, leader, result, world>>

Fork ==
  /\ pc = "fork" /\ Goto("returned") /\ child' = "forked"
  /\ receipt' = [receipt EXCEPT !.forking = TRUE, !.forked = TRUE]
  /\ UNCHANGED <<err, pipe, told, complaint, ran, leader, result, world>>

(* An interrupt at "returned" loses the result of fork. *)
ForkReturned ==
  /\ pc = "returned" /\ Goto("leader") /\ receipt' = [receipt EXCEPT !.returned = TRUE]
  /\ UNCHANGED <<err, pipe, kid, leader, result, world>>

(* The child's receipt, within a deadline. *)
ReadLeader ==
  /\ pc = "leader"
  /\ \/ told /\ Goto("close-write") /\ UNCHANGED err
     \/ Fail("fault", "settle")
  /\ UNCHANGED <<receipt, pipe, kid, leader, result, world>>

(* The next steps of launch_prepared_no_child_process: the write end, the  *)
(* acknowledgement (end of file once exec or death closed the child's      *)
(* copy, a failure record before it), the read end.                        *)
CloseEnd(e, at, next) ==
  /\ pc = at /\ Closing({e})
  /\ \/ outcome'[e] = "closed" /\ Goto(next) /\ UNCHANGED err
     \/ outcome'[e] # "closed" /\ Fail("fault", "settle")
  /\ UNCHANGED <<worker, escaped, receipt, kid, leader, result, world>>

Acknowledge ==
  /\ pc = "ack"
  /\ \/ /\ child \in {"running", "zombie"} /\ ~complaint /\ acked' = TRUE
        /\ Goto("close-read") /\ UNCHANGED err
     \/ complaint /\ Fail("fault", "close-read-failed") /\ UNCHANGED acked
     \/ Fail("fault", "close-read-failed") /\ UNCHANGED acked         \* deadline
  /\ UNCHANGED <<receipt, pipe, kid, leader, inner, outer, unproven, world>>

CloseReadFailed ==
  /\ pc = "close-read-failed" /\ Closing({"read"}) /\ Goto("settle")
  /\ UNCHANGED <<err, worker, escaped, receipt, kid, leader, result, world>>

(* getpgid, getsid and process_start_identity. *)
BindLeader ==
  /\ pc = "bind"
  /\ \/ child = "running" /\ Goto("publish") /\ UNCHANGED err
     \/ Fail("fault", "settle")
  /\ UNCHANGED <<receipt, pipe, kid, leader, result, world>>

-----------------------------------------------------------------------------
(* The owners: _NoChildLaunchResultOwner in front of the gate's custody *)

PublishInner ==
  /\ pc = "publish" /\ inner' = TRUE /\ Goto("publish-outer")
  /\ UNCHANGED <<err, acked, outer, unproven, receipt, pipe, kid, leader, world>>

PublishOuter ==
  /\ pc = "publish-outer" /\ outer' = TRUE /\ Goto("gate")
  /\ UNCHANGED <<err, acked, inner, unproven, receipt, pipe, kid, leader, world>>

(* The publisher's own handler finishes a publication that was begun. *)
FinishPublication ==
  /\ pc = "raised" /\ Goto("gate") /\ outer' = (outer \/ inner)
  /\ UNCHANGED <<err, acked, inner, unproven, receipt, pipe, kid, leader, world>>

-----------------------------------------------------------------------------
(* _settle_owned_launch_after_base_exception *)

MayHaveChild == receipt.forking /\ ~receipt.failed

(* What the handler of the launch does first: nothing, if the result is    *)
(* owned.                                                                  *)
Settle ==
  /\ pc = "settle"
  /\ IF inner THEN Goto("raised") /\ UNCHANGED <<outcome, fd>> ELSE Goto("identify") /\ Closing({"write"})
  /\ UNCHANGED <<err, worker, escaped, receipt, kid, leader, result, world>>

(* The leader: what fork returned, or the child's receipt in the pipe. *)
Identify ==
  /\ pc = "identify"
  /\ \/ ~MayHaveChild /\ Goto("prove") /\ UNCHANGED leader
     \/ /\ MayHaveChild /\ (receipt.returned \/ (told /\ outcome["read"] # "closed"))
        /\ leader' = TRUE /\ Goto("kill")
     \/ MayHaveChild /\ ~receipt.returned /\ Goto("prove") /\ UNCHANGED leader
  /\ UNCHANGED <<err, receipt, pipe, kid, result, world>>

(* _terminate_and_reap: the group, or the child that has none yet. *)
Kill ==
  /\ pc = "kill" /\ Goto("reap")
  /\ child' \in {IF child \in Living THEN "zombie" ELSE child, child}     \* may take its time
  /\ UNCHANGED <<err, receipt, pipe, told, complaint, ran, leader, result, world>>

Reap ==
  /\ pc = "reap" /\ Goto("prove")
  /\ \/ child = "zombie" /\ child' = "gone"
     \/ child # "zombie" /\ UNCHANGED child                               \* deadline
  /\ UNCHANGED <<err, receipt, pipe, told, complaint, ran, leader, result, world>>

(* Nothing is left, or the evidence is raised. *)
Prove ==
  /\ pc = "prove" /\ Goto("raised")
  /\ IF ~MayHaveChild \/ leader THEN Closing({"read"}) ELSE UNCHANGED <<outcome, fd>>
  /\ unproven' = ~(/\ MayHaveChild => leader /\ child = "gone"
                   /\ PipesClosed(receipt, outcome'))
  /\ UNCHANGED <<err, worker, escaped, receipt, kid, leader, acked, inner, outer, world>>

-----------------------------------------------------------------------------
(* Interrupts *)

(* In the launch the exception goes to the settlement.  A call of the      *)
(* settlement notes it as one more failure; between the calls it escapes.  *)
Interrupt ==
  /\ interrupts < MaxInterrupts /\ interrupts' = interrupts + 1
  /\ \/ /\ pc = "pipe-wait"            \* first the join, then the join of the handler
        /\ IF err = "none" THEN Fail("interrupt", "pipe-wait") /\ UNCHANGED escaped
           ELSE Fail("interrupt", "settle") /\ escaped' = TRUE
     \/ /\ pc \in {"pipe", "returned", "leader", "close-write", "close-read", "bind", "publish", "publish-outer"}
        /\ Fail("interrupt", "settle") /\ UNCHANGED escaped
     \/ pc = "ack" /\ Fail("interrupt", "close-read-failed") /\ UNCHANGED escaped
     \/ pc \in {"identify", "kill", "reap"} /\ Fail(err, "prove") /\ UNCHANGED escaped
     \/ /\ pc \in {"close-read-failed", "settle", "identify", "kill", "reap", "prove", "raised"}
        /\ Fail("interrupt", IF pc = "close-read-failed" THEN "settle"
                             ELSE IF pc = "raised" THEN "gate" ELSE "raised") /\ escaped' = TRUE
     \/ /\ pc = "fork" /\ Fail("interrupt", "settle") /\ UNCHANGED escaped
  /\ receipt' \in {receipt, [receipt EXCEPT !.forking = @ \/ pc = "fork"]}
  /\ UNCHANGED <<worker, outcome, fd, kid, leader, result, file>>

-----------------------------------------------------------------------------
(* The child *)

(* The after-fork hook writes the receipt; _launch_child does the rest. *)
ChildTells ==
  /\ child = "forked" /\ ~told /\ fd["write"] # "none" /\ told' = TRUE
  /\ UNCHANGED <<pc, err, receipt, pipe, child, complaint, ran, leader, result, world>>

ChildChecks ==
  /\ child = "forked" /\ told
  /\ IF file = 0 THEN child' = "checked" /\ UNCHANGED complaint
                 ELSE child' = "zombie" /\ complaint' = TRUE
  /\ UNCHANGED <<pc, err, receipt, pipe, told, ran, leader, result, world>>

ChildExecs ==
  /\ child = "checked"
  /\ \/ child' = "running" /\ ran' = file /\ UNCHANGED complaint
     \/ Faults /\ child' = "zombie" /\ complaint' = TRUE /\ UNCHANGED ran
  /\ UNCHANGED <<pc, err, receipt, pipe, told, leader, result, world>>

ChildDies ==
  /\ child \in Living /\ child' = "zombie"
  /\ UNCHANGED <<pc, err, receipt, pipe, told, complaint, ran, leader, result, world>>

(* Somebody updates the program.  The profile does not claim to notice it  *)
(* between the child's check and the exec.                                 *)
Swap ==
  /\ file < MaxSwaps /\ child # "checked" /\ file' = file + 1
  /\ UNCHANGED <<pc, err, receipt, pipe, kid, leader, result, interrupts>>

Launch ==
  \/ Check \/ StartWorker \/ JoinWorker \/ ForkRefused \/ Fork \/ ForkReturned \/ ReadLeader
  \/ CloseEnd("write", "close-write", "ack") \/ Acknowledge \/ CloseEnd("read", "close-read", "bind")
  \/ CloseReadFailed \/ BindLeader \/ PublishInner \/ PublishOuter \/ FinishPublication
  \/ Settle \/ Identify \/ Kill \/ Reap \/ Prove
Worker == WorkerCalls \/ WorkerReturns

Next == \/ Launch \/ Worker \/ Interrupt \/ Swap
        \/ ChildTells \/ ChildChecks \/ ChildExecs \/ ChildDies
        \/ \E e \in Ends : ReuseInteger(e)

Spec == Init /\ [][Next]_vars /\ WF_vars(Launch) /\ WF_vars(Worker)

-----------------------------------------------------------------------------
(* Properties *)

Labels == {"check", "pipe", "pipe-wait", "fork", "returned", "leader", "close-write", "ack", "close-read",
           "close-read-failed", "bind", "publish", "publish-outer", "gate", "raised", "settle", "identify",
           "kill", "reap", "prove"}

(* Every variable has its type, and a result is published inside out. *)
TypeOK ==
  /\ pc \in Labels /\ err \in {"none", "fault", "interrupt"}
  /\ worker \in {"none", "started", "calling", "done"}
  /\ receipt \in [DOMAIN NoReceipt -> BOOLEAN]
  /\ outcome \in [Ends -> {"not-created", "owned", "closed", "close-outcome-unproven"}]
  /\ fd \in [Ends -> {"none", "open", "closed", "reused", "stolen"}]
  /\ child \in Living \cup {"none", "zombie", "gone"} /\ (outer => inner)
  /\ file \in 0..MaxSwaps /\ interrupts \in 0..MaxInterrupts

(* The launch never lets a child go in silence: there is none, or the      *)
(* gate owns it, or the unproven closure was raised with its evidence.     *)
(* The settlement runs once: an interrupt that escapes from it is excepted,*)
(* here and for the pipe.                                                  *)
NoSilentChild == pc = "gate" /\ ~escaped => child \in {"none", "gone"} \/ outer \/ unproven

(* A returned result is a process that did run the attested program: the   *)
(* acknowledgement is not mistaken.                                        *)
ResultRuns == outer => child \in {"running", "zombie", "gone"} /\ ran = 0 /\ acked

(* No pipe end is leaked: at the end each one is closed, or reported. *)
NoLeakedPipe ==
  pc = "gate" => escaped \/ unproven \/ \A e \in Ends : fd[e] # "open"

(* An integer is never closed twice. *)
NeverClosesForeign == \A e \in Ends : fd[e] # "stolen"

(* Every launch ends, even if child and worker never say anything. *)
Ended == pc = "gate"
LaunchEnds == <>Ended

(* tests/test_no_child_profile.py expects of a failed fork that it is      *)
(* raised as it is, with both pipe ends closed and nothing unproven.       *)
ForkFailureIsProven == pc = "gate" /\ receipt.forking /\ child = "none" => ~unproven
=============================================================================
