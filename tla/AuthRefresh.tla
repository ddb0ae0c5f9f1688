----------------------------- MODULE AuthRefresh -----------------------------
(***************************************************************************)
(* One refresh of the account's credential (refresh_managed_auth of        *)
(* auth_refresh.py, its launch capability and the end of the stage in      *)
(* review_execution.py): an app-server is launched, asked to refresh, and  *)
(* reaped, within a work deadline and a later one for cleaning up.  The    *)
(* server is under no obligation: it may say anything at any time, close   *)
(* its pipes, exit, or hang, deaf to SIGTERM and, for a while, to SIGKILL. *)
(* A signal to the host is relayed to the server while its PID is bound.   *)
(***************************************************************************)
EXTENDS Naturals, FiniteSets

CONSTANT None

Records == {"initialize", "disabled", "update", "account", "other"}

VARIABLES
  pc,       \* the caller's next step
  child,    \* "none", "runs", "exited", "reaped"
  code,     \* its exit code, from its exit on
  sent,     \* the signals it was sent
  bound,    \* the relay holds its PID
  host,     \* a signal to the host was received
  knows,    \* "nothing", "launched" (the capability), "pid" (the refresh too)
  proto,    \* _ManagedAuthRefreshProtocol: [state, update, valid]
  io,       \* [stdin, out, err, outbound, partial]
  late,     \* 0, 1: past the work deadline, 2: past the total one
  closing,  \* "no", "yes", "late": the shutdown deadline
  closure,  \* the exit code of the closure receipt
  result,   \* what _run_bounded_refresh_process has to return
  failure,  \* or to raise
  outcome   \* what the stage came to

process == <<child, code, sent>>
timing == <<late, closing>>
talk == <<proto, io>>
verdict == <<closure, result, failure, outcome>>
vars == <<pc, process, bound, host, knows, talk, timing, verdict>>

Init ==
  /\ pc = "launch" /\ child = "none" /\ code = None /\ sent = {} /\ bound = FALSE /\ host = FALSE
  /\ knows = "nothing" /\ proto = [state |-> "new", update |-> FALSE, valid |-> {}]
  /\ io = [stdin |-> TRUE, out |-> TRUE, err |-> TRUE, outbound |-> FALSE, partial |-> FALSE]
  /\ late = 0 /\ closing = "no"
  /\ closure = None /\ result = FALSE /\ failure = None /\ outcome = None

-----------------------------------------------------------------------------
(* The server and the host *)

Exits ==
  /\ child = "runs" /\ child' = "exited" /\ code' \in {0, 1}
  /\ UNCHANGED <<pc, sent, bound, host, knows, talk, timing, verdict>>

HostSignal ==
  /\ ~host /\ pc \notin {"finalize", "done"} /\ host' = TRUE
  /\ sent' = IF bound THEN sent \cup {"host"} ELSE sent
  /\ UNCHANGED <<pc, child, code, bound, knows, talk, timing, verdict>>

Time ==
  /\ \/ late < 2 /\ late' = late + 1 /\ UNCHANGED closing
     \/ closing = "yes" /\ closing' = "late" /\ UNCHANGED late
  /\ UNCHANGED <<pc, process, bound, host, knows, talk, verdict>>

-----------------------------------------------------------------------------
(* The protocol *)

Goto(next) == pc' = next
Raise(what) == failure' = what /\ pc' = "close" /\ UNCHANGED <<closure, result, outcome>>
Complete == proto.state = "complete"

Step(here, next) == proto.state = here /\ proto' = [proto EXCEPT !.state = next]
Valid(record, here, next) ==
  proto.state = here /\ proto' = [proto EXCEPT !.state = next, !.valid = @ \cup {record}]
Ask(more) == io' = [io EXCEPT !.partial = FALSE, !.outbound = more]

(* accept: every record that no disjunct admits is an error. *)
Admit(record) ==
  \/ record = "initialize" /\ Valid(record, "initialize", "remote-control-status") /\ Ask(TRUE)
  \/ record = "disabled" /\ Valid(record, "remote-control-status", "account-update") /\ Ask(io.outbound)
  \/ /\ record = "update" /\ ~proto.update /\ proto.state \in {"account-update", "complete"}
     /\ proto' = [proto EXCEPT !.update = TRUE, !.state = IF Complete THEN @ ELSE "account-response"]
     /\ Ask(io.outbound)
  \/ /\ record = "account" /\ Ask(io.outbound)
     /\ Valid(record, "account-update", "complete") \/ Valid(record, "account-response", "complete")

-----------------------------------------------------------------------------
(* _run_bounded_refresh_process *)

(* The capability launches, or settles what it launched, or cannot; the    *)
(* PID is bound once it is known to be a direct child.                     *)
Launch ==
  /\ pc = "launch"
  /\ \/ child' = "runs" /\ knows' = "launched" /\ Goto("bind") /\ UNCHANGED <<code, verdict>>
     \/ Raise("launch") /\ UNCHANGED <<child, code, knows>>
     \/ /\ failure' = "launch" /\ Goto("close") /\ knows' = "launched" /\ UNCHANGED <<result, outcome>>
        /\ \/ child' = "runs" /\ UNCHANGED <<code, closure>>
           \/ child' = "reaped" /\ code' = 1 /\ closure' = 1
  /\ UNCHANGED <<sent, bound, host, talk, timing>>

Bind ==
  /\ pc = "bind"
  /\ \/ Raise("invalid") /\ UNCHANGED <<bound, knows>>
     \/ bound' = TRUE /\ knows' = "pid" /\ ((Goto("start") /\ UNCHANGED verdict) \/ Raise("receipt"))
  /\ UNCHANGED <<process, host, talk, timing>>

Start ==
  /\ pc = "start"
  /\ \/ ~host /\ late = 0 /\ child = "runs" /\ Goto("loop")
        /\ Step("new", "initialize") /\ io' = [io EXCEPT !.outbound = TRUE] /\ UNCHANGED verdict
     \/ (host \/ late > 0 \/ child # "runs") /\ Raise("start") /\ UNCHANGED talk
  /\ UNCHANGED <<process, bound, host, knows, timing>>

In == pc = "loop" /\ ~host /\ late = 0 /\ closing # "late"

Break ==
  /\ pc = "loop"
  /\ Raise("runtime")   \* a signal, a lost lease, a deadline, a limit, a broken pipe
  /\ UNCHANGED <<process, bound, host, knows, talk, timing>>

Write ==
  /\ In /\ io.outbound /\ io.stdin /\ child = "runs"
  /\ io' = [io EXCEPT !.outbound = FALSE]
  /\ UNCHANGED <<pc, process, bound, host, knows, proto, timing, verdict>>

ReadRecord ==
  /\ In /\ io.out
  /\ \E record \in Records : Admit(record) /\ UNCHANGED <<pc, verdict>>
  /\ UNCHANGED <<process, bound, host, knows, timing>>

ReadPart ==
  /\ In /\ io.out /\ ~io.partial /\ io' = [io EXCEPT !.partial = TRUE]
  /\ UNCHANGED <<pc, process, bound, host, knows, proto, timing, verdict>>

ReadEnd ==
  /\ In
  /\ \/ io.err /\ io' = [io EXCEPT !.err = FALSE] /\ UNCHANGED <<pc, verdict>>
     \/ io.out /\ io' = [io EXCEPT !.out = FALSE]
        /\ IF Complete THEN UNCHANGED <<pc, verdict>> ELSE Raise("abnormal-eof")
  /\ UNCHANGED <<process, bound, host, knows, proto, timing>>

CloseStdin ==
  /\ In /\ Complete /\ ~io.outbound /\ io.stdin
  /\ io' = [io EXCEPT !.stdin = FALSE] /\ closing' = "yes"
  /\ UNCHANGED <<pc, process, bound, host, knows, proto, late, verdict>>

Finish ==
  /\ pc = "loop" /\ ~host /\ child # "runs" /\ ~io.out /\ ~io.err
  /\ IF ~io.partial /\ ~io.stdin /\ Complete
     THEN result' = TRUE /\ Goto("unbind") /\ UNCHANGED <<closure, failure, outcome>>
     ELSE Raise("partial")
  /\ UNCHANGED <<process, bound, host, knows, talk, timing>>

(* _reap_process: the PID is let go before it is free. *)
Unbind == pc = "unbind" /\ child = "exited" /\ Goto("wait") /\ bound' = FALSE
LetGo == Unbind /\ UNCHANGED <<process, host, knows, talk, timing, verdict>>

(* Then the exit code counts. *)
Wait ==
  /\ pc = "wait" /\ child' = "reaped"
  /\ closure' = code /\ UNCHANGED outcome
  /\ IF failure # None \/ (code = 0 /\ ~host)
     THEN Goto("settled") /\ UNCHANGED <<result, failure>>
     ELSE Goto("settled") /\ result' = FALSE /\ failure' = "exit"
  /\ UNCHANGED <<code, sent, bound, host, knows, talk, timing>>

-----------------------------------------------------------------------------
(* Cleaning up *)

Close ==
  /\ pc = "close"
  /\ io' = [io EXCEPT !.stdin = FALSE, !.out = FALSE, !.err = FALSE, !.outbound = FALSE, !.partial = FALSE]
  /\ Goto(IF knows = "pid" THEN "term" ELSE "settled")
  /\ UNCHANGED <<process, bound, host, knows, proto, timing, verdict>>

Term ==
  /\ pc = "term" /\ Goto("kill")
  /\ sent' = IF child = "runs" THEN sent \cup {"TERM"} ELSE sent
  /\ UNCHANGED <<child, code, bound, host, knows, talk, timing, verdict>>

Kill ==
  /\ pc = "kill" /\ Goto("await")
  /\ sent' = IF child = "runs" THEN sent \cup {"KILL"} ELSE sent
  /\ UNCHANGED <<child, code, bound, host, knows, talk, timing, verdict>>

(* Until it has exited, or there is no time left. *)
Await ==
  /\ pc = "await"
  /\ \/ child = "exited" /\ Goto("unbind") /\ UNCHANGED <<bound, verdict>>
     \/ child = "runs" /\ late = 2 /\ failure' = "cleanup" /\ bound' = FALSE /\ Goto("settled")
        /\ UNCHANGED <<closure, result, outcome>>
  /\ UNCHANGED <<process, host, knows, talk, timing>>

(* _finish_boundary: a signal to the host goes before everything. *)
Boundary ==
  /\ pc = "settled" /\ Goto("finalize")
  /\ IF host THEN failure' = "signal" /\ result' = FALSE ELSE UNCHANGED <<failure, result>>
  /\ UNCHANGED <<closure, outcome>>
LeaveBoundary == Boundary /\ UNCHANGED <<process, bound, host, knows, talk, timing>>

(* _settle_launched_process and _closure_proven. *)
Proven == closure # None \/ (child # "reaped" /\ child' = "reaped") \/ knows = "nothing"
Finalize ==
  /\ pc = "finalize" /\ Goto("done")
  /\ \/ child \in {"runs", "exited"} /\ child' = "reaped" /\ sent' = sent \cup {"KILL"}
        /\ code' = IF child = "exited" THEN code ELSE 1
     \/ child \in {"runs", "reaped", "none"} /\ UNCHANGED process
  /\ outcome' = IF ~Proven THEN "retained" ELSE IF result THEN "refreshed" ELSE "failed"
  /\ UNCHANGED <<bound, host, knows, talk, timing, closure, result, failure>>

Refresh ==
  \/ Launch \/ Bind \/ Start \/ Break \/ Write \/ ReadRecord \/ ReadPart \/ ReadEnd \/ CloseStdin
  \/ Finish \/ LetGo \/ Wait \/ Close \/ Term \/ Kill \/ Await \/ LeaveBoundary \/ Finalize
(* What the loop does of its own accord, whatever the server says. *)
Due ==
  \/ Launch \/ Bind \/ Start \/ LetGo \/ Wait \/ Close \/ Term \/ Kill \/ Await \/ LeaveBoundary \/ Finalize
  \/ (host \/ late > 0 \/ closing = "late") /\ Break

Next == Exits \/ HostSignal \/ Time \/ Refresh
Spec == Init /\ [][Next]_vars /\ WF_vars(Due) /\ WF_vars(Time)

-----------------------------------------------------------------------------
(* Properties *)

(* Every variable has its type; an exit code belongs to a process that has *)
(* exited.                                                                 *)
TypeOK ==
  /\ child \in {"none", "runs", "exited", "reaped"} /\ code \in {None, 0, 1}
  /\ (code # None) = (child \in {"exited", "reaped"})
  /\ sent \subseteq {"host", "TERM", "KILL"} /\ bound \in BOOLEAN /\ host \in BOOLEAN
  /\ proto.valid \subseteq Records /\ late \in 0..2 /\ closing \in {"no", "yes", "late"}
  /\ closure \in {None, 0, 1} /\ result \in BOOLEAN /\ outcome \in {None, "refreshed", "failed", "retained"}
  /\ result => failure = None

(* A refresh is reported only of a server that proved its home, that its   *)
(* remote control is off and that it read the account, in that order, and  *)
(* then exited with 0 and was reaped.                                      *)
RefreshedIsProved ==
  outcome = "refreshed" =>
    /\ {"initialize", "disabled", "account"} \subseteq proto.valid
    /\ child = "reaped" /\ code = 0 /\ closure = 0

(* The relay never holds the PID of a process that was reaped: a signal to *)
(* the host cannot hit whoever has that PID next.                          *)
BoundIsOwn == bound => child \in {"runs", "exited"}

(* A stage that was not retained has left no process behind. *)
ClosedLeavesNothing == outcome \in {"refreshed", "failed"} => child \in {"none", "reaped"}

(* A caller that was told to stop is not told of a refresh. *)
SignalWins == outcome = "refreshed" => ~host

(* The refresh ends, whatever the server does. *)
Ended == pc = "done"
RefreshEnds == <>Ended
=============================================================================
