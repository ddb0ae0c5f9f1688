----------------------------- MODULE SignalRelay -----------------------------
(***************************************************************************)
(* Termination signals around the app-server process: HostSignalRelay      *)
(* (signal_relay.py) owns them from before the launch until after the      *)
(* reap, passes each on to the bound process, and gives the first one back *)
(* to the caller's own handler at the end.  The steps are those of         *)
(* direct_gate.py's run_bounded_appserver_process; a handler runs between  *)
(* any two of them.                                                        *)
(***************************************************************************)
EXTENDS Naturals, FiniteSets

CONSTANTS
  None,         \* no signal
  MaxSignals    \* bound on the signals of each kind sent to the supervisor

VARIABLES
  pc,         \* the gate's next step
  relay,      \* handlers installed, signals blocked, first received, PID bound
  child,      \* the app-server process
  pending,    \* signals held back while blocked
  hits,       \* signals passed on to the live process
  stray,      \* a signal was sent to a PID that had been reaped
  caller,     \* how often each signal reached the caller's handler
  sent,       \* how often each was sent to the supervisor
  interrupt,  \* a KeyboardInterrupt may still arrive
  state       \* ProcessCustodyState: was the leader's reap recorded

vars == <<pc, relay, child, pending, hits, stray, caller, sent, interrupt, state>>

Signals == {"SIGHUP", "SIGTERM", "SIGQUIT"}          \* OWNED_TERMINATION_SIGNALS
Labels == {"block", "install", "unblock", "admit", "launch", "bind", "check", "loop",
           "unbind", "waitpid", "record", "cleanup", "term", "release", "restore-block",
           "restore-handlers", "restore-mask", "redeliver", "done"}

Init ==
  /\ pc = "block"
  /\ relay = [handlers |-> FALSE, blocked |-> FALSE, received |-> None, bound |-> FALSE]
  /\ child = "none" /\ pending = {} /\ hits = {} /\ stray = FALSE
  /\ caller = [s \in Signals |-> 0] /\ sent = [s \in Signals |-> 0]
  /\ interrupt = TRUE /\ state = "open"

TypeOK ==
  /\ pc \in Labels
  /\ relay \in [handlers : BOOLEAN, blocked : BOOLEAN,
                received : Signals \cup {None}, bound : BOOLEAN]
  /\ child \in {"none", "alive", "zombie", "gone"}
  /\ pending \subseteq Signals /\ hits \subseteq Signals \ {"SIGQUIT"}
  /\ stray \in BOOLEAN /\ interrupt \in BOOLEAN
  /\ caller \in [Signals -> 0..(3 * MaxSignals)] /\ sent \in [Signals -> 0..MaxSignals]
  /\ state \in {"open", "reaped", "unproven"}

-----------------------------------------------------------------------------
(* HostSignalRelay *)

(* SIGQUIT would leave a core image of the authenticated process. *)
TargetSignal(s) == IF s = "SIGQUIT" THEN "SIGTERM" ELSE s

(* _forward, when `bound`: a process that is no longer there is not told   *)
(* anything; its PID may be another's once it was reaped.                  *)
Forward(s, bound) ==
  /\ hits' = IF bound /\ child \in {"alive", "zombie"}
             THEN hits \cup {TargetSignal(s)} ELSE hits
  /\ stray' = (stray \/ (bound /\ child = "gone"))

Quiet == UNCHANGED <<hits, stray>>

(* _handle: the first signal is kept, every one is passed on. *)
Handle(s) ==
  /\ relay' = [relay EXCEPT !.received = IF @ = None THEN s ELSE @]
  /\ Forward(s, relay.bound)

Send(s) ==
  /\ pc # "done" /\ sent[s] < MaxSignals
  /\ sent' = [sent EXCEPT ![s] = @ + 1]
  /\ \/ /\ relay.blocked /\ pending' = pending \cup {s}
        /\ UNCHANGED <<relay, caller>> /\ Quiet
     \/ /\ ~relay.blocked /\ relay.handlers /\ Handle(s)
        /\ UNCHANGED <<caller, pending>>
     \/ /\ ~relay.blocked /\ ~relay.handlers
        /\ caller' = [caller EXCEPT ![s] = @ + 1]
        /\ UNCHANGED <<relay, pending>> /\ Quiet
  /\ UNCHANGED <<pc, child, interrupt, state>>

(* __enter__: block, take the handlers over, unblock. *)
Block ==
  /\ pc = "block" /\ pc' = "install"
  /\ relay' = [relay EXCEPT !.blocked = TRUE]
  /\ UNCHANGED <<child, pending, caller, sent, interrupt, state>> /\ Quiet

Install ==
  /\ pc = "install" /\ pc' = "unblock"
  /\ relay' = [relay EXCEPT !.handlers = TRUE]
  /\ UNCHANGED <<child, pending, caller, sent, interrupt, state>> /\ Quiet

(* What was held back is handled now, in an order the kernel chooses. *)
Unblock ==
  /\ pc = "unblock" /\ pc' = "admit" /\ pending' = {}
  /\ \E first \in IF pending = {} THEN {None} ELSE pending :
       relay' = [relay EXCEPT !.blocked = FALSE,
                              !.received = IF @ = None THEN first ELSE @]
  /\ UNCHANGED <<child, caller, sent, interrupt, state>> /\ Quiet

-----------------------------------------------------------------------------
(* _run_bounded_appserver_process_inner *)

Step(from, to) == pc = from /\ pc' = to
Same == UNCHANGED <<pending, caller, sent, interrupt>>

(* checkpoint: pass the signal on and raise ForwardedHostSignal.  Liveness *)
(* and every other failure lead to the same cleanup.                       *)
Raises(from) ==
  /\ Step(from, "cleanup")
  /\ \/ relay.received # None /\ Forward(relay.received, relay.bound)
     \/ relay.received = None /\ Quiet
  /\ UNCHANGED <<relay, child, state>> /\ Same

Admit ==
  \/ Raises("admit")
  \/ /\ Step("admit", "launch") /\ relay.received = None
     /\ UNCHANGED <<relay, child, state>> /\ Same /\ Quiet

(* A failing launch publishes no result: the launcher closed it itself. *)
Launch ==
  \/ /\ Step("launch", "bind") /\ child' = "alive"
     /\ UNCHANGED <<relay, state>> /\ Same /\ Quiet
  \/ /\ Step("launch", "cleanup")
     /\ UNCHANGED <<relay, child, state>> /\ Same /\ Quiet

(* bind passes on what was received before the PID was known. *)
Bind ==
  /\ Step("bind", "check")
  /\ relay' = [relay EXCEPT !.bound = TRUE]
  /\ IF relay.received # None THEN Forward(relay.received, TRUE) ELSE Quiet
  /\ UNCHANGED <<child, state>> /\ Same

Check ==
  \/ Raises("check")
  \/ /\ Step("check", "loop") /\ relay.received = None
     /\ UNCHANGED <<relay, child, state>> /\ Same /\ Quiet

Loop ==
  \/ Raises("loop")
  \/ /\ Step("loop", "unbind") /\ relay.received = None /\ child = "zombie"
     /\ UNCHANGED <<relay, child, state>> /\ Same /\ Quiet

(* Variant: the PID is given up by waitpid before it is unbound. *)
UnbindLate ==
  /\ Step("unbind", "waitpid")
  /\ UNCHANGED <<relay, child, state>> /\ Same /\ Quiet

(* _reap_process: terminal, unbound, reaped, recorded - in that order. *)
Unbind ==
  /\ Step("unbind", "waitpid")
  /\ relay' = [relay EXCEPT !.bound = FALSE]
  /\ UNCHANGED <<child, state>> /\ Same /\ Quiet

WaitPid ==
  /\ Step("waitpid", "record") /\ child' = "gone"
  /\ UNCHANGED <<relay, state>> /\ Same /\ Quiet

Record ==
  /\ Step("record", "release") /\ state' = "reaped"
  /\ UNCHANGED <<relay, child>> /\ Same /\ Quiet

(* The finally block: a published process is terminated unless its reap is *)
(* recorded; one that an interrupted step reaped cannot be proven.         *)
Cleanup ==
  /\ pc = "cleanup"
  /\ \/ child = "none" /\ pc' = "release" /\ state' = "reaped"
     \/ child = "zombie" /\ pc' = "unbind" /\ UNCHANGED state
     \/ child = "alive" /\ pc' = "term" /\ UNCHANGED state
     \/ child = "gone" /\ pc' = "release" /\ state' = "unproven"
  /\ UNCHANGED <<relay, child>> /\ Same /\ Quiet

(* _terminate_process: TERM, KILL, and a deadline. *)
Term ==
  /\ pc = "term"
  /\ \/ child = "alive" /\ child' = "zombie" /\ UNCHANGED <<pc, state>>
     \/ child = "alive" /\ pc' = "release" /\ state' = "unproven" /\ UNCHANGED child
     \/ child = "zombie" /\ pc' = "unbind" /\ UNCHANGED <<child, state>>
  /\ UNCHANGED relay /\ Same /\ Quiet

Release ==
  /\ Step("release", "restore-block")
  /\ relay' = [relay EXCEPT !.bound = FALSE]
  /\ UNCHANGED <<child, state>> /\ Same /\ Quiet

(* A KeyboardInterrupt, which the relay does not own *)
Interrupt ==
  /\ interrupt /\ interrupt' = FALSE
  /\ \/ pc \in {"check", "loop"} /\ pc' = "cleanup" /\ UNCHANGED state
     \/ pc \in {"unbind", "waitpid", "record"} /\ pc' = "cleanup" /\ UNCHANGED state
     \/ pc \in {"cleanup", "term"} /\ pc' = "release" /\ state' = "unproven"
  /\ UNCHANGED <<relay, child, pending, caller, sent>> /\ Quiet

-----------------------------------------------------------------------------
(* _restore and redeliver *)

RestoreBlock ==
  /\ Step("restore-block", "restore-handlers")
  /\ relay' = [relay EXCEPT !.blocked = TRUE]
  /\ UNCHANGED <<child, state>> /\ Same /\ Quiet

RestoreHandlers ==
  /\ Step("restore-handlers", "restore-mask")
  /\ relay' = [relay EXCEPT !.handlers = FALSE]
  /\ UNCHANGED <<child, state>> /\ Same /\ Quiet

RestoreMask ==
  /\ Step("restore-mask", "redeliver") /\ pending' = {}
  /\ relay' = [relay EXCEPT !.blocked = FALSE]
  /\ caller' = [s \in Signals |-> caller[s] + IF s \in pending THEN 1 ELSE 0]
  /\ UNCHANGED <<child, state, sent, interrupt>> /\ Quiet

(* Where the caller left SIGQUIT at its default, it is given SIGTERM. *)
Redeliver ==
  /\ Step("redeliver", "done")
  /\ IF relay.received = None THEN UNCHANGED caller
     ELSE \E s \in {relay.received, TargetSignal(relay.received)} :
            caller' = [caller EXCEPT ![s] = @ + 1]
  /\ UNCHANGED <<relay, child, state, pending, sent, interrupt>> /\ Quiet

-----------------------------------------------------------------------------

ChildExits ==
  /\ child = "alive" /\ child' = "zombie"
  /\ UNCHANGED <<pc, relay, state>> /\ Same /\ Quiet

Gate ==
  \/ Block \/ Install \/ Unblock \/ Admit \/ Launch \/ Bind \/ Check \/ Loop
  \/ Unbind \/ WaitPid \/ Record \/ Cleanup \/ Term \/ Release
  \/ RestoreBlock \/ RestoreHandlers \/ RestoreMask \/ Redeliver

Next == Gate \/ Interrupt \/ ChildExits \/ \E s \in Signals : Send(s)

Spec == Init /\ [][Next]_vars /\ WF_vars(Gate)

-----------------------------------------------------------------------------
(* Properties *)

Deliveries(f) == f["SIGHUP"] + f["SIGTERM"] + f["SIGQUIT"]

(* A signal to the supervisor reaches the caller's own handler, whichever  *)
(* step it arrives at, and never more often than signals were sent.        *)
CallerIsTold ==
  /\ pc = "done" /\ Deliveries(sent) > 0 => Deliveries(caller) > 0
  /\ Deliveries(caller) <= Deliveries(sent)

(* While a bound process lives, it has been told of the signal received,   *)
(* even if that arrived before its PID was known.                          *)
ChildIsTold ==
  relay.bound /\ relay.received # None /\ child \in {"alive", "zombie"}
    => hits # {}

(* The relay never signals a PID after waitpid has given it up, and never  *)
(* sends the process a signal that leaves a core image of it.              *)
NoStraySignal == ~stray

(* The reap on record has happened, or there never was a process. *)
ReapedIsGone == state = "reaped" => child \in {"none", "gone"}

(* Signals, interrupts and a process that does not die do not keep the     *)
(* gate from returning to its caller.                                      *)
Ended == pc = "done"
GateEnds == <>Ended
=============================================================================
