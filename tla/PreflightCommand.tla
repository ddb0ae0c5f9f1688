--------------------------- MODULE PreflightCommand ---------------------------
(***************************************************************************)
(* _generate_schema of codex_executable.py and, within it, run_bounded_    *)
(* command: a directory is made, the program is launched to write into it  *)
(* with its output read up to a limit and a deadline, and the directory is *)
(* deleted again.  A step may fail, with or without its effect.  Whatever  *)
(* cannot be shown to be over is handed to the error: the descriptors of   *)
(* the launch to its ownership, the directory to its retention owner.      *)
(***************************************************************************)
EXTENDS Naturals

CONSTANTS
  MaxFaults,
  Limit       \* bytes of output allowed

VARIABLES
  pc,
  dir,      \* the generated-schema directory: none, there, part, gone
  outcome,  \* output_creation_outcome
  anchors,  \* [work, output: none, open, unproven, closed, kept]
  child,    \* none, runs, dead, reaped
  killed,   \* history: it was killed
  own,      \* _PreflightLaunchOwnership.state
  bound,    \* its launched
  receipt,  \* its receipt is published
  fds,      \* its descriptors: none, owned, unproven, closed
  eof,      \* streams that have ended
  bytes,    \* received so far
  reaped,   \* leader_reaped
  err,      \* the error under way: none, plain, retention
  retained, \* what the error retains
  faults

vars == <<pc, dir, outcome, anchors, child, killed, own, bound, receipt, fds, eof, bytes, reaped, err,
          retained, faults>>

Files == <<dir, outcome, anchors>>
Launched == <<own, bound, receipt>>
Process == <<child, killed>>
Stream == <<eof, bytes>>
Error == <<err, retained>>

Streams == {"stdout", "stderr"}
Ends == Streams \cup {"ends"}   \* the ends given to the program, with /dev/null, are one

Init ==
  /\ pc = "root" /\ dir = "none" /\ outcome = "not-started" /\ anchors = [work |-> "none", output |-> "none"]
  /\ child = "none" /\ killed = FALSE /\ own = "allocating" /\ bound = FALSE /\ receipt = FALSE
  /\ fds = [d \in Ends |-> "none"] /\ eof = {} /\ bytes = 0 /\ reaped = FALSE
  /\ err = "none" /\ retained = {} /\ faults = 0

Goto(l) == pc' = l /\ UNCHANGED <<Error, faults>>
Fault == faults < MaxFaults /\ faults' = faults + 1
Throw(kind, l) == pc' = l /\ err' = kind /\ UNCHANGED retained
Raise(kind, l) == Fault /\ Throw(kind, l)

-----------------------------------------------------------------------------
(* The directory *)

OpenRoot ==
  /\ pc = "root"
  /\ \/ Goto("mkdir") /\ anchors' = [anchors EXCEPT !.work = "open"]
     \/ Raise("plain", "clean") /\ UNCHANGED anchors
  /\ UNCHANGED <<dir, outcome, Process, Launched, fds, Stream, reaped>>

\* Taken names are skipped, until there are none to try; the parent is flushed.
MakeDirectory ==
  /\ pc = "mkdir"
  /\ \/ Goto("bind") /\ dir' = "there" /\ outcome' = "created-durable"
     \/ Raise("plain", "clean") /\ dir' \in {"none", "there"} /\ outcome' = "mkdir-outcome-unproven"
     \/ Raise("plain", "clean") /\ dir' = "there" /\ outcome' = "created"
     \/ Raise("plain", "clean") /\ UNCHANGED dir /\ outcome' = "collision"
  /\ UNCHANGED <<anchors, Process, Launched, fds, Stream, reaped>>

BindDirectory ==
  /\ pc = "bind"
  /\ \/ Goto("pipes") /\ anchors' = [anchors EXCEPT !.output = "open"] /\ outcome' = "descriptor-bound"
     \/ Raise("plain", "clean") /\ anchors' \in {anchors, [anchors EXCEPT !.output = "open"]} /\ UNCHANGED outcome
  /\ UNCHANGED <<dir, Process, Launched, fds, Stream, reaped>>

-----------------------------------------------------------------------------
(* _launch_prepared_bounded_command *)

Pipes ==
  /\ pc = "pipes"
  /\ \/ Goto("launch") /\ fds' = [d \in Ends |-> "owned"] /\ own' = "armed"
     \/ Raise("plain", "launch-failed") /\ UNCHANGED own
        /\ fds' \in {fds, [fds EXCEPT !["stdout"] = "owned", !["ends"] = "owned"], [d \in Ends |-> "owned"]}
  /\ UNCHANGED <<Files, Process, bound, receipt, Stream, reaped>>

\* The launcher may fail before the fork, with its own closure unproven, or around the
\* publication of its result.
Launch ==
  /\ pc = "launch"
  /\ \/ Goto("ends") /\ child' = "runs" /\ bound' = TRUE /\ own' = "bound"
     \/ Raise("plain", "launch-failed") /\ UNCHANGED <<child, bound, own>>
     \/ Raise("plain", "launch-failed") /\ child' = "runs" /\ UNCHANGED <<bound, own>>
     \/ Raise("plain", "launch-failed") /\ child' = "runs" /\ bound' = TRUE /\ own' = "bound"
     \/ Raise("retention", "launch-failed") /\ child' \in {"none", "runs"} /\ UNCHANGED <<bound, own>>
  /\ UNCHANGED <<Files, killed, receipt, fds, Stream, reaped>>

\* close_descriptor: once its close has failed a descriptor is not closed again.
CloseEnds ==
  /\ pc = "ends"
  /\ \/ /\ Goto("loop") /\ fds' = [fds EXCEPT !["ends"] = "closed"] /\ receipt' = TRUE /\ own' = "caller"
     \/ /\ Raise("plain", "launch-failed") /\ fds' = [fds EXCEPT !["ends"] = "unproven"] /\ UNCHANGED <<receipt, own>>
     \/ /\ Raise("plain", "launch-failed") /\ fds' = [fds EXCEPT !["ends"] = "closed"]
        /\ receipt' = TRUE /\ own' = "published"
  /\ UNCHANGED <<Files, Process, bound, Stream, reaped>>

\* _retain_preflight_launch
Retain(l) == pc' = l /\ err' = "retention" /\ retained' = retained \cup {"launch"} /\ own' = "retained"

\* _terminate_and_reap_preflight: only a leader that is still this one is killed and reaped.
Reap == child \in {"runs", "dead"} /\ child' = "reaped" /\ killed' = (killed \/ child = "runs")

LaunchFailed ==
  /\ pc = "launch-failed"
  /\ \/ err = "retention" /\ Retain("run-failed") /\ UNCHANGED <<Process, faults>>
     \/ err = "plain" /\ ~bound /\ own # "allocating" /\ Retain("run-failed") /\ UNCHANGED <<Process, faults>>
     \/ err = "plain" /\ bound /\ Reap /\ own' = "proven" /\ Goto("launch-close")
     \/ err = "plain" /\ bound /\ UNCHANGED Process /\ Retain("run-failed") /\ UNCHANGED faults   \* its deadline
     \/ err = "plain" /\ ~bound /\ own = "allocating" /\ Goto("launch-close") /\ UNCHANGED <<Process, own>>
  /\ UNCHANGED <<Files, bound, receipt, fds, Stream, reaped>>

ClosedAll == [d \in Ends |-> IF fds[d] = "owned" THEN "closed" ELSE fds[d]]
Unproven(f) == \E d \in Ends : f[d] = "unproven"
OneUnproven == {[ClosedAll EXCEPT ![d] = "unproven"] : d \in {e \in Ends : fds[e] = "owned"}}

LaunchClose ==
  /\ pc = "launch-close"
  /\ \/ fds' = ClosedAll /\ ~Unproven(fds) /\ own' = "closed" /\ Goto("run-failed")
     \/ fds' = ClosedAll /\ Unproven(fds) /\ Retain("run-failed") /\ UNCHANGED faults
     \/ fds' \in OneUnproven /\ Fault /\ Retain("run-failed")
  /\ UNCHANGED <<Files, Process, bound, receipt, Stream, reaped>>

-----------------------------------------------------------------------------
(* run_bounded_command *)

ChildExits == child = "runs" /\ child' = "dead"
              /\ UNCHANGED <<pc, Files, killed, Launched, fds, Stream, reaped, Error, faults>>

\* A chunk never takes the total past one above the limit.
Read ==
  /\ pc = "loop" /\ eof # Streams /\ child = "runs" /\ bytes' = bytes + 1
  /\ IF bytes' > Limit THEN Throw("plain", "run-failed") /\ UNCHANGED faults ELSE Goto("loop")
  /\ UNCHANGED <<Files, Process, Launched, fds, eof, reaped>>

\* The program may close its output before it exits.
End ==
  /\ pc = "loop" /\ Goto("loop")
  /\ \E s \in Streams \ eof : eof' = eof \cup {s}
  /\ UNCHANGED <<Files, Process, Launched, fds, bytes, reaped>>

\* Variant: the deadline counts only while there is output to wait for.
TimeOutOfOutput ==
  /\ pc = "loop" /\ eof # Streams /\ Throw("plain", "run-failed") /\ UNCHANGED faults
  /\ UNCHANGED <<Files, Process, Launched, fds, Stream, reaped>>
TimeOut ==
  /\ pc = "loop" /\ Throw("plain", "run-failed") /\ UNCHANGED faults
  /\ UNCHANGED <<Files, Process, Launched, fds, Stream, reaped>>

\* wait_terminal and reap
Wait ==
  /\ pc = "loop" /\ eof = Streams /\ child = "dead" /\ child' = "reaped"
  /\ \/ reaped' = TRUE /\ own' = "proven" /\ Goto("final")
     \/ UNCHANGED <<reaped, own>> /\ Raise("plain", "run-failed")
  /\ UNCHANGED <<Files, killed, bound, receipt, fds, Stream>>

\* The handler: the error keeps the launch, unless the process is, or is now, reaped.
RunFailed ==
  /\ pc = "run-failed"
  /\ \/ /\ err = "retention" /\ Retain("final") /\ UNCHANGED <<Process, reaped, faults>>
     \/ /\ err = "plain" /\ ~receipt /\ own \in {"allocating", "closed"} /\ Goto("final")
        /\ UNCHANGED <<Process, reaped, own>>
     \/ /\ err = "plain" /\ receipt /\ Reap /\ reaped' = TRUE /\ own' = "proven" /\ Goto("final")
     \/ /\ err = "plain" /\ receipt /\ Retain("final") /\ UNCHANGED <<Process, reaped, faults>>
  /\ UNCHANGED <<Files, bound, receipt, fds, Stream>>

\* The finally clause: selector and descriptors are closed, unless the error keeps them.
Finalize ==
  /\ pc = "final"
  /\ \/ /\ err = "retention" /\ Goto("clean") /\ UNCHANGED <<fds, own>>
     \/ /\ err # "retention" /\ fds' = ClosedAll /\ own' = "closed" /\ Goto(IF err = "none" THEN "hash" ELSE "clean")
     \/ /\ err # "retention" /\ Fault /\ fds' \in OneUnproven \cup {ClosedAll} /\ Retain("clean")
  /\ UNCHANGED <<Files, Process, bound, receipt, Stream, reaped>>

-----------------------------------------------------------------------------
(* The end of _generate_schema *)

\* The exit code, the standard error and the digest of the schema
Hash ==
  /\ pc = "hash"
  /\ \/ Goto("clean")
     \/ Raise("plain", "clean")
  /\ UNCHANGED <<Files, Process, Launched, fds, Stream, reaped>>

\* _generated_schema_retention_owner: the anchors go to the error with the directory's name.
Hold == /\ retained' = retained \cup {"schema"} /\ pc' = "done" /\ err' = "retention"
        /\ anchors' = [a \in DOMAIN anchors |-> IF anchors[a] = "open" THEN "kept" ELSE anchors[a]]

Named == outcome \notin {"not-started", "collision"} /\ anchors["work"] = "open"

\* An error that keeps the launch keeps the directory, in which the program may write.
Keep ==
  /\ pc = "clean" /\ err = "retention" /\ Named /\ Hold
  /\ UNCHANGED <<dir, outcome, Process, Launched, fds, Stream, reaped, faults>>

\* A directory that may have been made but was not opened is not deleted either.
Created ==
  /\ pc = "clean" /\ err # "retention" /\ Named /\ anchors["output"] # "open" /\ Hold
  /\ UNCHANGED <<dir, outcome, Process, Launched, fds, Stream, reaped, faults>>

\* _destroy_generated_schema_directory: a manifest, the deletion, the removal of the manifest.
Destroy ==
  /\ pc = "clean" /\ (err = "retention" => ~Named \/ "schema" \in retained)
  /\ anchors["work"] = "open" /\ anchors["output"] = "open"
  /\ \/ Goto("anchors") /\ dir' = "gone" /\ UNCHANGED anchors
     \/ Fault /\ Hold /\ dir' \in {"there", "part", "gone"}
  /\ UNCHANGED <<outcome, Process, Launched, fds, Stream, reaped>>

Nothing ==
  /\ pc = "clean" /\ ~Named /\ anchors["output"] # "open" /\ Goto("anchors")
  /\ UNCHANGED <<Files, Process, Launched, fds, Stream, reaped>>

CloseAnchors ==
  /\ pc = "anchors"
  /\ \/ /\ Goto("done")
        /\ anchors' = [a \in DOMAIN anchors |-> IF anchors[a] = "open" THEN "closed" ELSE anchors[a]]
     \/ /\ Raise("plain", "done") /\ anchors["output"] = "open" /\ anchors' = [anchors EXCEPT !.output = "unproven"]
     \/ /\ Raise("plain", "done") /\ anchors["work"] = "open"
        /\ anchors' = [work |-> "unproven", output |-> IF anchors["output"] = "open" THEN "closed" ELSE anchors["output"]]
  /\ UNCHANGED <<dir, outcome, Process, Launched, fds, Stream, reaped>>

Done == pc = "done" /\ UNCHANGED vars

Step ==
  \/ OpenRoot \/ MakeDirectory \/ BindDirectory \/ Pipes \/ Launch \/ CloseEnds \/ LaunchFailed
  \/ LaunchClose \/ Read \/ End \/ TimeOut \/ Wait \/ RunFailed \/ Finalize \/ Hash \/ Keep \/ Created
  \/ Destroy \/ Nothing \/ CloseAnchors

Next == Step \/ ChildExits \/ Done
Spec == Init /\ [][Next]_vars /\ WF_vars(Step)

-----------------------------------------------------------------------------
TypeOK ==
  /\ dir \in {"none", "there", "part", "gone"} /\ child \in {"none", "runs", "dead", "reaped"}
  /\ own \in {"allocating", "armed", "bound", "published", "caller", "proven", "retained", "closed"}
  /\ \A d \in Ends : fds[d] \in {"none", "owned", "unproven", "closed"}
  /\ eof \subseteq Streams /\ bytes \in 0 .. Limit + 1 /\ faults \in 0 .. MaxFaults
  /\ retained \subseteq {"launch", "schema"} /\ err \in {"none", "plain", "retention"}
  /\ own \in {"published", "caller"} => bound /\ receipt

AtEnd == pc = "done"

\* A process that may still run is the error's.
NoSilentProcess == AtEnd /\ child \in {"runs", "dead"} => "launch" \in retained

\* The directory is not deleted under a process that may still write into it.
DirectoryOutlivesProcess == dir \in {"part", "gone"} => child \in {"none", "reaped"}

\* A directory that is left is the error's, and so are its anchors.
LeftIsHeld ==
  AtEnd => /\ dir \in {"there", "part"} => "schema" \in retained
           /\ \A a \in DOMAIN anchors : anchors[a] = "kept" => "schema" \in retained

\* A descriptor of the launch that is open at the end is the error's, and what the error keeps of
\* a launch that may still run is open.
LaunchControlsKept ==
  AtEnd => /\ (\E d \in Ends : fds[d] \in {"owned", "unproven"}) => "launch" \in retained
           /\ child = "runs" => \A d \in Streams : fds[d] = "owned"

\* A result comes from a process that ended by itself, after all its output within the limit.
ResultIsWhole ==
  AtEnd /\ err = "none" => child = "reaped" /\ ~killed /\ eof = Streams /\ bytes <= Limit /\ dir = "gone"

\* The call returns though the program neither exits nor closes its output.
CommandEnds == <>AtEnd
=============================================================================
