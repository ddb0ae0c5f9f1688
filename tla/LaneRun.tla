-------------------------------- MODULE LaneRun --------------------------------
(* One review by a named lane: a directory for the session and a copy of the    *)
(* executable are made, the command runs under supervision, both are removed,   *)
(* and the two outputs are published with a receipt.  Signals are blocked while *)
(* something is made or removed, others may replace what is in the way, and the *)
(* command may outlive the call that runs it.                                   *)
EXTENDS Naturals, FiniteSets

CONSTANT MaxFaults    \* bound on failing calls and on what others replace

VARIABLES at,
          made,      \* what is at each path: none, ours, others
          known,     \* what the lane holds a record of: the session, the copy
          removed,   \* what the lane has removed
          lease,     \* the lock on the directory of the sessions
          parent,    \* that directory is still the one that was opened
          started,   \* process_supervision_started
          call, alive, quiet,
          masked, signal, \* none, pending, taken, late (after the commit)
          failure,   \* the error of the run: none, guard, mask, signal, leak
          control,   \* none, retained, cleanup, custody: the session's own error
          dropped,   \* cleanup_error: the copy was not removed
          named,     \* what the raised error names
          capture,   \* none, held, zeroed
          emits,     \* a receipt emitter was passed
          receipt, committed, incomplete,
          torn,      \* an interrupt struck where nothing was protected
          outcome, faults

vars == <<at, made, known, removed, lease, parent, started, call, alive, quiet, masked, signal, failure, control,
          dropped, named, capture, emits, receipt, committed, incomplete, torn, outcome, faults>>
command == <<call, alive, quiet>>
files == <<made, known, removed, lease, parent>>
errors == <<failure, control, dropped, named>>
printed == <<receipt, committed, incomplete, outcome>>

Made == {"session", "copy"}
Outputs == {"stdout", "stderr"}
Steps == {"lease", "session", "copy", "check", "unmask", "supervise", "called", "finally", "dropcopy", "dropsession",
          "restore", "raise", "publish", "validate", "stdout", "stderr", "verify", "consume", "emit", "emitted",
          "commit", "rollback", "clear", "over"}

TypeOK ==
    /\ at \in Steps
    /\ made \in [Made \cup Outputs -> {"none", "ours", "others"}]
    /\ known \subseteq Made \cup Outputs /\ removed \subseteq Made \cup Outputs
    /\ lease \in BOOLEAN /\ parent \in BOOLEAN /\ started \in BOOLEAN
    /\ call \in {"running", "returned", "failed"} /\ alive \in BOOLEAN /\ quiet \in BOOLEAN
    /\ masked \in BOOLEAN /\ signal \in {"none", "pending", "taken", "late"}
    /\ failure \in {"none", "guard", "mask", "signal", "leak"}
    /\ control \in {"none", "retained", "cleanup", "custody"}
    /\ dropped \in BOOLEAN /\ named \subseteq Made
    /\ capture \in {"none", "held", "zeroed"}
    /\ emits \in BOOLEAN /\ receipt \in BOOLEAN /\ committed \in BOOLEAN /\ incomplete \in BOOLEAN
    /\ torn \in BOOLEAN /\ outcome \in {"running", "returned", "error", "signal"}
    /\ faults \in 0..MaxFaults

Call == INSTANCE BoundedCall

Init ==
    /\ at = "lease"
    /\ made = [p \in Made \cup Outputs |-> "none"] /\ known = {} /\ removed = {}
    /\ lease = FALSE /\ parent = TRUE /\ started = FALSE
    /\ Call!Init
    /\ masked = TRUE /\ signal = "none"
    /\ failure = "none" /\ control = "none" /\ dropped = FALSE /\ named = {}
    /\ capture = "none" /\ emits \in BOOLEAN
    /\ receipt = FALSE /\ committed = FALSE /\ incomplete = FALSE
    /\ torn = FALSE /\ outcome = "running" /\ faults = 0

Go(a) == at' = a
Fault == faults < MaxFaults /\ faults' = faults + 1
Fails(kind) == failure' = kind /\ Go("finally")
(* a signal that is not blocked is handled before the next step *)
Undisturbed == masked \/ signal # "pending"

--------------------------------------------------------------------------------
(* The world *)

Signal ==
    /\ signal = "none" /\ at # "over" /\ signal' = "pending"
    /\ UNCHANGED <<at, files, started, command, masked, errors, capture, emits, printed, torn, faults>>

(* another process puts something of its own in the way *)
Replace ==
    /\ at # "over" /\ Fault
    /\ \/ \E p \in Made \cup Outputs : made[p] # "others" /\ made' = [made EXCEPT ![p] = "others"] /\ UNCHANGED parent
       \/ parent /\ parent' = FALSE /\ UNCHANGED made
    /\ UNCHANGED <<at, known, removed, lease, started, command, masked, signal, errors, capture, emits, printed, torn>>

(* a signal between two protected parts leaves by the shortest way *)
Tear ==
    /\ signal = "pending" /\ ~masked /\ at \in {"finally", "raise", "publish"}
    /\ signal' = "taken" /\ torn' = TRUE /\ outcome' = "signal" /\ lease' = FALSE /\ Go("over")
    /\ named' = {}
    /\ UNCHANGED <<made, known, removed, parent, started, command, masked, failure, control, dropped, capture, emits,
                   receipt, committed, incomplete, faults>>

--------------------------------------------------------------------------------
(* Before the command, with the signals blocked *)

(* the lease of the directory; without a session there is none *)
Lease ==
    /\ at = "lease"
    /\ \/ lease' = TRUE /\ Go("session") /\ UNCHANGED <<failure, faults>>
       \/ UNCHANGED <<lease, failure, faults>> /\ Go("copy")
       \/ Fault /\ Fails("guard") /\ UNCHANGED lease
    /\ UNCHANGED <<made, known, removed, parent, started, command, masked, signal, control, dropped, named, capture, emits,
                   printed, torn>>

(* _prepare_claude_session_env: a directory it cannot take back is named *)
MakeSession ==
    /\ at = "session" /\ made["session"] = "none"
    /\ \/ /\ parent
          /\ made' = [made EXCEPT !["session"] = "ours"] /\ known' = known \cup {"session"}
          /\ Go("copy") /\ UNCHANGED <<lease, failure, control, named, faults>>
       \/ /\ Fault /\ lease' = FALSE /\ Fails("guard") /\ UNCHANGED known
          /\ \/ UNCHANGED <<made, control, named>>
             \/ made' = [made EXCEPT !["session"] = "ours"]
                /\ control' = "cleanup" /\ named' = named \cup {"session"}
       \/ /\ ~parent /\ lease' = FALSE /\ Fails("guard")
          /\ UNCHANGED <<made, known, control, named, faults>>
    /\ UNCHANGED <<removed, parent, started, command, masked, signal, dropped, capture, emits, printed, torn>>

TakenName ==
    /\ at = "session" /\ made["session"] = "others"
    /\ lease' = FALSE /\ Fails("guard")
    /\ UNCHANGED <<made, known, removed, parent, started, command, masked, signal, control, dropped, named, capture, emits,
                   printed, torn, faults>>

(* _create_claude_launch_snapshot: its own error names what it cannot remove *)
MakeCopy ==
    /\ at = "copy"
    /\ \/ made["copy"] = "none"
          /\ made' = [made EXCEPT !["copy"] = "ours"] /\ known' = known \cup {"copy"}
          /\ Go("check") /\ UNCHANGED <<failure, named, faults>>
       \/ Fault /\ Fails("guard") /\ UNCHANGED known
          /\ \/ UNCHANGED <<made, named>>
             \/ made["copy"] = "none" /\ made' = [made EXCEPT !["copy"] = "ours"] /\ named' = named \cup {"copy"}
       \/ made["copy"] = "others" /\ Fails("guard") /\ UNCHANGED <<made, known, named, faults>>
    /\ UNCHANGED <<removed, lease, parent, started, command, masked, signal, control, dropped, capture, emits, printed, torn>>

Check ==
    /\ at = "check"
    /\ \/ ("session" \in known => made["session"] = "ours" /\ parent)
          /\ Go("unmask") /\ UNCHANGED <<failure, faults>>
       \/ ~("session" \in known => made["session"] = "ours" /\ parent) /\ Fails("guard") /\ UNCHANGED faults
       \/ Fault /\ Fails("guard")
    /\ UNCHANGED <<files, started, command, masked, signal, control, dropped, named, capture, emits, printed, torn>>

(* a signal that waited is raised before anything was started *)
Unmask ==
    /\ at = "unmask" /\ masked' = FALSE
    /\ IF signal = "pending" THEN signal' = "taken" /\ Fails("signal")
       ELSE Go("supervise") /\ UNCHANGED <<signal, failure>>
    /\ UNCHANGED <<files, started, command, control, dropped, named, capture, emits, printed, torn, faults>>

Supervise ==
    /\ at = "supervise"
    /\ \/ started' = TRUE /\ Go("called") /\ UNCHANGED <<signal, failure, faults>>
       \/ Fault /\ Fails("guard") /\ UNCHANGED <<started, signal>>
       \/ signal = "pending" /\ signal' = "taken" /\ started' \in BOOLEAN /\ Fails("signal") /\ UNCHANGED faults
    /\ UNCHANGED <<files, command, masked, control, dropped, named, capture, emits, printed, torn>>

--------------------------------------------------------------------------------
(* The command *)

Acts ==
    /\ started
    /\ \/ at = "called" /\ (Call!Appear \/ Call!Prove \/ Call!Fail \/ Call!Return)
       \/ at = "called" /\ Call!Vanish
       \/ call = "failed" /\ (Call!Appear \/ Call!Vanish)
    /\ UNCHANGED <<at, files, started, masked, signal, errors, capture, emits, printed, torn, faults>>

(* run_bounded_capture returns or raises; a signal prevails in it *)
Called ==
    /\ at = "called"
    /\ \/ call = "returned" /\ signal # "pending" /\ capture' = "held" /\ Go("finally") /\ UNCHANGED <<signal, failure>>
       \/ call = "failed" /\ signal # "pending" /\ failure' \in {"guard", "leak"} /\ Go("finally")
          /\ UNCHANGED <<signal, capture>>
       \/ call # "running" /\ signal = "pending" /\ signal' = "taken" /\ Fails("signal") /\ UNCHANGED capture
    /\ UNCHANGED <<files, started, command, masked, control, dropped, named, emits, printed, torn, faults>>

--------------------------------------------------------------------------------
(* The finally clause *)

(* without a copy or a session there is nothing to remove *)
Block ==
    /\ at = "finally" /\ Undisturbed
    /\ IF known = {} THEN Go("restore") /\ UNCHANGED <<masked, dropped, faults>>
       ELSE \/ masked' = TRUE /\ Go("dropcopy") /\ UNCHANGED <<dropped, faults>>
            \/ Fault /\ dropped' = ("copy" \in known) /\ Go("dropsession") /\ UNCHANGED masked
    /\ UNCHANGED <<files, started, command, signal, failure, control, named, capture, emits, printed, torn>>

(* _unlink_output_if_observed_same *)
Drop(p) == made' = [made EXCEPT ![p] = "none"] /\ removed' = removed \cup {p}

DropCopy ==
    /\ at = "dropcopy" /\ Go("dropsession")
    /\ IF "copy" \notin known THEN UNCHANGED <<made, removed, dropped, faults>>
       ELSE \/ made["copy"] = "ours" /\ Drop("copy") /\ UNCHANGED <<dropped, faults>>
            \/ made["copy"] = "none" /\ UNCHANGED <<made, removed, dropped, faults>>
            \/ made["copy"] = "others" /\ dropped' = TRUE /\ UNCHANGED <<made, removed, faults>>
            \/ Fault /\ dropped' = TRUE /\ UNCHANGED <<made, removed>>
    /\ UNCHANGED <<known, lease, parent, started, command, masked, signal, failure, control, named, capture, emits, printed,
                   torn>>

(* a session stays while its command may; the mask it needs and the directory   *)
(* are checked, and its lease goes last                                         *)
DropSession ==
    /\ at = "dropsession" /\ Go("restore") /\ lease' = FALSE
    /\ IF "session" \notin known THEN UNCHANGED <<made, removed, control, faults>>
       ELSE IF started /\ ~quiet THEN control' = "retained" /\ UNCHANGED <<made, removed, faults>>
       ELSE IF ~masked \/ made["session"] # "ours" THEN control' = "cleanup" /\ UNCHANGED <<made, removed, faults>>
       ELSE \/ /\ Drop("session") /\ UNCHANGED faults
               /\ control' = IF parent THEN "none" ELSE "custody"
            \/ Fault /\ control' = "cleanup" /\ UNCHANGED <<made, removed>>
    /\ UNCHANGED <<known, parent, started, command, masked, signal, failure, dropped, named, capture, emits, printed, torn>>

(* _restore_claude_snapshot_signal_mask, then the error that is raised: what is *)
(* left of the session first, then of the copy, then the mask or a signal       *)
Stays == (IF control \in {"retained", "cleanup"} THEN {"session"} ELSE {}) \cup (IF dropped THEN {"copy"} ELSE {})

Restore ==
    /\ at = "restore" /\ masked' = FALSE
    /\ \E broken \in BOOLEAN :
         /\ IF broken THEN Fault ELSE UNCHANGED faults
         /\ signal' = (IF signal = "pending" THEN "taken" ELSE signal)
         /\ IF Stays # {} \/ control # "none"
            THEN failure' = "guard" /\ named' = Stays
            ELSE IF broken \/ signal = "pending"
            THEN failure' = (IF broken THEN "mask" ELSE "signal") /\ named' = {}
            ELSE UNCHANGED <<failure, named>>
         /\ LET fails == Stays # {} \/ control # "none" \/ broken \/ signal = "pending" \/ failure # "none"
            IN /\ capture' = (IF capture = "held" /\ fails THEN "zeroed" ELSE capture)
               /\ Go(IF fails THEN "raise" ELSE "publish")
    /\ UNCHANGED <<files, started, command, control, dropped, emits, printed, torn>>

RaiseError ==
    /\ at = "raise" /\ Undisturbed /\ Go("over")
    /\ outcome' = (IF failure = "signal" THEN "signal" ELSE "error")
    /\ UNCHANGED <<files, started, command, masked, signal, errors, capture, emits, receipt, committed, incomplete, torn,
                   faults>>

--------------------------------------------------------------------------------
(* Publication, with the signals blocked again *)

Rollback(kind) == failure' = kind /\ Go("rollback")

Publish ==
    /\ at = "publish" /\ Undisturbed
    /\ \/ masked' = TRUE /\ Go("validate") /\ UNCHANGED <<failure, faults>>
       \/ Fault /\ failure' = "guard" /\ Go("clear") /\ UNCHANGED masked
    /\ UNCHANGED <<files, started, command, signal, control, dropped, named, capture, emits, printed, torn>>

Validate ==
    /\ at = "validate"
    /\ \/ Go("stdout") /\ UNCHANGED <<failure, faults>>
       \/ Fault /\ Rollback("guard")
    /\ UNCHANGED <<files, started, command, masked, signal, control, dropped, named, capture, emits, printed, torn>>

(* _write_private_bytes: linked without overwriting *)
Write(p, next) ==
    /\ at = p
    /\ \/ made[p] = "none" /\ made' = [made EXCEPT ![p] = "ours"] /\ known' = known \cup {p} /\ Go(next)
          /\ UNCHANGED <<failure, incomplete, faults>>
       \/ made[p] # "none" /\ Rollback("guard") /\ UNCHANGED <<made, known, incomplete, faults>>
       \/ Fault /\ Rollback("guard") /\ UNCHANGED known
          /\ \/ UNCHANGED <<made, incomplete>>
             \/ made[p] = "none" /\ made' = [made EXCEPT ![p] = "ours"] /\ incomplete' = TRUE
    /\ UNCHANGED <<removed, lease, parent, started, command, masked, signal, control, dropped, named, capture, emits, receipt,
                   committed, outcome, torn>>

WriteOutputs == Write("stdout", "stderr") \/ Write("stderr", "verify")

Verify ==
    /\ at = "verify"
    /\ IF \A p \in Outputs : made[p] = "ours" THEN Go("consume") /\ UNCHANGED failure ELSE Rollback("guard")
    /\ UNCHANGED <<files, started, command, masked, signal, control, dropped, named, capture, emits, printed, torn, faults>>

Consume ==
    /\ at \in {"consume", "emitted"}
    /\ IF signal = "pending" THEN signal' = "taken" /\ Rollback("signal")
       ELSE Go(IF at = "consume" THEN "emit" ELSE "commit") /\ UNCHANGED <<signal, failure>>
    /\ UNCHANGED <<files, started, command, masked, control, dropped, named, capture, emits, printed, torn, faults>>

(* with an emitter the receipt is printed; without one the mask is restored,    *)
(* and a signal that waited still undoes the publication                        *)
Emit ==
    /\ at = "emit"
    /\ \/ /\ emits /\ receipt' = TRUE /\ Go("emitted") /\ UNCHANGED <<masked, signal, failure, faults>>
       \/ /\ emits /\ Fault /\ receipt' \in BOOLEAN /\ Rollback("guard") /\ UNCHANGED <<masked, signal>>
       \/ /\ ~emits /\ masked' = FALSE
          /\ IF signal = "pending" THEN signal' = "taken" /\ Rollback("signal")
             ELSE Go("commit") /\ UNCHANGED <<signal, failure>>
          /\ UNCHANGED <<receipt, faults>>
    /\ UNCHANGED <<files, started, command, control, dropped, named, capture, emits, committed, incomplete, torn, outcome>>

(* a signal after the commit is only remembered with an emitter, and raised     *)
(* without one; the outputs stay                                                *)
Commit ==
    /\ at = "commit" /\ committed' = TRUE /\ Go("clear") /\ masked' = FALSE
    /\ IF signal = "pending" /\ ~emits THEN signal' = "late" /\ failure' = "signal"
       ELSE signal' = (IF signal = "pending" THEN "late" ELSE signal) /\ UNCHANGED failure
    /\ UNCHANGED <<files, started, command, control, dropped, named, capture, emits, receipt, incomplete, torn, outcome,
                   faults>>

(* _rollback_published_outputs: each output that is still the one written *)
Undo ==
    /\ at = "rollback"
    /\ \E kept \in SUBSET {p \in known \cap Outputs : made[p] = "ours"} :
         /\ IF kept = {} THEN UNCHANGED faults ELSE Fault
         /\ LET gone == {p \in known \cap Outputs : made[p] = "ours"} \ kept
            IN /\ made' = [p \in Made \cup Outputs |-> IF p \in gone THEN "none" ELSE made[p]]
               /\ removed' = removed \cup gone
         /\ incomplete' = (incomplete \/ kept # {} \/ \E p \in known \cap Outputs : made[p] = "others")
    /\ signal' = (IF signal = "pending" THEN "taken" ELSE signal)
    /\ failure' = IF incomplete' THEN "guard" ELSE IF signal' = "taken" THEN "signal" ELSE failure
    /\ masked' = FALSE /\ Go("clear")
    /\ UNCHANGED <<known, lease, parent, started, command, control, dropped, named, capture, emits, receipt, committed,
                   torn, outcome>>

Clear ==
    /\ at = "clear" /\ Go("over")
    /\ capture' = "zeroed"
    /\ signal' = (IF signal = "pending" THEN IF committed THEN "late" ELSE "taken" ELSE signal)
    /\ outcome' = IF signal = "pending" /\ ~(committed /\ emits) THEN "signal"
                ELSE IF failure = "none" THEN "returned" ELSE IF failure = "signal" THEN "signal" ELSE "error"
    /\ UNCHANGED <<files, started, command, masked, errors, emits, receipt, committed, incomplete, torn, faults>>

Lane == Lease \/ MakeSession \/ TakenName \/ MakeCopy \/ Check \/ Unmask \/ Supervise \/ Called \/ Block \/ DropCopy
        \/ DropSession \/ Restore \/ RaiseError \/ Publish \/ Validate \/ WriteOutputs \/ Verify \/ Consume \/ Emit
        \/ Commit \/ Undo \/ Clear \/ Tear
Next == Lane \/ Acts \/ Signal \/ Replace
Spec == Init /\ [][Next]_vars /\ WF_vars(Lane)

--------------------------------------------------------------------------------
(* Properties *)

(* What was made is gone or named by the error, unless an interrupt struck      *)
(* between two protected parts, or the copy's own error was superseded.         *)
(* named_lane.py:10901, 11024, 10486                                            *)
Superseded == "copy" \notin known /\ (control # "none" \/ failure \in {"mask", "signal"})
LeftIsTold ==
    at = "over" /\ ~torn => \A p \in Made : made[p] = "ours" => p \in named \/ (p = "copy" /\ Superseded)

(* A result stands for both outputs, committed; any other end leaves none of    *)
(* them, says that it could not remove one, or came after the commit.           *)
(* named_lane.py:11204, 11229                                                   *)
BothOrNone ==
    at = "over" =>
        /\ outcome = "returned" => committed /\ Outputs \subseteq known /\ Outputs \cap removed = {}
        /\ outcome # "returned" /\ ~committed => incomplete \/ \A p \in Outputs : made[p] # "ours"

(* What the command printed does not outlive the call. named_lane.py:11278 *)
CaptureIsCleared == at = "over" /\ ~torn => capture # "held"

(* A signal that came before the commit takes the result with it.               *)
(* named_lane.py:11202                                                          *)
SignalUndoes == at = "over" => (signal = "taken" => outcome # "returned") /\ (signal = "pending" => committed)

(* A session is removed only when its command is quiet, what others put in the  *)
(* way stays, and what was committed stays. named_lane.py:10892, 10583, 11219   *)
RemovesOwnQuietly ==
    /\ "session" \in removed' \ removed => ~alive /\ (started => quiet)
    /\ \A p \in Made \cup Outputs : made[p] = "others" => made'[p] = "others"
    /\ committed => \A p \in Outputs : made[p] = "ours" => made'[p] # "none"

(* A run of a lane ends once its command does. named_lane.py:10693 *)
Begun == call # "running"
Ended == at = "over"
================================================================================
