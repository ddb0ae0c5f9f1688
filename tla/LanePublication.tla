---------------------------- MODULE LanePublication ----------------------------
(* How a workspace command of the lane guard answers (named_lane.py): one       *)
(* prepares a workspace, removes one, or only looks.  Signals become errors     *)
(* until the answer is due and are ignored after it; a workspace whose receipt  *)
(* cannot be printed is taken back, or its place is told.  A second process     *)
(* sends the signals, and what the answer is written to may be closed.          *)
EXTENDS Naturals

CONSTANTS MaxFaults, MaxSignals    \* bounds: calls that fail, signals that arrive

VARIABLES at, kind,
          handlers,           \* what a signal does: the caller's handlers, raise, record
          mask, prior,        \* signals are blocked; were so before the last block
          owner,              \* the mask is in the command's custody
          pending, saved,     \* a signal waits; one was taken while the context began
          early,              \* a signal came before the answer was due
          primary,            \* what the command ends with: nothing, a signal or an error
          where,              \* the workspace: none, at its path, aside, gone
          named,              \* what the error says of it
          out, err,           \* what was printed: none, a part, the whole
          committed, exit,
          torn,               \* an error escaped while another one was being handled
          faults, signals

masks == <<mask, prior, owner>>
taken == <<pending, saved, early>>
printed == <<out, err>>
vars == <<at, kind, handlers, masks, taken, primary, where, named, printed, committed, exit, torn, faults, signals>>

Steps == {"enter", "install", "begin", "run", "acquire", "drain", "emit", "commit", "restore", "rollback", "finish",
          "locate", "retain", "failed", "report", "restoreFailure", "unreported", "leave", "unblock", "return", "over"}

TypeOK ==
    /\ at \in Steps /\ kind \in {"prepare", "remove", "look"}
    /\ handlers \in {"caller", "raise", "record"}
    /\ mask \in BOOLEAN /\ prior \in BOOLEAN /\ owner \in BOOLEAN
    /\ pending \in BOOLEAN /\ saved \in BOOLEAN /\ early \in BOOLEAN
    /\ primary \in {"none", "signal", "error"}
    /\ where \in {"none", "root", "aside", "gone"}
    /\ named \in {"none", "path", "recovery", "absent", "unseen"}
    /\ out \in {"none", "part", "whole"} /\ err \in {"none", "part", "whole"}
    /\ committed \in {"none", "ok", "failed", "signal"}
    /\ exit \in {"running", "ok", "failed", "signal", "crashed", "killed"}
    /\ torn \in BOOLEAN /\ faults \in 0..MaxFaults /\ signals \in 0..MaxSignals

Init ==
    /\ at = "enter" /\ kind \in {"prepare", "remove", "look"}
    /\ handlers = "caller" /\ mask = FALSE /\ prior = FALSE /\ owner = FALSE
    /\ pending = FALSE /\ saved = FALSE /\ early = FALSE
    /\ primary = "none" /\ where = (IF kind = "remove" THEN "root" ELSE "none") /\ named = "none"
    /\ out = "none" /\ err = "none" /\ committed = "none" /\ exit = "running"
    /\ torn = FALSE /\ faults = 0 /\ signals = 0

Go(a) == at' = a
Fault == faults < MaxFaults /\ faults' = faults + 1
(* a signal that is not blocked is handled before the next step *)
Undisturbed == mask \/ ~pending
(* os._exit with the code that was settled, and an error nobody catches *)
ExitAtOnce(code) == Go("over") /\ exit' = code
Escapes == Go("leave")

(* _begin_forwarded_signal_mask, block_forwarded_signals *)
Blocks == mask' = TRUE /\ prior' = mask /\ owner' = TRUE

--------------------------------------------------------------------------------
(* Signals *)

(* where the answer is not due yet *)
Due == {"commit", "restore", "restoreFailure", "unreported", "leave", "unblock", "return", "over", "report", "failed",
        "emit", "rollback", "finish", "locate", "retain"}
Arrive ==
    /\ at # "over" /\ ~pending /\ signals < MaxSignals /\ signals' = signals + 1 /\ pending' = TRUE
    /\ early' = (early \/ at \notin Due)
    /\ UNCHANGED <<at, kind, handlers, masks, saved, primary, where, named, printed, committed, exit, torn, faults>>
Killed ==
    /\ pending /\ ~mask /\ handlers = "caller" /\ at # "over" /\ ExitAtOnce("killed") /\ pending' = FALSE
    /\ UNCHANGED <<kind, handlers, masks, saved, early, primary, where, named, printed, committed, torn, faults, signals>>
Recorded ==
    /\ pending /\ ~mask /\ handlers = "record" /\ pending' = FALSE
    /\ UNCHANGED <<at, kind, handlers, masks, saved, early, primary, where, named, printed, committed, exit, torn, faults, signals>>
(* raised in the command, in the taking of the mask, or in the handling of an error *)
Raised ==
    /\ pending /\ ~mask /\ handlers = "raise" /\ at # "over" /\ pending' = FALSE
    /\ \/ /\ at \in {"run", "acquire"} /\ primary' = "signal" /\ Go("failed")
          /\ IF at = "run" /\ kind = "prepare"
             THEN where' \in {"root", "gone"} /\ named' = (IF where' = "root" THEN "recovery" ELSE "none")
             ELSE UNCHANGED <<where, named>>
          /\ UNCHANGED <<saved, exit, torn>>
       \/ at \in {"acquire", "failed"} /\ saved' = TRUE /\ UNCHANGED <<at, primary, where, named, exit, torn>>
       \/ at \in {"failed", "report"} /\ torn' = (torn \/ at = "failed") /\ Escapes /\ UNCHANGED <<saved, primary, where, named, exit>>
       \/ at = "leave" /\ ExitAtOnce("crashed") /\ UNCHANGED <<saved, primary, where, named, torn>>
    /\ UNCHANGED <<kind, handlers, masks, early, printed, committed, faults, signals>>

--------------------------------------------------------------------------------
(* _structured_forwarded_signals up to its yield *)

Enter ==
    /\ at = "enter" /\ Undisturbed /\ mask' = TRUE /\ Go("install")
    /\ UNCHANGED <<kind, handlers, prior, owner, taken, primary, where, named, printed, committed, exit, torn, faults, signals>>
Install ==
    /\ at = "install" /\ handlers' = "raise" /\ saved' = pending /\ pending' = FALSE /\ Go("begin")
    /\ UNCHANGED <<kind, masks, early, primary, where, named, printed, committed, exit, torn, faults, signals>>
Start ==
    /\ at = "begin" /\ mask' = FALSE /\ saved' = FALSE
    /\ IF saved THEN Escapes ELSE Go("run")
    /\ UNCHANGED <<kind, handlers, prior, owner, pending, early, primary, where, named, printed, committed, exit, torn, faults, signals>>

(* prepare_workspace, cleanup_workspace, recover_partial_workspace and the       *)
(* commands that only look; the ones that change something return with the mask *)
Done ==
    /\ at = "run" /\ Undisturbed
    /\ \/ kind = "prepare" /\ where' = "root" /\ Blocks /\ Go("drain")
       \/ kind = "remove" /\ where' = "gone" /\ Blocks /\ Go("emit")
       \/ kind = "look" /\ UNCHANGED <<where, masks>> /\ Go("acquire")
    /\ UNCHANGED <<kind, handlers, taken, primary, named, printed, committed, exit, torn, faults, signals>>
RunFails ==
    /\ at = "run" /\ Undisturbed /\ Fault /\ primary' = "error" /\ Go("failed")
    /\ \/ kind = "prepare" /\ where' \in {"root", "aside", "gone"}
       \/ kind = "remove" /\ where' \in {"root", "aside", "gone"}
       \/ kind = "look" /\ UNCHANGED where
    /\ named' = IF where' = "aside" \/ (where' = "root" /\ kind = "prepare") THEN "recovery" ELSE "none"
    /\ UNCHANGED <<kind, handlers, masks, taken, printed, committed, exit, torn, signals>>

--------------------------------------------------------------------------------
(* The receipt *)

(* _acquire_workspace_publication_owner, with the signal that came meanwhile *)
Acquire ==
    /\ at = "acquire" /\ Undisturbed
    /\ \/ /\ Blocks /\ saved' = FALSE /\ UNCHANGED faults
          /\ IF saved THEN primary' = "signal" /\ Go("failed") ELSE Go("drain") /\ UNCHANGED primary
       \/ Fault /\ primary' = "error" /\ Go("failed") /\ UNCHANGED <<masks, saved>>
    /\ UNCHANGED <<kind, handlers, pending, early, where, named, printed, committed, exit, torn, signals>>
Drain ==
    /\ at = "drain" /\ pending' = FALSE
    /\ IF pending THEN primary' = "signal" /\ Go(IF kind = "prepare" THEN "rollback" ELSE "failed")
                  ELSE Go("emit") /\ UNCHANGED primary
    /\ UNCHANGED <<kind, handlers, masks, saved, early, where, named, printed, committed, exit, torn, faults, signals>>
(* _emit_prepared_workspace_receipt, _emit_workspace_terminal_receipt *)
Emit ==
    /\ at = "emit" /\ handlers' = "record"
    /\ \/ out' = "whole" /\ Go("commit") /\ UNCHANGED <<primary, faults>>
       \/ Fault /\ out' \in {"none", "part", "whole"} /\ primary' = "error"
          /\ Go(IF kind = "prepare" THEN "rollback" ELSE "failed")
    /\ UNCHANGED <<kind, masks, taken, where, named, err, committed, exit, torn, signals>>
(* _finish_workspace_terminal_publication *)
Commit ==
    /\ at = "commit" /\ pending' = FALSE /\ committed' = "ok" /\ Go("restore")
    /\ UNCHANGED <<kind, handlers, masks, saved, early, primary, where, named, printed, exit, torn, faults, signals>>
(* _restore_workspace_publication_owner: twice, then directly; one fault is all three *)
Restore(code) ==
    \/ mask' = prior /\ owner' = FALSE /\ Go("leave") /\ UNCHANGED <<exit, faults>>
    \/ Fault /\ ExitAtOnce(code) /\ UNCHANGED <<mask, owner>>
RestoreReceipt ==
    /\ at = "restore" /\ Restore("ok")
    /\ UNCHANGED <<kind, handlers, prior, taken, primary, where, named, printed, committed, torn, signals>>

--------------------------------------------------------------------------------
(* _rollback_unpublished_workspace *)

(* cleanup_workspace, which may fail before, while or after it removes *)
Rollback ==
    /\ at = "rollback"
    /\ \/ where' = "gone" /\ Go("finish") /\ UNCHANGED faults
       \/ Fault /\ where' \in {"root", "aside", "gone"} /\ Go("locate")
    /\ UNCHANGED <<kind, handlers, masks, taken, primary, named, printed, committed, exit, torn, signals>>
(* its own mask is restored, and a signal that waits is one with the error *)
Finish ==
    /\ at = "finish" /\ pending' = FALSE
    /\ ((Go("failed") /\ UNCHANGED faults) \/ (Fault /\ Go("locate")))
    /\ UNCHANGED <<kind, handlers, masks, saved, early, primary, where, named, printed, committed, exit, torn, signals>>
(* _prepared_workspace_retained_path: whatever its name, by its identity *)
Found == where \in {"root", "aside"}
(* what cannot be found is an error that does not take the mask along *)
Locate ==
    /\ at = "locate"
    /\ \/ Found /\ Go("retain") /\ UNCHANGED <<named, owner, faults>>
       \/ ~Found /\ named' = "absent" /\ owner' = FALSE /\ Go("failed") /\ UNCHANGED faults
       \/ Fault /\ named' = "unseen" /\ owner' = FALSE /\ Go("failed")
    /\ primary' = "error"
    /\ UNCHANGED <<kind, handlers, mask, prior, taken, where, printed, committed, exit, torn, signals>>
(* retain_workspace_for_owner_exit_recovery: a sealed capability or the path *)
Retain ==
    /\ at = "retain" /\ Go("failed")
    /\ \/ named' = "recovery" /\ UNCHANGED faults
       \/ Fault /\ named' \in {"recovery", "path"}
    /\ UNCHANGED <<kind, handlers, masks, taken, primary, where, printed, committed, exit, torn, signals>>

--------------------------------------------------------------------------------
(* _emit_structured_terminal_failure *)

(* _workspace_command_failure *)
ReturnCode == IF primary = "signal" THEN "signal" ELSE "failed"
(* with the mask of the error or one of its own *)
Failed ==
    /\ at = "failed" /\ Undisturbed /\ saved' = FALSE
    /\ \/ (IF owner THEN UNCHANGED masks ELSE Blocks) /\ Go("report") /\ UNCHANGED <<torn, faults>>
       \/ ~owner /\ Fault /\ torn' = TRUE /\ Escapes /\ UNCHANGED masks
    /\ UNCHANGED <<kind, handlers, pending, early, primary, where, named, printed, committed, exit, signals>>
Report ==
    /\ at = "report" /\ Undisturbed /\ handlers' = "record"
    /\ \/ err' = "whole" /\ committed' = ReturnCode /\ pending' = FALSE /\ Go("restoreFailure") /\ UNCHANGED faults
       \/ Fault /\ err' \in {"none", "part"} /\ Go("unreported") /\ UNCHANGED <<committed, pending>>
    /\ UNCHANGED <<kind, masks, saved, early, primary, where, named, out, exit, torn, signals>>
RestoreFailure ==
    /\ at = "restoreFailure" /\ Restore(ReturnCode)
    /\ UNCHANGED <<kind, handlers, prior, taken, primary, where, named, printed, committed, torn, signals>>
Unreported ==
    /\ at = "unreported" /\ mask' \in {mask, prior} /\ ExitAtOnce(ReturnCode)
    /\ UNCHANGED <<kind, handlers, prior, owner, taken, primary, where, named, printed, committed, torn, faults, signals>>

--------------------------------------------------------------------------------
(* The finally of _structured_forwarded_signals *)

(* with an answer it is dropped *)
RaisesLate == committed = "none"
Leave ==
    /\ at = "leave" /\ Undisturbed
    /\ \/ mask' = TRUE /\ prior' = mask /\ saved' = FALSE /\ Go("unblock") /\ UNCHANGED <<exit, faults>>
       \/ committed # "none" /\ Fault /\ ExitAtOnce(committed) /\ UNCHANGED <<mask, prior, saved>>
    /\ UNCHANGED <<kind, handlers, owner, pending, early, primary, where, named, printed, committed, torn, signals>>
Unblock ==
    /\ at = "unblock" /\ saved' = (pending /\ RaisesLate) /\ pending' = FALSE
    /\ mask' = prior /\ handlers' = "caller" /\ Go("return")
    /\ UNCHANGED <<kind, prior, owner, early, primary, where, named, printed, committed, exit, torn, faults, signals>>
Return ==
    /\ at = "return" /\ Undisturbed
    /\ ExitAtOnce(IF committed = "none" \/ saved THEN "crashed" ELSE committed)
    /\ UNCHANGED <<kind, handlers, masks, taken, primary, where, named, printed, committed, torn, faults, signals>>

Command ==
    \/ Killed \/ Recorded \/ Raised \/ Enter \/ Install \/ Start \/ Done \/ RunFails \/ Acquire \/ Drain \/ Emit \/ Commit
    \/ RestoreReceipt \/ Rollback \/ Finish \/ Locate \/ Retain \/ Failed \/ Report \/ RestoreFailure \/ Unreported
    \/ Leave \/ Unblock \/ Return
Next == Arrive \/ Command
Spec == Init /\ [][Next]_vars
FairSpec == Spec /\ WF_vars(Command)

--------------------------------------------------------------------------------
Kept == where \in {"root", "aside"}
Unwritten == exit \in {"failed", "signal"} /\ err # "whole"

(* A workspace that is there when the command is over was handed out with its   *)
(* receipt, or an error says where it is; but for an error that could not be    *)
(* written, and one that escaped while another was being handled.               *)
LeftIsTold ==
    at = "over" /\ Kept /\ (kind = "prepare" \/ where = "aside") =>
        committed = "ok" \/ (err = "whole" /\ named # "none") \/ Unwritten \/ torn

(* What the error says of the workspace is so. *)
NamesAreTrue ==
    /\ named \in {"path", "recovery"} => Kept
    /\ named = "absent" => ~Kept

(* The command succeeds only with a whole receipt, about a workspace that is    *)
(* there or was removed as it says, and its other answer is then silent.        *)
ReceiptStands ==
    committed = "ok" =>
        /\ out = "whole" /\ err = "none"
        /\ kind = "prepare" => where = "root"
        /\ kind = "remove" => where = "gone"

(* A signal that came before the answer was due keeps a workspace from being    *)
(* handed out and a look from being answered.                                   *)
SignalUndoes == early /\ kind # "remove" => committed # "ok"

(* An answer that was given ends the command: a later signal may kill it when   *)
(* the caller's handlers are back, but turns the answer into nothing else.      *)
AnswerIsFinal == at = "over" /\ committed # "none" => exit \in {committed, "killed"}

(* Every command is answered. *)
Begun == at = "enter"
Ended == at = "over"
================================================================================
