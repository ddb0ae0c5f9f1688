-------------------------- MODULE WorktreeMaterializer --------------------------
(* The worktree of a named review lane: a private repository is made beside the *)
(* source, the frozen range is imported through a temporary alternate, the head *)
(* is checked out and a receipt is printed; a reviewer's launch validates it    *)
(* again.  Other processes of the account may change the source, the control    *)
(* files and the directories at any time, and a signal may arrive at any time.  *)
(* Git reads what it is given, so each use is followed by a check of what it    *)
(* used: what others change is never changed back.                              *)
EXTENDS Naturals, Sequences, FiniteSets

CONSTANTS MaxChanges,    \* bound on the changes of other processes
          MaxFaults      \* bound on failing calls

(* what the steps depend on: the source's storage, the parent directory, the    *)
(* config, grafts and attributes, object storage, object set, references, HEAD  *)
(* and working files of the new repository                                      *)
Facts == {"source", "parent", "config", "info", "storage", "objects", "refs", "head", "files"}
Places == {"control", "worktree"}

VARIABLES at,       \* the step of the process
          plan,     \* the rows still to do
          bad,      \* the facts that others have changed
          taint,    \* the facts that were changed when a step used them
          place,    \* what is at each path: nothing, the lane's directory, another's
          known,    \* the directories whose identity the lane has recorded
          started,  \* destination_started
          pack,     \* the bytes of the pack: absent, or held by the lane
          signal,   \* none, pending, taken as a failure, or dropped
          masked,
          failure,  \* the failure of the run
          named,    \* the directories its error says are retained
          receipt,  \* none, published
          verdict,  \* of the validation: none, valid, invalid
          late,     \* the facts changed since the process last looked at them
          changes, faults

vars == <<at, plan, bad, taint, place, known, started, pack, signal, masked, failure, named,
          receipt, verdict, late, changes, faults>>
world == <<bad, late, changes>>

--------------------------------------------------------------------------------
(* The rows: what a step checks, and what it uses without being able to check *)

Row(checks, uses) == [checks |-> checks, uses |-> uses]

ValidateSource == Row({"source", "parent"}, {})
Initialize == Row({"parent", "worktree"}, {"parent"})
AdminDirectory == Row({"config"}, {})
Configure == Row({}, {"config"})
BindInfo == Row({"info"}, {})
AuditConfig == Row({"config"}, {})
StartEmpty == Row({"info", "storage"}, {})
VerifySource == Row({"source"}, {})
ReviewCommits == Row({}, {"source", "info"})
WriteShallow == Row({"storage"}, {})
ReadGraph == Row({}, {"source", "info"})
ReadManifest == Row({}, {"source", "info"})
CheckoutManifest == Row({}, {"source"})
PackObjects == Row({}, {"source"})
IndexPack == Row({}, {"config", "storage"})
ExactObjects == Row({"storage", "objects"}, {"config"})
Integrity == Row({}, {"config"})
CreateReferences == Row({}, {"config"})
BeforeCheckout == Row({"config", "info", "storage", "worktree"}, {})
Checkout == Row({}, {"config", "info", "storage", "worktree"})
VerifyRevisions == Row({"worktree", "head", "refs"}, {})
AfterCheckout == Row({"storage", "config", "info"}, {})

Import == <<VerifySource, ReviewCommits, WriteShallow, ReadGraph, ReadManifest, CheckoutManifest, VerifySource>>
Finish == <<VerifySource, IndexPack, ExactObjects, Integrity, CreateReferences, BeforeCheckout, Checkout,
            VerifyRevisions, AfterCheckout>>
Setup == <<Initialize, AdminDirectory, Configure, BindInfo, AuditConfig, StartEmpty>> \o Import

(* validate_worktree *)
BindControls == Row({"config", "info"}, {})
VerifyHead == Row({"worktree", "head"}, {"config"})
FrozenRange == Row({"storage", "refs"}, {"config", "info", "storage"})
FrozenRangeAgain == Row({"config", "info", "storage", "refs", "head"}, {})
Submodules == Row({}, {"config"})
IndexFlags == Row({"files"}, {"config"})
Gitlinks == Row({"files"}, {})
Guidance == Row({"files"}, {"config"})
Revalidate == Row({"config", "info"}, {})
Status == Row({"files"}, {"config", "info"})
Symlinks == Row({}, {"config", "info"})
Validation == <<AdminDirectory, BindControls, VerifyHead, FrozenRange, FrozenRangeAgain, Submodules, IndexFlags,
                Gitlinks, Revalidate, Status, Symlinks, Guidance, Revalidate>>

Holds(f) == IF f = "worktree" THEN place[f] = "ours" ELSE f \notin bad
Go(a) == at' = a
Fails == faults < MaxFaults /\ faults' = faults + 1
(* a failure of the materialization goes to its finally clause *)
Breaks(kind) == failure' = kind /\ Go("finally")

--------------------------------------------------------------------------------
(* Signals: one may be pending at any time, and interrupts the process unless   *)
(* it is masked                                                                 *)

Unwinds == {"resolve", "version", "mkdir", "started", "own", "rows", "pack", "taken"}
Interrupt ==
    /\ signal = "pending" /\ ~masked /\ at \in Unwinds
    /\ signal' = "taken"
    /\ IF at = "resolve" THEN failure' = "signal" /\ Go("named") ELSE Breaks("signal")
    /\ pack' = "absent"       \* the owner of the payload clears it on its way out
    /\ UNCHANGED <<plan, world, taint, place, known, started, masked, named, receipt, verdict, faults>>

--------------------------------------------------------------------------------
(* materialize_worktree *)

(* _resolve_materializer_source and the parent: nothing has been made yet *)
Resolve ==
    /\ at = "resolve"
    /\ IF Holds("source") /\ Holds("parent")
       THEN Go("setup") /\ UNCHANGED failure ELSE Go("named") /\ failure' = "guard"
    /\ UNCHANGED <<plan, world, taint, place, known, started, pack, signal, masked, named, receipt, verdict, faults>>

(* the control directory is made with the signals masked; its own failure       *)
(* removes it or names it                                                       *)
MakeControl ==
    /\ at = "setup"
    /\ \/ /\ Holds("parent")
          /\ place' = [place EXCEPT !["control"] = "ours"] /\ known' = known \cup {"control"}
          /\ IF signal = "pending"
             THEN signal' = "taken" /\ Breaks("signal")
             ELSE Go("version") /\ UNCHANGED <<signal, failure>>
          /\ UNCHANGED <<named, faults>>
       \/ /\ ~Holds("parent")
          /\ failure' = "guard" /\ Go("named") /\ UNCHANGED <<place, known, signal, named, faults>>
       \/ /\ Fails /\ failure' = "guard" /\ Go("named")
          /\ \/ UNCHANGED <<place, named>>
             \/ place' = [place EXCEPT !["control"] = "ours"] /\ named' = named \cup {"control"}
          /\ UNCHANGED <<known, signal>>
    /\ UNCHANGED <<plan, world, taint, started, pack, masked, receipt, verdict>>

CheckSource ==
    /\ at = "version"
    /\ IF \A f \in ValidateSource.checks : Holds(f) THEN Go("mkdir") /\ UNCHANGED failure ELSE Breaks("guard")
    /\ UNCHANGED <<plan, world, taint, place, known, started, pack, signal, masked, named, receipt, verdict, faults>>

(* destination.mkdir, and then the flag that says so: a signal between the two  *)
(* leaves an empty directory that the lane does not know of                     *)
MakeWorktree ==
    /\ at = "mkdir"
    /\ IF place["worktree"] = "absent"
       THEN place' = [place EXCEPT !["worktree"] = "ours"] /\ Go("started") /\ UNCHANGED failure
       ELSE Breaks("guard") /\ UNCHANGED place
    /\ UNCHANGED <<plan, world, taint, known, started, pack, signal, masked, named, receipt, verdict, faults>>

Started ==
    /\ at = "started"
    /\ started' = TRUE /\ Go("own")
    /\ UNCHANGED <<plan, world, taint, place, known, pack, signal, masked, failure, named, receipt, verdict, faults>>

Own ==
    /\ at = "own"
    /\ \/ known' = known \cup {"worktree"} /\ plan' = Setup /\ Go("rows") /\ UNCHANGED <<failure, faults>>
       \/ Fails /\ Breaks("guard") /\ UNCHANGED <<known, plan>>
    /\ UNCHANGED <<world, taint, place, started, pack, signal, masked, named, receipt, verdict>>

(* one row: what it uses may be changed, what it checks may not *)
After == IF Tail(plan) # <<>> THEN "rows" ELSE IF pack = "cleared" THEN "finally" ELSE "pack"
Step ==
    /\ at = "rows"
    /\ LET row == Head(plan) IN
       /\ taint' = taint \cup {f \in row.uses : ~Holds(f)}
       /\ late' = late \ row.checks
       /\ IF \A f \in row.checks : Holds(f)
          THEN plan' = Tail(plan) /\ Go(After) /\ UNCHANGED failure
          ELSE Breaks("guard") /\ UNCHANGED plan
    /\ UNCHANGED <<bad, changes, place, known, started, pack, signal, masked, named, receipt, verdict, faults>>

(* _materializer_pack_manifest runs with the signals masked: a signal is raised *)
(* when the owner of the payload has it                                         *)
Pack ==
    /\ at = "pack"
    /\ taint' = taint \cup {f \in PackObjects.uses : ~Holds(f)}
    /\ IF signal = "pending"
       THEN signal' = "taken" /\ Breaks("signal") /\ pack' = "absent" /\ UNCHANGED plan
       ELSE plan' = Finish /\ Go("taken") /\ pack' = "held" /\ UNCHANGED <<signal, failure>>
    /\ UNCHANGED <<world, place, known, started, masked, named, receipt, verdict, faults>>

(* the payload is in the index, or not: its owner clears it *)
Cleared ==
    /\ at = "taken"
    /\ pack' = "cleared" /\ Go("rows")
    /\ UNCHANGED <<plan, world, taint, place, known, started, signal, masked, failure, named, receipt, verdict, faults>>

--------------------------------------------------------------------------------
(* The finally clause, with the signals masked *)

(* _block_materializer_cleanup_signals: a signal that arrives before the mask   *)
(* is a failure like any other                                                  *)
Mask ==
    /\ at = "finally" /\ ~masked
    /\ masked' = TRUE
    /\ IF signal = "pending"
       THEN /\ signal' = "taken" /\ failure' = IF failure = "none" THEN "signal" ELSE failure
       ELSE UNCHANGED <<signal, failure>>
    /\ Go("control")
    /\ UNCHANGED <<plan, world, taint, place, known, started, pack, named, receipt, verdict, faults>>

(* _cleanup_materializer_path: only the directory whose identity was recorded   *)
(* is removed; what is left is named                                            *)
Removed(p) ==
    \/ /\ Holds("parent") /\ place[p] # "absent"
       /\ p \in known /\ place[p] = "ours"
       /\ \/ place' = [place EXCEPT ![p] = "absent"] /\ UNCHANGED <<named, faults>>
          \/ Fails /\ named' = named \cup {p} /\ UNCHANGED place
    \/ /\ Holds("parent") /\ place[p] = "absent" /\ UNCHANGED <<place, named, faults>>
    \/ /\ ~Holds("parent") \/ (place[p] # "absent" /\ (p \notin known \/ place[p] # "ours"))
       /\ named' = named \cup {p} /\ UNCHANGED <<place, faults>>

RemoveControl ==
    /\ at = "control"
    /\ Removed("control")
    /\ IF signal = "pending"
       THEN signal' = "taken" /\ failure' = IF failure = "none" THEN "signal" ELSE failure
       ELSE UNCHANGED <<signal, failure>>
    /\ Go("worktree")
    /\ UNCHANGED <<plan, world, taint, known, started, pack, masked, receipt, verdict>>

(* Variant: a control directory that stays does not fail the run. *)
RemoveWorktreeOnFailure ==
    /\ at = "worktree"
    /\ IF failure # "none" /\ started
       THEN Removed("worktree") ELSE UNCHANGED <<place, named, faults>>
    /\ Go("late")
    /\ UNCHANGED <<plan, world, taint, known, started, pack, signal, masked, failure, receipt, verdict>>

RemoveWorktree ==
    /\ at = "worktree"
    /\ IF (failure # "none" \/ "control" \in named) /\ started
       THEN Removed("worktree") ELSE UNCHANGED <<place, named, faults>>
    /\ Go("late")
    /\ UNCHANGED <<plan, world, taint, known, started, pack, signal, masked, failure, receipt, verdict>>

(* a signal that came meanwhile *)
LateSignal ==
    /\ at = "late"
    /\ IF signal = "pending"
       THEN /\ signal' = "taken"
            /\ IF failure = "none" /\ started /\ "worktree" \notin named
               THEN Removed("worktree") ELSE UNCHANGED <<place, named, faults>>
            /\ failure' = IF failure = "none" THEN "signal" ELSE failure
       ELSE UNCHANGED <<signal, place, named, faults, failure>>
    /\ Go("conclude")
    /\ UNCHANGED <<plan, world, taint, known, started, pack, masked, receipt, verdict>>

Conclude ==
    /\ at = "conclude"
    /\ IF failure = "none" /\ named = {} THEN Go("emit") /\ UNCHANGED failure
       ELSE Go("named") /\ failure' = IF failure = "none" THEN "guard" ELSE failure
    /\ UNCHANGED <<plan, world, taint, place, known, started, pack, signal, masked, named, receipt, verdict, faults>>

(* _emit_materialized_receipt: a last look for a signal, then the receipt *)
Emit ==
    /\ at = "emit"
    /\ IF signal = "pending"
       THEN signal' = "taken" /\ failure' = "signal" /\ Go("unpublished") /\ UNCHANGED <<receipt, faults>>
       ELSE /\ \/ receipt' = "published" /\ Go("published") /\ UNCHANGED <<failure, faults>>
               \/ Fails /\ failure' = "guard" /\ Go("unpublished") /\ UNCHANGED receipt
            /\ UNCHANGED signal
    /\ UNCHANGED <<plan, world, taint, place, known, started, pack, masked, named, verdict>>

Unpublished ==
    /\ at = "unpublished"
    /\ Removed("worktree")
    /\ Go("named")
    /\ UNCHANGED <<plan, world, taint, known, started, pack, signal, masked, failure, receipt, verdict>>

(* the handlers only record from now on; what is pending is dropped and the     *)
(* mask restored: _restore_materializer_terminal_failure_mask after a failure   *)
Terminal ==
    /\ at \in {"published", "named"}
    /\ signal' = IF signal = "pending" THEN "dropped" ELSE signal
    /\ masked' = FALSE
    /\ Go(IF at = "published" THEN "validate" ELSE "end")
    /\ UNCHANGED <<plan, world, taint, place, known, started, pack, failure, named, receipt, verdict, faults>>

--------------------------------------------------------------------------------
(* validate_worktree, in the process that launches a reviewer *)

Validate ==
    /\ at = "validate"
    /\ plan' = Validation /\ taint' = {} /\ late' = {} /\ Go("validating")
    /\ UNCHANGED <<bad, changes, place, known, started, pack, signal, masked, failure, named, receipt, verdict, faults>>

ValidateRow ==
    /\ at = "validating"
    /\ LET row == Head(plan) IN
       /\ taint' = taint \cup {f \in row.uses : ~Holds(f)}
       /\ late' = late \ row.checks
       /\ IF \A f \in row.checks : Holds(f)
          THEN /\ plan' = Tail(plan)
               /\ IF Tail(plan) = <<>> THEN verdict' = "valid" /\ Go("end") ELSE UNCHANGED <<verdict, at>>
          ELSE verdict' = "invalid" /\ Go("end") /\ UNCHANGED plan
    /\ UNCHANGED <<bad, changes, place, known, started, pack, signal, masked, failure, named, receipt, faults>>

--------------------------------------------------------------------------------
(* Others *)

Live == at # "end"
Change ==
    /\ Live /\ changes < MaxChanges /\ changes' = changes + 1
    /\ \E f \in Facts \ bad :
         bad' = bad \cup {f} /\ late' = late \cup {f}
    /\ UNCHANGED <<at, plan, taint, place, known, started, pack, signal, masked, failure, named, receipt, verdict, faults>>

(* another directory takes a path; the lane's is elsewhere, no longer its own.  *)
(* Not while the identity of a directory just made is still to be recorded      *)
Swap ==
    /\ Live /\ changes < MaxChanges /\ changes' = changes + 1
    /\ \E p \in Places :
         /\ place[p] = "ours" => p \in known
         /\ place[p] = "absent" => p = "worktree"     \* the name of the other is random
         /\ place[p] # "other" /\ place' = [place EXCEPT ![p] = "other"]
    /\ UNCHANGED <<at, plan, bad, late, taint, known, started, pack, signal, masked, failure, named, receipt, verdict, faults>>

Raise ==
    /\ at \notin {"end", "validate", "validating"} /\ signal = "none"
    /\ signal' = "pending"
    /\ UNCHANGED <<at, plan, world, taint, place, known, started, pack, masked, failure, named, receipt, verdict, faults>>

Lane == \/ Interrupt \/ Resolve \/ MakeControl \/ CheckSource \/ MakeWorktree \/ Started \/ Own \/ Step \/ Pack
        \/ Cleared \/ Mask \/ RemoveControl \/ RemoveWorktree \/ LateSignal \/ Conclude \/ Emit \/ Unpublished
        \/ Terminal \/ Validate \/ ValidateRow
Others == Change \/ Swap \/ Raise

Init ==
    /\ at = "resolve" /\ plan = <<>>
    /\ bad = {} /\ taint = {} /\ late = {}
    /\ place = [p \in Places |-> "absent"] /\ known = {} /\ started = FALSE
    /\ pack = "absent" /\ signal = "none" /\ masked = FALSE /\ failure = "none"
    /\ named = {} /\ receipt = "none" /\ verdict = "none"
    /\ changes = 0 /\ faults = 0

Next == Lane \/ Others
Spec == Init /\ [][Next]_vars

--------------------------------------------------------------------------------
(* Properties *)

(* The state is of its type: the lane removes and names directories only with   *)
(* the signals masked once it has made one.                                     *)
TypeOK ==
    /\ bad \subseteq Facts /\ late \subseteq Facts /\ taint \subseteq Facts \cup Places
    /\ \A p \in Places : place[p] \in {"absent", "ours", "other"}
    /\ known \subseteq Places /\ named \subseteq Places
    /\ signal \in {"none", "pending", "taken", "dropped"}
    /\ at \in {"control", "worktree", "late", "conclude", "emit", "unpublished", "published"} => masked

(* A receipt says what was true of all that Git read: a change made by others   *)
(* before or while a command used it is seen by a later check                   *)
(* (materialize_worktree).                                                      *)
ReceiptIsClean == at \in {"emit", "published"} => taint = {}

(* A validation says so as well, and what was changed before it began or before *)
(* its last look is found (validate_worktree).                                  *)
ValidationIsClean ==
    verdict = "valid" => /\ taint = {}
                         /\ bad \cap {"config", "info", "storage", "refs", "head", "files"} \subseteq late

(* What the lane made and does not publish is removed or named in its error,    *)
(* whatever signal or failure ends it, except the directory made in the instant *)
(* before the lane records that it made one.                                    *)
LeftIsNamed ==
    at = "end" =>
        \A p \in Places : place[p] = "ours" =>
            \/ p \in named
            \/ p = "worktree" /\ receipt = "published"
            \/ p = "worktree" /\ ~started

(* The bytes of the pack do not outlive the import (_MaterializerPackPayloadOwner). *)
PackIsCleared == at \in {"control", "worktree", "late", "conclude", "emit", "end"} => pack # "held"

(* A signal seen before the receipt prevents it, and a receipt is never taken   *)
(* back (_emit_materialized_receipt).                                           *)
SignalPrevails == (receipt = "published" => signal # "taken" /\ failure = "none")

(* A directory that another process put at one of the lane's paths stays. *)
OthersStay == \A p \in Places : place[p] = "other" => place'[p] = "other"
ForeignStays ==
    [][OthersStay]_vars
================================================================================
