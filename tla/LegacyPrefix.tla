------------------------------ MODULE LegacyPrefix ------------------------------
(* The receipts for short object names of an old report (named_lane.py): Git is *)
(* asked, through an empty repository made for it, whether each name stands for *)
(* one commit the head descends from.  Others may change what Git reads, and    *)
(* replace or move the two directories made for it, between any two steps; what *)
(* they change is never changed back.  A signal may arrive at any time.         *)
EXTENDS Naturals, FiniteSets

CONSTANTS Count,                              \* the names asked about are 1..Count
          MaxFaults, MaxChanges, MaxSignals   \* bounds: failing calls, changes, signals

Prefixes == 1..Count
Kinds == {"ancestor", "stranger", "blob", "ambiguous", "head"}
Places == {"control", "view"}
(* control content of the source, its paths and their policy, its object store *)
Source == {"content", "paths", "store"}
Facts == Source \cup Places \cup {"parent"}

VARIABLES at, k,              \* the step, and the query it is at
          truth, complete,    \* what each name stands for; the history has no gaps
          bad, taint,         \* what others have changed; what of it an answer was read with
          place,              \* what is at each path: nothing, the lane's, another's
          known, made,        \* recorded identities; view_started
          answer,             \* of the query: yes, no, or nothing usable
          handlers, mask, pending,
          early,              \* a signal came before the receipt was due
          failure, named,     \* what the call raises, and what it says is retained
          out, committed, exit,
          torn,               \* a late signal took the place of the error
          faults, changes, signals

asked == <<k, truth, complete, answer>>
world == <<bad, place, changes>>
held == <<known, made>>
masks == <<handlers, mask, pending>>
told == <<failure, named, out, committed, exit, torn>>
vars == <<at, asked, world, taint, held, masks, early, told, faults, signals>>

Steps == {"parent", "makeControl", "bindControl", "controlDone", "version", "source", "bind", "makeView", "bindView",
          "viewDone", "ask", "run", "judge", "final", "finally", "dropView", "dropControl", "sum", "emit", "leave",
          "answer", "over"}

TypeOK ==
    /\ at \in Steps /\ k \in 1..(3 + 3 * Count)
    /\ truth \in [Prefixes -> Kinds] /\ complete \in BOOLEAN /\ answer \in {"none", "yes", "no", "broken"}
    /\ bad \subseteq Facts /\ taint \subseteq Facts
    /\ place \in [Places -> {"none", "ours", "others"}] /\ known \subseteq Places /\ made \in BOOLEAN
    /\ handlers \in {"caller", "raise", "record"} /\ mask \in BOOLEAN /\ pending \in BOOLEAN /\ early \in BOOLEAN
    /\ failure \in {"none", "guard", "inconclusive", "signal", "retained"}
    /\ named \in [Places -> {"none", "path", "locator"}]
    /\ out \in {"none", "part", "whole"} /\ committed \in BOOLEAN
    /\ exit \in {"running", "ok", "failed", "killed"} /\ torn \in BOOLEAN
    /\ faults \in 0..MaxFaults /\ changes \in 0..MaxChanges /\ signals \in 0..MaxSignals

Init ==
    /\ at = "parent" /\ k = 1
    /\ truth \in [Prefixes -> Kinds] /\ complete \in BOOLEAN /\ answer = "none"
    /\ bad = {} /\ taint = {} /\ place = [p \in Places |-> "none"] /\ known = {} /\ made = FALSE
    /\ handlers = "raise" /\ mask = FALSE /\ pending = FALSE /\ early = FALSE
    /\ failure = "none" /\ named = [p \in Places |-> "none"]
    /\ out = "none" /\ committed = FALSE /\ exit = "running" /\ torn = FALSE
    /\ faults = 0 /\ changes = 0 /\ signals = 0

Go(a) == at' = a
Fault == faults < MaxFaults /\ faults' = faults + 1
Undisturbed == mask \/ ~pending
Intact(facts) == bad \cap facts = {}
Fails(kind) == failure' = kind /\ Go("finally")

--------------------------------------------------------------------------------
(* Others *)

Change ==
    /\ changes < MaxChanges /\ changes' = changes + 1
    /\ \/ \E f \in (Source \cup {"parent"}) \ bad : bad' = bad \cup {f} /\ UNCHANGED place
       \/ \E p \in {p \in Places : place[p] = "ours" \/ p = "view"} :
              /\ place' \in {[place EXCEPT ![p] = "others"], [place EXCEPT ![p] = "none"]} /\ place' # place
              /\ bad' = (IF place[p] = "ours" THEN bad \cup {p} ELSE bad)
    /\ UNCHANGED <<at, asked, taint, held, masks, early, told, faults, signals>>
Arrive ==
    /\ at # "over" /\ ~pending /\ signals < MaxSignals /\ signals' = signals + 1 /\ pending' = TRUE
    /\ early' = (early \/ (at \notin {"leave", "answer"}))
    /\ UNCHANGED <<at, asked, world, taint, held, handlers, mask, told, faults>>

(* raised in the call or while its cleanup takes the mask, ignored after that *)
Raised ==
    /\ pending /\ ~mask /\ handlers = "raise" /\ pending' = FALSE
    /\ IF at = "finally" THEN UNCHANGED at /\ failure' = (IF failure = "none" THEN "signal" ELSE failure)
                         ELSE Fails("signal")
    /\ UNCHANGED <<asked, world, taint, held, handlers, mask, early, named, out, committed, exit, torn, faults, signals>>
Recorded ==
    /\ pending /\ ~mask /\ handlers = "record" /\ pending' = FALSE
    /\ UNCHANGED <<at, asked, world, taint, held, handlers, mask, early, told, faults, signals>>
Killed ==
    /\ pending /\ ~mask /\ handlers = "caller" /\ at = "answer" /\ pending' = FALSE /\ exit' = "killed" /\ Go("over")
    /\ UNCHANGED <<asked, world, taint, held, handlers, mask, early, failure, named, out, committed, torn, faults, signals>>

--------------------------------------------------------------------------------
(* The setup *)

(* _restore_materializer_terminal_failure_mask: from here on signals are ignored *)
EndSignals == handlers' = "record" /\ pending' = FALSE /\ mask' = FALSE

(* one that uses some facts and checks others *)
Row(step, uses, checks, next) ==
    /\ at = step /\ Undisturbed /\ taint' = taint \cup (uses \cap bad)
    /\ \/ Intact(checks) /\ Go(next) /\ UNCHANGED <<failure, faults>>
       \/ ~Intact(checks) /\ Fails("guard") /\ UNCHANGED faults
       \/ Fault /\ Fails("guard")
    /\ UNCHANGED <<asked, world, held, masks, early, named, out, committed, exit, torn, signals>>

(* _verify_legacy_prefix_parent, _verify_legacy_prefix_control, _verify_legacy_prefix_view, *)
(* _verify_legacy_prefix_source                                                             *)
ParentFacts == {"parent"}
ControlFacts == {"parent", "control"}
ViewFacts == {"parent", "view"}
PathFacts == {"paths"}
StoreFacts == {"store"}
SourceFacts == {"content"} \cup PathFacts \cup StoreFacts
AllFacts == SourceFacts \cup ViewFacts \cup ControlFacts

Parent == Row("parent", {}, ParentFacts, "makeControl")
GitVersion == Row("version", {"control"}, ControlFacts, "source")
ValidateSource == Row("source", {"control"}, ControlFacts \cup {"paths"}, "bind")
BindSource == Row("bind", {"control"}, SourceFacts \cup ControlFacts, "makeView")

(* a step of the setup under the mask that fails *)
MaskedFailure == Fails("guard") /\ EndSignals

(* _make_materializer_control_directory: on a failure it removes what it made *)
MakeControl ==
    /\ at = "makeControl" /\ Undisturbed
    /\ \/ /\ Intact({"parent"}) /\ mask' = TRUE /\ place' = [place EXCEPT !["control"] = "ours"] /\ known' = known \cup {"control"}
          /\ Go("bindControl") /\ UNCHANGED <<handlers, pending, failure, named, faults>>
       \/ ~Intact({"parent"}) /\ MaskedFailure /\ UNCHANGED <<place, known, named, faults>>
       \/ /\ Fault /\ MaskedFailure /\ UNCHANGED known
          /\ \/ UNCHANGED <<place, named>>
             \/ place' = [place EXCEPT !["control"] = "ours"] /\ named' = [named EXCEPT !["control"] = "path"]
    /\ UNCHANGED <<asked, bad, changes, taint, made, early, out, committed, exit, torn, signals>>
BindControl ==
    /\ at = "bindControl"
    /\ \/ Intact(ControlFacts) /\ Go("controlDone") /\ UNCHANGED <<masks, failure, faults>>
       \/ ~Intact(ControlFacts) /\ MaskedFailure /\ UNCHANGED faults
       \/ Fault /\ MaskedFailure
    /\ UNCHANGED <<asked, world, taint, held, early, named, out, committed, exit, torn, signals>>
(* consume_pending_forwarded_signal, and the mask is restored *)
SetupDone(step, next) ==
    /\ at = step
    /\ IF pending THEN Fails("signal") /\ EndSignals
                  ELSE Go(next) /\ mask' = FALSE /\ UNCHANGED <<handlers, pending, failure>>
    /\ UNCHANGED <<asked, world, taint, held, early, named, out, committed, exit, torn, faults, signals>>
ControlDone == SetupDone("controlDone", "version")
ViewDone == SetupDone("viewDone", "ask")

(* a path that is taken already is an error, and not the lane's to remove *)
MakeView ==
    /\ at = "makeView" /\ Undisturbed
    /\ \/ /\ Intact({"parent"}) /\ place["view"] = "none" /\ mask' = TRUE
          /\ place' = [place EXCEPT !["view"] = "ours"] /\ made' = TRUE /\ Go("bindView")
          /\ UNCHANGED <<handlers, pending, failure, faults>>
       \/ ~(Intact({"parent"}) /\ place["view"] = "none") /\ MaskedFailure /\ UNCHANGED <<place, made, faults>>
       \/ Fault /\ MaskedFailure /\ UNCHANGED <<place, made>>
    /\ UNCHANGED <<asked, bad, changes, taint, known, early, named, out, committed, exit, torn, signals>>
(* _make_legacy_prefix_view: its identity, its directories and files *)
BindView ==
    /\ at = "bindView"
    /\ \/ known' = known \cup {"view"} /\ Intact(ViewFacts) /\ Go("viewDone") /\ UNCHANGED <<masks, failure, faults>>
       \/ known' \in {known, known \cup {"view"}} /\ ~Intact(ViewFacts) /\ MaskedFailure /\ UNCHANGED faults
       \/ known' \in {known, known \cup {"view"}} /\ Fault /\ MaskedFailure
    /\ UNCHANGED <<asked, world, taint, made, early, named, out, committed, exit, torn, signals>>

--------------------------------------------------------------------------------
(* The queries: the head, the completeness of its history, and three per name *)

Query == IF k = 1 THEN "head" ELSE IF k = 2 THEN "complete" ELSE <<"resolve", "type", "ancestor">>[((k - 3) % 3) + 1]
Asked == ((k - 3) \div 3) + 1
(* what Git says *)
Truth ==
    CASE Query = "head" -> TRUE
      [] Query = "complete" -> complete
      [] Query = "resolve" -> truth[Asked] # "ambiguous"
      [] Query = "type" -> truth[Asked] # "blob"
      [] Query = "ancestor" -> truth[Asked] # "stranger"

(* _legacy_prefix_git_capture *)
Ask ==
    /\ at = "ask" /\ Undisturbed
    /\ IF k = 3 /\ \E p \in Prefixes : truth[p] = "head" THEN Fails("inconclusive")
       ELSE IF ~Intact(AllFacts) THEN Fails("guard") ELSE Go("run") /\ UNCHANGED failure
    /\ UNCHANGED <<asked, world, taint, held, masks, early, named, out, committed, exit, torn, faults, signals>>
(* Git answers from what it finds, or it fails, is too slow or says too much *)
Run ==
    /\ at = "run" /\ Undisturbed /\ Go("judge") /\ taint' = taint \cup bad
    /\ \/ answer' = (IF Truth THEN "yes" ELSE "no") /\ UNCHANGED faults
       \/ bad # {} /\ answer' \in {"yes", "no"} /\ UNCHANGED faults
       \/ Fault /\ answer' = "broken"
    /\ UNCHANGED <<k, truth, complete, world, held, masks, early, told, signals>>
(* checked again, whatever the process did; then the answer *)
Judge ==
    /\ at = "judge" /\ Undisturbed /\ answer' = "none"
    /\ \/ ~Intact(AllFacts) /\ Fails("guard") /\ UNCHANGED k
       \/ /\ Intact(AllFacts) /\ answer = "yes" /\ k' = k + 1
          /\ Go(IF k = 2 + 3 * Count THEN "final" ELSE "ask") /\ UNCHANGED failure
       \/ Intact(AllFacts) /\ answer = "no" /\ Fails(IF Query = "complete" THEN "guard" ELSE "inconclusive") /\ UNCHANGED k
       \/ Intact(AllFacts) /\ answer = "broken" /\ Fails("guard") /\ UNCHANGED k
    /\ UNCHANGED <<truth, complete, world, taint, held, masks, early, named, out, committed, exit, torn, faults, signals>>
FinalCheck == Row("final", {}, AllFacts, "finally")

--------------------------------------------------------------------------------
(* The way out *)

(* _block_materializer_cleanup_signals, which goes on when a signal interrupts it *)
Finally ==
    /\ at = "finally" /\ Undisturbed /\ mask' = TRUE /\ Go(IF made THEN "dropView" ELSE "dropControl")
    /\ UNCHANGED <<asked, world, taint, held, handlers, pending, early, told, faults, signals>>
(* _cleanup_materializer_path: what has the recorded identity is removed *)
Stays(p) == ~Intact({"parent"}) \/ place[p] = "others" \/ (place[p] = "ours" /\ p \notin known)
(* _legacy_prefix_retained_evidence: a path that was seen to hold it, or where it was *)
Evidence(p) == IF Intact({"parent"}) /\ p \in known /\ place[p] = "ours" THEN "path" ELSE "locator"
Drop(p, next) ==
    /\ Go(next)
    /\ \/ place[p] = "none" /\ Intact({"parent"}) /\ UNCHANGED <<place, named, faults>>
       \/ Stays(p) /\ named' = [named EXCEPT ![p] = Evidence(p)] /\ UNCHANGED <<place, faults>>
       \/ ~Stays(p) /\ place[p] # "none" /\ place' = [place EXCEPT ![p] = "none"] /\ UNCHANGED <<named, faults>>
       \/ ~Stays(p) /\ place[p] # "none" /\ Fault /\ named' = [named EXCEPT ![p] = Evidence(p)] /\ UNCHANGED place
DropView ==
    /\ at = "dropView" /\ Drop("view", "dropControl")
    /\ UNCHANGED <<asked, bad, changes, taint, held, masks, early, failure, out, committed, exit, torn, signals>>
DropControl ==
    /\ at = "dropControl"
    /\ IF "control" \in known THEN Drop("control", "sum") ELSE Go("sum") /\ UNCHANGED <<place, named, faults>>
    /\ UNCHANGED <<asked, bad, changes, taint, held, masks, early, failure, out, committed, exit, torn, signals>>
(* what is retained is the error, then what had failed, then a signal *)
Sum ==
    /\ at = "sum"
    /\ LET first == IF failure = "none" /\ pending THEN "signal" ELSE failure
           last == IF \E p \in Places : named[p] # "none" /\ (p = "control" => p \in known) THEN "retained" ELSE first
       IN /\ failure' = last
          /\ IF last = "none" THEN Go("emit") /\ UNCHANGED masks ELSE Go("leave") /\ EndSignals
    /\ UNCHANGED <<asked, world, taint, held, early, named, out, committed, exit, torn, faults, signals>>
(* _emit_legacy_prefix_receipt *)
Emit ==
    /\ at = "emit" /\ EndSignals /\ Go("leave")
    /\ \/ pending /\ failure' = "signal" /\ UNCHANGED <<out, committed, faults>>
       \/ ~pending /\ out' = "whole" /\ committed' = TRUE /\ UNCHANGED <<failure, faults>>
       \/ ~pending /\ Fault /\ out' \in {"none", "part"} /\ failure' = "guard" /\ UNCHANGED committed
    /\ UNCHANGED <<asked, world, taint, held, early, named, exit, torn, signals>>
(* the context ends: without a receipt a signal that waits takes the error's place *)
Leave ==
    /\ at = "leave"
    /\ \/ Undisturbed /\ ~mask /\ mask' = TRUE /\ UNCHANGED <<at, handlers, pending, failure, torn>>
       \/ /\ mask /\ handlers' = "caller" /\ pending' = FALSE /\ mask' = FALSE /\ Go("answer")
          /\ torn' = (pending /\ ~committed) /\ failure' = (IF torn' THEN "signal" ELSE failure)
    /\ UNCHANGED <<asked, world, taint, held, early, named, out, committed, exit, faults, signals>>
(* legacy_short_prefix_compatibility_main *)
Answer ==
    /\ at = "answer" /\ Undisturbed /\ exit' = (IF committed THEN "ok" ELSE "failed") /\ Go("over")
    /\ UNCHANGED <<asked, world, taint, held, masks, early, failure, named, out, committed, torn, faults, signals>>

Others == Change \/ Arrive
Call ==
    \/ Raised \/ Recorded \/ Killed \/ Parent \/ MakeControl \/ BindControl \/ ControlDone \/ GitVersion \/ ValidateSource
    \/ BindSource \/ MakeView \/ BindView \/ ViewDone \/ Ask \/ Run \/ Judge \/ FinalCheck \/ Finally \/ DropView
    \/ DropControl \/ Sum \/ Emit \/ Leave \/ Answer
Next == Others \/ Call
Spec == Init /\ [][Next]_vars
FairSpec == Spec /\ WF_vars(Call)

--------------------------------------------------------------------------------
Good == complete /\ \A p \in Prefixes : truth[p] = "ancestor"

(* Receipts are given only when every name stands for one commit the head       *)
(* descends from, in a history without gaps, and nothing that an answer was     *)
(* read from had been changed.                                                  *)
ReceiptIsTrue == out = "whole" => Good /\ taint = {}

(* A name is called unusable only because it is, not because a process failed   *)
(* or something was changed.                                                    *)
InconclusiveIsTrue == failure = "inconclusive" => (\E p \in Prefixes : truth[p] # "ancestor") /\ taint = {}

(* A receipt says that the temporary directories are gone, and they are; what   *)
(* an error leaves it names, but for a signal that struck after the error.      *)
LeftIsNamed ==
    /\ out = "whole" => \A p \in Places : place[p] # "ours" /\ named[p] = "none"
    /\ exit = "failed" /\ ~torn =>
           \A p \in Places : place[p] = "ours" => named[p] # "none" /\ failure \in {"retained", "guard"}

(* A signal that comes before the receipt is due keeps it from being given. *)
SignalUndoes == early => out # "whole"

(* Another's directory at one of the paths stays. *)
OthersStay == changes' = changes => \A p \in Places : place[p] = "others" => place'[p] = "others"

(* Every call is answered. *)
Begun == at = "parent"
Ended == at = "over"
================================================================================
