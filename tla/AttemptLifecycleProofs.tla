------------------------ MODULE AttemptLifecycleProofs ------------------------
(***************************************************************************)
(* What holds of an attempt for every bound on the reboots. First what is  *)
(* written: its types, and that no commit is lost because two writers met. *)
(* Then what its processes do: that nothing runs before the record says    *)
(* who owns it, that a verdict stands for a reviewer that succeeded, what a*)
(* settlement of the process or the checkout proves, that a conclusion and *)
(* a delivered result are for ever, and that the attempt implements what   *)
(* ReviewAttempt promises.                                                 *)
(***************************************************************************)
EXTENDS AttemptLifecycle, TLAPS

-----------------------------------------------------------------------------
(* Lemmas about one commit: every kind yields a record of the type. *)

LEMMA FieldValues ==
  /\ {"reserved", "worktree-adding", "validating", "spawn-intent",
      "launched", "review-finished", "terminal-authorization-pending",
      "reviewed", "prelaunch-aborted", "post-review-aborted"} = Phases
  /\ {"none", "pending", "accepted", "complete", "aborted"} = Handoffs
  /\ "outer" \in Owners /\ "attempt-supervisor" \in Owners
  /\ "not-attempted" \in Launches /\ "spawn-intent" \in Launches
  /\ "launched" \in Launches /\ "completed" \in Launches
  /\ "uncertain" \in Launches /\ "prelaunch-aborted" \in Launches
  /\ "none" \in RecordStages /\ "auth-refresh" \in RecordStages
  /\ "reviewer" \in RecordStages
  /\ "none" \in Exits /\ "zero" \in Exits /\ "nonzero" \in Exits
  /\ "not-run" \in Reviews /\ "inconclusive" \in Reviews
  /\ "verdict" \in Reviews
  /\ "unproven" \in Closures /\ "proven-by-owner" \in Closures
  /\ "proven-by-boot-change" \in Closures
  /\ "unset" \in Abandonments /\ "no" \in Abandonments
  /\ "yes" \in Abandonments
  /\ "absent" \in Worktrees /\ "adding" \in Worktrees
  /\ "active" \in Worktrees /\ "index-initialized" \in Worktrees
  /\ "validated" \in Worktrees /\ "retained-worktree" \in Worktrees
  /\ "removed" \in Worktrees /\ "manual-recovery-required" \in Worktrees
  /\ "outstanding" \in Settlements /\ "exact" \in Settlements
  /\ "none" \in Intents /\ "outstanding" \in Intents
  /\ "complete" \in Intents
  /\ "none" \in Terminals /\ "completed" \in Terminals
  /\ "blocked" \in Terminals
  /\ "envelope" \in Charges /\ "exact" \in Charges
  /\ "created" \in LastCommits /\ Kinds \subseteq LastCommits
BY DEF Phases, Handoffs, Owners, Launches, RecordStages, Stages, Exits,
       Reviews, Closures, Abandonments, Worktrees, Settlements, Intents,
       Terminals, Charges, LastCommits

LEMMA ReservedRecordType == ReservedRecord \in Record
BY FieldValues DEF ReservedRecord, Record

LEMMA HandoffUpdateType ==
  ASSUME NEW r \in Record, NEW k \in HandoffKinds
  PROVE  HandoffUpdate(k, r) \in Record
<1>1. CASE k = "prompt"
  BY <1>1, FieldValues DEF HandoffUpdate, Record
<1>2. CASE k = "pending"
  BY <1>2, FieldValues DEF HandoffUpdate, Record
<1>3. CASE k = "accepted"
  BY <1>3, FieldValues DEF HandoffUpdate, Record
<1>4. CASE k = "complete"
  BY <1>4, FieldValues DEF HandoffUpdate, Record
<1>5. CASE k = "abort"
  BY <1>5, FieldValues DEF HandoffUpdate, Record
<1> QED BY <1>1, <1>2, <1>3, <1>4, <1>5 DEF HandoffKinds

LEMMA CheckoutUpdateType ==
  ASSUME NEW r \in Record, NEW k \in CheckoutKinds
  PROVE  CheckoutUpdate(k, r) \in Record
<1>1. CASE k = "adding"
  BY <1>1, FieldValues DEF CheckoutUpdate, Record
<1>2. CASE k = "control"
  BY <1>2, FieldValues DEF CheckoutUpdate, Record
<1>3. CASE k = "registered"
  BY <1>3, FieldValues DEF CheckoutUpdate, Record
<1>4. CASE k = "index"
  BY <1>4, FieldValues DEF CheckoutUpdate, Record
<1>5. CASE k = "phase0"
  BY <1>5, FieldValues DEF CheckoutUpdate, Record
<1>6. CASE k = "validated"
  BY <1>6, FieldValues DEF CheckoutUpdate, Record
<1> QED BY <1>1, <1>2, <1>3, <1>4, <1>5, <1>6 DEF CheckoutKinds

LEMMA LifecycleUpdateType ==
  ASSUME NEW r \in Record, NEW k \in LifecycleKinds
  PROVE  LifecycleUpdate(k, r) \in Record
<1>1. CASE k = "spawn-refresh"
  BY <1>1, FieldValues DEF LifecycleUpdate, Record
<1>2. CASE k = "spawn-reviewer"
  BY <1>2, FieldValues DEF LifecycleUpdate, Record
<1>3. CASE k = "launched"
  BY <1>3, FieldValues DEF LifecycleUpdate, Record
<1>4. CASE k = "closed-zero"
  BY <1>4, FieldValues DEF LifecycleUpdate, Record
<1>5. CASE k = "closed-nonzero"
  BY <1>5, FieldValues DEF LifecycleUpdate, Record
<1> QED BY <1>1, <1>2, <1>3, <1>4, <1>5 DEF LifecycleKinds, SpawnKinds, ClosedKinds

LEMMA VerdictUpdateType ==
  ASSUME NEW r \in Record, NEW k \in VerdictKinds
  PROVE  VerdictUpdate(k, r) \in Record
BY FieldValues DEF VerdictUpdate, VerdictKinds, Record

LEMMA FailureUpdateType ==
  ASSUME NEW r \in Record, NEW k \in FailureKinds
  PROVE  FailureUpdate(k, r) \in Record
<1> DEFINE gone == IF k = "failure-abandoned" THEN "yes" ELSE "no"
           kept == IF r.closure = "proven-by-owner"
                   THEN "proven-by-owner" ELSE "unproven"
<1>1. gone \in Abandonments /\ kept \in Closures
  BY FieldValues
<1>2. [r EXCEPT !.phase = "prelaunch-aborted",
                !.launch = "prelaunch-aborted", !.review = "not-run",
                !.closure = "proven-by-owner", !.abandoned = gone] \in Record
  <2> HIDE DEF gone
  <2> QED BY <1>1, FieldValues DEF Record
<1>3. [r EXCEPT !.launch = "uncertain", !.review = "inconclusive",
                !.closure = "unproven", !.abandoned = gone] \in Record
  <2> HIDE DEF gone
  <2> QED BY <1>1, FieldValues DEF Record
<1>4. [r EXCEPT !.launch = "launched", !.review = "inconclusive",
                !.closure = "unproven", !.abandoned = gone] \in Record
  <2> HIDE DEF gone
  <2> QED BY <1>1, FieldValues DEF Record
<1>5. [r EXCEPT !.review = "inconclusive", !.abandoned = gone,
                !.closure = kept] \in Record
  <2> HIDE DEF gone, kept
  <2> QED BY <1>1, FieldValues DEF Record
<1>6. CASE r.phase \in {"reserved", "worktree-adding", "validating"}
  BY <1>6, <1>2 DEF FailureUpdate
<1>7. CASE r.phase = "spawn-intent"
  BY <1>7, <1>2, <1>3 DEF FailureUpdate
<1>8. CASE r.phase = "launched"
  BY <1>8, <1>4 DEF FailureUpdate
<1>9. CASE r.phase \notin {"reserved", "worktree-adding", "validating",
                           "spawn-intent", "launched"}
  BY <1>9, <1>5 DEF FailureUpdate
<1> QED BY <1>6, <1>7, <1>8, <1>9

LEMMA CleanupUpdateType ==
  ASSUME NEW r \in Record, NEW k \in CleanupKinds
  PROVE  CleanupUpdate(k, r) \in Record
<1>1. CASE k = "absent"
  BY <1>1, FieldValues DEF CleanupUpdate, Record
<1>2. CASE k = "cleanup-intent"
  BY <1>2, FieldValues DEF CleanupUpdate, Record
<1>3. CASE k = "cleanup-progress"
  BY <1>3, FieldValues DEF CleanupUpdate, Record
<1>4. CASE k = "removed"
  BY <1>4, FieldValues DEF CleanupUpdate, Record
<1>5. CASE k = "manual"
  BY <1>5, FieldValues DEF CleanupUpdate, Record
<1>6. CASE k = "manual-recover"
  BY <1>6, FieldValues DEF CleanupUpdate, Record
<1> QED BY <1>1, <1>2, <1>3, <1>4, <1>5, <1>6 DEF CleanupKinds

LEMMA SettleUpdateType ==
  ASSUME NEW r \in Record, NEW k \in SettleKinds
  PROVE  SettleUpdate(k, r) \in Record
BY FieldValues DEF SettleUpdate, SettleKinds, Record

LEMMA RecoverUpdateType ==
  ASSUME NEW r \in Record, NEW k \in RecoverKinds
  PROVE  RecoverUpdate(k, r) \in Record
<1>1. CASE k = "conserve"
  BY <1>1, FieldValues DEF RecoverUpdate, Record
<1>2. CASE k = "recovered"
  <2> DEFINE proof == IF r.phase \in PostReview
                      THEN "proven-by-owner" ELSE "proven-by-boot-change"
             lost(ph, l, v) ==
               [r EXCEPT !.phase = ph, !.launch = l, !.review = v,
                         !.closure = proof, !.abandoned = "yes",
                         !.terminal = "completed"]
  <2>1. proof \in Closures
    BY FieldValues
  <2>2. ASSUME NEW ph \in Phases, NEW l \in Launches, NEW v \in Reviews
        PROVE  lost(ph, l, v) \in Record
    <3> HIDE DEF proof
    <3> QED BY <2>1, FieldValues DEF Record
  <2>3. \/ RecoverUpdate(k, r) =
             lost("spawn-intent", "uncertain", "inconclusive")
        \/ RecoverUpdate(k, r) = lost("launched", "launched", "inconclusive")
        \/ RecoverUpdate(k, r) =
             lost("post-review-aborted", "completed", "inconclusive")
        \/ RecoverUpdate(k, r) =
             lost("prelaunch-aborted", "prelaunch-aborted", "not-run")
    <3>1. CASE r.phase = "spawn-intent"
      BY <1>2, <3>1 DEF RecoverUpdate, PostReview
    <3>2. CASE r.phase = "launched"
      BY <1>2, <3>2 DEF RecoverUpdate, PostReview
    <3>3. CASE r.phase \in PostReview
      BY <1>2, <3>3 DEF RecoverUpdate, PostReview
    <3>4. CASE r.phase \notin PostReview \cup {"spawn-intent", "launched"}
      BY <1>2, <3>4 DEF RecoverUpdate
    <3> QED BY <3>1, <3>2, <3>3, <3>4
  <2> HIDE DEF lost
  <2> QED BY <2>2, <2>3, FieldValues
<1>3. CASE k = "charge"
  BY <1>3, FieldValues DEF RecoverUpdate, Record
<1> QED BY <1>1, <1>2, <1>3 DEF RecoverKinds

LEMMA UpdateType ==
  ASSUME NEW r \in Record, NEW k \in Kinds
  PROVE  Update(k, r) \in Record
<1> DEFINE next ==
      CASE k \in HandoffKinds   -> HandoffUpdate(k, r)
        [] k \in CheckoutKinds  -> CheckoutUpdate(k, r)
        [] k \in LifecycleKinds -> LifecycleUpdate(k, r)
        [] k \in VerdictKinds   -> VerdictUpdate(k, r)
        [] k \in FailureKinds   -> FailureUpdate(k, r)
        [] k \in CleanupKinds   -> CleanupUpdate(k, r)
        [] k \in SettleKinds    -> SettleUpdate(k, r)
        [] k \in RecoverKinds   -> RecoverUpdate(k, r)
<1>1. next \in Record
  BY HandoffUpdateType, CheckoutUpdateType, LifecycleUpdateType,
     VerdictUpdateType, FailureUpdateType, CleanupUpdateType,
     SettleUpdateType, RecoverUpdateType DEF Kinds
<1>2. Update(k, r) = [next EXCEPT !.last = k]
  BY DEF Update
<1> HIDE DEF next
<1>3. [next EXCEPT !.last = k] \in Record
  BY <1>1, FieldValues DEF Record
<1> QED BY <1>2, <1>3

-----------------------------------------------------------------------------
(* Lemmas about labels. *)

LEMMA LabelFacts ==
  /\ LabelsOf("outer") = OuterLabels /\ LabelsOf("sup") = SupLabels
  /\ LabelsOf("operator") = OperatorLabels
  /\ OuterLabels \subseteq Labels /\ SupLabels \subseteq Labels
  /\ OperatorLabels \subseteq Labels
  /\ Procs = {"outer", "sup", "operator"}
BY DEF LabelsOf, Labels, Procs

LEMMA PcUpdate ==
  ASSUME pc \in [Procs -> Labels], \A p \in Procs : pc[p] \in LabelsOf(p),
         NEW q \in Procs, NEW l \in LabelsOf(q),
         pc' = [pc EXCEPT ![q] = l]
  PROVE  /\ pc' \in [Procs -> Labels]
         /\ \A p \in Procs : pc'[p] \in LabelsOf(p)
BY LabelFacts

LEMMA AfterSup ==
  ASSUME NEW k \in Kinds \cap SupLabels
  PROVE  After("sup", k) \subseteq SupLabels
BY DEF After, AfterCheckout, AfterClosed, AfterCleanup, SupFailures, SupLabels, Finished, Kinds,
       HandoffKinds, CheckoutKinds, LifecycleKinds, SpawnKinds, ClosedKinds,
       VerdictKinds, FailureKinds, CleanupKinds, SettleKinds, RecoverKinds

LEMMA AfterOuter ==
  ASSUME NEW k \in Kinds \cap OuterLabels
  PROVE  After("outer", k) \subseteq OuterLabels
BY DEF After, AfterCleanup, OuterLabels, Finished, Kinds,
       HandoffKinds, CheckoutKinds, LifecycleKinds, SpawnKinds, ClosedKinds,
       VerdictKinds, FailureKinds, CleanupKinds, SettleKinds, RecoverKinds

LEMMA AfterOperator ==
  ASSUME NEW k \in Kinds \cap OperatorLabels
  PROVE  After("operator", k) \subseteq OperatorLabels
BY DEF After, AfterCleanup, OperatorLabels, Kinds,
       HandoffKinds, CheckoutKinds, LifecycleKinds, SpawnKinds, ClosedKinds,
       VerdictKinds, FailureKinds, CleanupKinds, SettleKinds, RecoverKinds

LEMMA OnFailSup ==
  ASSUME NEW k \in Kinds \cap SupLabels
  PROVE  OnFail("sup", k) \subseteq SupLabels
BY DEF OnFail, SupFailures, CleanupFailures, CleanupCommits, SupLabels,
       Finished, SpawnKinds

LEMMA OnFailOuter ==
  ASSUME NEW k \in Kinds \cap OuterLabels
  PROVE  OnFail("outer", k) \subseteq OuterLabels
BY DEF OnFail, CleanupFailures, CleanupCommits, OuterLabels, Finished,
       SpawnKinds

LEMMA OnFailOperator ==
  ASSUME NEW k \in Kinds \cap OperatorLabels
  PROVE  OnFail("operator", k) \subseteq OperatorLabels
BY DEF OnFail, CleanupFailures, CleanupCommits, OperatorLabels, SpawnKinds

LEMMA NextLabel ==
  ASSUME NEW p \in Procs, NEW k \in Kinds \cap LabelsOf(p)
  PROVE  /\ After(p, k) \subseteq LabelsOf(p)
         /\ OnFail(p, k) \subseteq LabelsOf(p)
BY AfterSup, AfterOuter, AfterOperator, OnFailSup, OnFailOuter,
   OnFailOperator, LabelFacts

-----------------------------------------------------------------------------
(* Type correctness. *)

LEMMA InitType == Init => TypeOK
<1> SUFFICES ASSUME Init PROVE TypeOK
  OBVIOUS
<1>1. NoHelper \in [kind : Kinds \cup {"none"}, st : HelperStates,
                    base : Record]
  BY ReservedRecordType DEF NoHelper, HelperStates
<1>2. pc \in [Procs -> Labels] /\ \A p \in Procs : pc[p] \in LabelsOf(p)
  BY LabelFacts DEF Init, OuterLabels, SupLabels, OperatorLabels
<1>3. \A p \in Procs : ~HelperLive(p)
  BY DEF Init, HelperLive, NoHelper
<1>4. helper \in [Procs -> [kind : Kinds \cup {"none"}, st : HelperStates,
                            base : Record]]
  BY <1>1 DEF Init
<1>5. /\ leader \in [stage : Stages \cup {"none"},
                     st : {"none", "running", "zero", "nonzero"}]
      /\ worker \in WorkerLabels /\ toSup \in Messages /\ toOuter \in Answers
      /\ fresh \in SUBSET Procs /\ tree \in BOOLEAN /\ delivered \in BOOLEAN
      /\ rec \in Record
  BY ReservedRecordType DEF Init, WorkerLabels, Messages, Answers
<1>6. boot \in 0..MaxBoot
  BY BootAssumption DEF Init
<1> QED
  BY <1>2, <1>3, <1>4, <1>5, <1>6 DEF TypeOK

LEMMA CommitStepType ==
  ASSUME TypeOK, NEW p \in Procs, CommitStep(p)
  PROVE  TypeOK'
<1> DEFINE HelperType == [kind : Kinds \cup {"none"}, st : HelperStates,
                          base : Record]
<1>1. /\ NoHelper \in HelperType /\ NoHelper.st = "off"
      /\ ReservedRecord \in Record
  BY ReservedRecordType DEF NoHelper, HelperStates
<1>2. CASE Request(p)
  BY <1>1, <1>2 DEF TypeOK, Request, HelperStates, HelperLive
<1>3. CASE HelperCheck(p)
  <2>1. helper[p].kind \in Kinds
    BY <1>3 DEF TypeOK, HelperCheck, HelperLive
  <2>2. \E h \in HelperType : /\ h.kind \in Kinds
                              /\ helper' = [helper EXCEPT ![p] = h]
    BY <1>1, <1>3, <2>1 DEF TypeOK, HelperCheck, HelperStates
  <2> QED
    BY <1>3, <2>2 DEF TypeOK, HelperCheck, HelperLive
<1>4. CASE HelperCommit(p)
  <2>1. helper[p].kind \in Kinds /\ helper[p].base \in Record
    BY <1>4 DEF TypeOK, HelperCommit, HelperLive
  <2>2. rec' \in Record
    BY <1>4, <2>1, UpdateType DEF HelperCommit
  <2> QED
    BY <1>1, <1>4, <2>1, <2>2
    DEF TypeOK, HelperCommit, HelperStates, HelperLive
<1>5. CASE HelperFail(p)
  <2>1. helper[p].kind \in Kinds
    BY <1>5 DEF TypeOK, HelperFail, HelperLive
  <2> QED
    BY <1>1, <1>5, <2>1 DEF TypeOK, HelperFail, HelperStates, HelperLive
<1>6. CASE OrphanExit(p)
  BY <1>1, <1>6 DEF TypeOK, OrphanExit, HelperLive
<1>7. CASE Reply(p)
  <2>1. pc[p] \in Kinds \cap LabelsOf(p)
    BY <1>7 DEF TypeOK, Reply, HelperLive
  <2>2. PICK l \in LabelsOf(p) : pc' = [pc EXCEPT ![p] = l]
    BY <1>7, <2>1, NextLabel DEF Reply
  <2>3. pc' \in [Procs -> Labels] /\ \A q \in Procs : pc'[q] \in LabelsOf(q)
    BY <2>2, PcUpdate DEF TypeOK
  <2>4. toOuter' \in Answers /\ toSup' \in Messages
        /\ worker' \in WorkerLabels
    BY <1>7 DEF TypeOK, Reply, SupSends, OuterSends, WorkerAfter, Answers,
                Messages, WorkerLabels
  <2>5. /\ helper' \in [Procs -> HelperType]
        /\ \A q \in Procs : HelperLive(q)' => helper'[q].kind \in Kinds
    BY <1>1, <1>7 DEF TypeOK, Reply, HelperLive
  <2> QED
    BY <1>7, <2>3, <2>4, <2>5 DEF TypeOK, Reply
<1>8. CASE Fail(p)
  <2>1. pc[p] \in Kinds \cap LabelsOf(p)
    BY <1>8 DEF TypeOK, Fail
  <2>2. PICK l \in LabelsOf(p) : pc' = [pc EXCEPT ![p] = l]
    BY <1>8, <2>1, NextLabel DEF Fail
  <2>3. pc' \in [Procs -> Labels] /\ \A q \in Procs : pc'[q] \in LabelsOf(q)
    BY <2>2, PcUpdate DEF TypeOK
  <2>4. fresh' \in SUBSET Procs
    BY <1>8 DEF TypeOK, Fail
  <2>5. leader' \in [stage : Stages \cup {"none"},
                     st : {"none", "running", "zero", "nonzero"}]
        /\ worker' \in WorkerLabels
    BY <1>8 DEF TypeOK, Fail, WorkerLabels
  <2>6. /\ helper' \in [Procs -> HelperType]
        /\ \A q \in Procs : HelperLive(q)' => helper'[q].kind \in Kinds
    BY <1>1, <1>8 DEF TypeOK, Fail, HelperLive
  <2> QED
    BY <1>8, <2>3, <2>4, <2>5, <2>6 DEF TypeOK, Fail
<1> QED
  BY <1>2, <1>3, <1>4, <1>5, <1>6, <1>7, <1>8 DEF CommitStep

(* The rest of a type-preserving step: what its handler leaves alone. *)
LEMMA TypeExceptPc ==
  ASSUME TypeOK, UNCHANGED <<rec, helper, boot>>,
         pc' \in [Procs -> Labels], \A p \in Procs : pc'[p] \in LabelsOf(p),
         fresh' \in SUBSET Procs, worker' \in WorkerLabels,
         leader' \in [stage : Stages \cup {"none"},
                      st : {"none", "running", "zero", "nonzero"}],
         tree' \in BOOLEAN, toSup' \in Messages, toOuter' \in Answers,
         delivered' \in BOOLEAN
  PROVE  TypeOK'
BY DEF TypeOK, HelperLive

LEMMA GotoType ==
  ASSUME TypeOK
  PROVE  /\ \A l \in OuterLabels : OuterGoto(l) =>
              /\ pc' \in [Procs -> Labels]
              /\ \A p \in Procs : pc'[p] \in LabelsOf(p)
         /\ \A l \in SupLabels : SupGoto(l) =>
              /\ pc' \in [Procs -> Labels]
              /\ \A p \in Procs : pc'[p] \in LabelsOf(p)
BY LabelFacts DEF TypeOK, OuterGoto, SupGoto

LEMMA OuterStepType ==
  ASSUME TypeOK, OuterStart \/ OuterStep
  PROVE  TypeOK'
<1> DEFINE PcType == /\ pc' \in [Procs -> Labels]
                     /\ \A p \in Procs : pc'[p] \in LabelsOf(p)
<1> USE DEF OuterOnly
<1>1. fresh' \in SUBSET Procs
  BY LabelFacts
  DEF TypeOK, OuterStep, OuterStart, SpawnSup, OuterCustodyAccepted,
      OuterAccepted, OuterOwnershipComplete, OuterAck, OuterTerminal,
      OuterGiveUp, OuterTerminateSup, OuterReap, OuterSelect
<1>2. toSup' \in Messages /\ toOuter' \in Answers
  BY DEF TypeOK, OuterStep, OuterStart, SpawnSup, OuterCustodyAccepted,
      OuterAccepted, OuterOwnershipComplete, OuterAck, OuterTerminal,
      OuterGiveUp, OuterTerminateSup, OuterReap, OuterSelect, Messages,
      Answers
<1>3. /\ UNCHANGED <<rec, boot>> /\ worker' \in WorkerLabels
      /\ leader' \in [stage : Stages \cup {"none"},
                      st : {"none", "running", "zero", "nonzero"}]
      /\ tree' \in BOOLEAN /\ delivered' \in BOOLEAN
  BY DEF TypeOK, OuterStep, OuterStart, SpawnSup, OuterCustodyAccepted,
      OuterAccepted, OuterOwnershipComplete, OuterAck, OuterTerminal,
      OuterGiveUp, OuterTerminateSup, OuterReap, OuterSelect
<1>4. /\ {"prompt", "pending", "await-complete", "owned", "await-terminal",
          "reap-ok", "reap-fail", "reap-held", "abort", "terminating", "exit2", "exit1",
          "acquire", "final-auth", "custody"} \subseteq OuterLabels
      /\ {"ready", "dead"} \subseteq SupLabels
  BY DEF OuterLabels, SupLabels, Finished
<1>5. PcType
  <2>1. CASE OuterStart
    BY <2>1, <1>4, GotoType DEF OuterStart
  <2>2. CASE SpawnSup
    BY <2>2, <1>4, LabelFacts DEF SpawnSup, TypeOK
  <2>3. CASE OuterCustodyAccepted
    BY <2>3, <1>4, GotoType DEF OuterCustodyAccepted
  <2>4. CASE OuterAccepted
    BY <2>4, <1>4, GotoType DEF OuterAccepted
  <2>5. CASE OuterOwnershipComplete
    BY <2>5, <1>4, GotoType DEF OuterOwnershipComplete
  <2>6. CASE OuterAck
    BY <2>6, <1>4, GotoType DEF OuterAck
  <2>7. CASE OuterTerminal
    BY <2>7, <1>4, GotoType DEF OuterTerminal
  <2>8. CASE OuterGiveUp
    BY <2>8, <1>4, GotoType DEF OuterGiveUp
  <2>9. CASE OuterTerminateSup
    BY <2>9, <1>4, LabelFacts DEF OuterTerminateSup, TypeOK
  <2>10. CASE OuterReap
    BY <2>10, <1>4, GotoType DEF OuterReap
  <2>11. CASE OuterSelect
    BY <2>11, <1>4, GotoType DEF OuterSelect
  <2> QED
    BY <2>1, <2>2, <2>3, <2>4, <2>5, <2>6, <2>7, <2>8, <2>9, <2>10, <2>11
    DEF OuterStep
<1>6. CASE UNCHANGED helper
  BY <1>1, <1>2, <1>3, <1>5, <1>6, TypeExceptPc
<1>7. CASE OuterTerminateSup
  <2>1. /\ helper' \in [Procs -> [kind : Kinds \cup {"none"},
                                  st : HelperStates, base : Record]]
        /\ \A q \in Procs : HelperLive(q)' => helper'[q].kind \in Kinds
    BY <1>7, ReservedRecordType
    DEF TypeOK, OuterTerminateSup, NoHelper, HelperLive, HelperStates
  <2> QED
    BY <1>1, <1>2, <1>3, <1>5, <1>7, <2>1 DEF TypeOK, OuterTerminateSup
<1>8. OuterTerminateSup \/ UNCHANGED helper
  BY DEF OuterStep, OuterStart, SpawnSup, OuterCustodyAccepted,
      OuterAccepted, OuterOwnershipComplete, OuterAck, OuterTerminal,
      OuterGiveUp, OuterReap, OuterSelect
<1> QED
  BY <1>6, <1>7, <1>8

LEMMA SupStepType ==
  ASSUME TypeOK, SupStep
  PROVE  TypeOK'
<1> USE DEF SupOnly, OuterOnly
<1>1. fresh' \in SUBSET Procs
  BY LabelFacts
  DEF TypeOK, SupStep, SupTakeCustody, SupOffer, SupStart, SupAcknowledged,
      SupGiveUp, SupReleaseWorker, SupWorkerMilestone,
      SupReapWorker, SupLoseWorker, SupLaunch,
      SupLaunchFails, SupCheckpoint, SupSettleProcess,
      SupPublish, SupSendTerminal
<1>2. toSup' \in Messages /\ toOuter' \in Answers
  BY DEF TypeOK, SupStep, Messages, Answers,
      SupTakeCustody, SupOffer, SupStart, SupAcknowledged,
      SupGiveUp, SupReleaseWorker, SupWorkerMilestone,
      SupReapWorker, SupLoseWorker, SupLaunch,
      SupLaunchFails, SupCheckpoint, SupSettleProcess,
      SupPublish, SupSendTerminal
<1>3. worker' \in WorkerLabels
  BY DEF TypeOK, SupStep, WorkerLabels,
      SupTakeCustody, SupOffer, SupStart, SupAcknowledged,
      SupGiveUp, SupReleaseWorker, SupWorkerMilestone,
      SupReapWorker, SupLoseWorker, SupLaunch,
      SupLaunchFails, SupCheckpoint, SupSettleProcess,
      SupPublish, SupSendTerminal
<1>4. {"await-offer", "accepted", "complete", "adding", "exit0", "exit1",
       "exit2", "failure", "failure-abandoned", "failure-child", "manual",
       "index", "phase0", "validated", "checkpoint", "launched",
       "closed-zero", "closed-nonzero", "auth-pending"} \subseteq SupLabels
  BY DEF SupLabels, Finished
<1>5. pc' \in [Procs -> Labels] /\ \A p \in Procs : pc'[p] \in LabelsOf(p)
  <2>1. CASE SupTakeCustody
    BY <2>1, <1>4, GotoType DEF SupTakeCustody, SupGoto
  <2>2. CASE SupOffer
    BY <2>2, <1>4, GotoType DEF SupOffer
  <2>3. CASE SupStart
    BY <2>3, <1>4, GotoType DEF SupStart
  <2>4. CASE SupAcknowledged
    BY <2>4, <1>4, GotoType DEF SupAcknowledged
  <2>5. CASE SupGiveUp
    BY <2>5, <1>4, GotoType DEF SupGiveUp, SupFailures, CleanupFailures
  <2>6. CASE SupReleaseWorker
    BY <2>6 DEF SupReleaseWorker, TypeOK
  <2>7. CASE SupWorkerMilestone
    BY <2>7, <1>4, GotoType DEF SupWorkerMilestone
  <2>8. CASE SupReapWorker
    BY <2>8, <1>4, GotoType DEF SupReapWorker, SupFailures, CleanupFailures
  <2>9. CASE SupLoseWorker
    BY <2>9, <1>4, GotoType DEF SupLoseWorker
  <2>10. CASE SupLaunch
    BY <2>10, <1>4, GotoType DEF SupLaunch
  <2>11. CASE SupLaunchFails
    BY <2>11, <1>4, GotoType DEF SupLaunchFails
  <2>12. CASE SupCheckpoint
    BY <2>12, <1>4, GotoType DEF SupCheckpoint
  <2>13. CASE SupSettleProcess
    BY <2>13, <1>4, GotoType DEF SupSettleProcess
  <2>14. CASE SupPublish
    BY <2>14, <1>4, GotoType DEF SupPublish
  <2>15. CASE SupSendTerminal
    BY <2>15, <1>4, GotoType DEF SupSendTerminal
  <2> QED
    BY <2>1, <2>2, <2>3, <2>4, <2>5, <2>6, <2>7, <2>8, <2>9, <2>10,
       <2>11, <2>12, <2>13, <2>14, <2>15
    DEF SupStep
<1>6. leader' \in [stage : Stages \cup {"none"},
                   st : {"none", "running", "zero", "nonzero"}]
  <2>1. CASE SupLaunch
    BY <2>1 DEF TypeOK, SupLaunch, Record, RecordStages
  <2>2. CASE SupCheckpoint \/ SupSettleProcess
    BY <2>2 DEF TypeOK, SupCheckpoint, SupSettleProcess
  <2>3. CASE UNCHANGED leader
    BY <2>3 DEF TypeOK
  <2> QED
    BY <2>1, <2>2, <2>3
    DEF SupStep, SupTakeCustody, SupOffer, SupStart, SupAcknowledged,
      SupGiveUp, SupReleaseWorker, SupWorkerMilestone,
      SupReapWorker, SupLoseWorker, SupLaunch,
      SupLaunchFails, SupCheckpoint, SupSettleProcess,
      SupPublish, SupSendTerminal
<1>7. /\ UNCHANGED <<rec, helper, boot>>
      /\ tree' \in BOOLEAN /\ delivered' \in BOOLEAN
  BY DEF TypeOK, SupStep,
      SupTakeCustody, SupOffer, SupStart, SupAcknowledged,
      SupGiveUp, SupReleaseWorker, SupWorkerMilestone,
      SupReapWorker, SupLoseWorker, SupLaunch,
      SupLaunchFails, SupCheckpoint, SupSettleProcess,
      SupPublish, SupSendTerminal
<1> QED
  BY <1>1, <1>2, <1>3, <1>5, <1>6, <1>7, TypeExceptPc

LEMMA WorkerNextType ==
  ASSUME TypeOK, WorkerNext
  PROVE  TypeOK'
<1> USE DEF WorkerOnly
<1>1. CASE WorkerCommit
  <2>1. worker \in Kinds
    BY <1>1 DEF WorkerCommit, WorkerCommits, Kinds, CheckoutKinds
  <2>2. rec' \in Record
    BY <1>1, <2>1, UpdateType DEF WorkerCommit, TypeOK
  <2> QED
    BY <1>1, <2>2 DEF TypeOK, WorkerCommit, WorkerLabels, HelperLive
<1>2. CASE WorkerAdd \/ WorkerStep \/ WorkerFails \/ WorkerDies
  BY <1>2, TypeExceptPc
  DEF TypeOK, WorkerAdd, WorkerStep, WorkerFails, WorkerDies, WorkerLabels
<1> QED
  BY <1>1, <1>2 DEF WorkerNext

LEMMA CleanupStepType ==
  ASSUME TypeOK, NEW p \in Procs, CleanupStep(p)
  PROVE  TypeOK'
<1> USE DEF CleanupOnly
<1>1. /\ {"manual", "absent", "cleanup-intent", "cleanup-progress"}
           \subseteq LabelsOf(p)
      /\ CleanupFailures(p) \subseteq LabelsOf(p)
  BY LabelFacts
  DEF OuterLabels, SupLabels, OperatorLabels, CleanupFailures, Finished
<1>2. \E l \in LabelsOf(p) : pc' = [pc EXCEPT ![p] = l]
  BY <1>1 DEF CleanupStep, CleanupStart, CleanupDelete, CleanupGivesUp
<1>3. pc' \in [Procs -> Labels] /\ \A q \in Procs : pc'[q] \in LabelsOf(q)
  BY <1>2, PcUpdate DEF TypeOK
<1> QED
  BY <1>3, TypeExceptPc
  DEF TypeOK, CleanupStep, CleanupStart, CleanupDelete, CleanupGivesUp

LEMMA OtherStepType ==
  ASSUME TypeOK,
         \/ \E p \in Procs : Crash(p)
         \/ LeaderExits \/ OperatorRecover \/ OperatorFinal \/ Reboot
  PROVE  TypeOK'
<1>1. CASE \E p \in Procs : Crash(p)
  <2> PICK p \in Procs : Crash(p)
    BY <1>1
  <2>1. (IF p = "operator" THEN "idle" ELSE "dead") \in LabelsOf(p)
    BY LabelFacts DEF OuterLabels, SupLabels, OperatorLabels, Finished
  <2>2. pc' \in [Procs -> Labels] /\ \A q \in Procs : pc'[q] \in LabelsOf(q)
    BY <2>1, PcUpdate DEF TypeOK, Crash
  <2> QED
    BY <2>2, TypeExceptPc DEF TypeOK, Crash
<1>2. CASE LeaderExits
  BY <1>2, TypeExceptPc DEF TypeOK, LeaderExits
<1>3. CASE OperatorRecover
  <2>1. {"conserve", "recovered"} \subseteq LabelsOf("operator")
    BY LabelFacts DEF OperatorLabels
  <2>2. pc' \in [Procs -> Labels] /\ \A q \in Procs : pc'[q] \in LabelsOf(q)
    BY <1>3, <2>1, LabelFacts, PcUpdate DEF TypeOK, OperatorRecover
  <2> QED
    BY <1>3, <2>2, LabelFacts, TypeExceptPc DEF TypeOK, OperatorRecover
<1>4. CASE OperatorFinal
  BY <1>4, TypeExceptPc DEF TypeOK, OperatorFinal
<1>5. CASE Reboot
  <2>1. /\ "idle" \in OperatorLabels /\ "dead" \in OuterLabels
        /\ "dead" \in SupLabels /\ "off" \in SupLabels
    BY DEF OperatorLabels, OuterLabels, SupLabels, Finished
  <2>2. pc' \in [Procs -> Labels] /\ \A q \in Procs : pc'[q] \in LabelsOf(q)
    BY <1>5, <2>1, LabelFacts DEF TypeOK, Reboot
  <2>3. /\ helper' \in [Procs -> [kind : Kinds \cup {"none"},
                                  st : HelperStates, base : Record]]
        /\ \A q \in Procs : ~HelperLive(q)'
    BY <1>5, ReservedRecordType DEF Reboot, NoHelper, HelperLive, HelperStates
  <2>4. boot' \in 0..MaxBoot
    BY <1>5, BootAssumption DEF TypeOK, Reboot
  <2>5. /\ leader' \in [stage : Stages \cup {"none"},
                        st : {"none", "running", "zero", "nonzero"}]
        /\ worker' \in WorkerLabels
    BY <1>5 DEF TypeOK, Reboot, WorkerLabels
  <2> QED
    BY <1>5, <2>2, <2>3, <2>4, <2>5 DEF TypeOK, Reboot, Messages, Answers
<1> QED
  BY <1>1, <1>2, <1>3, <1>4, <1>5

LEMMA NextType == TypeOK /\ [Next]_vars => TypeOK'
<1> SUFFICES ASSUME TypeOK, [Next]_vars PROVE TypeOK'
  OBVIOUS
<1>1. CASE UNCHANGED vars
  BY <1>1 DEF TypeOK, vars, HelperLive
<1>2. CASE Next
  BY <1>2, CommitStepType, OuterStepType, SupStepType, WorkerNextType,
     CleanupStepType, OtherStepType DEF Next
<1> QED
  BY <1>1, <1>2

(* Every variable of an attempt stays within its type, whatever crashes:   *)
(* in particular every record that any writer commits is one the code's    *)
(* allowlist knows.                                                        *)
THEOREM TypeCorrect == Spec => []TypeOK
  BY InitType, NextType, PTL DEF Spec

-----------------------------------------------------------------------------
(* The lease discipline. *)

LEMMA InitDiscipline == Init => LeaseDiscipline
BY DEF Init, LeaseDiscipline, HelperServesOwner, OperatorAlone, OuterAlone,
       HandoffOrder, WorkerLockstep, HelperLive, NoHelper, OperatorHolds,
       OuterHolds, SupHolds, WorkerLive, Procs, OuterSole, PostOwned,
       PreOffer, SupEarly, SupIdle, Finished, Orphaned

(* The labels at which a process commits nothing. *)
Waits == {"off", "spawn", "custody", "await-accepted", "await-complete",
          "owned", "await-terminal", "reap-ok", "reap-fail", "reap-held", "acquire",
          "terminating", "cleanup", "delete", "ready", "await-offer",
          "await-start", "await-ack", "await-worker", "launch",
          "checkpoint", "running", "publish", "send-terminal"}

(* A process that waits has no helper. *)
LEMMA WaitingHasNoHelper ==
  ASSUME TypeOK, HelperServesOwner, NEW p \in Procs, pc[p] \in Waits
  PROVE  ~HelperLive(p)
<1>1. Waits \cap Kinds = {}
  BY DEF Waits, Kinds, HandoffKinds, CheckoutKinds, LifecycleKinds,
         SpawnKinds, ClosedKinds, VerdictKinds, FailureKinds, CleanupKinds,
         SettleKinds, RecoverKinds
<1>2. ~Orphaned(p)
  BY DEF Waits, Orphaned, Finished
<1> QED
  BY <1>1, <1>2 DEF HelperServesOwner, TypeOK

(* Labels no commit of the supervisor leads to. *)
LEMMA SupNextLabels ==
  ASSUME NEW k \in Kinds \cap SupLabels
  PROVE  /\ k \in {"adding", "index", "phase0"} =>
              After("sup", k) = {"await-worker"}
         /\ k \notin {"adding", "index", "phase0"} =>
              \A l \in After("sup", k) :
                l \notin {"off", "ready", "await-offer", "adding",
                          "await-worker", "index", "phase0"}
         /\ \A l \in OnFail("sup", k) :
              l \notin {"off", "ready", "await-offer", "adding",
                        "await-worker", "index", "phase0"}
         /\ k \in {"index", "phase0"} => OnFail("sup", k) = {"exit2"}
BY DEF After, AfterCheckout, AfterClosed, AfterCleanup, OnFail, SupFailures,
       CleanupFailures, CleanupCommits, SupLabels, Finished, Kinds,
       HandoffKinds, CheckoutKinds, LifecycleKinds, SpawnKinds, ClosedKinds,
       VerdictKinds, FailureKinds, CleanupKinds, SettleKinds, RecoverKinds

LEMMA OuterNextLabels ==
  ASSUME NEW k \in Kinds \cap OuterLabels
  PROVE  /\ k \in OuterSole \cup {"pending"}
         /\ After("outer", "pending") = {"await-accepted"}
         /\ OnFail("outer", "pending") = {"terminating"}
         /\ k # "pending" =>
              /\ After("outer", k) \subseteq OuterSole \cup Finished
              /\ OnFail("outer", k) \subseteq OuterSole \cup Finished
              /\ \A l \in After("outer", k) \cup OnFail("outer", k) :
                   l \in PreOffer => k = "prompt" /\ l = "spawn"
         /\ k = "final-auth" => /\ After("outer", k) \subseteq Finished
                                /\ OnFail("outer", k) \subseteq Finished
BY DEF After, AfterCleanup, OnFail, CleanupFailures, CleanupCommits,
       OuterLabels, OuterSole, PreOffer, Finished, Kinds, HandoffKinds,
       CheckoutKinds, LifecycleKinds, SpawnKinds, ClosedKinds, VerdictKinds,
       FailureKinds, CleanupKinds, SettleKinds, RecoverKinds

(* What a commit in progress says of the other processes. *)
OuterWrites ==
  /\ pc["outer"] \in OuterSole \cup {"pending"}
  /\ pc["sup"] \in SupEarly
  /\ pc["outer"] # "pending" => pc["sup"] \in SupIdle
  /\ pc["outer"] = "pending" => toSup = "none"
  /\ toSup = "ack" => pc["outer"] = "final-auth"
  /\ ~HelperLive("sup") /\ ~WorkerLive
  /\ ~OperatorHolds /\ ~HelperLive("operator")
SupWrites ==
  /\ pc["outer"] \notin {"off", "custody", "pending"} \cup OuterSole
  /\ ~HelperLive("outer")
  /\ ~OperatorHolds /\ ~HelperLive("operator")
  /\ WorkerLive => /\ pc["outer"] \in PostOwned
                   /\ pc["sup"] \in {"index", "phase0"}
                   /\ worker \in {"index-done", "phase0-done"}
OperatorWrites ==
  /\ ~OuterHolds /\ ~SupHolds /\ ~WorkerLive
  /\ ~HelperLive("outer") /\ ~HelperLive("sup")

LEMMA OuterCommitting ==
  ASSUME TypeOK, LeaseDiscipline, pc["outer"] \in Kinds
  PROVE  OuterWrites
<1>1. pc["outer"] \in OuterSole \cup {"pending"}
  BY OuterNextLabels, LabelFacts DEF TypeOK
<1>2. OuterHolds
  BY <1>1 DEF OuterHolds, OuterLabels, OuterSole, Finished
<1> QED
  BY <1>1, <1>2 DEF OuterWrites, LeaseDiscipline, OuterAlone, OperatorAlone, HandoffOrder,
     SupEarly, PreOffer, PostOwned, OuterSole, Finished

LEMMA SupCommitting ==
  ASSUME TypeOK, LeaseDiscipline, pc["sup"] \in Kinds
  PROVE  SupWrites
<1>1. pc["sup"] \notin SupEarly \cup {"await-worker"}
  BY DEF SupEarly, SupIdle, Finished, Kinds, HandoffKinds, CheckoutKinds,
         LifecycleKinds, SpawnKinds, ClosedKinds, VerdictKinds, FailureKinds,
         CleanupKinds, SettleKinds, RecoverKinds
<1>2. SupHolds
  BY <1>1, LabelFacts DEF SupHolds, TypeOK, SupEarly, SupIdle
<1> QED
  BY <1>1, <1>2 DEF SupWrites, LeaseDiscipline, OuterAlone, OperatorAlone,
     WorkerLockstep, SupEarly, SupIdle, Finished

LEMMA OperatorCommitting ==
  ASSUME TypeOK, LeaseDiscipline, pc["operator"] \in Kinds
  PROVE  OperatorWrites
<1>1. pc["operator"] # "idle"
  BY DEF Kinds, HandoffKinds, CheckoutKinds, LifecycleKinds, SpawnKinds,
         ClosedKinds, VerdictKinds, FailureKinds, CleanupKinds, SettleKinds,
         RecoverKinds
<1> QED
  BY <1>1 DEF OperatorWrites, LeaseDiscipline, OperatorAlone, OperatorHolds

LEMMA OuterDiscipline ==
  ASSUME TypeOK, LeaseDiscipline, OuterStart \/ OuterStep
  PROVE  LeaseDiscipline'
<1> USE LabelFacts
    DEF TypeOK, LeaseDiscipline, HelperLive, WorkerLive, Finished
<1>1. CASE OuterStart
  <2> USE <1>1 DEF OuterStart, OuterOnly, OuterGoto, LeaseFree, NoHelper
  <2>1. HelperServesOwner'
    BY DEF HelperServesOwner, Orphaned
  <2>2. OperatorAlone'
    BY DEF OperatorAlone, OperatorHolds, OuterHolds, SupHolds
  <2>3. OuterAlone'
    BY DEF OuterAlone, OuterSole, SupEarly, SupIdle, HelperServesOwner,
           HandoffOrder, PreOffer, Orphaned, WorkerLockstep,
           PostOwned
  <2>4. HandoffOrder'
    BY DEF HandoffOrder, PreOffer, PostOwned, OuterAlone, OuterSole,
           SupEarly, SupIdle
  <2>5. WorkerLockstep'
    BY DEF WorkerLockstep, PostOwned, HelperServesOwner, HandoffOrder,
           Orphaned, OuterAlone, OuterSole, SupEarly, SupIdle
  <2> QED
    BY <2>1, <2>2, <2>3, <2>4, <2>5
<1>2. CASE SpawnSup
  <2>0. ~HelperLive("outer") /\ ~HelperLive("sup")
    BY <1>2, WaitingHasNoHelper DEF SpawnSup, Waits, OuterAlone, OuterSole, Procs
  <2> USE <1>2, <2>0 DEF SpawnSup, OuterOnly, OuterGoto, LeaseFree, NoHelper
  <2>1. HelperServesOwner'
    BY DEF HelperServesOwner, Orphaned
  <2>2. OperatorAlone'
    BY DEF OperatorAlone, OperatorHolds, OuterHolds, SupHolds
  <2>3. OuterAlone'
    BY DEF OuterAlone, OuterSole, SupEarly, SupIdle, HelperServesOwner,
           HandoffOrder, PreOffer, Orphaned, WorkerLockstep,
           PostOwned
  <2>4. HandoffOrder'
    BY DEF HandoffOrder, PreOffer, PostOwned, OuterAlone, OuterSole,
           SupEarly, SupIdle
  <2>5. WorkerLockstep'
    BY DEF WorkerLockstep, PostOwned, HelperServesOwner, HandoffOrder,
           Orphaned, OuterAlone, OuterSole, SupEarly, SupIdle
  <2> QED
    BY <2>1, <2>2, <2>3, <2>4, <2>5
<1>3. CASE OuterCustodyAccepted
  <2>0. ~HelperLive("outer")
    BY <1>3, WaitingHasNoHelper DEF OuterCustodyAccepted, Waits, Procs
  <2> USE <1>3, <2>0 DEF OuterCustodyAccepted, OuterOnly, OuterGoto, LeaseFree, NoHelper
  <2>1. HelperServesOwner'
    BY DEF HelperServesOwner, Orphaned
  <2>2. OperatorAlone'
    BY DEF OperatorAlone, OperatorHolds, OuterHolds, SupHolds
  <2>3. OuterAlone'
    BY DEF OuterAlone, OuterSole, SupEarly, SupIdle, HelperServesOwner,
           HandoffOrder, PreOffer, Orphaned, WorkerLockstep,
           PostOwned
  <2>4. HandoffOrder'
    BY DEF HandoffOrder, PreOffer, PostOwned, OuterAlone, OuterSole,
           SupEarly, SupIdle
  <2>5. WorkerLockstep'
    BY DEF WorkerLockstep, PostOwned, HelperServesOwner, HandoffOrder,
           Orphaned, OuterAlone, OuterSole, SupEarly, SupIdle
  <2> QED
    BY <2>1, <2>2, <2>3, <2>4, <2>5
<1>4. CASE OuterAccepted
  <2>0. ~HelperLive("outer")
    BY <1>4, WaitingHasNoHelper DEF OuterAccepted, Waits, Procs
  <2> USE <1>4, <2>0 DEF OuterAccepted, OuterOnly, OuterGoto, LeaseFree, NoHelper
  <2>1. HelperServesOwner'
    BY DEF HelperServesOwner, Orphaned
  <2>2. OperatorAlone'
    BY DEF OperatorAlone, OperatorHolds, OuterHolds, SupHolds
  <2>3. OuterAlone'
    BY DEF OuterAlone, OuterSole, SupEarly, SupIdle, HelperServesOwner,
           HandoffOrder, PreOffer, Orphaned, WorkerLockstep,
           PostOwned
  <2>4. HandoffOrder'
    BY DEF HandoffOrder, PreOffer, PostOwned, OuterAlone, OuterSole,
           SupEarly, SupIdle
  <2>5. WorkerLockstep'
    BY DEF WorkerLockstep, PostOwned, HelperServesOwner, HandoffOrder,
           Orphaned, OuterAlone, OuterSole, SupEarly, SupIdle
  <2> QED
    BY <2>1, <2>2, <2>3, <2>4, <2>5
<1>5. CASE OuterOwnershipComplete
  <2>0. ~HelperLive("outer")
    BY <1>5, WaitingHasNoHelper DEF OuterOwnershipComplete, Waits, Procs
  <2> USE <1>5, <2>0 DEF OuterOwnershipComplete, OuterOnly, OuterGoto, LeaseFree, NoHelper
  <2>1. HelperServesOwner'
    BY DEF HelperServesOwner, Orphaned
  <2>2. OperatorAlone'
    BY DEF OperatorAlone, OperatorHolds, OuterHolds, SupHolds
  <2>3. OuterAlone'
    BY DEF OuterAlone, OuterSole, SupEarly, SupIdle, HelperServesOwner,
           HandoffOrder, PreOffer, Orphaned, WorkerLockstep,
           PostOwned
  <2>4. HandoffOrder'
    BY DEF HandoffOrder, PreOffer, PostOwned, OuterAlone, OuterSole,
           SupEarly, SupIdle
  <2>5. WorkerLockstep'
    BY DEF WorkerLockstep, PostOwned, HelperServesOwner, HandoffOrder,
           Orphaned, OuterAlone, OuterSole, SupEarly, SupIdle
  <2> QED
    BY <2>1, <2>2, <2>3, <2>4, <2>5
<1>6. CASE OuterAck
  <2>0. ~HelperLive("outer")
    BY <1>6, WaitingHasNoHelper DEF OuterAck, Waits, Procs
  <2> USE <1>6, <2>0 DEF OuterAck, OuterOnly, OuterGoto, LeaseFree, NoHelper
  <2>1. HelperServesOwner'
    BY DEF HelperServesOwner, Orphaned
  <2>2. OperatorAlone'
    BY DEF OperatorAlone, OperatorHolds, OuterHolds, SupHolds
  <2>3. OuterAlone'
    BY DEF OuterAlone, OuterSole, SupEarly, SupIdle, HelperServesOwner,
           HandoffOrder, PreOffer, Orphaned, WorkerLockstep,
           PostOwned
  <2>4. HandoffOrder'
    BY DEF HandoffOrder, PreOffer, PostOwned, OuterAlone, OuterSole,
           SupEarly, SupIdle
  <2>5. WorkerLockstep'
    BY DEF WorkerLockstep, PostOwned, HelperServesOwner, HandoffOrder,
           Orphaned, OuterAlone, OuterSole, SupEarly, SupIdle
  <2> QED
    BY <2>1, <2>2, <2>3, <2>4, <2>5
<1>7. CASE OuterTerminal
  <2>0. ~HelperLive("outer")
    BY <1>7, WaitingHasNoHelper DEF OuterTerminal, Waits, Procs
  <2> USE <1>7, <2>0 DEF OuterTerminal, OuterOnly, OuterGoto, LeaseFree, NoHelper
  <2>1. HelperServesOwner'
    BY DEF HelperServesOwner, Orphaned
  <2>2. OperatorAlone'
    BY DEF OperatorAlone, OperatorHolds, OuterHolds, SupHolds
  <2>3. OuterAlone'
    BY DEF OuterAlone, OuterSole, SupEarly, SupIdle, HelperServesOwner,
           HandoffOrder, PreOffer, Orphaned, WorkerLockstep,
           PostOwned
  <2>4. HandoffOrder'
    BY DEF HandoffOrder, PreOffer, PostOwned, OuterAlone, OuterSole,
           SupEarly, SupIdle
  <2>5. WorkerLockstep'
    BY DEF WorkerLockstep, PostOwned, HelperServesOwner, HandoffOrder,
           Orphaned, OuterAlone, OuterSole, SupEarly, SupIdle
  <2> QED
    BY <2>1, <2>2, <2>3, <2>4, <2>5
<1>8. CASE OuterGiveUp
  <2>0. ~HelperLive("outer")
    BY <1>8, WaitingHasNoHelper DEF OuterGiveUp, Waits, Procs
  <2> USE <1>8, <2>0 DEF OuterGiveUp, OuterOnly, OuterGoto, LeaseFree, NoHelper
  <2>1. HelperServesOwner'
    BY DEF HelperServesOwner, Orphaned
  <2>2. OperatorAlone'
    BY DEF OperatorAlone, OperatorHolds, OuterHolds, SupHolds
  <2>3. OuterAlone'
    BY DEF OuterAlone, OuterSole, SupEarly, SupIdle, HelperServesOwner,
           HandoffOrder, PreOffer, Orphaned, WorkerLockstep,
           PostOwned
  <2>4. HandoffOrder'
    BY DEF HandoffOrder, PreOffer, PostOwned, OuterAlone, OuterSole,
           SupEarly, SupIdle
  <2>5. WorkerLockstep'
    BY DEF WorkerLockstep, PostOwned, HelperServesOwner, HandoffOrder,
           Orphaned, OuterAlone, OuterSole, SupEarly, SupIdle
  <2> QED
    BY <2>1, <2>2, <2>3, <2>4, <2>5
<1>9. CASE OuterTerminateSup
  <2>0. ~HelperLive("outer")
    BY <1>9, WaitingHasNoHelper DEF OuterTerminateSup, Waits, Procs
  <2> USE <1>9, <2>0 DEF OuterTerminateSup, OuterOnly, OuterGoto, LeaseFree, NoHelper
  <2>1. HelperServesOwner'
    BY DEF HelperServesOwner, Orphaned
  <2>2. OperatorAlone'
    BY DEF OperatorAlone, OperatorHolds, OuterHolds, SupHolds
  <2>3. OuterAlone'
    BY DEF OuterAlone, OuterSole, SupEarly, SupIdle, HelperServesOwner,
           HandoffOrder, PreOffer, Orphaned, WorkerLockstep,
           PostOwned
  <2>4. HandoffOrder'
    BY DEF HandoffOrder, PreOffer, PostOwned, OuterAlone, OuterSole,
           SupEarly, SupIdle
  <2>5. WorkerLockstep'
    BY DEF WorkerLockstep, PostOwned, HelperServesOwner, HandoffOrder,
           Orphaned, OuterAlone, OuterSole, SupEarly, SupIdle
  <2> QED
    BY <2>1, <2>2, <2>3, <2>4, <2>5
<1>10. CASE OuterReap
  <2>0. ~HelperLive("outer")
    BY <1>10, WaitingHasNoHelper DEF OuterReap, Waits, Procs
  <2> USE <1>10, <2>0 DEF OuterReap, OuterOnly, OuterGoto, LeaseFree, NoHelper
  <2>1. HelperServesOwner'
    BY DEF HelperServesOwner, Orphaned
  <2>2. OperatorAlone'
    BY DEF OperatorAlone, OperatorHolds, OuterHolds, SupHolds
  <2>3. OuterAlone'
    BY DEF OuterAlone, OuterSole, SupEarly, SupIdle, HelperServesOwner,
           HandoffOrder, PreOffer, Orphaned, WorkerLockstep,
           PostOwned
  <2>4. HandoffOrder'
    BY DEF HandoffOrder, PreOffer, PostOwned, OuterAlone, OuterSole,
           SupEarly, SupIdle
  <2>5. WorkerLockstep'
    BY DEF WorkerLockstep, PostOwned, HelperServesOwner, HandoffOrder,
           Orphaned, OuterAlone, OuterSole, SupEarly, SupIdle
  <2> QED
    BY <2>1, <2>2, <2>3, <2>4, <2>5
<1>11. CASE OuterSelect
  <2>0. ~HelperLive("outer")
    BY <1>11, WaitingHasNoHelper DEF OuterSelect, Waits, Procs
  <2> USE <1>11, <2>0 DEF OuterSelect, OuterOnly, OuterGoto, LeaseFree, NoHelper
  <2>1. HelperServesOwner'
    BY DEF HelperServesOwner, Orphaned
  <2>2. OperatorAlone'
    BY DEF OperatorAlone, OperatorHolds, OuterHolds, SupHolds
  <2>3. OuterAlone'
    BY DEF OuterAlone, OuterSole, SupEarly, SupIdle, HelperServesOwner,
           HandoffOrder, PreOffer, Orphaned, WorkerLockstep,
           PostOwned
  <2>4. HandoffOrder'
    BY DEF HandoffOrder, PreOffer, PostOwned, OuterAlone, OuterSole,
           SupEarly, SupIdle
  <2>5. WorkerLockstep'
    BY DEF WorkerLockstep, PostOwned, HelperServesOwner, HandoffOrder,
           Orphaned, OuterAlone, OuterSole, SupEarly, SupIdle
  <2> QED
    BY <2>1, <2>2, <2>3, <2>4, <2>5
<1> QED
  BY <1>1, <1>2, <1>3, <1>4, <1>5, <1>6, <1>7, <1>8, <1>9, <1>10, <1>11 DEF OuterStep

LEMMA SupDiscipline ==
  ASSUME TypeOK, LeaseDiscipline, SupStep
  PROVE  LeaseDiscipline'
<1> USE LabelFacts
    DEF TypeOK, LeaseDiscipline, HelperLive, WorkerLive, Finished
<1>1. CASE SupTakeCustody
  <2>0. ~HelperLive("sup")
    BY <1>1, WaitingHasNoHelper DEF SupTakeCustody, Waits, Procs
  <2> USE <1>1, <2>0 DEF SupTakeCustody, SupOnly, OuterOnly, SupGoto, SupFailures, CleanupFailures
  <2>1. HelperServesOwner'
    BY DEF HelperServesOwner, Orphaned
  <2>2. OperatorAlone'
    BY DEF OperatorAlone, OperatorHolds, OuterHolds, SupHolds
  <2>3. OuterAlone'
    BY DEF OuterAlone, OuterSole, SupEarly, SupIdle, HelperServesOwner,
           HandoffOrder, PreOffer, Orphaned, WorkerLockstep,
           PostOwned
  <2>4. HandoffOrder'
    BY DEF HandoffOrder, PreOffer, PostOwned, OuterAlone, OuterSole,
           SupEarly, SupIdle
  <2>5. WorkerLockstep'
    BY DEF WorkerLockstep, PostOwned, HelperServesOwner, HandoffOrder,
           Orphaned, OuterAlone, OuterSole, SupEarly, SupIdle
  <2> QED
    BY <2>1, <2>2, <2>3, <2>4, <2>5
<1>2. CASE SupOffer
  <2>0. ~HelperLive("sup")
    BY <1>2, WaitingHasNoHelper DEF SupOffer, Waits, Procs
  <2> USE <1>2, <2>0 DEF SupOffer, SupOnly, OuterOnly, SupGoto, SupFailures, CleanupFailures
  <2>1. HelperServesOwner'
    BY DEF HelperServesOwner, Orphaned
  <2>2. OperatorAlone'
    BY DEF OperatorAlone, OperatorHolds, OuterHolds, SupHolds
  <2>3. OuterAlone'
    BY DEF OuterAlone, OuterSole, SupEarly, SupIdle, HelperServesOwner,
           HandoffOrder, PreOffer, Orphaned, WorkerLockstep,
           PostOwned
  <2>4. HandoffOrder'
    BY DEF HandoffOrder, PreOffer, PostOwned, OuterAlone, OuterSole,
           SupEarly, SupIdle
  <2>5. WorkerLockstep'
    BY DEF WorkerLockstep, PostOwned, HelperServesOwner, HandoffOrder,
           Orphaned, OuterAlone, OuterSole, SupEarly, SupIdle
  <2> QED
    BY <2>1, <2>2, <2>3, <2>4, <2>5
<1>3. CASE SupStart
  <2>0. ~HelperLive("sup")
    BY <1>3, WaitingHasNoHelper DEF SupStart, Waits, Procs
  <2> USE <1>3, <2>0 DEF SupStart, SupOnly, OuterOnly, SupGoto, SupFailures, CleanupFailures
  <2>1. HelperServesOwner'
    BY DEF HelperServesOwner, Orphaned
  <2>2. OperatorAlone'
    BY DEF OperatorAlone, OperatorHolds, OuterHolds, SupHolds
  <2>3. OuterAlone'
    BY DEF OuterAlone, OuterSole, SupEarly, SupIdle, HelperServesOwner,
           HandoffOrder, PreOffer, Orphaned, WorkerLockstep,
           PostOwned
  <2>4. HandoffOrder'
    BY DEF HandoffOrder, PreOffer, PostOwned, OuterAlone, OuterSole,
           SupEarly, SupIdle
  <2>5. WorkerLockstep'
    BY DEF WorkerLockstep, PostOwned, HelperServesOwner, HandoffOrder,
           Orphaned, OuterAlone, OuterSole, SupEarly, SupIdle
  <2> QED
    BY <2>1, <2>2, <2>3, <2>4, <2>5
<1>4. CASE SupAcknowledged
  <2>0. ~HelperLive("sup")
    BY <1>4, WaitingHasNoHelper DEF SupAcknowledged, Waits, Procs
  <2> USE <1>4, <2>0 DEF SupAcknowledged, SupOnly, OuterOnly, SupGoto, SupFailures, CleanupFailures
  <2>1. HelperServesOwner'
    BY DEF HelperServesOwner, Orphaned
  <2>2. OperatorAlone'
    BY DEF OperatorAlone, OperatorHolds, OuterHolds, SupHolds
  <2>3. OuterAlone'
    BY DEF OuterAlone, OuterSole, SupEarly, SupIdle, HelperServesOwner,
           HandoffOrder, PreOffer, Orphaned, WorkerLockstep,
           PostOwned
  <2>4. HandoffOrder'
    BY DEF HandoffOrder, PreOffer, PostOwned, OuterAlone, OuterSole,
           SupEarly, SupIdle
  <2>5. WorkerLockstep'
    BY DEF WorkerLockstep, PostOwned, HelperServesOwner, HandoffOrder,
           Orphaned, OuterAlone, OuterSole, SupEarly, SupIdle
  <2> QED
    BY <2>1, <2>2, <2>3, <2>4, <2>5
<1>5. CASE SupGiveUp
  <2>0. ~HelperLive("sup")
    BY <1>5, WaitingHasNoHelper DEF SupGiveUp, Waits, Procs
  <2> USE <1>5, <2>0 DEF SupGiveUp, SupOnly, OuterOnly, SupGoto, SupFailures, CleanupFailures
  <2>1. HelperServesOwner'
    BY DEF HelperServesOwner, Orphaned
  <2>2. OperatorAlone'
    BY DEF OperatorAlone, OperatorHolds, OuterHolds, SupHolds
  <2>3. OuterAlone'
    BY DEF OuterAlone, OuterSole, SupEarly, SupIdle, HelperServesOwner,
           HandoffOrder, PreOffer, Orphaned, WorkerLockstep,
           PostOwned
  <2>4. HandoffOrder'
    BY DEF HandoffOrder, PreOffer, PostOwned, OuterAlone, OuterSole,
           SupEarly, SupIdle
  <2>5. WorkerLockstep'
    BY DEF WorkerLockstep, PostOwned, HelperServesOwner, HandoffOrder,
           Orphaned, OuterAlone, OuterSole, SupEarly, SupIdle
  <2> QED
    BY <2>1, <2>2, <2>3, <2>4, <2>5
<1>6. CASE SupReleaseWorker
  BY <1>6
  DEF SupReleaseWorker, SupOnly, OuterOnly, SupGoto, SupFailures,
      CleanupFailures, HelperServesOwner, OperatorAlone, OuterAlone,
      HandoffOrder, WorkerLockstep, OperatorHolds, OuterHolds,
      SupHolds, Orphaned, OuterSole, PostOwned, PreOffer, SupEarly,
      SupIdle
<1>7. CASE SupWorkerMilestone
  <2>0. ~HelperLive("sup")
    BY <1>7, WaitingHasNoHelper DEF SupWorkerMilestone, Waits, Procs
  <2> USE <1>7, <2>0 DEF SupWorkerMilestone, SupOnly, OuterOnly, SupGoto, SupFailures, CleanupFailures
  <2>1. HelperServesOwner'
    BY DEF HelperServesOwner, Orphaned
  <2>2. OperatorAlone'
    BY DEF OperatorAlone, OperatorHolds, OuterHolds, SupHolds
  <2>3. OuterAlone'
    BY DEF OuterAlone, OuterSole, SupEarly, SupIdle, HelperServesOwner,
           HandoffOrder, PreOffer, Orphaned, WorkerLockstep,
           PostOwned
  <2>4. HandoffOrder'
    BY DEF HandoffOrder, PreOffer, PostOwned, OuterAlone, OuterSole,
           SupEarly, SupIdle
  <2>5. WorkerLockstep'
    BY DEF WorkerLockstep, PostOwned, HelperServesOwner, HandoffOrder,
           Orphaned, OuterAlone, OuterSole, SupEarly, SupIdle
  <2> QED
    BY <2>1, <2>2, <2>3, <2>4, <2>5
<1>8. CASE SupReapWorker
  <2>0. ~HelperLive("sup")
    BY <1>8, WaitingHasNoHelper DEF SupReapWorker, Waits, Procs
  <2> USE <1>8, <2>0 DEF SupReapWorker, SupOnly, OuterOnly, SupGoto, SupFailures, CleanupFailures
  <2>1. HelperServesOwner'
    BY DEF HelperServesOwner, Orphaned
  <2>2. OperatorAlone'
    BY DEF OperatorAlone, OperatorHolds, OuterHolds, SupHolds
  <2>3. OuterAlone'
    BY DEF OuterAlone, OuterSole, SupEarly, SupIdle, HelperServesOwner,
           HandoffOrder, PreOffer, Orphaned, WorkerLockstep,
           PostOwned
  <2>4. HandoffOrder'
    BY DEF HandoffOrder, PreOffer, PostOwned, OuterAlone, OuterSole,
           SupEarly, SupIdle
  <2>5. WorkerLockstep'
    BY DEF WorkerLockstep, PostOwned, HelperServesOwner, HandoffOrder,
           Orphaned, OuterAlone, OuterSole, SupEarly, SupIdle
  <2> QED
    BY <2>1, <2>2, <2>3, <2>4, <2>5
<1>9. CASE SupLoseWorker
  BY <1>9
  DEF SupLoseWorker, SupOnly, OuterOnly, SupGoto, SupFailures,
      CleanupFailures, HelperServesOwner, OperatorAlone, OuterAlone,
      HandoffOrder, WorkerLockstep, OperatorHolds, OuterHolds,
      SupHolds, Orphaned, OuterSole, PostOwned, PreOffer, SupEarly,
      SupIdle
<1>10. CASE SupLaunch
  <2>0. ~HelperLive("sup")
    BY <1>10, WaitingHasNoHelper DEF SupLaunch, Waits, Procs
  <2> USE <1>10, <2>0 DEF SupLaunch, SupOnly, OuterOnly, SupGoto, SupFailures, CleanupFailures
  <2>1. HelperServesOwner'
    BY DEF HelperServesOwner, Orphaned
  <2>2. OperatorAlone'
    BY DEF OperatorAlone, OperatorHolds, OuterHolds, SupHolds
  <2>3. OuterAlone'
    BY DEF OuterAlone, OuterSole, SupEarly, SupIdle, HelperServesOwner,
           HandoffOrder, PreOffer, Orphaned, WorkerLockstep,
           PostOwned
  <2>4. HandoffOrder'
    BY DEF HandoffOrder, PreOffer, PostOwned, OuterAlone, OuterSole,
           SupEarly, SupIdle
  <2>5. WorkerLockstep'
    BY DEF WorkerLockstep, PostOwned, HelperServesOwner, HandoffOrder,
           Orphaned, OuterAlone, OuterSole, SupEarly, SupIdle
  <2> QED
    BY <2>1, <2>2, <2>3, <2>4, <2>5
<1>11. CASE SupLaunchFails
  <2>0. ~HelperLive("sup")
    BY <1>11, WaitingHasNoHelper DEF SupLaunchFails, Waits, Procs
  <2> USE <1>11, <2>0 DEF SupLaunchFails, SupOnly, OuterOnly, SupGoto, SupFailures, CleanupFailures
  <2>1. HelperServesOwner'
    BY DEF HelperServesOwner, Orphaned
  <2>2. OperatorAlone'
    BY DEF OperatorAlone, OperatorHolds, OuterHolds, SupHolds
  <2>3. OuterAlone'
    BY DEF OuterAlone, OuterSole, SupEarly, SupIdle, HelperServesOwner,
           HandoffOrder, PreOffer, Orphaned, WorkerLockstep,
           PostOwned
  <2>4. HandoffOrder'
    BY DEF HandoffOrder, PreOffer, PostOwned, OuterAlone, OuterSole,
           SupEarly, SupIdle
  <2>5. WorkerLockstep'
    BY DEF WorkerLockstep, PostOwned, HelperServesOwner, HandoffOrder,
           Orphaned, OuterAlone, OuterSole, SupEarly, SupIdle
  <2> QED
    BY <2>1, <2>2, <2>3, <2>4, <2>5
<1>12. CASE SupCheckpoint
  <2>0. ~HelperLive("sup")
    BY <1>12, WaitingHasNoHelper DEF SupCheckpoint, Waits, Procs
  <2> USE <1>12, <2>0 DEF SupCheckpoint, SupOnly, OuterOnly, SupGoto, SupFailures, CleanupFailures
  <2>1. HelperServesOwner'
    BY DEF HelperServesOwner, Orphaned
  <2>2. OperatorAlone'
    BY DEF OperatorAlone, OperatorHolds, OuterHolds, SupHolds
  <2>3. OuterAlone'
    BY DEF OuterAlone, OuterSole, SupEarly, SupIdle, HelperServesOwner,
           HandoffOrder, PreOffer, Orphaned, WorkerLockstep,
           PostOwned
  <2>4. HandoffOrder'
    BY DEF HandoffOrder, PreOffer, PostOwned, OuterAlone, OuterSole,
           SupEarly, SupIdle
  <2>5. WorkerLockstep'
    BY DEF WorkerLockstep, PostOwned, HelperServesOwner, HandoffOrder,
           Orphaned, OuterAlone, OuterSole, SupEarly, SupIdle
  <2> QED
    BY <2>1, <2>2, <2>3, <2>4, <2>5
<1>13. CASE SupSettleProcess
  <2>0. ~HelperLive("sup")
    BY <1>13, WaitingHasNoHelper DEF SupSettleProcess, Waits, Procs
  <2> USE <1>13, <2>0 DEF SupSettleProcess, SupOnly, OuterOnly, SupGoto, SupFailures, CleanupFailures
  <2>1. HelperServesOwner'
    BY DEF HelperServesOwner, Orphaned
  <2>2. OperatorAlone'
    BY DEF OperatorAlone, OperatorHolds, OuterHolds, SupHolds
  <2>3. OuterAlone'
    BY DEF OuterAlone, OuterSole, SupEarly, SupIdle, HelperServesOwner,
           HandoffOrder, PreOffer, Orphaned, WorkerLockstep,
           PostOwned
  <2>4. HandoffOrder'
    BY DEF HandoffOrder, PreOffer, PostOwned, OuterAlone, OuterSole,
           SupEarly, SupIdle
  <2>5. WorkerLockstep'
    BY DEF WorkerLockstep, PostOwned, HelperServesOwner, HandoffOrder,
           Orphaned, OuterAlone, OuterSole, SupEarly, SupIdle
  <2> QED
    BY <2>1, <2>2, <2>3, <2>4, <2>5
<1>14. CASE SupPublish
  <2>0. ~HelperLive("sup")
    BY <1>14, WaitingHasNoHelper DEF SupPublish, Waits, Procs
  <2> USE <1>14, <2>0 DEF SupPublish, SupOnly, OuterOnly, SupGoto, SupFailures, CleanupFailures
  <2>1. HelperServesOwner'
    BY DEF HelperServesOwner, Orphaned
  <2>2. OperatorAlone'
    BY DEF OperatorAlone, OperatorHolds, OuterHolds, SupHolds
  <2>3. OuterAlone'
    BY DEF OuterAlone, OuterSole, SupEarly, SupIdle, HelperServesOwner,
           HandoffOrder, PreOffer, Orphaned, WorkerLockstep,
           PostOwned
  <2>4. HandoffOrder'
    BY DEF HandoffOrder, PreOffer, PostOwned, OuterAlone, OuterSole,
           SupEarly, SupIdle
  <2>5. WorkerLockstep'
    BY DEF WorkerLockstep, PostOwned, HelperServesOwner, HandoffOrder,
           Orphaned, OuterAlone, OuterSole, SupEarly, SupIdle
  <2> QED
    BY <2>1, <2>2, <2>3, <2>4, <2>5
<1>15. CASE SupSendTerminal
  <2>0. ~HelperLive("sup")
    BY <1>15, WaitingHasNoHelper DEF SupSendTerminal, Waits, Procs
  <2> USE <1>15, <2>0 DEF SupSendTerminal, SupOnly, OuterOnly, SupGoto, SupFailures, CleanupFailures
  <2>1. HelperServesOwner'
    BY DEF HelperServesOwner, Orphaned
  <2>2. OperatorAlone'
    BY DEF OperatorAlone, OperatorHolds, OuterHolds, SupHolds
  <2>3. OuterAlone'
    BY DEF OuterAlone, OuterSole, SupEarly, SupIdle, HelperServesOwner,
           HandoffOrder, PreOffer, Orphaned, WorkerLockstep,
           PostOwned
  <2>4. HandoffOrder'
    BY DEF HandoffOrder, PreOffer, PostOwned, OuterAlone, OuterSole,
           SupEarly, SupIdle
  <2>5. WorkerLockstep'
    BY DEF WorkerLockstep, PostOwned, HelperServesOwner, HandoffOrder,
           Orphaned, OuterAlone, OuterSole, SupEarly, SupIdle
  <2> QED
    BY <2>1, <2>2, <2>3, <2>4, <2>5
<1> QED
  BY <1>1, <1>2, <1>3, <1>4, <1>5, <1>6, <1>7, <1>8, <1>9, <1>10, <1>11,
     <1>12, <1>13, <1>14, <1>15 DEF SupStep

LEMMA WorkerDiscipline ==
  ASSUME TypeOK, LeaseDiscipline, WorkerNext
  PROVE  LeaseDiscipline'
<1> USE LabelFacts
    DEF TypeOK, LeaseDiscipline, HelperLive, WorkerLive, Finished
<1>1. CASE WorkerCommit
  BY <1>1
  DEF WorkerCommit, WorkerOnly, WorkerCommits, HelperServesOwner,
      OperatorAlone, OuterAlone, HandoffOrder, WorkerLockstep,
      OperatorHolds, OuterHolds, SupHolds, Orphaned, OuterSole,
      PostOwned, PreOffer, SupEarly, SupIdle
<1>2. CASE WorkerAdd
  BY <1>2
  DEF WorkerAdd, WorkerOnly, WorkerCommits, HelperServesOwner,
      OperatorAlone, OuterAlone, HandoffOrder, WorkerLockstep,
      OperatorHolds, OuterHolds, SupHolds, Orphaned, OuterSole,
      PostOwned, PreOffer, SupEarly, SupIdle
<1>3. CASE WorkerStep
  BY <1>3
  DEF WorkerStep, WorkerOnly, WorkerCommits, HelperServesOwner,
      OperatorAlone, OuterAlone, HandoffOrder, WorkerLockstep,
      OperatorHolds, OuterHolds, SupHolds, Orphaned, OuterSole,
      PostOwned, PreOffer, SupEarly, SupIdle
<1>4. CASE WorkerFails
  BY <1>4
  DEF WorkerFails, WorkerOnly, WorkerCommits, HelperServesOwner,
      OperatorAlone, OuterAlone, HandoffOrder, WorkerLockstep,
      OperatorHolds, OuterHolds, SupHolds, Orphaned, OuterSole,
      PostOwned, PreOffer, SupEarly, SupIdle
<1>5. CASE WorkerDies
  BY <1>5
  DEF WorkerDies, WorkerOnly, WorkerCommits, HelperServesOwner,
      OperatorAlone, OuterAlone, HandoffOrder, WorkerLockstep,
      OperatorHolds, OuterHolds, SupHolds, Orphaned, OuterSole,
      PostOwned, PreOffer, SupEarly, SupIdle
<1> QED
  BY <1>1, <1>2, <1>3, <1>4, <1>5 DEF WorkerNext

LEMMA CommitDiscipline ==
  ASSUME TypeOK, LeaseDiscipline, NEW p \in Procs, CommitStep(p)
  PROVE  LeaseDiscipline'
<1> USE LabelFacts
    DEF TypeOK, LeaseDiscipline, HelperLive, WorkerLive, Finished
<1>1. CASE Request(p)
  <2>1. pc[p] \in Kinds /\ ~HelperLive(p)
    BY <1>1 DEF Request
  <2>2. pc[p] \in LabelsOf(p)
    OBVIOUS
  <2>3. CASE p = "outer"
    <3>0. OuterWrites
      BY <2>1, <2>3, OuterCommitting DEF LeaseDiscipline
    <3> USE <1>1, <2>1, <2>2, <2>3, <3>0 DEF OuterWrites, Request
    <3>1. HelperServesOwner'
      BY DEF HelperServesOwner, Orphaned
    <3>2. OperatorAlone'
      BY DEF OperatorAlone, OperatorHolds, OuterHolds, SupHolds
    <3>3. OuterAlone'
      BY DEF OuterAlone, OuterSole, SupEarly, SupIdle
    <3>4. HandoffOrder'
      BY DEF HandoffOrder, PreOffer, PostOwned, OuterSole, SupEarly,
             SupIdle
    <3>5. WorkerLockstep'
      BY DEF WorkerLockstep, PostOwned, SupEarly, SupIdle
    <3> QED
      BY <3>1, <3>2, <3>3, <3>4, <3>5
  <2>4. CASE p = "sup"
    <3>0. SupWrites
      BY <2>1, <2>4, SupCommitting DEF LeaseDiscipline
    <3> USE <1>1, <2>1, <2>2, <2>4, <3>0 DEF SupWrites, Request
    <3>1. HelperServesOwner'
      BY DEF HelperServesOwner, Orphaned
    <3>2. OperatorAlone'
      BY DEF OperatorAlone, OperatorHolds, OuterHolds, SupHolds
    <3>3. OuterAlone'
      BY DEF OuterAlone, OuterSole, SupEarly, SupIdle
    <3>4. HandoffOrder'
      BY DEF HandoffOrder, PreOffer, PostOwned, OuterSole, SupEarly,
             SupIdle
    <3>5. WorkerLockstep'
      BY DEF WorkerLockstep, PostOwned, SupEarly, SupIdle
    <3> QED
      BY <3>1, <3>2, <3>3, <3>4, <3>5
  <2>5. CASE p = "operator"
    <3>0. OperatorWrites
      BY <2>1, <2>5, OperatorCommitting DEF LeaseDiscipline
    <3> USE <1>1, <2>1, <2>2, <2>5, <3>0 DEF OperatorWrites, Request
    <3>1. HelperServesOwner'
      BY DEF HelperServesOwner, Orphaned
    <3>2. OperatorAlone'
      BY DEF OperatorAlone, OperatorHolds, OuterHolds, SupHolds
    <3>3. OuterAlone'
      BY DEF OuterAlone, OuterSole, SupEarly, SupIdle
    <3>4. HandoffOrder'
      BY DEF HandoffOrder, PreOffer, PostOwned, OuterSole, SupEarly,
             SupIdle
    <3>5. WorkerLockstep'
      BY DEF WorkerLockstep, PostOwned, SupEarly, SupIdle
    <3> QED
      BY <3>1, <3>2, <3>3, <3>4, <3>5
  <2> QED
    BY <2>3, <2>4, <2>5
<1>2. CASE HelperCheck(p)
  BY <1>2
  DEF HelperCheck, HelperServesOwner, OperatorAlone, OuterAlone,
      HandoffOrder, WorkerLockstep, OperatorHolds, OuterHolds,
      SupHolds, Orphaned, OuterSole, PostOwned, PreOffer, SupEarly,
      SupIdle
<1>3. CASE HelperCommit(p)
  BY <1>3
  DEF HelperCommit, HelperServesOwner, OperatorAlone, OuterAlone,
      HandoffOrder, WorkerLockstep, OperatorHolds, OuterHolds,
      SupHolds, Orphaned, OuterSole, PostOwned, PreOffer, SupEarly,
      SupIdle
<1>4. CASE HelperFail(p)
  BY <1>4
  DEF HelperFail, HelperServesOwner, OperatorAlone, OuterAlone,
      HandoffOrder, WorkerLockstep, OperatorHolds, OuterHolds,
      SupHolds, Orphaned, OuterSole, PostOwned, PreOffer, SupEarly,
      SupIdle
<1>5. CASE OrphanExit(p)
  BY <1>5
  DEF OrphanExit, NoHelper, HelperServesOwner, OperatorAlone, OuterAlone,
      HandoffOrder, WorkerLockstep, OperatorHolds, OuterHolds,
      SupHolds, Orphaned, OuterSole, PostOwned, PreOffer, SupEarly,
      SupIdle
<1>6. CASE Reply(p)
  <2>1. pc[p] \in Kinds /\ HelperLive(p)
    BY <1>6 DEF Reply
  <2>2. pc[p] \in LabelsOf(p)
    OBVIOUS
  <2>3. CASE p = "outer"
    <3>0. OuterWrites
      BY <2>1, <2>3, OuterCommitting DEF LeaseDiscipline
    <3> USE <2>1, <2>2, <2>3, <3>0 DEF OuterWrites
    <3>9. /\ pc'["outer"] \in OuterSole \cup Finished \cup {"await-accepted",
                                                   "terminating"}
          /\ pc["outer"] = "pending" <=>
               pc'["outer"] \in {"await-accepted", "terminating"}
          /\ pc["outer"] = "final-auth" => pc'["outer"] \in Finished
          /\ pc'["outer"] \in PreOffer => pc["outer"] = "prompt"
      <4>1. PICK l \in After("outer", pc["outer"]) :
              pc' = [pc EXCEPT !["outer"] = l]
        BY <1>6 DEF Reply
      <4>2. pc'["outer"] = l /\ pc["outer"] \in Kinds \cap OuterLabels
        BY <4>1
      <4>3. CASE pc["outer"] = "pending"
        BY <4>1, <4>2, <4>3, OuterNextLabels DEF PreOffer
      <4>4. CASE pc["outer"] # "pending"
        BY <4>1, <4>2, <4>4, OuterNextLabels DEF OuterSole
      <4> QED
        BY <4>3, <4>4
    <3>8. /\ pc'["sup"] = pc["sup"] /\ pc'["operator"] = pc["operator"]
          /\ ~HelperLive("outer")' /\ (HelperLive("sup")' <=> HelperLive("sup"))
          /\ (WorkerLive' <=> WorkerLive)
          /\ toSup' = IF pc["outer"] = "pending" THEN "offer" ELSE toSup
      BY <1>6 DEF Reply, NoHelper, OuterSends, SupSends, WorkerAfter
    <3>1. HelperServesOwner'
      BY <1>6, <3>9 DEF Reply, NoHelper, HelperServesOwner, Orphaned
    <3>2. OperatorAlone'
      BY <1>6, <3>9 DEF Reply, NoHelper, OperatorAlone, OperatorHolds, OuterHolds, SupHolds
    <3>3. OuterAlone'
      BY <3>8, <3>9 DEF OuterAlone, OuterSole, SupEarly, SupIdle
    <3>4. HandoffOrder'
      BY <3>8, <3>9 DEF HandoffOrder, PreOffer, PostOwned, OuterSole, SupEarly,
             SupIdle
    <3>5. WorkerLockstep'
      BY <3>8, <3>9 DEF WorkerLockstep, HandoffOrder, PostOwned, SupEarly, SupIdle
    <3> QED
      BY <3>1, <3>2, <3>3, <3>4, <3>5
  <2>4. CASE p = "sup"
    <3>0. SupWrites
      BY <2>1, <2>4, SupCommitting DEF LeaseDiscipline
    <3> USE <2>1, <2>2, <2>4, <3>0 DEF SupWrites
    <3>9. /\ pc'["sup"] \notin {"off", "ready", "await-offer", "adding",
                               "index", "phase0"}
          /\ pc'["sup"] = "await-worker" =>
               pc["sup"] \in {"adding", "index", "phase0"}
          /\ pc["sup"] \in {"adding", "index", "phase0"} =>
               pc'["sup"] = "await-worker"
      BY <1>6, SupNextLabels, NextLabel
      DEF Reply, SupFailures
    <3>8. /\ pc'["outer"] = pc["outer"] /\ pc'["operator"] = pc["operator"]
          /\ ~HelperLive("sup")' /\ (HelperLive("outer")' <=> HelperLive("outer"))
          /\ toSup' = toSup
          /\ pc["sup"] \notin {"adding", "index", "phase0"} =>
               worker' = worker
      BY <1>6 DEF Reply, NoHelper, OuterSends, SupSends, WorkerAfter
    <3>1. HelperServesOwner'
      BY <1>6, <3>9 DEF Reply, NoHelper, HelperServesOwner, Orphaned
    <3>2. OperatorAlone'
      BY <1>6, <3>9 DEF Reply, NoHelper, OperatorAlone, OperatorHolds, OuterHolds, SupHolds
    <3>3. OuterAlone'
      BY <3>8, <3>9 DEF OuterAlone, OuterSole, SupEarly, SupIdle
    <3>4. HandoffOrder'
      BY <3>8, <3>9 DEF HandoffOrder, PreOffer, PostOwned, OuterSole, SupEarly,
             SupIdle
    <3>5. WorkerLockstep'
      BY <3>8, <3>9 DEF WorkerLockstep, HandoffOrder, PostOwned, SupEarly, SupIdle
    <3> QED
      BY <3>1, <3>2, <3>3, <3>4, <3>5
  <2>5. CASE p = "operator"
    <3>0. OperatorWrites
      BY <2>1, <2>5, OperatorCommitting DEF LeaseDiscipline
    <3> USE <1>6, <2>1, <2>2, <2>5, <3>0 DEF OperatorWrites, Reply, NoHelper, OuterSends, SupSends, WorkerAfter
    <3>1. HelperServesOwner'
      BY DEF HelperServesOwner, Orphaned
    <3>2. OperatorAlone'
      BY DEF OperatorAlone, OperatorHolds, OuterHolds, SupHolds
    <3>3. OuterAlone'
      BY DEF OuterAlone, OuterSole, SupEarly, SupIdle
    <3>4. HandoffOrder'
      BY DEF HandoffOrder, PreOffer, PostOwned, OuterSole, SupEarly,
             SupIdle
    <3>5. WorkerLockstep'
      BY DEF WorkerLockstep, PostOwned, SupEarly, SupIdle
    <3> QED
      BY <3>1, <3>2, <3>3, <3>4, <3>5
  <2> QED
    BY <2>3, <2>4, <2>5
<1>7. CASE Fail(p)
  <2>1. pc[p] \in Kinds
    BY <1>7 DEF Fail
  <2>2. pc[p] \in LabelsOf(p)
    OBVIOUS
  <2>3. CASE p = "outer"
    <3>0. OuterWrites
      BY <2>1, <2>3, OuterCommitting DEF LeaseDiscipline
    <3> USE <2>1, <2>2, <2>3, <3>0 DEF OuterWrites
    <3>9. /\ pc'["outer"] \in OuterSole \cup Finished \cup {"await-accepted",
                                                   "terminating"}
          /\ pc["outer"] = "pending" <=>
               pc'["outer"] \in {"await-accepted", "terminating"}
          /\ pc["outer"] = "final-auth" => pc'["outer"] \in Finished
          /\ pc'["outer"] \in PreOffer => pc["outer"] = "prompt"
      <4>1. PICK l \in OnFail("outer", pc["outer"]) :
              pc' = [pc EXCEPT !["outer"] = l]
        BY <1>7 DEF Fail
      <4>2. pc'["outer"] = l /\ pc["outer"] \in Kinds \cap OuterLabels
        BY <4>1
      <4>3. CASE pc["outer"] = "pending"
        BY <4>1, <4>2, <4>3, OuterNextLabels DEF PreOffer
      <4>4. CASE pc["outer"] # "pending"
        BY <4>1, <4>2, <4>4, OuterNextLabels DEF OuterSole
      <4> QED
        BY <4>3, <4>4
    <3>8. /\ pc'["sup"] = pc["sup"] /\ pc'["operator"] = pc["operator"]
          /\ ~HelperLive("outer")' /\ (HelperLive("sup")' <=> HelperLive("sup"))
          /\ (WorkerLive' <=> WorkerLive)
          /\ toSup' = toSup
      BY <1>7 DEF Fail, NoHelper
    <3>1. HelperServesOwner'
      BY <1>7, <3>9 DEF Fail, NoHelper, HelperServesOwner, Orphaned
    <3>2. OperatorAlone'
      BY <1>7, <3>9 DEF Fail, NoHelper, OperatorAlone, OperatorHolds, OuterHolds, SupHolds
    <3>3. OuterAlone'
      BY <3>8, <3>9 DEF OuterAlone, OuterSole, SupEarly, SupIdle
    <3>4. HandoffOrder'
      BY <3>8, <3>9 DEF HandoffOrder, PreOffer, PostOwned, OuterSole, SupEarly,
             SupIdle
    <3>5. WorkerLockstep'
      BY <3>8, <3>9 DEF WorkerLockstep, HandoffOrder, PostOwned, SupEarly, SupIdle
    <3> QED
      BY <3>1, <3>2, <3>3, <3>4, <3>5
  <2>4. CASE p = "sup"
    <3>0. SupWrites
      BY <2>1, <2>4, SupCommitting DEF LeaseDiscipline
    <3> USE <2>1, <2>2, <2>4, <3>0 DEF SupWrites
    <3>9. /\ pc'["sup"] \notin {"off", "ready", "await-offer", "adding",
                               "index", "phase0"}
          /\ pc'["sup"] = "await-worker" =>
               pc["sup"] \in {"adding", "index", "phase0"}
          /\ pc["sup"] \in {"index", "phase0"} => pc'["sup"] = "exit2"
      BY <1>7, SupNextLabels, NextLabel
      DEF Fail, SupFailures
    <3>8. /\ pc'["outer"] = pc["outer"] /\ pc'["operator"] = pc["operator"]
          /\ ~HelperLive("sup")' /\ (HelperLive("outer")' <=> HelperLive("outer"))
          /\ toSup' = toSup
          /\ worker' = IF pc["sup"] \in {"index", "phase0"} THEN "dead" ELSE worker
      BY <1>7 DEF Fail, NoHelper
    <3>1. HelperServesOwner'
      BY <1>7, <3>9 DEF Fail, NoHelper, HelperServesOwner, Orphaned
    <3>2. OperatorAlone'
      BY <1>7, <3>9 DEF Fail, NoHelper, OperatorAlone, OperatorHolds, OuterHolds, SupHolds
    <3>3. OuterAlone'
      BY <3>8, <3>9 DEF OuterAlone, OuterSole, SupEarly, SupIdle
    <3>4. HandoffOrder'
      BY <3>8, <3>9 DEF HandoffOrder, PreOffer, PostOwned, OuterSole, SupEarly,
             SupIdle
    <3>5. WorkerLockstep'
      BY <3>8, <3>9 DEF WorkerLockstep, HandoffOrder, PostOwned, SupEarly, SupIdle
    <3> QED
      BY <3>1, <3>2, <3>3, <3>4, <3>5
  <2>5. CASE p = "operator"
    <3>0. OperatorWrites
      BY <2>1, <2>5, OperatorCommitting DEF LeaseDiscipline
    <3> USE <1>7, <2>1, <2>2, <2>5, <3>0 DEF OperatorWrites, Fail, NoHelper
    <3>1. HelperServesOwner'
      BY DEF HelperServesOwner, Orphaned
    <3>2. OperatorAlone'
      BY DEF OperatorAlone, OperatorHolds, OuterHolds, SupHolds
    <3>3. OuterAlone'
      BY DEF OuterAlone, OuterSole, SupEarly, SupIdle
    <3>4. HandoffOrder'
      BY DEF HandoffOrder, PreOffer, PostOwned, OuterSole, SupEarly,
             SupIdle
    <3>5. WorkerLockstep'
      BY DEF WorkerLockstep, PostOwned, SupEarly, SupIdle
    <3> QED
      BY <3>1, <3>2, <3>3, <3>4, <3>5
  <2> QED
    BY <2>3, <2>4, <2>5
<1> QED
  BY <1>1, <1>2, <1>3, <1>4, <1>5, <1>6, <1>7 DEF CommitStep

LEMMA CleanupDiscipline ==
  ASSUME TypeOK, LeaseDiscipline, NEW p \in Procs, CleanupStep(p)
  PROVE  LeaseDiscipline'
<1> USE LabelFacts
    DEF TypeOK, LeaseDiscipline, HelperLive, WorkerLive, Finished
<1>1. CASE CleanupStart(p)
  <2>0. ~HelperLive(p)
    BY <1>1, WaitingHasNoHelper DEF CleanupStart, Waits, Procs
  <2> USE <1>1, <2>0 DEF CleanupStart, CleanupOnly, CleanupFailures
  <2>1. HelperServesOwner'
    BY DEF HelperServesOwner, Orphaned
  <2>2. OperatorAlone'
    BY DEF OperatorAlone, OperatorHolds, OuterHolds, SupHolds
  <2>3. OuterAlone'
    BY DEF OuterAlone, OuterSole, SupEarly, SupIdle, HelperServesOwner,
           HandoffOrder, PreOffer, Orphaned, WorkerLockstep,
           PostOwned
  <2>4. HandoffOrder'
    BY DEF HandoffOrder, PreOffer, PostOwned, OuterAlone, OuterSole,
           SupEarly, SupIdle
  <2>5. WorkerLockstep'
    BY DEF WorkerLockstep, PostOwned, HelperServesOwner, HandoffOrder,
           Orphaned, OuterAlone, OuterSole, SupEarly, SupIdle
  <2> QED
    BY <2>1, <2>2, <2>3, <2>4, <2>5
<1>2. CASE CleanupDelete(p)
  <2>0. ~HelperLive(p)
    BY <1>2, WaitingHasNoHelper DEF CleanupDelete, Waits, Procs
  <2> USE <1>2, <2>0 DEF CleanupDelete, CleanupOnly, CleanupFailures
  <2>1. HelperServesOwner'
    BY DEF HelperServesOwner, Orphaned
  <2>2. OperatorAlone'
    BY DEF OperatorAlone, OperatorHolds, OuterHolds, SupHolds
  <2>3. OuterAlone'
    BY DEF OuterAlone, OuterSole, SupEarly, SupIdle, HelperServesOwner,
           HandoffOrder, PreOffer, Orphaned, WorkerLockstep,
           PostOwned
  <2>4. HandoffOrder'
    BY DEF HandoffOrder, PreOffer, PostOwned, OuterAlone, OuterSole,
           SupEarly, SupIdle
  <2>5. WorkerLockstep'
    BY DEF WorkerLockstep, PostOwned, HelperServesOwner, HandoffOrder,
           Orphaned, OuterAlone, OuterSole, SupEarly, SupIdle
  <2> QED
    BY <2>1, <2>2, <2>3, <2>4, <2>5
<1>3. CASE CleanupGivesUp(p)
  <2>0. ~HelperLive(p)
    BY <1>3, WaitingHasNoHelper DEF CleanupGivesUp, Waits, Procs
  <2> USE <1>3, <2>0 DEF CleanupGivesUp, CleanupOnly, CleanupFailures
  <2>1. HelperServesOwner'
    BY DEF HelperServesOwner, Orphaned
  <2>2. OperatorAlone'
    BY DEF OperatorAlone, OperatorHolds, OuterHolds, SupHolds
  <2>3. OuterAlone'
    BY DEF OuterAlone, OuterSole, SupEarly, SupIdle, HelperServesOwner,
           HandoffOrder, PreOffer, Orphaned, WorkerLockstep,
           PostOwned
  <2>4. HandoffOrder'
    BY DEF HandoffOrder, PreOffer, PostOwned, OuterAlone, OuterSole,
           SupEarly, SupIdle
  <2>5. WorkerLockstep'
    BY DEF WorkerLockstep, PostOwned, HelperServesOwner, HandoffOrder,
           Orphaned, OuterAlone, OuterSole, SupEarly, SupIdle
  <2> QED
    BY <2>1, <2>2, <2>3, <2>4, <2>5
<1> QED
  BY <1>1, <1>2, <1>3 DEF CleanupStep

LEMMA OtherDiscipline ==
  ASSUME TypeOK, LeaseDiscipline, NEW p \in Procs,
         Crash(p) \/ LeaderExits \/ OperatorRecover \/ OperatorFinal \/ Reboot
  PROVE  LeaseDiscipline'
<1> USE LabelFacts
    DEF TypeOK, LeaseDiscipline, HelperLive, WorkerLive, Finished
<1>1. CASE Crash(p)
  BY <1>1
  DEF Crash, HelperServesOwner, OperatorAlone, OuterAlone, HandoffOrder,
      WorkerLockstep, OperatorHolds, OuterHolds, SupHolds, Orphaned,
      OuterSole, PostOwned, PreOffer, SupEarly, SupIdle
<1>2. CASE LeaderExits
  BY <1>2
  DEF LeaderExits, HelperServesOwner, OperatorAlone, OuterAlone,
      HandoffOrder, WorkerLockstep, OperatorHolds, OuterHolds,
      SupHolds, Orphaned, OuterSole, PostOwned, PreOffer, SupEarly,
      SupIdle
<1>3. CASE OperatorRecover
  BY <1>3
  DEF OperatorRecover, LeaseFree, HelperServesOwner, OperatorAlone,
      OuterAlone, HandoffOrder, WorkerLockstep, OperatorHolds,
      OuterHolds, SupHolds, Orphaned, OuterSole, PostOwned, PreOffer,
      SupEarly, SupIdle
<1>4. CASE OperatorFinal
  BY <1>4
  DEF OperatorFinal, HelperServesOwner, OperatorAlone, OuterAlone,
      HandoffOrder, WorkerLockstep, OperatorHolds, OuterHolds,
      SupHolds, Orphaned, OuterSole, PostOwned, PreOffer, SupEarly,
      SupIdle
<1>5. CASE Reboot
  BY <1>5
  DEF Reboot, NoHelper, HelperServesOwner, OperatorAlone, OuterAlone,
      HandoffOrder, WorkerLockstep, OperatorHolds, OuterHolds,
      SupHolds, Orphaned, OuterSole, PostOwned, PreOffer, SupEarly,
      SupIdle
<1> QED
  BY <1>1, <1>2, <1>3, <1>4, <1>5

LEMMA NextDiscipline ==
  TypeOK /\ LeaseDiscipline /\ [Next]_vars => LeaseDiscipline'
<1> SUFFICES ASSUME TypeOK, LeaseDiscipline, [Next]_vars
             PROVE  LeaseDiscipline'
  OBVIOUS
<1>1. ASSUME NEW p \in Procs, CommitStep(p) \/ CleanupStep(p) \/ Crash(p)
      PROVE  LeaseDiscipline'
  BY <1>1, CommitDiscipline, CleanupDiscipline, OtherDiscipline
<1>2. CASE OuterStart \/ OuterStep
  BY <1>2, OuterDiscipline
<1>3. CASE SupStep
  BY <1>3, SupDiscipline
<1>4. CASE WorkerNext
  BY <1>4, WorkerDiscipline
<1>5. CASE LeaderExits \/ OperatorRecover \/ OperatorFinal \/ Reboot
  <2>1. "outer" \in Procs
    BY DEF Procs
  <2> QED
    BY <1>5, <2>1, OtherDiscipline
<1>6. CASE UNCHANGED vars
  BY <1>6 DEF vars, LeaseDiscipline, HelperServesOwner, OperatorAlone,
     OuterAlone, HandoffOrder, WorkerLockstep, HelperLive, OperatorHolds,
     OuterHolds, SupHolds, WorkerLive, Orphaned
<1> QED
  BY <1>1, <1>2, <1>3, <1>4, <1>5, <1>6 DEF Next

(* The lease discipline: who holds the lease, who has a helper and who may *)
(* be in which phase of the handoff.                                       *)
THEOREM LeaseDisciplineHolds == Spec => []LeaseDiscipline
<1>1. Init => LeaseDiscipline
  BY InitDiscipline
<1>2. TypeOK /\ LeaseDiscipline /\ [Next]_vars => LeaseDiscipline'
  BY NextDiscipline
<1> QED
  BY <1>1, <1>2, TypeCorrect, PTL DEF Spec

-----------------------------------------------------------------------------
(* The record has one writer at a time, and no update is lost. *)

LEMMA DisciplineMakesSingleWriter == LeaseDiscipline => SingleWriter
<1> SUFFICES ASSUME LeaseDiscipline PROVE SingleWriter
  OBVIOUS
<1>1. \A p \in Procs : Committing(p) => HelperLive(p)
  BY DEF Committing, HelperLive
<1>2. ASSUME NEW p \in Procs, NEW q \in Procs, HelperLive(p), HelperLive(q)
      PROVE  p = q
  BY <1>2 DEF LeaseDiscipline, OperatorAlone, OuterAlone, Procs
<1>3. ASSUME worker \in WorkerCommits, NEW p \in Procs PROVE ~HelperLive(p)
  <2>1. WorkerLive /\ worker \notin {"index-done", "phase0-done"}
    BY <1>3 DEF WorkerLive, WorkerCommits
  <2> QED
    BY <2>1 DEF LeaseDiscipline, OperatorAlone, OuterAlone, WorkerLockstep,
       Procs
<1> QED
  BY <1>1, <1>2, <1>3 DEF SingleWriter

(* Two processes are never in the middle of a commit at the same time, and *)
(* nobody is while the checkout worker commits.                            *)
THEOREM SingleWriterHolds == Spec => []SingleWriter
BY LeaseDisciplineHolds, DisciplineMakesSingleWriter, PTL

LEMMA RecordStable ==
  ASSUME TypeOK, NoLostUpdate, rec' = rec,
         \A p \in Procs : helper'[p] = helper[p] \/ helper'[p].st # "checked"
  PROVE  NoLostUpdate'
BY DEF NoLostUpdate

LEMMA CommitKeepsUpdates ==
  ASSUME TypeOK, SingleWriter, NoLostUpdate, NEW p \in Procs, CommitStep(p)
  PROVE  NoLostUpdate'
<1> USE DEF TypeOK
<1>1. CASE HelperCheck(p)
  BY <1>1 DEF HelperCheck, NoLostUpdate
<1>2. CASE HelperCommit(p)
  <2>1. \A q \in Procs \ {p} : helper'[q] = helper[q] /\ ~Committing(q)
    BY <1>2 DEF HelperCommit, SingleWriter, Committing
  <2>2. helper'[p].st = "landed"
    BY <1>2 DEF HelperCommit
  <2> QED
    BY <2>1, <2>2 DEF NoLostUpdate, Committing
<1>3. CASE Request(p) \/ HelperFail(p) \/ OrphanExit(p)
  BY <1>3, RecordStable DEF Request, HelperFail, OrphanExit, NoHelper
<1>4. CASE Reply(p)
  <2>1. rec' = rec /\ helper' = [helper EXCEPT ![p] = NoHelper]
    BY <1>4 DEF Reply
  <2> QED
    BY <2>1, RecordStable DEF NoHelper
<1>5. CASE Fail(p)
  <2>1. rec' = rec /\ helper' = [helper EXCEPT ![p] = NoHelper]
    BY <1>5 DEF Fail
  <2> QED
    BY <2>1, RecordStable DEF NoHelper
<1> QED
  BY <1>1, <1>2, <1>3, <1>4, <1>5 DEF CommitStep

LEMMA WorkerKeepsUpdates ==
  ASSUME TypeOK, SingleWriter, NoLostUpdate, WorkerNext
  PROVE  NoLostUpdate'
<1>1. CASE WorkerCommit
  <2>1. helper' = helper /\ \A p \in Procs : ~Committing(p)
    BY <1>1 DEF WorkerCommit, WorkerOnly, SingleWriter
  <2> QED
    BY <2>1 DEF NoLostUpdate, Committing
<1>2. CASE WorkerAdd \/ WorkerStep \/ WorkerFails \/ WorkerDies
  BY <1>2, RecordStable
  DEF WorkerAdd, WorkerStep, WorkerFails, WorkerDies, WorkerOnly
<1> QED
  BY <1>1, <1>2 DEF WorkerNext

LEMMA OthersKeepRecord ==
  ASSUME TypeOK,
         \/ OuterStart \/ OuterStep \/ SupStep \/ LeaderExits
         \/ OperatorRecover \/ OperatorFinal \/ Reboot
         \/ \E p \in Procs : CleanupStep(p) \/ Crash(p)
  PROVE  /\ rec' = rec
         /\ \A p \in Procs : helper'[p] = helper[p]
                               \/ helper'[p].st # "checked"
<1> USE DEF TypeOK
<1>1. CASE OuterStep /\ ~OuterTerminateSup
  BY <1>1 DEF OuterStep, SpawnSup, OuterCustodyAccepted, OuterAccepted,
     OuterOwnershipComplete, OuterAck, OuterTerminal, OuterGiveUp, OuterReap,
     OuterSelect, OuterOnly
<1>2. CASE OuterTerminateSup
  BY <1>2 DEF OuterTerminateSup, NoHelper
<1>3. CASE SupStep
  BY <1>3 DEF SupStep, SupTakeCustody, SupOffer, SupStart, SupAcknowledged,
     SupGiveUp, SupReleaseWorker, SupWorkerMilestone, SupReapWorker,
     SupLoseWorker, SupLaunch, SupLaunchFails, SupCheckpoint,
     SupSettleProcess, SupPublish, SupSendTerminal, SupOnly, OuterOnly
<1>4. CASE OuterStart \/ LeaderExits \/ OperatorRecover \/ OperatorFinal
  BY <1>4 DEF OuterStart, OuterOnly, LeaderExits, OperatorRecover,
     OperatorFinal
<1>5. CASE Reboot
  BY <1>5 DEF Reboot, NoHelper
<1>6. CASE \E p \in Procs : CleanupStep(p) \/ Crash(p)
  BY <1>6 DEF CleanupStep, CleanupStart, CleanupDelete, CleanupGivesUp,
     CleanupOnly, Crash
<1> QED
  BY <1>1, <1>2, <1>3, <1>4, <1>5, <1>6 DEF OuterStep

LEMMA NextKeepsUpdates ==
  TypeOK /\ SingleWriter /\ NoLostUpdate /\ [Next]_vars => NoLostUpdate'
<1> SUFFICES ASSUME TypeOK, SingleWriter, NoLostUpdate, [Next]_vars
             PROVE  NoLostUpdate'
  OBVIOUS
<1>1. ASSUME NEW p \in Procs, CommitStep(p) PROVE NoLostUpdate'
  BY <1>1, CommitKeepsUpdates
<1>2. CASE WorkerNext
  BY <1>2, WorkerKeepsUpdates
<1>3. CASE \/ OuterStart \/ OuterStep \/ SupStep \/ LeaderExits
           \/ OperatorRecover \/ OperatorFinal \/ Reboot
           \/ \E p \in Procs : CleanupStep(p) \/ Crash(p)
  BY <1>3, OthersKeepRecord, RecordStable
<1>4. CASE UNCHANGED vars
  BY <1>4 DEF vars, NoLostUpdate
<1> QED
  BY <1>1, <1>2, <1>3, <1>4 DEF Next

(* When a helper writes, the record on disk is still the one it validated. *)
THEOREM NoUpdateIsLost == Spec => []NoLostUpdate
<1>1. Init => NoLostUpdate
  BY DEF Init, NoLostUpdate, NoHelper, Procs
<1>2. TypeOK /\ SingleWriter /\ NoLostUpdate /\ [Next]_vars => NoLostUpdate'
  BY NextKeepsUpdates
<1> QED
  BY <1>1, <1>2, TypeCorrect, SingleWriterHolds, PTL DEF Spec

-----------------------------------------------------------------------------
(* What the processes of an attempt do, as opposed to what they write. *)

HandedOver(r) == r.handoff = "complete" /\ r.owner = "attempt-supervisor"
Started(r) == HandedOver(r) /\ r.phase # "reserved"

HelperIn(p, ks) == HelperLive(p) /\ helper[p].kind \in ks
Landed(p, ks) == helper[p].st = "landed" /\ helper[p].kind \in ks

-----------------------------------------------------------------------------
(* Lemmas about one commit. *)

(* The groups of kinds are disjoint, so each builds its own updates. *)
LEMMA UpdateIs ==
  ASSUME NEW r, NEW k
  PROVE  /\ k \in HandoffKinds =>
              Update(k, r) = [HandoffUpdate(k, r) EXCEPT !.last = k]
         /\ k \in CheckoutKinds =>
              Update(k, r) = [CheckoutUpdate(k, r) EXCEPT !.last = k]
         /\ k \in LifecycleKinds =>
              Update(k, r) = [LifecycleUpdate(k, r) EXCEPT !.last = k]
         /\ k \in VerdictKinds =>
              Update(k, r) = [VerdictUpdate(k, r) EXCEPT !.last = k]
         /\ k \in FailureKinds =>
              Update(k, r) = [FailureUpdate(k, r) EXCEPT !.last = k]
         /\ k \in CleanupKinds =>
              Update(k, r) = [CleanupUpdate(k, r) EXCEPT !.last = k]
         /\ k \in SettleKinds =>
              Update(k, r) = [SettleUpdate(k, r) EXCEPT !.last = k]
         /\ k \in RecoverKinds =>
              Update(k, r) = [RecoverUpdate(k, r) EXCEPT !.last = k]
<1>1. /\ HandoffKinds \cap CheckoutKinds = {}
      /\ (HandoffKinds \cup CheckoutKinds) \cap LifecycleKinds = {}
      /\ (HandoffKinds \cup CheckoutKinds \cup LifecycleKinds)
           \cap VerdictKinds = {}
      /\ (HandoffKinds \cup CheckoutKinds \cup LifecycleKinds
           \cup VerdictKinds) \cap FailureKinds = {}
      /\ (HandoffKinds \cup CheckoutKinds \cup LifecycleKinds
           \cup VerdictKinds \cup FailureKinds) \cap CleanupKinds = {}
      /\ (HandoffKinds \cup CheckoutKinds \cup LifecycleKinds
           \cup VerdictKinds \cup FailureKinds \cup CleanupKinds)
           \cap SettleKinds = {}
      /\ (HandoffKinds \cup CheckoutKinds \cup LifecycleKinds
           \cup VerdictKinds \cup FailureKinds \cup CleanupKinds
           \cup SettleKinds) \cap RecoverKinds = {}
  BY DEF HandoffKinds, CheckoutKinds, LifecycleKinds, SpawnKinds,
         ClosedKinds, VerdictKinds, FailureKinds, CleanupKinds, SettleKinds,
         RecoverKinds
<1> QED
  BY <1>1 DEF Update

(* What the handoff commits say of the owner, and that they all find and   *)
(* leave the attempt reserved, but for the abort.                          *)
LEMMA HandoffFields ==
  ASSUME NEW r \in Record, NEW k \in HandoffKinds
  PROVE  /\ k = "complete" => HandedOver(Update(k, r))
         /\ k # "abort" => Update(k, r).phase = r.phase
         /\ k = "abort" => Update(k, r).phase = "prelaunch-aborted"
         /\ Update(k, r).review \in {r.review, "not-run"}
         /\ Update(k, r).authorized = r.authorized
<1>1. Update(k, r) = [HandoffUpdate(k, r) EXCEPT !.last = k]
  BY UpdateIs
<1>2. CASE k = "prompt"
  BY <1>1, <1>2 DEF HandoffUpdate, Record
<1>3. CASE k = "pending"
  BY <1>1, <1>3 DEF HandoffUpdate, Record
<1>4. CASE k = "accepted"
  BY <1>1, <1>4 DEF HandoffUpdate, Record
<1>5. CASE k = "complete"
  BY <1>1, <1>5 DEF HandoffUpdate, Record, HandedOver
<1>6. CASE k = "abort"
  BY <1>1, <1>6 DEF HandoffUpdate, Record
<1> QED BY <1>2, <1>3, <1>4, <1>5, <1>6 DEF HandoffKinds

LEMMA CheckoutFields ==
  ASSUME NEW r \in Record, NEW k \in CheckoutKinds
  PROVE  /\ Update(k, r).handoff = r.handoff /\ Update(k, r).owner = r.owner
         /\ Update(k, r).stage = r.stage /\ Update(k, r).exit = r.exit
         /\ Update(k, r).review = r.review
         /\ Update(k, r).authorized = r.authorized
         /\ Update(k, r).phase = CASE k = "adding" -> "worktree-adding"
                                   [] k = "phase0" -> "validating"
                                   [] OTHER        -> r.phase
<1>1. Update(k, r) = [CheckoutUpdate(k, r) EXCEPT !.last = k]
  BY UpdateIs
<1>2. CASE k = "adding"
  BY <1>1, <1>2 DEF CheckoutUpdate, Record
<1>3. CASE k = "control"
  BY <1>1, <1>3 DEF CheckoutUpdate, Record
<1>4. CASE k = "registered"
  BY <1>1, <1>4 DEF CheckoutUpdate, Record
<1>5. CASE k = "index"
  BY <1>1, <1>5 DEF CheckoutUpdate, Record
<1>6. CASE k = "phase0"
  BY <1>1, <1>6 DEF CheckoutUpdate, Record
<1>7. CASE k = "validated"
  BY <1>1, <1>7 DEF CheckoutUpdate, Record
<1> QED BY <1>2, <1>3, <1>4, <1>5, <1>6, <1>7 DEF CheckoutKinds

LEMMA LifecycleFields ==
  ASSUME NEW r \in Record, NEW k \in LifecycleKinds
  PROVE  /\ Update(k, r).handoff = r.handoff /\ Update(k, r).owner = r.owner
         /\ Update(k, r).review = r.review
         /\ Update(k, r).authorized = r.authorized
         /\ k \in SpawnKinds => /\ Update(k, r).phase = "spawn-intent"
                                /\ Update(k, r).stage \in Stages
         /\ k \notin SpawnKinds => Update(k, r).stage = r.stage
         /\ k = "launched" => Update(k, r).phase = "launched"
         /\ k = "closed-zero" => Update(k, r).exit = "zero"
         /\ k = "closed-nonzero" => Update(k, r).exit = "nonzero"
         /\ Update(k, r).phase \in {"spawn-intent", "launched", "validating",
                                    "review-finished"}
<1>1. Update(k, r) = [LifecycleUpdate(k, r) EXCEPT !.last = k]
  BY UpdateIs
<1>2. CASE k = "spawn-refresh"
  <2>0. LifecycleUpdate(k, r) =
          [r EXCEPT !.phase = "spawn-intent", !.stage = "auth-refresh", !.launch = "spawn-intent",
                    !.exit = "none", !.closure = "unproven"]
    BY <1>2 DEF LifecycleUpdate
  <2>1. /\ Update(k, r).handoff = r.handoff /\ Update(k, r).owner = r.owner
        /\ Update(k, r).review = r.review
        /\ Update(k, r).authorized = r.authorized
        /\ Update(k, r).phase = "spawn-intent"
        /\ Update(k, r).stage = "auth-refresh"
    BY <1>1, <2>0 DEF Record
  <2> QED BY <1>2, <2>1 DEF SpawnKinds, Stages
<1>3. CASE k = "spawn-reviewer"
  <2>0. LifecycleUpdate(k, r) =
          [r EXCEPT !.phase = "spawn-intent", !.stage = "reviewer", !.launch = "spawn-intent",
                    !.exit = "none", !.closure = "unproven"]
    BY <1>3 DEF LifecycleUpdate
  <2>1. /\ Update(k, r).handoff = r.handoff /\ Update(k, r).owner = r.owner
        /\ Update(k, r).review = r.review
        /\ Update(k, r).authorized = r.authorized
        /\ Update(k, r).phase = "spawn-intent"
        /\ Update(k, r).stage = "reviewer"
    BY <1>1, <2>0 DEF Record
  <2> QED BY <1>3, <2>1 DEF SpawnKinds, Stages
<1>4. CASE k = "launched"
  BY <1>1, <1>4 DEF LifecycleUpdate, Record, SpawnKinds
<1>5. CASE k = "closed-zero"
  BY <1>1, <1>5 DEF LifecycleUpdate, Record, SpawnKinds
<1>6. CASE k = "closed-nonzero"
  BY <1>1, <1>6 DEF LifecycleUpdate, Record, SpawnKinds
<1> QED
  BY <1>2, <1>3, <1>4, <1>5, <1>6
  DEF LifecycleKinds, SpawnKinds, ClosedKinds

LEMMA VerdictFields ==
  ASSUME NEW r \in Record, NEW k \in VerdictKinds
  PROVE  /\ Update(k, r).handoff = r.handoff /\ Update(k, r).owner = r.owner
         /\ Update(k, r).stage = r.stage /\ Update(k, r).exit = r.exit
         /\ k # "authorize" => Update(k, r).authorized = r.authorized
         /\ k # "reviewed" => Update(k, r).review = r.review
         /\ Update(k, r).phase =
              CASE k = "auth-pending" -> "terminal-authorization-pending"
                [] k = "reviewed"     -> "reviewed"
                [] OTHER              -> r.phase
<1>1. Update(k, r) = [VerdictUpdate(k, r) EXCEPT !.last = k]
  BY UpdateIs
<1>2. CASE k = "auth-pending"
  BY <1>1, <1>2 DEF VerdictUpdate, Record
<1>3. CASE k = "authorize"
  BY <1>1, <1>3 DEF VerdictUpdate, Record
<1>4. CASE k = "reviewed"
  BY <1>1, <1>4 DEF VerdictUpdate, Record
<1> QED BY <1>2, <1>3, <1>4 DEF VerdictKinds

(* A failure closes an attempt that was not past its review, and takes a   *)
(* verdict back.                                                           *)
LEMMA FailureFields ==
  ASSUME NEW r \in Record, NEW k \in FailureKinds
  PROVE  /\ Update(k, r).handoff = r.handoff /\ Update(k, r).owner = r.owner
         /\ Update(k, r).stage = r.stage /\ Update(k, r).exit = r.exit
         /\ Update(k, r).authorized = r.authorized
         /\ Update(k, r).review \in {"not-run", "inconclusive"}
         /\ Update(k, r).phase = r.phase
              \/ /\ Update(k, r).phase = "prelaunch-aborted"
                 /\ r.phase \in {"reserved", "worktree-adding", "validating",
                                 "spawn-intent"}
<1> DEFINE gone == IF k = "failure-abandoned" THEN "yes" ELSE "no"
           kept == IF r.closure = "proven-by-owner"
                   THEN "proven-by-owner" ELSE "unproven"
           next == FailureUpdate(k, r)
<1>1. Update(k, r) = [next EXCEPT !.last = k]
  BY UpdateIs
<1>2. \/ /\ r.phase \in {"reserved", "worktree-adding", "validating",
                         "spawn-intent"}
         /\ next = [r EXCEPT !.phase = "prelaunch-aborted",
                             !.launch = "prelaunch-aborted",
                             !.review = "not-run",
                             !.closure = "proven-by-owner",
                             !.abandoned = gone]
      \/ next = [r EXCEPT !.launch = "uncertain", !.review = "inconclusive",
                          !.closure = "unproven", !.abandoned = gone]
      \/ next = [r EXCEPT !.launch = "launched", !.review = "inconclusive",
                          !.closure = "unproven", !.abandoned = gone]
      \/ next = [r EXCEPT !.review = "inconclusive", !.abandoned = gone,
                          !.closure = kept]
  BY DEF FailureUpdate
<1> HIDE DEF gone, kept, next
<1>3. CASE /\ r.phase \in {"reserved", "worktree-adding", "validating",
                         "spawn-intent"}
           /\ next = [r EXCEPT !.phase = "prelaunch-aborted",
                               !.launch = "prelaunch-aborted",
                               !.review = "not-run",
                               !.closure = "proven-by-owner",
                               !.abandoned = gone]
  BY <1>1, <1>3 DEF Record
<1>4. CASE next = [r EXCEPT !.launch = "uncertain", !.review = "inconclusive",
                            !.closure = "unproven", !.abandoned = gone]
  BY <1>1, <1>4 DEF Record
<1>5. CASE next = [r EXCEPT !.launch = "launched", !.review = "inconclusive",
                            !.closure = "unproven", !.abandoned = gone]
  BY <1>1, <1>5 DEF Record
<1>6. CASE next = [r EXCEPT !.review = "inconclusive", !.abandoned = gone,
                            !.closure = kept]
  BY <1>1, <1>6 DEF Record
<1> QED
  BY <1>2, <1>3, <1>4, <1>5, <1>6

LEMMA ClosingFields ==
  ASSUME NEW r \in Record, NEW k \in CleanupKinds \cup SettleKinds
  PROVE  /\ Update(k, r).handoff = r.handoff /\ Update(k, r).owner = r.owner
         /\ Update(k, r).stage = r.stage /\ Update(k, r).exit = r.exit
         /\ Update(k, r).authorized = r.authorized
         /\ Update(k, r).review = r.review
         /\ Update(k, r).phase = r.phase
<1>1. CASE k = "absent"
  <2>1. Update(k, r) = [CleanupUpdate(k, r) EXCEPT !.last = k]
    BY <1>1, UpdateIs DEF CleanupKinds
  <2> QED BY <1>1, <2>1 DEF CleanupUpdate, Record
<1>2. CASE k = "cleanup-intent"
  <2>1. Update(k, r) = [CleanupUpdate(k, r) EXCEPT !.last = k]
    BY <1>2, UpdateIs DEF CleanupKinds
  <2> QED BY <1>2, <2>1 DEF CleanupUpdate, Record
<1>3. CASE k = "cleanup-progress"
  <2>1. Update(k, r) = [CleanupUpdate(k, r) EXCEPT !.last = k]
    BY <1>3, UpdateIs DEF CleanupKinds
  <2> QED BY <1>3, <2>1 DEF CleanupUpdate, Record
<1>4. CASE k = "removed"
  <2>1. Update(k, r) = [CleanupUpdate(k, r) EXCEPT !.last = k]
    BY <1>4, UpdateIs DEF CleanupKinds
  <2> QED BY <1>4, <2>1 DEF CleanupUpdate, Record
<1>5. CASE k = "manual"
  <2>1. Update(k, r) = [CleanupUpdate(k, r) EXCEPT !.last = k]
    BY <1>5, UpdateIs DEF CleanupKinds
  <2> QED BY <1>5, <2>1 DEF CleanupUpdate, Record
<1>6. CASE k = "manual-recover"
  <2>1. Update(k, r) = [CleanupUpdate(k, r) EXCEPT !.last = k]
    BY <1>6, UpdateIs DEF CleanupKinds
  <2> QED BY <1>6, <2>1 DEF CleanupUpdate, Record
<1>7. CASE k = "terminal"
  <2>1. Update(k, r) = [SettleUpdate(k, r) EXCEPT !.last = k]
    BY <1>7, UpdateIs DEF SettleKinds
  <2> QED BY <1>7, <2>1 DEF SettleUpdate, Record
<1>8. CASE k = "settle"
  <2>1. Update(k, r) = [SettleUpdate(k, r) EXCEPT !.last = k]
    BY <1>8, UpdateIs DEF SettleKinds
  <2> QED BY <1>8, <2>1 DEF SettleUpdate, Record
<1>9. CASE k = "final-auth"
  <2>1. Update(k, r) = [SettleUpdate(k, r) EXCEPT !.last = k]
    BY <1>9, UpdateIs DEF SettleKinds
  <2> QED BY <1>9, <2>1 DEF SettleUpdate, Record
<1> QED
  BY <1>1, <1>2, <1>3, <1>4, <1>5, <1>6, <1>7, <1>8, <1>9
  DEF CleanupKinds, SettleKinds

(* What recover makes of an attempt: it never finds a verdict. *)
LEMMA RecoverFields ==
  ASSUME NEW r \in Record, NEW k \in RecoverKinds
  PROVE  /\ Update(k, r).handoff = r.handoff /\ Update(k, r).owner = r.owner
         /\ Update(k, r).stage = r.stage /\ Update(k, r).exit = r.exit
         /\ Update(k, r).authorized = r.authorized
         /\ Update(k, r).review \in {r.review, "not-run", "inconclusive"}
         /\ Update(k, r).phase # r.phase =>
              /\ r.phase \in PostReview =>
                   Update(k, r).phase = "post-review-aborted"
              /\ r.phase \notin PostReview =>
                   Update(k, r).phase = "prelaunch-aborted"
<1>0. Update(k, r) = [RecoverUpdate(k, r) EXCEPT !.last = k]
  BY UpdateIs
<1>1. CASE k = "conserve"
  BY <1>0, <1>1 DEF RecoverUpdate, Record
<1>2. CASE k = "charge"
  BY <1>0, <1>2 DEF RecoverUpdate, Record
<1>3. CASE k = "recovered"
  <2> DEFINE proof == IF r.phase \in PostReview
                      THEN "proven-by-owner" ELSE "proven-by-boot-change"
             lost(ph, l, v) ==
               [r EXCEPT !.phase = ph, !.launch = l, !.review = v,
                         !.closure = proof, !.abandoned = "yes",
                         !.terminal = "completed"]
             next == RecoverUpdate(k, r)
  <2>1. \/ /\ r.phase = "spawn-intent"
           /\ next = lost("spawn-intent", "uncertain", "inconclusive")
        \/ /\ r.phase = "launched"
           /\ next = lost("launched", "launched", "inconclusive")
        \/ /\ r.phase \in PostReview
           /\ next = lost("post-review-aborted", "completed",
                          "inconclusive")
        \/ /\ r.phase \notin PostReview
           /\ next = lost("prelaunch-aborted", "prelaunch-aborted", "not-run")
    <3>1. CASE r.phase = "spawn-intent"
      BY <1>3, <3>1 DEF RecoverUpdate, PostReview
    <3>2. CASE r.phase = "launched"
      BY <1>3, <3>2 DEF RecoverUpdate, PostReview
    <3>3. CASE r.phase \in PostReview
      BY <1>3, <3>3 DEF RecoverUpdate, PostReview
    <3>4. CASE r.phase \notin PostReview \cup {"spawn-intent", "launched"}
      BY <1>3, <3>4 DEF RecoverUpdate
    <3> QED BY <3>1, <3>2, <3>3, <3>4
  <2>2. ASSUME NEW ph, NEW l, NEW v, next = lost(ph, l, v)
        PROVE  /\ Update(k, r).handoff = r.handoff
               /\ Update(k, r).owner = r.owner
               /\ Update(k, r).stage = r.stage /\ Update(k, r).exit = r.exit
               /\ Update(k, r).authorized = r.authorized
               /\ Update(k, r).review = v /\ Update(k, r).phase = ph
    <3> HIDE DEF proof, next
    <3>1. Update(k, r) = [lost(ph, l, v) EXCEPT !.last = k]
      BY <1>0, <2>2 DEF next
    <3> QED BY <3>1 DEF Record
  <2> HIDE DEF lost, next
  <2> QED BY <2>1, <2>2 DEF PostReview
<1> QED BY <1>1, <1>2, <1>3 DEF RecoverKinds

(* What every commit leaves alone: only the handoff names the owner, only  *)
(* a launch the stage, only the authorization helper authorizes, and only  *)
(* the last commit of the publication makes a verdict.                     *)
LEMMA CommitFields ==
  ASSUME NEW r \in Record, NEW k \in Kinds
  PROVE  /\ k \notin HandoffKinds => /\ Update(k, r).handoff = r.handoff
                                     /\ Update(k, r).owner = r.owner
         /\ k # "authorize" => Update(k, r).authorized = r.authorized
         /\ Update(k, r).review = "verdict" =>
              r.review = "verdict" \/ k = "reviewed"
         /\ r.phase # "reserved" => Update(k, r).phase # "reserved"
BY HandoffFields, CheckoutFields, LifecycleFields, VerdictFields,
   FailureFields, ClosingFields, RecoverFields DEF Kinds, HandoffKinds

LEMMA StartedStays ==
  ASSUME NEW r \in Record, NEW k \in Kinds, Allowed(k, r), Started(r)
  PROVE  Started(Update(k, r))
<1>1. k \notin HandoffKinds
  BY DEF Allowed, AllowedFrom, Started, HandoffKinds, SpawnKinds, ClosedKinds
<1> QED
  BY <1>1, CommitFields DEF Started, HandedOver

(* The two commits by which an attempt gets there. *)
LEMMA StartingCommits ==
  ASSUME NEW r \in Record
  PROVE  /\ HandedOver(Update("complete", r))
         /\ HandedOver(r) => Started(Update("adding", r))
<1>1. "complete" \in HandoffKinds /\ "adding" \in CheckoutKinds
  BY DEF HandoffKinds, CheckoutKinds
<1> QED
  BY <1>1, HandoffFields, CheckoutFields DEF Started, HandedOver

-----------------------------------------------------------------------------
(* Lemmas about one step: what may change, and by whom. *)

(* A helper writes what it checked, and it checked what the record allows. *)
CheckedIsAllowed ==
  \A p \in Procs : helper[p].st = "checked"
                     => Allowed(helper[p].kind, helper[p].base)

(* The helper of p writes. *)
Commits(p) ==
  /\ HelperCommit(p) /\ HelperLive(p) /\ helper[p].kind \in Kinds
  /\ Allowed(helper[p].kind, rec) /\ rec' = Update(helper[p].kind, rec)

LEMMA HelperCommits ==
  ASSUME TypeOK, NoLostUpdate, CheckedIsAllowed, NEW p \in Procs,
         HelperCommit(p)
  PROVE  Commits(p)
BY DEF TypeOK, NoLostUpdate, CheckedIsAllowed, HelperCommit, HelperLive,
       Commits

LEMMA RecordSteps ==
  ASSUME TypeOK, NoLostUpdate, CheckedIsAllowed, [Next]_vars
  PROVE  \/ rec' = rec
         \/ \E p \in Procs : Commits(p)
         \/ WorkerCommit
<1>1. ASSUME NEW p \in Procs, CommitStep(p)
      PROVE  rec' = rec \/ Commits(p)
  BY <1>1, HelperCommits
  DEF CommitStep, Request, HelperCheck, HelperFail, OrphanExit, Reply, Fail
<1>2. CASE WorkerNext
  BY <1>2 DEF WorkerNext, WorkerAdd, WorkerStep, WorkerFails, WorkerDies
<1>3. CASE \/ OuterStart \/ OuterStep \/ SupStep \/ LeaderExits
           \/ OperatorRecover \/ OperatorFinal \/ Reboot
           \/ \E p \in Procs : CleanupStep(p) \/ Crash(p)
  BY <1>3, OthersKeepRecord
<1>4. CASE UNCHANGED vars
  BY <1>4 DEF vars
<1> QED
  BY <1>1, <1>2, <1>3, <1>4 DEF Next

(* A kind of commit the helper of p works on was asked for by p, a check   *)
(* made, a write landed.                                                   *)
LEMMA HelperSteps ==
  ASSUME TypeOK, [Next]_vars, NEW p \in Procs
  PROVE  /\ helper'[p] # helper[p] /\ HelperLive(p)' =>
              \/ /\ Request(p) /\ helper'[p].kind = pc[p]
                 /\ helper'[p].st = "requested" /\ ~HelperLive(p)
              \/ HelperLive(p) /\ helper'[p].kind = helper[p].kind
         /\ helper'[p] # helper[p] /\ helper'[p].st = "checked" =>
              /\ Allowed(helper'[p].kind, helper'[p].base)
              /\ helper'[p].base = rec /\ rec' = rec
         /\ helper'[p] # helper[p] /\ helper'[p].st = "landed" =>
              HelperCommit(p)
<1> USE DEF TypeOK, HelperLive, NoHelper
<1>1. ASSUME NEW q \in Procs, CommitStep(q), q # p
      PROVE  helper'[p] = helper[p]
  BY <1>1
  DEF CommitStep, Request, HelperCheck, HelperCommit, HelperFail, OrphanExit,
      Reply, Fail
<1>2. CASE CommitStep(p)
  BY <1>2
  DEF CommitStep, Request, HelperCheck, HelperCommit, HelperFail, OrphanExit,
      Reply, Fail
<1>3. CASE OuterTerminateSup \/ Reboot
  BY <1>3 DEF OuterTerminateSup, Reboot
<1>4. CASE OuterStart \/ (OuterStep /\ ~OuterTerminateSup)
  BY <1>4 DEF OuterStart, OuterStep, SpawnSup, OuterCustodyAccepted,
     OuterAccepted, OuterOwnershipComplete, OuterAck, OuterTerminal,
     OuterGiveUp, OuterReap, OuterSelect, OuterOnly
<1>5. CASE SupStep
  BY <1>5 DEF SupStep, SupTakeCustody, SupOffer, SupStart, SupAcknowledged,
     SupGiveUp, SupReleaseWorker, SupWorkerMilestone, SupReapWorker,
     SupLoseWorker, SupLaunch, SupLaunchFails, SupCheckpoint,
     SupSettleProcess, SupPublish, SupSendTerminal, SupOnly, OuterOnly
<1>6. CASE \/ WorkerNext \/ LeaderExits \/ OperatorRecover \/ OperatorFinal
           \/ \E q \in Procs : CleanupStep(q) \/ Crash(q)
  BY <1>6 DEF WorkerNext, WorkerCommit, WorkerAdd, WorkerStep, WorkerFails,
     WorkerDies, WorkerOnly, LeaderExits, OperatorRecover, OperatorFinal,
     CleanupStep, CleanupStart, CleanupDelete, CleanupGivesUp, CleanupOnly,
     Crash
<1>7. CASE UNCHANGED vars
  BY <1>7 DEF vars
<1> QED
  BY <1>1, <1>2, <1>3, <1>4, <1>5, <1>6, <1>7 DEF Next, OuterStep

LEMMA NextChecksAllowed ==
  TypeOK /\ CheckedIsAllowed /\ [Next]_vars => CheckedIsAllowed'
BY HelperSteps DEF CheckedIsAllowed

(* A helper works on a commit that its process makes. *)
HelperKinds == \A p \in Procs : HelperLive(p) => helper[p].kind \in LabelsOf(p)

LEMMA NextHelperKinds == TypeOK /\ HelperKinds /\ [Next]_vars => HelperKinds'
<1> SUFFICES ASSUME TypeOK, HelperKinds, [Next]_vars, NEW p \in Procs,
                    HelperLive(p)'
             PROVE  helper'[p].kind \in LabelsOf(p)
  BY DEF HelperKinds
<1>1. CASE helper'[p] = helper[p]
  BY <1>1 DEF HelperKinds, HelperLive
<1>2. CASE helper'[p] # helper[p]
  BY <1>2, HelperSteps DEF HelperKinds, TypeOK
<1> QED BY <1>1, <1>2

(* The steps of the supervisor from one label to the next, other than the  *)
(* ones at a commit.                                                       *)
SupForward ==
  {<<"ready", "await-offer">>, <<"await-offer", "accepted">>,
   <<"await-start", "complete">>, <<"await-ack", "adding">>,
   <<"await-worker", "index">>, <<"await-worker", "phase0">>,
   <<"await-worker", "validated">>, <<"launch", "checkpoint">>,
   <<"checkpoint", "launched">>, <<"running", "closed-zero">>,
   <<"running", "closed-nonzero">>, <<"publish", "auth-pending">>,
   <<"cleanup", "manual">>, <<"cleanup", "absent">>,
   <<"cleanup", "cleanup-intent">>, <<"delete", "manual">>,
   <<"delete", "cleanup-progress">>}

(* Where a failure takes it outside of a commit. *)
SupLeaves == FailureKinds \cup {"ready"} \cup Finished

LEMMA SupMoves ==
  ASSUME TypeOK, [Next]_vars, pc'["sup"] # pc["sup"]
  PROVE  \/ /\ Reply("sup") /\ Landed("sup", {pc["sup"]})
            /\ pc["sup"] \in Kinds \cap SupLabels
            /\ pc'["sup"] \in After("sup", pc["sup"])
         \/ /\ Fail("sup") /\ pc["sup"] \in Kinds \cap SupLabels
            /\ pc'["sup"] \in OnFail("sup", pc["sup"])
         \/ /\ <<pc["sup"], pc'["sup"]>> \in SupForward
            /\ pc'["sup"] = "checkpoint" => SupLaunch
            /\ pc'["sup"] \in ClosedKinds => SupSettleProcess
         \/ /\ pc'["sup"] \in SupLeaves
            /\ pc'["sup"] = "ready" => pc["outer"] = "spawn"
            /\ pc'["sup"] \in FailureKinds =>
                 pc["sup"] \in {"await-ack", "await-worker", "launch",
                                "checkpoint", "publish"}
<1> USE LabelFacts DEF TypeOK
<1>1. ASSUME NEW q \in Procs, CommitStep(q), q # "sup"
      PROVE  pc'["sup"] = pc["sup"]
  BY <1>1
  DEF CommitStep, Request, HelperCheck, HelperCommit, HelperFail, OrphanExit,
      Reply, Fail
<1>2. CASE CommitStep("sup")
  <2>1. CASE Reply("sup")
    BY <2>1 DEF Reply, Landed, HelperLive
  <2>2. CASE Fail("sup")
    BY <2>2 DEF Fail
  <2> QED
    BY <1>2, <2>1, <2>2
    DEF CommitStep, Request, HelperCheck, HelperCommit, HelperFail,
        OrphanExit
<1>3. CASE OuterStart \/ OuterStep
  BY <1>3 DEF OuterStart, OuterStep, SpawnSup, OuterCustodyAccepted,
     OuterAccepted, OuterOwnershipComplete, OuterAck, OuterTerminal,
     OuterGiveUp, OuterTerminateSup, OuterReap, OuterSelect, OuterGoto,
     SupLeaves, Finished, FailureKinds
<1>4. CASE SupStep
  <2>1. CASE \/ SupTakeCustody \/ SupOffer \/ SupStart \/ SupAcknowledged
             \/ SupReleaseWorker \/ SupWorkerMilestone \/ SupLaunch
             \/ SupSettleProcess \/ SupPublish
    BY <2>1 DEF SupTakeCustody, SupOffer, SupStart, SupAcknowledged,
       SupReleaseWorker, SupWorkerMilestone, SupLaunch, SupSettleProcess,
       SupPublish, SupGoto, SupForward, ClosedKinds
  <2>2. CASE SupGiveUp
    BY <2>2 DEF SupGiveUp, SupGoto, SupForward, SupLeaves, Finished,
       FailureKinds, SupFailures, CleanupFailures, ClosedKinds
  <2>3. CASE SupReapWorker
    BY <2>3 DEF SupReapWorker, SupGoto, SupForward, SupLeaves, FailureKinds,
       SupFailures, Finished, ClosedKinds
  <2>4. CASE \/ SupLoseWorker \/ SupLaunchFails \/ SupCheckpoint
             \/ SupSendTerminal
    BY <2>4 DEF SupLoseWorker, SupLaunchFails, SupCheckpoint,
       SupSendTerminal, SupGoto, SupForward, SupLeaves, Finished,
       FailureKinds, ClosedKinds
  <2> QED
    BY <1>4, <2>1, <2>2, <2>3, <2>4 DEF SupStep
<1>5. ASSUME NEW q \in Procs, CleanupStep(q) \/ Crash(q)
      PROVE  \/ pc'["sup"] = pc["sup"]
             \/ /\ <<pc["sup"], pc'["sup"]>> \in SupForward
                /\ pc'["sup"] \notin ClosedKinds \cup {"checkpoint"}
             \/ pc'["sup"] = "dead"
  BY <1>5 DEF CleanupStep, CleanupStart, CleanupDelete, CleanupGivesUp,
     CleanupFailures, Crash, SupForward, ClosedKinds
<1>6. CASE \/ WorkerNext \/ LeaderExits \/ OperatorRecover \/ OperatorFinal
           \/ Reboot
  BY <1>6 DEF WorkerNext, WorkerCommit, WorkerAdd, WorkerStep, WorkerFails,
     WorkerDies, WorkerOnly, LeaderExits, OperatorRecover, OperatorFinal,
     Reboot, SupLeaves, Finished, FailureKinds
<1>7. CASE UNCHANGED vars
  BY <1>7 DEF vars
<1> QED
  BY <1>1, <1>2, <1>3, <1>4, <1>5, <1>6, <1>7
  DEF Next, SupLeaves, Finished, FailureKinds

(* The reviewer-stage process: only a launch starts one, and one that has  *)
(* ended stays so.                                                         *)
LEMMA LeaderSteps ==
  ASSUME TypeOK, [Next]_vars
  PROVE  \/ leader' = leader
         \/ SupLaunch
         \/ /\ leader.st = "running" /\ leader'.st \in {"zero", "nonzero"}
            /\ leader'.stage = leader.stage /\ rec' = rec
<1> USE DEF TypeOK
<1>1. ASSUME NEW q \in Procs, CommitStep(q), ~Fail(q)
      PROVE  leader' = leader
  BY <1>1
  DEF CommitStep, Request, HelperCheck, HelperCommit, HelperFail, OrphanExit,
      Reply
<1>2. ASSUME NEW q \in Procs, Fail(q)
      PROVE  \/ leader' = leader
             \/ /\ leader.st = "running" /\ leader'.st \in {"zero", "nonzero"}
                /\ leader'.stage = leader.stage /\ rec' = rec
  BY <1>2 DEF Fail
<1>3. CASE OuterStart \/ OuterStep
  BY <1>3 DEF OuterStart, OuterStep, SpawnSup, OuterCustodyAccepted,
     OuterAccepted, OuterOwnershipComplete, OuterAck, OuterTerminal,
     OuterGiveUp, OuterTerminateSup, OuterReap, OuterSelect, OuterOnly
<1>4. CASE SupStep /\ ~SupLaunch
  BY <1>4 DEF SupStep, SupTakeCustody, SupOffer, SupStart, SupAcknowledged,
     SupGiveUp, SupReleaseWorker, SupWorkerMilestone, SupReapWorker,
     SupLoseWorker, SupLaunchFails, SupCheckpoint, SupSettleProcess,
     SupPublish, SupSendTerminal, SupOnly, OuterOnly
<1>5. CASE \/ WorkerNext \/ LeaderExits \/ OperatorRecover \/ OperatorFinal
           \/ Reboot \/ \E q \in Procs : CleanupStep(q) \/ Crash(q)
  BY <1>5 DEF WorkerNext, WorkerCommit, WorkerAdd, WorkerStep, WorkerFails,
     WorkerDies, WorkerOnly, LeaderExits, OperatorRecover, OperatorFinal,
     Reboot, CleanupStep, CleanupStart, CleanupDelete, CleanupGivesUp,
     CleanupOnly, Crash
<1>6. CASE UNCHANGED vars
  BY <1>6 DEF vars
<1> QED
  BY <1>1, <1>2, <1>3, <1>4, <1>5, <1>6 DEF Next, SupStep

(* The checkout worker and what it makes. *)
LEMMA WorkerSteps ==
  ASSUME TypeOK, [Next]_vars
  PROVE  /\ WorkerLive' => \/ WorkerLive
                           \/ Reply("sup") /\ Landed("sup", {"adding"})
                                /\ pc["sup"] = "adding"
                           \/ SupReleaseWorker
         /\ tree' # tree => WorkerAdd \/ \E p \in Procs : CleanupDelete(p)
<1> USE DEF TypeOK, WorkerLive
<1>1. ASSUME NEW q \in Procs, CommitStep(q), ~Reply(q)
      PROVE  tree' = tree /\ (WorkerLive' => WorkerLive)
  BY <1>1
  DEF CommitStep, Request, HelperCheck, HelperCommit, HelperFail, OrphanExit,
      Fail
<1>2. ASSUME NEW q \in Procs, Reply(q)
      PROVE  /\ tree' = tree
             /\ WorkerLive' => \/ WorkerLive
                               \/ /\ q = "sup" /\ pc["sup"] = "adding"
                                  /\ Landed("sup", {"adding"})
  BY <1>2 DEF Reply, WorkerAfter, Landed, HelperLive
<1>3. CASE OuterStart \/ OuterStep
  BY <1>3 DEF OuterStart, OuterStep, SpawnSup, OuterCustodyAccepted,
     OuterAccepted, OuterOwnershipComplete, OuterAck, OuterTerminal,
     OuterGiveUp, OuterTerminateSup, OuterReap, OuterSelect, OuterOnly
<1>4. CASE SupStep /\ ~SupReleaseWorker
  BY <1>4 DEF SupStep, SupTakeCustody, SupOffer, SupStart, SupAcknowledged,
     SupGiveUp, SupWorkerMilestone, SupReapWorker, SupLoseWorker, SupLaunch,
     SupLaunchFails, SupCheckpoint, SupSettleProcess, SupPublish,
     SupSendTerminal, SupOnly, OuterOnly
<1>5. CASE SupReleaseWorker
  BY <1>5 DEF SupReleaseWorker, SupOnly
<1>6. CASE WorkerNext
  BY <1>6 DEF WorkerNext, WorkerCommit, WorkerAdd, WorkerStep, WorkerFails,
     WorkerDies, WorkerOnly, WorkerCommits
<1>7. ASSUME NEW q \in Procs, CleanupStep(q) \/ Crash(q)
      PROVE  (tree' = tree \/ CleanupDelete(q)) /\ worker' = worker
  BY <1>7 DEF CleanupStep, CleanupStart, CleanupDelete, CleanupGivesUp,
     CleanupOnly, Crash
<1>8. CASE LeaderExits \/ OperatorRecover \/ OperatorFinal \/ Reboot
  BY <1>8 DEF LeaderExits, OperatorRecover, OperatorFinal, Reboot
<1>9. CASE UNCHANGED vars
  BY <1>9 DEF vars
<1> QED
  BY <1>1, <1>2, <1>3, <1>4, <1>5, <1>6, <1>7, <1>8, <1>9
  DEF Next, SupStep

-----------------------------------------------------------------------------
(* Nothing runs before the handoff is recorded. *)

(* The labels of the supervisor from the first step of the checkout to the *)
(* publication.                                                            *)
CheckoutLabels == {"await-worker", "index", "phase0", "validated"}
ReviewLabels   == {"spawn-refresh", "spawn-reviewer", "launch", "checkpoint",
                   "launched", "running", "closed-zero", "closed-nonzero"}
VerdictLabels  == {"publish", "auth-pending", "authorize", "reviewed"}
ActiveLabels   == CheckoutLabels \cup ReviewLabels \cup VerdictLabels

Effects ==
  \/ WorkerLive \/ leader.st = "running" \/ tree
  \/ pc["sup"] \in ActiveLabels \/ Landed("sup", {"adding"})

(* EffectsFollowHandoff, for every label from which an effect may follow. *)
EffectsAfterStart == Effects => Started(rec)

(* The supervisor waits for the acknowledgement, or starts the checkout:   *)
(* it has recorded that it owns the attempt.                               *)
Owns == \/ pc["sup"] \in {"await-ack", "adding"} \/ HelperIn("sup", {"adding"})
        \/ Landed("sup", {"complete"})
OwnerBeforeStart == Owns => HandedOver(rec)

(* While the supervisor may write, nobody else does. *)
SupBusy == \/ HelperLive("sup")
           \/ pc["sup"] \in SupLabels \ (SupEarly \cup {"await-worker"})

LEMMA SoleWriter ==
  ASSUME TypeOK, LeaseDiscipline, NoLostUpdate, CheckedIsAllowed,
         [Next]_vars, SupBusy
  PROVE  rec' = rec \/ Commits("sup")
<1> USE DEF LeaseDiscipline, SupBusy
<1>1. ~Commits("outer")
  BY DEF OuterAlone, Commits
<1>2. ~Commits("operator")
  BY DEF OperatorAlone, SupHolds, Commits, SupEarly, SupIdle
<1>3. ~WorkerCommit
  BY DEF WorkerCommit, WorkerCommits, WorkerLockstep, WorkerLive, SupEarly,
         SupIdle
<1> QED
  BY <1>1, <1>2, <1>3, RecordSteps, LabelFacts

(* Labels that need a start are only reached from one another, or from the *)
(* commit that makes the attempt one.                                      *)
LEMMA ActiveNext ==
  ASSUME NEW k \in Kinds \cap SupLabels
  PROVE  /\ \A l \in After("sup", k) :
              l \in ActiveLabels => k \in ActiveLabels \cup {"adding"}
         /\ \A l \in OnFail("sup", k) :
              l \notin ActiveLabels \cup {"await-ack", "adding"}
         /\ \A l \in After("sup", k) :
              l # "adding" /\ (l = "await-ack" => k = "complete")
BY DEF After, AfterCheckout, AfterClosed, AfterCleanup, OnFail, SupFailures,
       CleanupFailures, CleanupCommits, SupLabels, Finished, Kinds,
       HandoffKinds, CheckoutKinds, LifecycleKinds, SpawnKinds, ClosedKinds,
       VerdictKinds, FailureKinds, CleanupKinds, SettleKinds, RecoverKinds,
       ActiveLabels, CheckoutLabels, ReviewLabels, VerdictLabels

LEMMA EffectsOrigin ==
  ASSUME TypeOK, NoLostUpdate, CheckedIsAllowed, [Next]_vars, Effects', ~Effects
  PROVE  Commits("sup") /\ helper["sup"].kind = "adding"
<1>1. ~WorkerLive'
  BY WorkerSteps DEF Effects, SupReleaseWorker, ActiveLabels, CheckoutLabels
<1>2. leader'.st # "running"
  BY LeaderSteps
  DEF Effects, SupLaunch, ActiveLabels, ReviewLabels, TypeOK
<1>3. tree' = FALSE
  BY WorkerSteps DEF Effects, WorkerAdd, WorkerLive, CleanupDelete, TypeOK
<1>4. pc'["sup"] \notin ActiveLabels
  BY SupMoves, ActiveNext
  DEF Effects, Landed, SupForward, SupLeaves, Finished, FailureKinds,
      ActiveLabels, CheckoutLabels, ReviewLabels, VerdictLabels
<1>5. Landed("sup", {"adding"})'
  BY <1>1, <1>2, <1>3, <1>4 DEF Effects
<1>6. HelperCommit("sup") /\ helper["sup"].kind = "adding"
  BY <1>5, HelperSteps, LabelFacts
  DEF Effects, Landed, HelperCommit, HelperLive, TypeOK
<1> QED
  BY <1>6, HelperCommits, LabelFacts

LEMMA OwnsOrigin ==
  ASSUME TypeOK, NoLostUpdate, CheckedIsAllowed, [Next]_vars, Owns', ~Owns
  PROVE  Commits("sup") /\ helper["sup"].kind = "complete"
<1>1. pc'["sup"] \notin {"await-ack", "adding"}
  <2> SUFFICES ASSUME pc'["sup"] \in {"await-ack", "adding"} PROVE FALSE
    OBVIOUS
  <2>1. pc'["sup"] # pc["sup"]
    BY DEF Owns
  <2>2. ~(<<pc["sup"], pc'["sup"]>> \in SupForward)
    BY DEF SupForward, Owns
  <2>3. pc'["sup"] \notin SupLeaves
    BY DEF SupLeaves, Finished, FailureKinds
  <2>4. pc["sup"] \in Kinds \cap SupLabels /\ pc["sup"] = "complete"
          /\ Landed("sup", {pc["sup"]})
    BY <2>1, <2>2, <2>3, SupMoves, ActiveNext
  <2> QED
    BY <2>4 DEF Owns
<1>2. ~HelperIn("sup", {"adding"})'
  BY HelperSteps, LabelFacts DEF Owns, HelperIn, HelperLive
<1>3. Landed("sup", {"complete"})'
  BY <1>1, <1>2 DEF Owns
<1>4. HelperCommit("sup") /\ helper["sup"].kind = "complete"
  BY <1>3, HelperSteps, LabelFacts
  DEF Owns, Landed, HelperCommit, HelperLive, TypeOK
<1> QED
  BY <1>4, HelperCommits, LabelFacts

LEMMA StartedForGood ==
  ASSUME TypeOK, NoLostUpdate, CheckedIsAllowed, [Next]_vars, Started(rec)
  PROVE  Started(rec')
<1>1. ASSUME NEW p \in Procs, Commits(p) PROVE Started(rec')
  BY <1>1, StartedStays DEF Commits, TypeOK
<1>2. CASE WorkerCommit
  BY <1>2, StartedStays
  DEF WorkerCommit, WorkerCommits, TypeOK, Kinds, CheckoutKinds
<1> QED
  BY <1>1, <1>2, RecordSteps

LEMMA NextEffects ==
  ASSUME TypeOK, LeaseDiscipline, NoLostUpdate, CheckedIsAllowed,
         EffectsAfterStart, OwnerBeforeStart, [Next]_vars
  PROVE  EffectsAfterStart' /\ OwnerBeforeStart'
<1>1. EffectsAfterStart'
  <2> SUFFICES ASSUME Effects' PROVE Started(rec')
    BY DEF EffectsAfterStart
  <2>1. CASE Effects
    BY <2>1, StartedForGood DEF EffectsAfterStart
  <2>2. CASE ~Effects
    <3>1. Commits("sup") /\ helper["sup"].kind = "adding"
      BY <2>2, EffectsOrigin
    <3>2. HandedOver(rec)
      BY <3>1 DEF OwnerBeforeStart, Owns, HelperIn, Commits
    <3> QED
      BY <3>1, <3>2, StartingCommits DEF Commits, TypeOK
  <2> QED BY <2>1, <2>2
<1>2. OwnerBeforeStart'
  <2> SUFFICES ASSUME Owns' PROVE HandedOver(rec')
    BY DEF OwnerBeforeStart
  <2>1. CASE Owns
    <3>1. HandedOver(rec) /\ SupBusy
      BY <2>1 DEF OwnerBeforeStart, Owns, SupBusy, HelperIn, Landed,
         HelperLive, SupLabels, SupEarly, SupIdle, Finished
    <3>2. CASE Commits("sup")
      <4>1. helper["sup"].kind = "adding"
        BY <2>1, <3>2, WaitingHasNoHelper, LabelFacts
        DEF Owns, Commits, HelperCommit, HelperIn, Landed, Waits, HelperLive,
            LeaseDiscipline, HelperServesOwner, Orphaned, Finished
      <4> QED
        BY <3>1, <3>2, <4>1, StartingCommits DEF Commits, TypeOK, Started
    <3> QED
      BY <3>1, <3>2, SoleWriter
  <2>2. CASE ~Owns
    BY <2>2, OwnsOrigin, StartingCommits DEF Commits, TypeOK
  <2> QED BY <2>1, <2>2
<1> QED BY <1>1, <1>2

(* The worker, the reviewer and the checkout exist only for an attempt     *)
(* whose record says that the supervisor owns it.                          *)
THEOREM EffectsFollow == Spec => []EffectsFollowHandoff
<1>1. Init => CheckedIsAllowed /\ EffectsAfterStart /\ OwnerBeforeStart
  BY DEF Init, NoHelper, CheckedIsAllowed, EffectsAfterStart, Effects,
         OwnerBeforeStart, Owns, HelperIn, HelperLive, Landed, WorkerLive,
         Procs, ActiveLabels, CheckoutLabels, ReviewLabels, VerdictLabels
<1>2. TypeOK /\ LeaseDiscipline /\ NoLostUpdate /\ CheckedIsAllowed
        /\ EffectsAfterStart /\ OwnerBeforeStart /\ [Next]_vars
      => CheckedIsAllowed' /\ EffectsAfterStart' /\ OwnerBeforeStart'
  BY NextChecksAllowed, NextEffects
<1>3. EffectsAfterStart => EffectsFollowHandoff
  BY DEF EffectsAfterStart, Effects, EffectsFollowHandoff, Started, HandedOver
<1> QED
  BY <1>1, <1>2, <1>3, TypeCorrect, LeaseDisciplineHolds, NoUpdateIsLost, PTL
  DEF Spec

-----------------------------------------------------------------------------
(* A verdict stands for a reviewer that succeeded. *)

Earned     == leader = [stage |-> "reviewer", st |-> "zero"]
Decided(r) == r.review = "verdict" \/ r.authorized

LaunchedKinds  == {"launched"} \cup ClosedKinds
LaunchedLabels == {"checkpoint", "running"} \cup LaunchedKinds

(* What the record and the reviewer process say of one another at each     *)
(* step between the launch and the verdict.                                *)
DecidedLate == Decided(rec) =>
  rec.phase \in {"terminal-authorization-pending", "reviewed",
                 "post-review-aborted"}
LaunchIsNext ==
  pc["sup"] = "launch" \/ Landed("sup", SpawnKinds) =>
    rec.phase = "spawn-intent" /\ rec.stage \in Stages
StageIsLaunched ==
  pc["sup"] \in LaunchedLabels \/ HelperIn("sup", LaunchedKinds) =>
    leader.stage = rec.stage /\ rec.stage \in Stages
ZeroIsReaped ==
  pc["sup"] = "closed-zero" \/ HelperIn("sup", {"closed-zero"}) =>
    leader.st = "zero"
ExitIsRecorded ==
  /\ Landed("sup", {"closed-zero"}) => rec.exit = "zero"
  /\ Landed("sup", {"closed-nonzero"}) => rec.exit = "nonzero"
PublishedIsEarned ==
  pc["sup"] \in VerdictLabels \/ HelperIn("sup", VerdictKinds) => Earned
AuthorizedInTime ==
  \/ pc["sup"] = "authorize" \/ HelperIn("sup", {"authorize"})
  \/ Landed("sup", {"auth-pending"})
  => rec.phase = "terminal-authorization-pending"

VerdictInv ==
  /\ DecidedLate /\ LaunchIsNext /\ StageIsLaunched /\ ZeroIsReaped
  /\ ExitIsRecorded /\ PublishedIsEarned /\ AuthorizedInTime
  /\ VerdictIsEarned

(* The commits that lead to a label of the review. *)
LEMMA ReviewNext ==
  ASSUME NEW k \in Kinds \cap SupLabels
  PROVE  /\ \A l \in After("sup", k) :
              /\ l = "launch" => k \in SpawnKinds
              /\ l = "running" => k = "launched"
              /\ l \notin {"checkpoint", "auth-pending"} \cup LaunchedKinds
              /\ l = "publish" => /\ k \in ClosedKinds /\ rec.exit = "zero"
                                  /\ rec.stage # "auth-refresh"
              /\ l = "authorize" => k = "auth-pending"
              /\ l = "reviewed" => k = "authorize"
         /\ \A l \in OnFail("sup", k) :
              l \notin VerdictLabels \cup LaunchedLabels \cup {"launch"}
BY DEF After, AfterCheckout, AfterClosed, AfterCleanup, OnFail, SupFailures,
       CleanupFailures, CleanupCommits, SupLabels, Finished, Kinds,
       HandoffKinds, CheckoutKinds, LifecycleKinds, SpawnKinds, ClosedKinds,
       VerdictKinds, FailureKinds, CleanupKinds, SettleKinds, RecoverKinds,
       VerdictLabels, LaunchedLabels, LaunchedKinds

(* How the supervisor gets to a label of the review. *)
LEMMA ReviewMoves ==
  ASSUME TypeOK, [Next]_vars, pc'["sup"] # pc["sup"]
  PROVE  /\ pc'["sup"] = "launch" =>
              Reply("sup") /\ Landed("sup", SpawnKinds)
         /\ pc'["sup"] = "checkpoint" => SupLaunch
         /\ pc'["sup"] = "launched" => pc["sup"] = "checkpoint"
         /\ pc'["sup"] = "running" => pc["sup"] = "launched"
         /\ pc'["sup"] \in ClosedKinds => SupSettleProcess
         /\ pc'["sup"] = "publish" =>
              /\ Reply("sup") /\ Landed("sup", ClosedKinds)
              /\ rec.exit = "zero" /\ rec.stage # "auth-refresh"
         /\ pc'["sup"] = "auth-pending" => pc["sup"] = "publish"
         /\ pc'["sup"] = "authorize" =>
              /\ Reply("sup") /\ Landed("sup", {"auth-pending"})
              /\ pc["sup"] = "auth-pending"
         /\ pc'["sup"] = "reviewed" => pc["sup"] = "authorize"
<1>1. CASE /\ Reply("sup") /\ Landed("sup", {pc["sup"]})
           /\ pc["sup"] \in Kinds \cap SupLabels
           /\ pc'["sup"] \in After("sup", pc["sup"])
  BY <1>1, ReviewNext DEF Landed, LaunchedKinds, ClosedKinds
<1>2. CASE /\ Fail("sup") /\ pc["sup"] \in Kinds \cap SupLabels
           /\ pc'["sup"] \in OnFail("sup", pc["sup"])
  BY <1>2, ReviewNext
  DEF VerdictLabels, LaunchedLabels, LaunchedKinds, ClosedKinds
<1>3. CASE /\ <<pc["sup"], pc'["sup"]>> \in SupForward
           /\ pc'["sup"] = "checkpoint" => SupLaunch
           /\ pc'["sup"] \in ClosedKinds => SupSettleProcess
  BY <1>3 DEF SupForward, ClosedKinds
<1>4. CASE pc'["sup"] \in SupLeaves
  BY <1>4 DEF SupLeaves, Finished, FailureKinds, ClosedKinds
<1> QED BY <1>1, <1>2, <1>3, <1>4, SupMoves

(* A commit keeps DecidedLate, provided an authorization is asked for in   *)
(* time.                                                                   *)
LEMMA DecidedStaysLate ==
  ASSUME NEW r \in Record, NEW k \in Kinds, Allowed(k, r),
         Decided(r) => r.phase \in {"terminal-authorization-pending",
                                    "reviewed", "post-review-aborted"},
         k = "authorize" => r.phase = "terminal-authorization-pending",
         Decided(Update(k, r))
  PROVE  /\ Update(k, r).phase \in {"terminal-authorization-pending",
                                    "reviewed", "post-review-aborted"}
         /\ Decided(r) \/ k = "authorize"
<1>1. Decided(r) \/ k = "authorize"
  <2>1. k = "reviewed" => r.authorized
    BY DEF Allowed
  <2> QED BY <2>1, CommitFields DEF Decided
<1>2. r.phase \in {"terminal-authorization-pending", "reviewed",
                   "post-review-aborted"}
  BY <1>1
<1>3. k \notin HandoffKinds \cup CheckoutKinds \cup LifecycleKinds
  BY <1>2 DEF Allowed, AllowedFrom, HandoffKinds, CheckoutKinds,
     LifecycleKinds, SpawnKinds, ClosedKinds
<1>4. CASE k \in VerdictKinds
  BY <1>1, <1>2, <1>4, VerdictFields
<1>5. CASE k \in FailureKinds
  BY <1>1, <1>2, <1>5, FailureFields
<1>6. CASE k \in CleanupKinds \cup SettleKinds
  BY <1>1, <1>2, <1>6, ClosingFields
<1>7. CASE k \in RecoverKinds
  BY <1>1, <1>2, <1>7, RecoverFields DEF PostReview
<1> QED
  BY <1>1, <1>3, <1>4, <1>5, <1>6, <1>7 DEF Kinds

(* At a label without a commit the supervisor has no helper; at a commit   *)
(* its helper works on that commit.                                        *)
LEMMA SupHelper ==
  ASSUME TypeOK, LeaseDiscipline, HelperLive("sup"), pc["sup"] \notin Finished
  PROVE  helper["sup"].kind = pc["sup"] /\ pc["sup"] \notin Waits
BY WaitingHasNoHelper, LabelFacts
DEF LeaseDiscipline, HelperServesOwner, Orphaned

LEMMA NextVerdict ==
  ASSUME TypeOK, LeaseDiscipline, NoLostUpdate, CheckedIsAllowed,
         HelperKinds, VerdictInv, [Next]_vars
  PROVE  VerdictInv'
<1> USE LabelFacts DEF VerdictInv
<1>1. \A p \in Procs : Commits(p) /\ helper[p].kind = "authorize" => p = "sup"
  BY DEF Commits, HelperKinds, OuterLabels, OperatorLabels, Finished
<1>2. DecidedLate' /\ (Decided(rec') => Decided(rec)
                          \/ (Commits("sup") /\ helper["sup"].kind = "authorize"))
  <2>1. ASSUME NEW p \in Procs, Commits(p)
        PROVE  /\ DecidedLate'
               /\ Decided(rec') => Decided(rec) \/ helper[p].kind = "authorize"
    BY <1>1, <2>1, DecidedStaysLate
    DEF Commits, TypeOK, DecidedLate, AuthorizedInTime, HelperIn
  <2>2. ASSUME WorkerCommit
        PROVE  DecidedLate' /\ (Decided(rec') => Decided(rec))
    BY <2>2, DecidedStaysLate
    DEF WorkerCommit, WorkerCommits, TypeOK, DecidedLate, Kinds,
        CheckoutKinds
  <2>3. ASSUME rec' = rec
        PROVE  DecidedLate' /\ (Decided(rec') => Decided(rec))
    BY <2>3 DEF DecidedLate, Decided
  <2>4. CASE \E p \in Procs : Commits(p)
    <3>1. PICK p \in Procs : Commits(p)
      BY <2>4
    <3>2. helper[p].kind = "authorize" => Commits("sup") /\ helper["sup"].kind = "authorize"
      BY <1>1, <3>1
    <3> QED BY <2>1, <3>1, <3>2
  <2> QED BY <2>2, <2>3, <2>4, RecordSteps
<1>3. pc["sup"] # "launch" /\ leader.st = "zero" => leader' = leader
  BY LeaderSteps DEF SupLaunch
<1>4. LaunchIsNext'
  <2> SUFFICES ASSUME pc'["sup"] = "launch" \/ Landed("sup", SpawnKinds)'
               PROVE  rec'.phase = "spawn-intent" /\ rec'.stage \in Stages
    BY DEF LaunchIsNext
  <2>1. CASE Commits("sup") /\ helper["sup"].kind \in SpawnKinds
    BY <2>1, LifecycleFields DEF Commits, TypeOK, LifecycleKinds
  <2>2. CASE ~(Commits("sup") /\ helper["sup"].kind \in SpawnKinds)
    <3>1. pc["sup"] = "launch" \/ Landed("sup", SpawnKinds)
      <4>1. CASE pc'["sup"] = "launch"
        BY <4>1, ReviewMoves
      <4>2. CASE Landed("sup", SpawnKinds)'
        BY <2>2, <4>2, HelperSteps, HelperCommits
        DEF Landed, HelperLive, HelperCommit, TypeOK
      <4> QED BY <4>1, <4>2
    <3>2. ~Commits("sup")
      BY <2>2, <3>1, SupHelper
      DEF Commits, HelperCommit, Landed, Finished, Waits
    <3>3. SupBusy
      BY <3>1 DEF SupBusy, Landed, HelperLive, SupLabels, SupEarly, SupIdle,
         Finished
    <3> QED BY <3>1, <3>2, <3>3, SoleWriter DEF LaunchIsNext
  <2> QED BY <2>1, <2>2
<1>5. StageIsLaunched'
  <2> SUFFICES ASSUME \/ pc'["sup"] \in LaunchedLabels
                      \/ HelperIn("sup", LaunchedKinds)'
               PROVE  leader'.stage = rec'.stage /\ rec'.stage \in Stages
    BY DEF StageIsLaunched
  <2>1. CASE SupLaunch
    BY <2>1 DEF SupLaunch, SupOnly, LaunchIsNext, TypeOK
  <2>2. CASE ~SupLaunch
    <3>1. \/ pc["sup"] \in LaunchedLabels \/ HelperIn("sup", LaunchedKinds)
      <4>1. CASE pc'["sup"] \in LaunchedLabels
        BY <2>2, <4>1, ReviewMoves
        DEF LaunchedLabels, LaunchedKinds, ClosedKinds, SupSettleProcess
      <4>2. CASE HelperIn("sup", LaunchedKinds)'
        BY <4>2, HelperSteps DEF HelperIn, HelperLive, LaunchedLabels
      <4> QED BY <4>1, <4>2
    <3>2. SupBusy
      BY <3>1 DEF SupBusy, HelperIn, SupLabels, SupEarly, SupIdle, Finished,
         LaunchedLabels, LaunchedKinds, ClosedKinds
    <3>3. Commits("sup") => rec'.stage = rec.stage
      <4> SUFFICES ASSUME Commits("sup") PROVE rec'.stage = rec.stage
        OBVIOUS
      <4>1. helper["sup"].kind \in LaunchedKinds
        BY <3>1, SupHelper
        DEF Commits, HelperIn, LaunchedLabels, LaunchedKinds, ClosedKinds,
            Finished, Waits
      <4> QED
        BY <4>1, LifecycleFields
        DEF Commits, TypeOK, LifecycleKinds, LaunchedKinds, SpawnKinds,
            ClosedKinds
    <3> QED BY <2>2, <3>1, <3>2, <3>3, SoleWriter, LeaderSteps
            DEF StageIsLaunched
  <2> QED BY <2>1, <2>2
<1>6. ZeroIsReaped'
  <2> SUFFICES ASSUME pc'["sup"] = "closed-zero"
                        \/ HelperIn("sup", {"closed-zero"})'
               PROVE  leader'.st = "zero"
    BY DEF ZeroIsReaped
  <2>1. CASE SupSettleProcess /\ pc'["sup"] = "closed-zero"
    BY <2>1 DEF SupSettleProcess, SupGoto, TypeOK
  <2>2. CASE ~(SupSettleProcess /\ pc'["sup"] = "closed-zero")
    <3>1. pc["sup"] = "closed-zero" \/ HelperIn("sup", {"closed-zero"})
      <4>1. CASE pc'["sup"] = "closed-zero"
        BY <2>2, <4>1, ReviewMoves DEF ClosedKinds
      <4>2. CASE HelperIn("sup", {"closed-zero"})'
        BY <4>2, HelperSteps DEF HelperIn, HelperLive
      <4> QED BY <4>1, <4>2
    <3>2. pc["sup"] # "launch"
      BY <3>1, SupHelper DEF HelperIn, Waits, Finished
    <3> QED BY <1>3, <3>1, <3>2 DEF ZeroIsReaped
  <2> QED BY <2>1, <2>2
<1>7. ExitIsRecorded'
  <2> SUFFICES ASSUME NEW k \in ClosedKinds, Landed("sup", {k})'
               PROVE  /\ k = "closed-zero" => rec'.exit = "zero"
                      /\ k = "closed-nonzero" => rec'.exit = "nonzero"
    BY DEF ExitIsRecorded, ClosedKinds
  <2>1. CASE helper'["sup"] = helper["sup"]
    <3>1. SupBusy /\ ~Commits("sup")
      BY <2>1 DEF SupBusy, Landed, HelperLive, Commits, HelperCommit
    <3> QED BY <2>1, <3>1, SoleWriter DEF ExitIsRecorded, Landed
  <2>2. CASE helper'["sup"] # helper["sup"]
    <3>1. Commits("sup") /\ helper["sup"].kind = k
      BY <2>2, HelperSteps, HelperCommits
      DEF Landed, HelperLive, HelperCommit, TypeOK
    <3> QED
      BY <3>1, LifecycleFields
      DEF Commits, TypeOK, LifecycleKinds, ClosedKinds
  <2> QED BY <2>1, <2>2
<1>8. PublishedIsEarned'
  <2> SUFFICES ASSUME pc'["sup"] \in VerdictLabels
                        \/ HelperIn("sup", VerdictKinds)'
               PROVE  Earned'
    BY DEF PublishedIsEarned
  <2>1. \/ pc["sup"] \in VerdictLabels \/ HelperIn("sup", VerdictKinds)
        \/ /\ Landed("sup", ClosedKinds) /\ rec.exit = "zero"
           /\ rec.stage # "auth-refresh"
    <3>1. CASE pc'["sup"] \in VerdictLabels
      BY <3>1, ReviewMoves DEF VerdictLabels
    <3>2. CASE HelperIn("sup", VerdictKinds)'
      BY <3>2, HelperSteps
      DEF HelperIn, HelperLive, VerdictLabels, VerdictKinds
    <3> QED BY <3>1, <3>2
  <2>2. Earned
    <3>1. CASE pc["sup"] \in VerdictLabels \/ HelperIn("sup", VerdictKinds)
      BY <3>1 DEF PublishedIsEarned
    <3>2. CASE /\ Landed("sup", ClosedKinds) /\ rec.exit = "zero"
               /\ rec.stage # "auth-refresh"
      BY <3>2
      DEF Landed, ClosedKinds, ExitIsRecorded, ZeroIsReaped, StageIsLaunched,
          HelperIn, HelperLive, LaunchedKinds, Stages, Earned, TypeOK
    <3> QED BY <2>1, <3>1, <3>2
  <2>3. pc["sup"] # "launch"
    BY <2>1, SupHelper
    DEF HelperIn, Landed, HelperLive, Waits, Finished, VerdictLabels
  <2> QED BY <1>3, <2>2, <2>3 DEF Earned
<1>9. AuthorizedInTime'
  <2> SUFFICES ASSUME \/ pc'["sup"] = "authorize"
                      \/ HelperIn("sup", {"authorize"})'
                      \/ Landed("sup", {"auth-pending"})'
               PROVE  rec'.phase = "terminal-authorization-pending"
    BY DEF AuthorizedInTime
  <2>1. CASE Commits("sup") /\ helper["sup"].kind = "auth-pending"
    BY <2>1, VerdictFields DEF Commits, TypeOK, VerdictKinds
  <2>2. CASE ~(Commits("sup") /\ helper["sup"].kind = "auth-pending")
    <3>1. \/ pc["sup"] = "authorize" \/ HelperIn("sup", {"authorize"})
          \/ Landed("sup", {"auth-pending"})
      <4>1. CASE pc'["sup"] = "authorize"
        BY <4>1, ReviewMoves
      <4>2. CASE HelperIn("sup", {"authorize"})'
        BY <4>2, HelperSteps DEF HelperIn, HelperLive
      <4>3. CASE Landed("sup", {"auth-pending"})'
        BY <2>2, <4>3, HelperSteps, HelperCommits
        DEF Landed, HelperLive, HelperCommit, TypeOK
      <4> QED BY <4>1, <4>2, <4>3
    <3>2. SupBusy
      BY <3>1 DEF SupBusy, HelperIn, Landed, HelperLive, SupLabels, SupEarly,
         SupIdle, Finished
    <3>3. Commits("sup") => helper["sup"].kind = "authorize"
      BY <2>2, <3>1, SupHelper
      DEF Commits, HelperCommit, HelperIn, Landed, Finished, Waits
    <3>4. Commits("sup") => rec'.phase = rec.phase
      BY <3>3, VerdictFields DEF Commits, TypeOK, VerdictKinds
    <3> QED BY <3>1, <3>2, <3>4, SoleWriter DEF AuthorizedInTime
  <2> QED BY <2>1, <2>2
<1>10. VerdictIsEarned'
  <2> SUFFICES ASSUME Decided(rec') PROVE Earned'
    BY DEF VerdictIsEarned, Decided, Earned
  <2>1. CASE Commits("sup") /\ helper["sup"].kind = "authorize"
    <3>1. Earned
      BY <2>1 DEF PublishedIsEarned, HelperIn, Commits, VerdictKinds
    <3> QED
      BY <2>1, <3>1 DEF Commits, HelperCommit, Earned
  <2>2. CASE Decided(rec)
    <3>1. Earned
      BY <2>2 DEF VerdictIsEarned, Decided, Earned
    <3>2. pc["sup"] # "launch"
      BY <2>2 DEF LaunchIsNext, DecidedLate
    <3> QED BY <1>3, <3>1, <3>2 DEF Earned
  <2> QED BY <1>2, <2>1, <2>2
<1> QED
  BY <1>2, <1>4, <1>5, <1>6, <1>7, <1>8, <1>9, <1>10

LEMMA VerdictHolds == Spec => []VerdictInv
<1>1. Init => CheckedIsAllowed /\ HelperKinds /\ VerdictInv
  BY DEF Init, NoHelper, CheckedIsAllowed, HelperKinds, VerdictInv,
         DecidedLate, Decided, LaunchIsNext, StageIsLaunched, ZeroIsReaped,
         ExitIsRecorded, PublishedIsEarned, AuthorizedInTime,
         VerdictIsEarned, HelperIn, HelperLive, Landed, Procs,
         ReservedRecord, LaunchedLabels, LaunchedKinds, ClosedKinds,
         VerdictLabels
<1>2. TypeOK /\ LeaseDiscipline /\ NoLostUpdate /\ CheckedIsAllowed
        /\ HelperKinds /\ VerdictInv /\ [Next]_vars
      => CheckedIsAllowed' /\ HelperKinds' /\ VerdictInv'
  BY NextChecksAllowed, NextHelperKinds, NextVerdict
<1> QED
  BY <1>1, <1>2, TypeCorrect, LeaseDisciplineHolds, NoUpdateIsLost, PTL
  DEF Spec

(* A verdict, or its authorization, is in the record only if the reviewer  *)
(* process really ended with exit status zero.                             *)
THEOREM VerdictsAreEarned == Spec => []VerdictIsEarned
<1>1. VerdictInv => VerdictIsEarned
  BY DEF VerdictInv
<1> QED BY <1>1, VerdictHolds, PTL

-----------------------------------------------------------------------------
(* How an attempt ends. *)

(* The checkout is gone, or the record says that it was left behind. *)
CleanedUp(r) == \/ r.csettle = "exact"
                \/ r.wt \in {"retained-worktree", "manual-recovery-required"}

SameSettlement(s, r) ==
  s.csettle = r.csettle /\ s.psettle = r.psettle /\ s.charge = r.charge
SameOutcome(s, r) ==
  s.review = r.review /\ s.phase = r.phase /\ s.authorized = r.authorized

-----------------------------------------------------------------------------
(* Lemmas about one commit: settlements and outcome. *)

LEMMA UpdateLast ==
  ASSUME NEW r \in Record, NEW k \in Kinds
  PROVE  Update(k, r).last = k
<1> DEFINE next ==
      CASE k \in HandoffKinds   -> HandoffUpdate(k, r)
        [] k \in CheckoutKinds  -> CheckoutUpdate(k, r)
        [] k \in LifecycleKinds -> LifecycleUpdate(k, r)
        [] k \in VerdictKinds   -> VerdictUpdate(k, r)
        [] k \in FailureKinds   -> FailureUpdate(k, r)
        [] k \in CleanupKinds   -> CleanupUpdate(k, r)
        [] k \in SettleKinds    -> SettleUpdate(k, r)
        [] k \in RecoverKinds   -> RecoverUpdate(k, r)
<1>1. next \in Record
  BY HandoffUpdateType, CheckoutUpdateType, LifecycleUpdateType,
     VerdictUpdateType, FailureUpdateType, CleanupUpdateType,
     SettleUpdateType, RecoverUpdateType DEF Kinds
<1>2. Update(k, r) = [next EXCEPT !.last = k]
  BY DEF Update
<1> HIDE DEF next
<1> QED BY <1>1, <1>2 DEF Record

LEMMA HandoffOutcome ==
  ASSUME NEW r \in Record, NEW k \in HandoffKinds
  PROVE  /\ SameSettlement(Update(k, r), r) /\ Update(k, r).wt = r.wt
         /\ k # "abort" => SameOutcome(Update(k, r), r)
         /\ k = "abort" => /\ Update(k, r).phase = "prelaunch-aborted"
                           /\ Update(k, r).review = "not-run"
<1> USE DEF SameSettlement, SameOutcome
<1>1. Update(k, r) = [HandoffUpdate(k, r) EXCEPT !.last = k]
  BY UpdateIs
<1>2. CASE k = "prompt"
  BY <1>1, <1>2 DEF HandoffUpdate, Record
<1>3. CASE k = "pending"
  BY <1>1, <1>3 DEF HandoffUpdate, Record
<1>4. CASE k = "accepted"
  BY <1>1, <1>4 DEF HandoffUpdate, Record
<1>5. CASE k = "complete"
  BY <1>1, <1>5 DEF HandoffUpdate, Record
<1>6. CASE k = "abort"
  BY <1>1, <1>6 DEF HandoffUpdate, Record
<1> QED BY <1>2, <1>3, <1>4, <1>5, <1>6 DEF HandoffKinds

LEMMA CheckoutOutcome ==
  ASSUME NEW r \in Record, NEW k \in CheckoutKinds
  PROVE  SameSettlement(Update(k, r), r)
<1> USE DEF SameSettlement
<1>1. Update(k, r) = [CheckoutUpdate(k, r) EXCEPT !.last = k]
  BY UpdateIs
<1>2. CASE k = "adding"
  BY <1>1, <1>2 DEF CheckoutUpdate, Record
<1>3. CASE k = "control"
  BY <1>1, <1>3 DEF CheckoutUpdate, Record
<1>4. CASE k = "registered"
  BY <1>1, <1>4 DEF CheckoutUpdate, Record
<1>5. CASE k = "index"
  BY <1>1, <1>5 DEF CheckoutUpdate, Record
<1>6. CASE k = "phase0"
  BY <1>1, <1>6 DEF CheckoutUpdate, Record
<1>7. CASE k = "validated"
  BY <1>1, <1>7 DEF CheckoutUpdate, Record
<1> QED BY <1>2, <1>3, <1>4, <1>5, <1>6, <1>7 DEF CheckoutKinds

LEMMA LifecycleOutcome ==
  ASSUME NEW r \in Record, NEW k \in LifecycleKinds
  PROVE  SameSettlement(Update(k, r), r) /\ Update(k, r).wt = r.wt
<1> USE DEF SameSettlement
<1>1. Update(k, r) = [LifecycleUpdate(k, r) EXCEPT !.last = k]
  BY UpdateIs
<1>2. CASE k = "spawn-refresh"
  BY <1>1, <1>2 DEF LifecycleUpdate, Record
<1>3. CASE k = "spawn-reviewer"
  BY <1>1, <1>3 DEF LifecycleUpdate, Record
<1>4. CASE k = "launched"
  BY <1>1, <1>4 DEF LifecycleUpdate, Record
<1>5. CASE k = "closed-zero"
  BY <1>1, <1>5 DEF LifecycleUpdate, Record
<1>6. CASE k = "closed-nonzero"
  BY <1>1, <1>6 DEF LifecycleUpdate, Record
<1> QED
  BY <1>2, <1>3, <1>4, <1>5, <1>6
  DEF LifecycleKinds, SpawnKinds, ClosedKinds

LEMMA VerdictOutcome ==
  ASSUME NEW r \in Record, NEW k \in VerdictKinds
  PROVE  /\ SameSettlement(Update(k, r), r) /\ Update(k, r).wt = r.wt
         /\ k = "authorize" => Update(k, r).authorized
         /\ k = "reviewed" => Update(k, r).review = "verdict"
<1> USE DEF SameSettlement
<1>1. Update(k, r) = [VerdictUpdate(k, r) EXCEPT !.last = k]
  BY UpdateIs
<1>2. CASE k = "auth-pending"
  BY <1>1, <1>2 DEF VerdictUpdate, Record
<1>3. CASE k = "authorize"
  BY <1>1, <1>3 DEF VerdictUpdate, Record
<1>4. CASE k = "reviewed"
  BY <1>1, <1>4 DEF VerdictUpdate, Record
<1> QED BY <1>2, <1>3, <1>4 DEF VerdictKinds

(* Every failure concludes the attempt. *)
LEMMA FailureOutcome ==
  ASSUME NEW r \in Record, NEW k \in FailureKinds
  PROVE  /\ SameSettlement(Update(k, r), r) /\ Update(k, r).wt = r.wt
         /\ Concluded(Update(k, r)) /\ Update(k, r).review # "verdict"
<1> USE DEF SameSettlement, Concluded
<1> DEFINE gone == IF k = "failure-abandoned" THEN "yes" ELSE "no"
           kept == IF r.closure = "proven-by-owner"
                   THEN "proven-by-owner" ELSE "unproven"
           next == FailureUpdate(k, r)
<1>1. Update(k, r) = [next EXCEPT !.last = k]
  BY UpdateIs
<1>2. \/ next = [r EXCEPT !.phase = "prelaunch-aborted",
                          !.launch = "prelaunch-aborted",
                          !.review = "not-run",
                          !.closure = "proven-by-owner",
                          !.abandoned = gone]
      \/ next = [r EXCEPT !.launch = "uncertain", !.review = "inconclusive",
                          !.closure = "unproven", !.abandoned = gone]
      \/ next = [r EXCEPT !.launch = "launched", !.review = "inconclusive",
                          !.closure = "unproven", !.abandoned = gone]
      \/ next = [r EXCEPT !.review = "inconclusive", !.abandoned = gone,
                          !.closure = kept]
  BY DEF FailureUpdate
<1> HIDE DEF gone, kept, next
<1>3. CASE next = [r EXCEPT !.phase = "prelaunch-aborted",
                            !.launch = "prelaunch-aborted",
                            !.review = "not-run",
                            !.closure = "proven-by-owner",
                            !.abandoned = gone]
  BY <1>1, <1>3 DEF Record
<1>4. CASE next = [r EXCEPT !.launch = "uncertain", !.review = "inconclusive",
                            !.closure = "unproven", !.abandoned = gone]
  BY <1>1, <1>4 DEF Record
<1>5. CASE next = [r EXCEPT !.launch = "launched", !.review = "inconclusive",
                            !.closure = "unproven", !.abandoned = gone]
  BY <1>1, <1>5 DEF Record
<1>6. CASE next = [r EXCEPT !.review = "inconclusive", !.abandoned = gone,
                            !.closure = kept]
  BY <1>1, <1>6 DEF Record
<1> QED
  BY <1>2, <1>3, <1>4, <1>5, <1>6

(* A cleanup either proves the checkout gone or marks it as left behind. *)
LEMMA CleanupOutcome ==
  ASSUME NEW r \in Record, NEW k \in CleanupKinds
  PROVE  /\ Update(k, r).psettle = r.psettle
         /\ Update(k, r).csettle = "exact" =>
              r.csettle = "exact" \/ k \in {"absent", "removed"}
         /\ k # "cleanup-progress" => CleanedUp(Update(k, r))
         /\ k = "cleanup-progress" =>
              Update(k, r).csettle = r.csettle /\ Update(k, r).wt = r.wt
<1> USE DEF CleanedUp
<1>0. Update(k, r) = [CleanupUpdate(k, r) EXCEPT !.last = k]
  BY UpdateIs
<1>1. CASE k = "absent"
  BY <1>0, <1>1 DEF CleanupUpdate, Record
<1>2. CASE k = "cleanup-intent"
  BY <1>0, <1>2 DEF CleanupUpdate, Record
<1>3. CASE k = "cleanup-progress"
  BY <1>0, <1>3 DEF CleanupUpdate, Record
<1>4. CASE k = "removed"
  BY <1>0, <1>4 DEF CleanupUpdate, Record
<1>5. CASE k = "manual"
  BY <1>0, <1>5 DEF CleanupUpdate, Record
<1>6. CASE k = "manual-recover"
  BY <1>0, <1>6 DEF CleanupUpdate, Record
<1> QED
  BY <1>1, <1>2, <1>3, <1>4, <1>5, <1>6 DEF CleanupKinds

LEMMA SettleOutcome ==
  ASSUME NEW r \in Record, NEW k \in SettleKinds
  PROVE  /\ Update(k, r).csettle = r.csettle /\ Update(k, r).wt = r.wt
         /\ k # "settle" => Update(k, r).psettle = r.psettle
         /\ k = "final-auth" => /\ Update(k, r).charge = "exact"
                                /\ TerminalLifecycle(r) =>
                                     TerminalLifecycle(Update(k, r))
<1>0. Update(k, r) = [SettleUpdate(k, r) EXCEPT !.last = k]
  BY UpdateIs
<1>1. CASE k = "terminal"
  BY <1>0, <1>1 DEF SettleUpdate, Record
<1>2. CASE k = "settle"
  BY <1>0, <1>2 DEF SettleUpdate, Record
<1>3. CASE k = "final-auth"
  BY <1>0, <1>3 DEF SettleUpdate, Record, TerminalLifecycle
<1> QED
  BY <1>1, <1>2, <1>3 DEF SettleKinds

(* What recover finds of a lost owner concludes the attempt. *)
LEMMA RecoverOutcome ==
  ASSUME NEW r \in Record, NEW k \in RecoverKinds
  PROVE  /\ Update(k, r).csettle = r.csettle /\ Update(k, r).wt = r.wt
         /\ Update(k, r).psettle = r.psettle
         /\ k # "recovered" => SameOutcome(Update(k, r), r)
         /\ k = "recovered" => /\ Concluded(Update(k, r))
                               /\ Update(k, r).review # "verdict"
<1> USE DEF SameOutcome, Concluded
<1>0. Update(k, r) = [RecoverUpdate(k, r) EXCEPT !.last = k]
  BY UpdateIs
<1>1. CASE k = "conserve"
  BY <1>0, <1>1 DEF RecoverUpdate, Record
<1>2. CASE k = "charge"
  BY <1>0, <1>2 DEF RecoverUpdate, Record
<1>3. CASE k = "recovered"
  <2> DEFINE proof == IF r.phase \in PostReview
                      THEN "proven-by-owner" ELSE "proven-by-boot-change"
             lost(ph, l, v) ==
               [r EXCEPT !.phase = ph, !.launch = l, !.review = v,
                         !.closure = proof, !.abandoned = "yes",
                         !.terminal = "completed"]
             next == RecoverUpdate(k, r)
  <2>1. \/ next = lost("spawn-intent", "uncertain", "inconclusive")
        \/ next = lost("launched", "launched", "inconclusive")
        \/ next = lost("post-review-aborted", "completed", "inconclusive")
        \/ next = lost("prelaunch-aborted", "prelaunch-aborted", "not-run")
    <3>1. CASE r.phase = "spawn-intent"
      BY <1>3, <3>1 DEF RecoverUpdate, PostReview
    <3>2. CASE r.phase = "launched"
      BY <1>3, <3>2 DEF RecoverUpdate, PostReview
    <3>3. CASE r.phase \in PostReview
      BY <1>3, <3>3 DEF RecoverUpdate, PostReview
    <3>4. CASE r.phase \notin PostReview \cup {"spawn-intent", "launched"}
      BY <1>3, <3>4 DEF RecoverUpdate
    <3> QED BY <3>1, <3>2, <3>3, <3>4
  <2>2. ASSUME NEW ph, NEW l, NEW v, next = lost(ph, l, v)
        PROVE  /\ Update(k, r).csettle = r.csettle
               /\ Update(k, r).wt = r.wt /\ Update(k, r).psettle = r.psettle
               /\ Update(k, r).review = v /\ Update(k, r).phase = ph
    <3> HIDE DEF proof, next
    <3>1. Update(k, r) = [lost(ph, l, v) EXCEPT !.last = k]
      BY <1>0, <2>2 DEF next
    <3> QED BY <3>1 DEF Record
  <2> HIDE DEF lost, next
  <2> QED BY <1>3, <2>1, <2>2
<1> QED BY <1>1, <1>2, <1>3 DEF RecoverKinds

(* The kinds by which the owner brings an attempt forward, the kinds that  *)
(* conclude it; the others leave its outcome alone.                        *)
OpenKinds  == {"accepted", "complete"} \cup CheckoutKinds
                \cup LifecycleKinds \cup VerdictKinds
Concluding == {"abort", "recovered"} \cup FailureKinds
Neutral    == Kinds \ (OpenKinds \cup Concluding)

LEMMA OpenCommits ==
  ASSUME NEW r \in Record, NEW k \in OpenKinds, Allowed(k, r)
  PROVE  /\ SameSettlement(Update(k, r), r)
         /\ ~Concluded(r) => ~Concluded(Update(k, r))
         /\ k \notin VerdictKinds =>
              /\ Update(k, r).authorized = r.authorized
              /\ Update(k, r).review = r.review
<1> USE DEF Concluded
<1>1. CASE k \in {"accepted", "complete"}
  <2>1. k \in HandoffKinds /\ k # "abort"
    BY <1>1 DEF HandoffKinds
  <2> QED BY <2>1, HandoffOutcome DEF SameOutcome
<1>2. CASE k \in CheckoutKinds
  BY <1>2, CheckoutFields, CheckoutOutcome
<1>3. CASE k \in LifecycleKinds
  BY <1>3, LifecycleFields, LifecycleOutcome
<1>4. CASE k \in VerdictKinds
  <2>1. SameSettlement(Update(k, r), r)
    BY <1>4, VerdictOutcome
  <2>2. /\ Update(k, r).review \in {r.review, "verdict"}
        /\ Update(k, r).phase \in {"terminal-authorization-pending",
                                   "reviewed", r.phase}
    BY <1>4, VerdictFields, VerdictOutcome
  <2> QED BY <1>4, <2>1, <2>2
<1> QED BY <1>1, <1>2, <1>3, <1>4 DEF OpenKinds

LEMMA ConcludingCommits ==
  ASSUME NEW r \in Record, NEW k \in Concluding
  PROVE  /\ Concluded(Update(k, r)) /\ Update(k, r).review # "verdict"
         /\ SameSettlement(Update(k, r), r) \/ k = "recovered"
<1>1. CASE k = "abort"
  BY <1>1, HandoffOutcome DEF HandoffKinds, Concluded
<1>2. CASE k = "recovered"
  BY <1>2, RecoverOutcome DEF RecoverKinds
<1>3. CASE k \in FailureKinds
  BY <1>3, FailureOutcome
<1> QED BY <1>1, <1>2, <1>3 DEF Concluding

LEMMA NeutralCommits ==
  ASSUME NEW r \in Record, NEW k \in Neutral
  PROVE  SameOutcome(Update(k, r), r)
<1>1. \/ k \in {"prompt", "pending"} \/ k \in CleanupKinds \cup SettleKinds
      \/ k \in {"conserve", "charge"}
  BY DEF Neutral, OpenKinds, Concluding, Kinds, HandoffKinds, RecoverKinds
<1>2. CASE k \in {"prompt", "pending"}
  BY <1>2, HandoffOutcome DEF HandoffKinds
<1>3. CASE k \in CleanupKinds \cup SettleKinds
  BY <1>3, ClosingFields DEF SameOutcome
<1>4. CASE k \in {"conserve", "charge"}
  BY <1>4, RecoverOutcome DEF RecoverKinds
<1> QED BY <1>1, <1>2, <1>3, <1>4

(* Which commits settle the checkout, which the process; and that only a   *)
(* checkout step forgets that the checkout was cleaned up.                 *)
LEMMA SettlingCommits ==
  ASSUME NEW r \in Record, NEW k \in Kinds
  PROVE  /\ Update(k, r).csettle = "exact" =>
              r.csettle = "exact" \/ k \in {"absent", "removed"}
         /\ Update(k, r).psettle = "exact" =>
              r.psettle = "exact" \/ k = "settle"
         /\ k \notin CheckoutKinds /\ CleanedUp(r) =>
              CleanedUp(Update(k, r))
         /\ k \in CleanupKinds \ {"cleanup-progress"} =>
              CleanedUp(Update(k, r))
<1>1. CASE k \in CleanupKinds
  BY <1>1, CleanupOutcome DEF CleanedUp
<1>2. CASE k \in SettleKinds
  <2>1. k \notin CleanupKinds
    BY <1>2 DEF SettleKinds, CleanupKinds
  <2> QED BY <1>2, <2>1, SettleOutcome DEF CleanedUp
<1>3. CASE k \in RecoverKinds
  <2>1. k \notin CleanupKinds
    BY <1>3 DEF RecoverKinds, CleanupKinds
  <2> QED BY <1>3, <2>1, RecoverOutcome DEF CleanedUp
<1>4. CASE k \in CheckoutKinds
  <2>1. k \notin CleanupKinds
    BY <1>4 DEF CheckoutKinds, CleanupKinds
  <2> QED BY <1>4, <2>1, CheckoutOutcome DEF SameSettlement
<1>5. CASE k \in HandoffKinds \cup LifecycleKinds \cup VerdictKinds
               \cup FailureKinds
  <2>1. k \notin CleanupKinds
    BY <1>5 DEF HandoffKinds, LifecycleKinds, SpawnKinds, ClosedKinds,
       VerdictKinds, FailureKinds, CleanupKinds
  <2>2. SameSettlement(Update(k, r), r) /\ Update(k, r).wt = r.wt
    BY <1>5, HandoffOutcome, LifecycleOutcome, VerdictOutcome, FailureOutcome
  <2> QED BY <2>1, <2>2 DEF SameSettlement, CleanedUp
<1> QED BY <1>1, <1>2, <1>3, <1>4, <1>5 DEF Kinds

-----------------------------------------------------------------------------
(* How the outer process and the operator move. *)

OuterForward ==
  {<<"off", "prompt">>, <<"spawn", "custody">>, <<"spawn", "abort">>,
   <<"custody", "pending">>, <<"custody", "terminating">>,
   <<"await-accepted", "await-complete">>,
   <<"await-accepted", "terminating">>, <<"await-complete", "owned">>,
   <<"await-complete", "terminating">>, <<"owned", "await-terminal">>,
   <<"owned", "reap-held">>, <<"await-terminal", "reap-ok">>,
   <<"await-terminal", "reap-fail">>, <<"reap-ok", "reap-fail">>,
   <<"reap-ok", "acquire">>, <<"terminating", "abort">>,
   <<"acquire", "final-auth">>, <<"cleanup", "manual">>,
   <<"cleanup", "absent">>, <<"cleanup", "cleanup-intent">>,
   <<"delete", "manual">>, <<"delete", "cleanup-progress">>}

LEMMA OuterMoves ==
  ASSUME TypeOK, [Next]_vars, pc'["outer"] # pc["outer"]
  PROVE  \/ /\ Reply("outer") /\ Landed("outer", {pc["outer"]})
            /\ pc["outer"] \in Kinds \cap OuterLabels
            /\ pc'["outer"] \in After("outer", pc["outer"])
         \/ /\ Fail("outer") /\ pc["outer"] \in Kinds \cap OuterLabels
            /\ pc'["outer"] \in OnFail("outer", pc["outer"])
         \/ /\ <<pc["outer"], pc'["outer"]>> \in OuterForward
            /\ pc["outer"] = "off" => OuterStart
         \/ pc["outer"] # "off" /\ pc'["outer"] \in {"exit1", "exit2", "dead"}
<1> USE LabelFacts DEF TypeOK
<1>1. ASSUME NEW q \in Procs, CommitStep(q), q # "outer"
      PROVE  pc'["outer"] = pc["outer"]
  BY <1>1
  DEF CommitStep, Request, HelperCheck, HelperCommit, HelperFail, OrphanExit,
      Reply, Fail
<1>2. CASE CommitStep("outer")
  <2>1. CASE Reply("outer")
    BY <2>1 DEF Reply, Landed, HelperLive
  <2>2. CASE Fail("outer")
    BY <2>2 DEF Fail
  <2> QED
    BY <1>2, <2>1, <2>2
    DEF CommitStep, Request, HelperCheck, HelperCommit, HelperFail,
        OrphanExit
<1>3. CASE OuterStart
  BY <1>3 DEF OuterStart, OuterGoto, OuterForward
<1>4. CASE OuterStep
  <2>1. CASE \/ SpawnSup \/ OuterCustodyAccepted \/ OuterAccepted
             \/ OuterOwnershipComplete \/ OuterAck \/ OuterTerminal
             \/ OuterTerminateSup
    BY <2>1 DEF SpawnSup, OuterCustodyAccepted, OuterAccepted,
       OuterOwnershipComplete, OuterAck, OuterTerminal, OuterTerminateSup,
       OuterGoto, OuterForward
  <2>2. CASE OuterGiveUp
    BY <2>2 DEF OuterGiveUp, OuterGoto, OuterForward
  <2>3. CASE OuterReap \/ OuterSelect
    BY <2>3 DEF OuterReap, OuterSelect, OuterGoto, OuterForward
  <2> QED
    BY <1>4, <2>1, <2>2, <2>3 DEF OuterStep
<1>5. CASE SupStep
  BY <1>5 DEF SupStep, SupTakeCustody, SupOffer, SupStart, SupAcknowledged,
     SupGiveUp, SupReleaseWorker, SupWorkerMilestone, SupReapWorker,
     SupLoseWorker, SupLaunch, SupLaunchFails, SupCheckpoint,
     SupSettleProcess, SupPublish, SupSendTerminal, SupGoto
<1>6. ASSUME NEW q \in Procs, CleanupStep(q) \/ Crash(q)
      PROVE  \/ pc'["outer"] = pc["outer"]
             \/ /\ <<pc["outer"], pc'["outer"]>> \in OuterForward
                /\ pc["outer"] # "off"
             \/ pc["outer"] # "off" /\ pc'["outer"] \in {"exit2", "dead"}
  BY <1>6 DEF CleanupStep, CleanupStart, CleanupDelete, CleanupGivesUp,
     CleanupFailures, Crash, OuterForward
<1>7. CASE \/ WorkerNext \/ LeaderExits \/ OperatorRecover \/ OperatorFinal
           \/ Reboot
  BY <1>7 DEF WorkerNext, WorkerCommit, WorkerAdd, WorkerStep, WorkerFails,
     WorkerDies, WorkerOnly, LeaderExits, OperatorRecover, OperatorFinal,
     Reboot
<1>8. CASE UNCHANGED vars
  BY <1>8 DEF vars
<1> QED
  BY <1>1, <1>2, <1>3, <1>4, <1>5, <1>6, <1>7, <1>8 DEF Next

OperatorForward ==
  {<<"cleanup", "manual">>, <<"cleanup", "manual-recover">>,
   <<"cleanup", "absent">>, <<"cleanup", "cleanup-intent">>,
   <<"delete", "manual">>, <<"delete", "manual-recover">>,
   <<"delete", "cleanup-progress">>}

LEMMA OperatorMoves ==
  ASSUME TypeOK, [Next]_vars, pc'["operator"] # pc["operator"]
  PROVE  \/ /\ Reply("operator") /\ Landed("operator", {pc["operator"]})
            /\ pc["operator"] \in Kinds \cap OperatorLabels
            /\ pc'["operator"] \in After("operator", pc["operator"])
         \/ /\ Fail("operator") /\ pc["operator"] \in Kinds \cap OperatorLabels
            /\ pc'["operator"] \in OnFail("operator", pc["operator"])
         \/ <<pc["operator"], pc'["operator"]>> \in OperatorForward
         \/ /\ OperatorRecover
            /\ pc'["operator"] =
                 IF rec.psettle = "exact" THEN "conserve" ELSE "recovered"
         \/ pc'["operator"] = "idle"
<1> USE LabelFacts DEF TypeOK
<1>1. ASSUME NEW q \in Procs, CommitStep(q), q # "operator"
      PROVE  pc'["operator"] = pc["operator"]
  BY <1>1
  DEF CommitStep, Request, HelperCheck, HelperCommit, HelperFail, OrphanExit,
      Reply, Fail
<1>2. CASE CommitStep("operator")
  <2>1. CASE Reply("operator")
    BY <2>1 DEF Reply, Landed, HelperLive
  <2>2. CASE Fail("operator")
    BY <2>2 DEF Fail
  <2> QED
    BY <1>2, <2>1, <2>2
    DEF CommitStep, Request, HelperCheck, HelperCommit, HelperFail,
        OrphanExit
<1>3. CASE OuterStart \/ OuterStep
  BY <1>3 DEF OuterStart, OuterStep, SpawnSup, OuterCustodyAccepted,
     OuterAccepted, OuterOwnershipComplete, OuterAck, OuterTerminal,
     OuterGiveUp, OuterTerminateSup, OuterReap, OuterSelect, OuterGoto
<1>4. CASE SupStep
  BY <1>4 DEF SupStep, SupTakeCustody, SupOffer, SupStart, SupAcknowledged,
     SupGiveUp, SupReleaseWorker, SupWorkerMilestone, SupReapWorker,
     SupLoseWorker, SupLaunch, SupLaunchFails, SupCheckpoint,
     SupSettleProcess, SupPublish, SupSendTerminal, SupGoto
<1>5. ASSUME NEW q \in Procs, CleanupStep(q) \/ Crash(q)
      PROVE  \/ pc'["operator"] = pc["operator"]
             \/ <<pc["operator"], pc'["operator"]>> \in OperatorForward
             \/ pc'["operator"] = "idle"
  BY <1>5 DEF CleanupStep, CleanupStart, CleanupDelete, CleanupGivesUp,
     CleanupFailures, Crash, OperatorForward
<1>6. CASE OperatorRecover
  BY <1>6 DEF OperatorRecover
<1>7. CASE WorkerNext \/ LeaderExits \/ OperatorFinal \/ Reboot
  BY <1>7 DEF WorkerNext, WorkerCommit, WorkerAdd, WorkerStep, WorkerFails,
     WorkerDies, WorkerOnly, LeaderExits, OperatorFinal, Reboot
<1>8. CASE UNCHANGED vars
  BY <1>8 DEF vars
<1> QED
  BY <1>1, <1>2, <1>3, <1>4, <1>5, <1>6, <1>7, <1>8 DEF Next

-----------------------------------------------------------------------------
(* After a restart of the machine only the operator is left, and only then *)
(* does it write.                                                          *)

AfterBoot ==
  boot # 0 => /\ pc["outer"] \in Finished /\ pc["sup"] \in SupIdle
              /\ ~HelperLive("outer") /\ ~HelperLive("sup")
              /\ ~WorkerLive /\ leader.st # "running"
RecoversAfterBoot == OperatorHolds \/ HelperLive("operator") => boot # 0

(* But for the offer, the outer process commits while there is no          *)
(* supervisor; while the worker runs, the supervisor commits its           *)
(* milestones only.                                                        *)
OuterCommitsAlone ==
  HelperIn("outer", Kinds \ {"pending"}) => pc["sup"] \in SupIdle
WorkerAndHelper ==
  WorkerLive /\ HelperLive("sup") => helper["sup"].kind \in {"index", "phase0"}

Writers ==
  AfterBoot /\ RecoversAfterBoot /\ OuterCommitsAlone /\ WorkerAndHelper

LEMMA BootSteps ==
  ASSUME TypeOK, [Next]_vars
  PROVE  boot' = boot \/ Reboot
BY DEF Next, CommitStep, Request, HelperCheck, HelperCommit, HelperFail,
   OrphanExit, Reply, Fail, CleanupStep, CleanupStart, CleanupDelete,
   CleanupGivesUp, CleanupOnly, Crash, OuterStart, OuterStep, SpawnSup,
   OuterCustodyAccepted, OuterAccepted, OuterOwnershipComplete, OuterAck,
   OuterTerminal, OuterGiveUp, OuterTerminateSup, OuterReap, OuterSelect,
   OuterOnly, SupStep, SupTakeCustody, SupOffer, SupStart, SupAcknowledged,
   SupGiveUp, SupReleaseWorker, SupWorkerMilestone, SupReapWorker,
   SupLoseWorker, SupLaunch, SupLaunchFails, SupCheckpoint,
   SupSettleProcess, SupPublish, SupSendTerminal, SupOnly, WorkerNext,
   WorkerCommit, WorkerAdd, WorkerStep, WorkerFails, WorkerDies, WorkerOnly,
   LeaderExits, OperatorRecover, OperatorFinal, vars

(* The supervisor only ever leaves SupIdle when the outer process forks. *)
LEMMA SupIdleStays ==
  ASSUME TypeOK, [Next]_vars, pc["sup"] \in SupIdle
  PROVE  pc'["sup"] \in SupIdle \/ pc["outer"] = "spawn"
<1>1. pc["sup"] \notin Kinds
  BY DEF SupIdle, Finished, Kinds, HandoffKinds, CheckoutKinds,
     LifecycleKinds, SpawnKinds, ClosedKinds, VerdictKinds, FailureKinds,
     CleanupKinds, SettleKinds, RecoverKinds
<1> QED
  BY <1>1, SupMoves
  DEF SupIdle, Finished, SupForward, SupLeaves, FailureKinds

LEMMA FinishedIsForGood ==
  ASSUME TypeOK, [Next]_vars, pc["outer"] \in Finished
  PROVE  pc'["outer"] \in Finished
<1>1. pc["outer"] \notin Kinds
  BY DEF Finished, Kinds, HandoffKinds, CheckoutKinds,
     LifecycleKinds, SpawnKinds, ClosedKinds, VerdictKinds, FailureKinds,
     CleanupKinds, SettleKinds, RecoverKinds
<1> QED
  BY <1>1, OuterMoves DEF Finished, OuterForward

(* Who has a helper had one, or asks for one. *)
LEMMA HelperOrigin ==
  ASSUME TypeOK, [Next]_vars, NEW p \in Procs, HelperLive(p)'
  PROVE  \/ HelperLive(p) /\ helper'[p].kind = helper[p].kind
         \/ /\ pc'[p] = pc[p] /\ pc[p] \in Kinds /\ ~HelperLive(p)
            /\ helper'[p].kind = pc[p] /\ worker' = worker /\ boot' = boot
            /\ leader' = leader /\ pc' = pc
<1>1. CASE helper'[p] = helper[p]
  BY <1>1 DEF HelperLive
<1>2. CASE helper'[p] # helper[p]
  BY <1>2, HelperSteps DEF Request
<1> QED BY <1>1, <1>2

LEMMA OuterHelper ==
  ASSUME TypeOK, LeaseDiscipline, HelperLive("outer"),
         pc["outer"] \notin Finished
  PROVE  helper["outer"].kind = pc["outer"] /\ pc["outer"] \notin Waits
BY WaitingHasNoHelper, LabelFacts
DEF LeaseDiscipline, HelperServesOwner, Orphaned

LEMMA NextWriters ==
  ASSUME TypeOK, LeaseDiscipline, Writers, [Next]_vars
  PROVE  Writers'
<1> USE LabelFacts DEF Writers
<1>1. AfterBoot'
  <2> SUFFICES ASSUME boot' # 0
               PROVE  /\ pc'["outer"] \in Finished /\ pc'["sup"] \in SupIdle
                      /\ ~HelperLive("outer")' /\ ~HelperLive("sup")'
                      /\ ~WorkerLive' /\ leader'.st # "running"
    BY DEF AfterBoot
  <2>1. CASE Reboot
    BY <2>1 DEF Reboot, NoHelper, HelperLive, WorkerLive, TypeOK, SupIdle,
       Finished
  <2>2. CASE boot' = boot
    <3>1. /\ pc["outer"] \in Finished /\ pc["sup"] \in SupIdle
          /\ ~HelperLive("outer") /\ ~HelperLive("sup")
          /\ ~WorkerLive /\ leader.st # "running"
      BY <2>2 DEF AfterBoot
    <3>2. pc["outer"] \notin Kinds \cup {"spawn"} /\ pc["sup"] \notin Kinds
      BY <3>1
      DEF SupIdle, Finished, Kinds, HandoffKinds, CheckoutKinds,
          LifecycleKinds, SpawnKinds, ClosedKinds, VerdictKinds,
          FailureKinds, CleanupKinds, SettleKinds, RecoverKinds
    <3>3. pc'["outer"] \in Finished /\ pc'["sup"] \in SupIdle
      BY <3>1, <3>2, FinishedIsForGood, SupIdleStays
    <3>4. ~HelperLive("outer")' /\ ~HelperLive("sup")'
      BY <3>1, <3>2, HelperOrigin
    <3>5. ~WorkerLive'
      BY <3>1, WorkerSteps DEF SupReleaseWorker, SupIdle, Finished
    <3>6. leader'.st # "running"
      BY <3>1, LeaderSteps DEF SupLaunch, SupIdle, Finished
    <3> QED BY <3>3, <3>4, <3>5, <3>6
  <2> QED BY <2>1, <2>2, BootSteps
<1>2. RecoversAfterBoot'
  <2> SUFFICES ASSUME OperatorHolds' \/ HelperLive("operator")'
               PROVE  boot' # 0
    BY DEF RecoversAfterBoot
  <2>1. boot # 0
    <3>1. CASE OperatorHolds \/ HelperLive("operator")
      BY <3>1 DEF RecoversAfterBoot
    <3>2. CASE ~OperatorHolds /\ ~HelperLive("operator")
      <4>1. pc["operator"] \notin Kinds
        BY <3>2
        DEF OperatorHolds, Kinds, HandoffKinds, CheckoutKinds,
            LifecycleKinds, SpawnKinds, ClosedKinds, VerdictKinds,
            FailureKinds, CleanupKinds, SettleKinds, RecoverKinds
      <4>2. ~HelperLive("operator")'
        BY <3>2, <4>1, HelperOrigin
      <4>3. pc'["operator"] # pc["operator"] /\ pc'["operator"] # "idle"
              /\ pc["operator"] = "idle"
        BY <3>2, <4>2 DEF OperatorHolds
      <4> QED
        BY <4>1, <4>3, OperatorMoves DEF OperatorRecover, OperatorForward
    <3> QED BY <3>1, <3>2
  <2> QED BY <2>1, BootSteps DEF Reboot, TypeOK
<1>3. OuterCommitsAlone'
  <2> SUFFICES ASSUME HelperIn("outer", Kinds \ {"pending"})'
               PROVE  pc'["sup"] \in SupIdle
    BY DEF OuterCommitsAlone
  <2>1. CASE HelperIn("outer", Kinds \ {"pending"})
    <3>1. pc["sup"] \in SupIdle /\ pc["outer"] # "spawn"
      BY <2>1, WaitingHasNoHelper
      DEF OuterCommitsAlone, HelperIn, LeaseDiscipline, Waits
    <3> QED BY <3>1, SupIdleStays
  <2>2. CASE ~HelperIn("outer", Kinds \ {"pending"})
    <3>1. pc' = pc /\ pc["outer"] \in Kinds \ {"pending"}
      BY <2>2, HelperOrigin DEF HelperIn
    <3>2. pc["outer"] \in OuterSole
      BY <3>1, OuterNextLabels DEF TypeOK
    <3> QED BY <3>1, <3>2 DEF LeaseDiscipline, OuterAlone
  <2> QED BY <2>1, <2>2
<1>4. WorkerAndHelper'
  <2> SUFFICES ASSUME WorkerLive', HelperLive("sup")'
               PROVE  helper'["sup"].kind \in {"index", "phase0"}
    BY DEF WorkerAndHelper
  <2>1. WorkerLive
    <3>1. ~Reply("sup")
      BY DEF Reply, NoHelper, HelperLive, TypeOK
    <3>2. ~SupReleaseWorker
      BY WaitingHasNoHelper
      DEF SupReleaseWorker, SupOnly, LeaseDiscipline, Waits, HelperLive
    <3> QED BY <3>1, <3>2, WorkerSteps
  <2>2. CASE HelperLive("sup") /\ helper'["sup"].kind = helper["sup"].kind
    BY <2>1, <2>2 DEF WorkerAndHelper
  <2>3. CASE pc["sup"] \in Kinds /\ helper'["sup"].kind = pc["sup"]
    <3>1. pc["sup"] \in {"await-worker", "index", "phase0"} \cup Finished
      BY <2>1 DEF LeaseDiscipline, WorkerLockstep
    <3>2. pc["sup"] \notin {"await-worker"} \cup Finished
      BY <2>3
      DEF Finished, Kinds, HandoffKinds, CheckoutKinds, LifecycleKinds,
          SpawnKinds, ClosedKinds, VerdictKinds, FailureKinds, CleanupKinds,
          SettleKinds, RecoverKinds
    <3> QED BY <2>3, <3>1, <3>2
  <2> QED BY <2>2, <2>3, HelperOrigin
<1> QED BY <1>1, <1>2, <1>3, <1>4

-----------------------------------------------------------------------------
(* While the attempt is open nobody settles or concludes it. *)

OpenLabels == {"ready", "await-offer", "await-start", "await-ack",
               "await-worker", "launch", "checkpoint", "running", "publish"}
                \cup OpenKinds

Open == \/ pc["outer"] \in PreOffer \/ pc["sup"] \in OpenLabels
        \/ HelperIn("sup", OpenKinds) \/ WorkerLive
Failing == \/ pc["sup"] \in FailureKinds \cup {"cleanup"}
           \/ HelperIn("sup", FailureKinds)

Unsettled == rec.csettle = "outstanding" /\ rec.psettle = "outstanding"
UnsettledWhileOpen == Open \/ Failing => Unsettled
NotConcludedWhileOpen == Open => ~Concluded(rec)

LEMMA OpenNext ==
  ASSUME NEW k \in Kinds \cap SupLabels
  PROVE  /\ \A l \in After("sup", k) :
              /\ l \in OpenLabels => k \in OpenKinds
              /\ l \in FailureKinds \cup {"cleanup"} =>
                   k \in OpenKinds \cup FailureKinds
         /\ \A l \in OnFail("sup", k) :
              /\ l \notin OpenLabels \cup {"cleanup"}
              /\ l \in FailureKinds => k \in OpenKinds
BY DEF After, AfterCheckout, AfterClosed, AfterCleanup, OnFail, SupFailures,
       CleanupFailures, CleanupCommits, SupLabels, Finished, Kinds,
       HandoffKinds, CheckoutKinds, LifecycleKinds, SpawnKinds, ClosedKinds,
       VerdictKinds, FailureKinds, CleanupKinds, SettleKinds, RecoverKinds,
       OpenLabels, OpenKinds

(* Every step keeps it closed. *)
LEMMA OpenOrigin ==
  ASSUME TypeOK, [Next]_vars
  PROVE  /\ Open' => Open
         /\ Failing' => Open \/ Failing
<1> USE LabelFacts
<1>1. pc'["outer"] \in PreOffer => pc["outer"] \in PreOffer
  BY OuterMoves, OuterNextLabels
  DEF OuterForward, PreOffer
<1>2. pc'["sup"] \in OpenLabels =>
        pc["sup"] \in OpenLabels \/ pc["outer"] \in PreOffer
  BY SupMoves, OpenNext
  DEF SupForward, SupLeaves, FailureKinds, Finished, OpenLabels, OpenKinds,
      CheckoutKinds, LifecycleKinds, SpawnKinds, ClosedKinds, VerdictKinds,
      PreOffer
<1>3. HelperIn("sup", OpenKinds)' =>
        pc["sup"] \in OpenLabels \/ HelperIn("sup", OpenKinds)
  BY HelperOrigin DEF HelperIn, OpenLabels
<1>4. WorkerLive' => WorkerLive \/ pc["sup"] \in OpenLabels
  BY WorkerSteps DEF SupReleaseWorker, OpenLabels, OpenKinds, CheckoutKinds
<1>5. pc'["sup"] \in FailureKinds \cup {"cleanup"} =>
        pc["sup"] \in OpenLabels \cup FailureKinds \cup {"cleanup"}
  BY SupMoves, OpenNext
  DEF SupForward, SupLeaves, FailureKinds, Finished, OpenLabels
<1>6. HelperIn("sup", FailureKinds)' =>
        pc["sup"] \in FailureKinds \/ HelperIn("sup", FailureKinds)
  BY HelperOrigin DEF HelperIn
<1> QED
  BY <1>1, <1>2, <1>3, <1>4, <1>5, <1>6 DEF Open, Failing

LEMMA OpenWriters ==
  ASSUME TypeOK, LeaseDiscipline, NoLostUpdate, CheckedIsAllowed, Writers,
         [Next]_vars, Open \/ Failing, rec' # rec
  PROVE  \E k \in Kinds :
           /\ k \in OpenKinds \cup {"prompt", "pending"} \cup FailureKinds
           /\ Open => k \notin FailureKinds
           /\ Allowed(k, rec) /\ rec' = Update(k, rec)
<1> USE LabelFacts DEF Writers
<1>1. ASSUME Commits("outer")
      PROVE  helper["outer"].kind \in {"prompt", "pending"}
  <2> SUFFICES ASSUME helper["outer"].kind # "pending"
               PROVE  helper["outer"].kind = "prompt"
    OBVIOUS
  <2>1. pc["sup"] \in SupIdle /\ ~HelperLive("sup") /\ ~WorkerLive
    BY <1>1
    DEF Commits, OuterCommitsAlone, HelperIn, LeaseDiscipline, OuterAlone
  <2>2. pc["outer"] \in PreOffer
    BY <2>1
    DEF Open, Failing, HelperIn, SupIdle, Finished, OpenLabels, OpenKinds,
        CheckoutKinds, LifecycleKinds, SpawnKinds, ClosedKinds,
        VerdictKinds, FailureKinds
  <2>3. helper["outer"].kind = pc["outer"] /\ pc["outer"] \notin Waits
    BY <1>1, <2>2, OuterHelper DEF Commits, PreOffer, Finished
  <2> QED BY <2>2, <2>3 DEF PreOffer, Waits
<1>2. ~Commits("operator")
  BY DEF Commits, RecoversAfterBoot, AfterBoot, Open, Failing, HelperIn,
     SupIdle, Finished, OpenLabels, OpenKinds, CheckoutKinds,
     LifecycleKinds, SpawnKinds, ClosedKinds, VerdictKinds, FailureKinds,
     PreOffer
<1>3. ASSUME Commits("sup")
      PROVE  /\ helper["sup"].kind \in OpenKinds \cup FailureKinds
             /\ Open => helper["sup"].kind \in OpenKinds
  <2>1. pc["outer"] \notin PreOffer
    BY <1>3
    DEF Commits, LeaseDiscipline, OuterAlone, PreOffer, OuterSole
  <2>2. pc["sup"] \in OpenLabels => helper["sup"].kind \in OpenKinds
    BY <1>3, SupHelper
    DEF Commits, OpenLabels, OpenKinds, Waits, Finished, CheckoutKinds,
        LifecycleKinds, SpawnKinds, ClosedKinds, VerdictKinds
  <2>3. WorkerLive => helper["sup"].kind \in OpenKinds
    BY <1>3 DEF Commits, WorkerAndHelper, OpenKinds, CheckoutKinds
  <2>4. Open => helper["sup"].kind \in OpenKinds
    BY <2>1, <2>2, <2>3 DEF Open, HelperIn
  <2>5. Failing => helper["sup"].kind \in FailureKinds
    BY <1>3, SupHelper
    DEF Commits, Failing, HelperIn, FailureKinds, Waits, Finished
  <2> QED BY <2>4, <2>5
<1>4. ASSUME WorkerCommit
      PROVE  /\ worker \in OpenKinds /\ worker \in Kinds
             /\ Allowed(worker, rec) /\ rec' = Update(worker, rec)
  BY <1>4
  DEF WorkerCommit, WorkerCommits, OpenKinds, CheckoutKinds, Kinds
<1>5. OpenKinds \cap FailureKinds = {}
        /\ {"prompt", "pending"} \cap FailureKinds = {}
  BY DEF OpenKinds, CheckoutKinds, LifecycleKinds, SpawnKinds, ClosedKinds,
     VerdictKinds, FailureKinds
<1>6. CASE WorkerCommit
  BY <1>4, <1>5, <1>6
<1>7. CASE Commits("outer")
  BY <1>1, <1>5, <1>7 DEF Commits
<1>8. CASE Commits("sup")
  BY <1>3, <1>5, <1>8 DEF Commits
<1> QED
  BY <1>2, <1>6, <1>7, <1>8, RecordSteps

LEMMA HandoffStays ==
  ASSUME NEW r \in Record, NEW k \in {"prompt", "pending"}
  PROVE  SameSettlement(Update(k, r), r) /\ SameOutcome(Update(k, r), r)
BY HandoffOutcome DEF HandoffKinds

LEMMA NextOpen ==
  ASSUME TypeOK, LeaseDiscipline, NoLostUpdate, CheckedIsAllowed, Writers,
         UnsettledWhileOpen, NotConcludedWhileOpen, [Next]_vars
  PROVE  UnsettledWhileOpen' /\ NotConcludedWhileOpen'
<1>1. ASSUME Open \/ Failing, rec' # rec
      PROVE  /\ rec'.csettle = rec.csettle /\ rec'.psettle = rec.psettle
             /\ Open => ~Concluded(rec')
  <2>1. PICK k \in Kinds :
           /\ k \in OpenKinds \cup {"prompt", "pending"} \cup FailureKinds
           /\ Open => k \notin FailureKinds
           /\ Allowed(k, rec) /\ rec' = Update(k, rec)
    BY <1>1, OpenWriters
  <2>2. CASE k \in OpenKinds
    BY <2>1, <2>2, OpenCommits
    DEF TypeOK, SameSettlement, NotConcludedWhileOpen
  <2>3. CASE k \in {"prompt", "pending"}
    BY <2>1, <2>3, HandoffStays
    DEF TypeOK, SameSettlement, SameOutcome, NotConcludedWhileOpen, Concluded
  <2>4. CASE k \in FailureKinds
    BY <2>1, <2>4, FailureOutcome DEF TypeOK, SameSettlement
  <2> QED BY <2>1, <2>2, <2>3, <2>4
<1>2. UnsettledWhileOpen'
  BY <1>1, OpenOrigin DEF UnsettledWhileOpen, Unsettled
<1>3. NotConcludedWhileOpen'
  BY <1>1, OpenOrigin DEF NotConcludedWhileOpen
<1> QED BY <1>2, <1>3

-----------------------------------------------------------------------------
(* A conclusion is for ever. *)

VerdictIsReviewed ==
  rec.review = "verdict" => rec.phase = "reviewed" /\ rec.authorized

LEMMA VerdictStaysReviewed ==
  ASSUME NEW r \in Record, NEW k \in Kinds, Allowed(k, r),
         r.review = "verdict" => r.phase = "reviewed" /\ r.authorized,
         Update(k, r).review = "verdict"
  PROVE  Update(k, r).phase = "reviewed" /\ Update(k, r).authorized
<1>1. k \notin Concluding
  BY ConcludingCommits
<1>2. CASE k \in OpenKinds
  <2>1. k \notin VerdictKinds => r.review = "verdict"
    BY <1>2, OpenCommits
  <2>2. r.phase = "reviewed" => k \notin OpenKinds \/ k = "authorize"
    BY DEF Allowed, AllowedFrom, OpenKinds, CheckoutKinds, LifecycleKinds,
       SpawnKinds, ClosedKinds, VerdictKinds, HandoffKinds
  <2>3. CASE k \in VerdictKinds
    <3>1. k = "reviewed" => r.authorized
      BY DEF Allowed
    <3> QED BY <1>2, <2>2, <2>3, <3>1, VerdictFields, VerdictOutcome
  <2> QED BY <1>2, <2>1, <2>2, <2>3 DEF VerdictKinds
<1>3. CASE k \in Neutral
  BY <1>3, NeutralCommits DEF SameOutcome
<1> QED BY <1>1, <1>2, <1>3 DEF Neutral

LEMMA NextVerdictReviewed ==
  ASSUME TypeOK, NoLostUpdate, CheckedIsAllowed, VerdictIsReviewed,
         [Next]_vars
  PROVE  VerdictIsReviewed'
<1>1. ASSUME NEW p \in Procs, Commits(p) PROVE VerdictIsReviewed'
  BY <1>1, VerdictStaysReviewed DEF VerdictIsReviewed, Commits, TypeOK
<1>2. CASE WorkerCommit
  BY <1>2, VerdictStaysReviewed
  DEF VerdictIsReviewed, WorkerCommit, WorkerCommits, TypeOK, Kinds,
      CheckoutKinds
<1> QED BY <1>1, <1>2, RecordSteps DEF VerdictIsReviewed

(* Whoever writes a concluded attempt is not its supervisor bringing it    *)
(* forward.                                                                *)
LEMMA ConcludedWriters ==
  ASSUME TypeOK, NoLostUpdate, CheckedIsAllowed, HelperKinds,
         NotConcludedWhileOpen, [Next]_vars, Concluded(rec), rec' # rec
  PROVE  \E k \in Kinds \ OpenKinds :
           Allowed(k, rec) /\ rec' = Update(k, rec)
<1>1. ~Open
  BY DEF NotConcludedWhileOpen
<1>2. ASSUME NEW p \in Procs, Commits(p)
      PROVE  helper[p].kind \notin OpenKinds
  BY <1>1, <1>2, LabelFacts
  DEF Open, HelperIn, HelperKinds, Commits, OuterLabels, OperatorLabels,
      Finished, OpenKinds, CheckoutKinds, LifecycleKinds, SpawnKinds,
      ClosedKinds, VerdictKinds
<1>3. ~WorkerCommit
  BY <1>1 DEF Open, WorkerLive, WorkerCommit, WorkerCommits
<1> QED
  BY <1>2, <1>3, RecordSteps DEF Commits

LEMMA ConclusionStays ==
  ASSUME TypeOK, NoLostUpdate, CheckedIsAllowed, HelperKinds,
         NotConcludedWhileOpen, VerdictIsReviewed, [Next]_vars,
         Concluded(rec)
  PROVE  Concluded(rec') /\ rec'.review # "verdict"
<1>1. rec.review # "verdict"
  BY DEF VerdictIsReviewed, Concluded
<1>2. CASE rec' = rec
  BY <1>1, <1>2 DEF Concluded
<1>3. CASE rec' # rec
  <2>1. PICK k \in Kinds \ OpenKinds : rec' = Update(k, rec)
    BY <1>3, ConcludedWriters
  <2>2. CASE k \in Concluding
    BY <2>1, <2>2, ConcludingCommits DEF TypeOK
  <2>3. CASE k \notin Concluding
    BY <1>1, <2>1, <2>3, NeutralCommits
    DEF Neutral, TypeOK, SameOutcome, Concluded
  <2> QED BY <2>2, <2>3
<1> QED BY <1>2, <1>3

OpenInv ==
  /\ CheckedIsAllowed /\ HelperKinds /\ Writers
  /\ UnsettledWhileOpen /\ NotConcludedWhileOpen /\ VerdictIsReviewed

LEMMA InitOpen == Init => OpenInv
BY DEF Init, NoHelper, OpenInv, CheckedIsAllowed, HelperKinds, Writers,
   AfterBoot, RecoversAfterBoot, OuterCommitsAlone, WorkerAndHelper,
   UnsettledWhileOpen, NotConcludedWhileOpen, VerdictIsReviewed, Unsettled,
   Concluded, HelperIn, HelperLive, OperatorHolds, Procs, ReservedRecord

LEMMA NextOpenInv ==
  TypeOK /\ LeaseDiscipline /\ NoLostUpdate /\ OpenInv /\ [Next]_vars
    => OpenInv'
BY NextChecksAllowed, NextHelperKinds, NextWriters, NextOpen,
   NextVerdictReviewed DEF OpenInv

LEMMA OpenHolds == Spec => []OpenInv
<1> QED
  BY InitOpen, NextOpenInv, TypeCorrect, LeaseDisciplineHolds,
     NoUpdateIsLost, PTL DEF Spec

(* An abort or an inconclusive outcome does not become a verdict, whoever  *)
(* still writes the record.                                                *)
THEOREM ConclusionsArePermanent == Spec => ConclusionIsPermanent
<1>1. TypeOK /\ NoLostUpdate /\ OpenInv /\ [Next]_vars
      => [Concluded(rec) => Concluded(rec') /\ rec'.review # "verdict"]_vars
  BY ConclusionStays DEF OpenInv
<1> QED
  BY <1>1, OpenHolds, TypeCorrect, NoUpdateIsLost, PTL
  DEF Spec, ConclusionIsPermanent

-----------------------------------------------------------------------------
(* What a settlement proves of the processes and of the checkout. *)

(* Until the outer process has read that the supervisor owns the attempt,  *)
(* and for whatever it commits but the final authorization, there is       *)
(* neither a checkout nor a worker nor a reviewer.                         *)
Unowned == \/ pc["outer"] \in OuterLabels
                \ (PostOwned \cup {"owned", "final-auth"})
           \/ HelperIn("outer", Kinds \ {"final-auth"})
NothingUnowned ==
  Unowned => /\ ~WorkerLive /\ tree = FALSE /\ leader.st = "none"
             /\ pc["sup"] \notin ActiveLabels

(* A supervisor that is past its reviewer has reaped it. *)
RunningLeader ==
  leader.st = "running" =>
    /\ pc["sup"] \in {"checkpoint", "launched", "running"} \cup Finished
    /\ HelperLive("sup") => helper["sup"].kind = "launched"

(* Who records that the checkout is gone has seen that it is. *)
GoneKinds == {"absent", "cleanup-progress", "removed"}
Gone(p)   == pc[p] \in GoneKinds \/ HelperIn(p, GoneKinds)
GoneIsGone == \A p \in Procs : Gone(p) => tree = FALSE

ExactCheckoutIsGone == rec.csettle = "exact" => tree = FALSE
ExactProcessIsGone  == rec.psettle = "exact" => leader.st # "running"

SettledInv == /\ NothingUnowned /\ RunningLeader /\ GoneIsGone
              /\ ExactCheckoutIsGone /\ ExactProcessIsGone

LEMMA UnownedOrigin ==
  ASSUME TypeOK, [Next]_vars, Unowned'
  PROVE  Unowned
<1> USE LabelFacts DEF Unowned
<1>1. CASE pc'["outer"] \in OuterLabels
                \ (PostOwned \cup {"owned", "final-auth"})
  BY <1>1, OuterMoves, OuterNextLabels
  DEF TypeOK, OuterForward, OuterSole, OuterLabels, PostOwned, Finished
<1>2. CASE HelperIn("outer", Kinds \ {"final-auth"})'
  <2>1. CASE HelperIn("outer", Kinds \ {"final-auth"})
    BY <2>1
  <2>2. CASE ~HelperIn("outer", Kinds \ {"final-auth"})
    <3>1. pc["outer"] \in Kinds \ {"final-auth"}
      BY <1>2, <2>2, HelperOrigin DEF HelperIn
    <3>2. pc["outer"] \in OuterLabels /\ pc["outer"] \in OuterSole \cup {"pending"}
      BY <3>1, OuterNextLabels DEF TypeOK
    <3> QED BY <3>1, <3>2 DEF OuterSole, PostOwned, Finished
  <2> QED BY <2>1, <2>2
<1> QED BY <1>1, <1>2

LEMMA UnownedHasNoWorker ==
  ASSUME LeaseDiscipline, Unowned
  PROVE  pc["sup"] \notin {"adding", "await-worker"}
BY DEF Unowned, LeaseDiscipline, HandoffOrder, OuterAlone, HelperIn,
   SupEarly, SupIdle, Finished

(* How the supervisor leaves the liveness checkpoint, and how a cleanup    *)
(* comes to its records.                                                   *)
LEMMA CheckpointMoves ==
  ASSUME TypeOK, LeaseDiscipline, [Next]_vars, pc["sup"] = "checkpoint",
         pc'["sup"] # "checkpoint"
  PROVE  SupCheckpoint \/ pc'["sup"] \in Finished
<1> USE LabelFacts DEF TypeOK
<1>1. pc["sup"] \notin Kinds
  BY DEF Kinds, HandoffKinds, CheckoutKinds, LifecycleKinds, SpawnKinds,
     ClosedKinds, VerdictKinds, FailureKinds, CleanupKinds, SettleKinds,
     RecoverKinds
<1>2. ASSUME NEW q \in Procs, CommitStep(q)
      PROVE  FALSE
  BY <1>1, <1>2
  DEF CommitStep, Request, HelperCheck, HelperCommit, HelperFail, OrphanExit,
      Reply, Fail, HelperLive
<1>3. CASE OuterStart \/ OuterStep
  BY <1>3 DEF OuterStart, OuterStep, SpawnSup, OuterCustodyAccepted,
     OuterAccepted, OuterOwnershipComplete, OuterAck, OuterTerminal,
     OuterGiveUp, OuterTerminateSup, OuterReap, OuterSelect, OuterGoto,
     Finished, LeaseDiscipline, OuterAlone, OuterSole, SupIdle
<1>4. CASE SupStep
  BY <1>4 DEF SupStep, SupTakeCustody, SupOffer, SupStart, SupAcknowledged,
     SupGiveUp, SupReleaseWorker, SupWorkerMilestone, SupReapWorker,
     SupLoseWorker, SupLaunch, SupLaunchFails, SupSettleProcess, SupPublish,
     SupSendTerminal, SupGoto
<1>5. ASSUME NEW q \in Procs, CleanupStep(q) \/ Crash(q)
      PROVE  pc'["sup"] \in Finished
  BY <1>5 DEF CleanupStep, CleanupStart, CleanupDelete, CleanupGivesUp,
     CleanupFailures, Crash, Finished
<1>6. CASE \/ WorkerNext \/ LeaderExits \/ OperatorRecover \/ OperatorFinal
           \/ Reboot
  BY <1>6 DEF WorkerNext, WorkerCommit, WorkerAdd, WorkerStep, WorkerFails,
     WorkerDies, WorkerOnly, LeaderExits, OperatorRecover, OperatorFinal,
     Reboot, Finished
<1>7. CASE UNCHANGED vars
  BY <1>7 DEF vars
<1> QED
  BY <1>2, <1>3, <1>4, <1>5, <1>6, <1>7 DEF Next

LEMMA GoneMoves ==
  ASSUME TypeOK, [Next]_vars, NEW p \in Procs, pc'[p] \in GoneKinds,
         pc[p] \notin GoneKinds
  PROVE  tree' = FALSE
<1> USE LabelFacts DEF TypeOK, GoneKinds
<1>1. ASSUME NEW q \in Procs, CommitStep(q)
      PROVE  FALSE
  <2>1. CASE Reply(q)
    <3>1. PICK l \in After(q, pc[q]) : pc' = [pc EXCEPT ![q] = l]
      BY <2>1 DEF Reply
    <3>2. /\ q = p /\ l \in GoneKinds
          /\ pc[q] \in Kinds \ (GoneKinds \cup {"control", "registered"})
      BY <2>1, <3>1
      DEF Reply, HelperLive, OuterLabels, SupLabels, OperatorLabels, Finished
    <3>3. After(q, pc[q]) \cap GoneKinds = {}
      BY <3>2
      DEF After, AfterCheckout, AfterClosed, AfterCleanup, SupFailures,
          Kinds, HandoffKinds, CheckoutKinds, LifecycleKinds, SpawnKinds,
          ClosedKinds, VerdictKinds, FailureKinds, CleanupKinds,
          SettleKinds, RecoverKinds
    <3> QED BY <3>1, <3>2, <3>3
  <2>2. CASE Fail(q)
    <3>1. PICK l \in OnFail(q, pc[q]) : pc' = [pc EXCEPT ![q] = l]
      BY <2>2 DEF Fail
    <3>2. q = p /\ l \in GoneKinds
      <4>1. pc' = [pc EXCEPT ![q] = l] /\ pc \in [Procs -> Labels]
        BY <3>1
      <4> QED BY <4>1
    <3>3. OnFail(q, pc[q]) \cap GoneKinds = {}
      BY DEF OnFail, SupFailures, CleanupFailures
    <3> QED BY <3>1, <3>2, <3>3
  <2> QED
    BY <1>1, <2>1, <2>2
    DEF CommitStep, Request, HelperCheck, HelperCommit, HelperFail, OrphanExit
<1>2. CASE OuterStart \/ OuterStep
  BY <1>2 DEF OuterStart, OuterStep, SpawnSup, OuterCustodyAccepted,
     OuterAccepted, OuterOwnershipComplete, OuterAck, OuterTerminal,
     OuterGiveUp, OuterTerminateSup, OuterReap, OuterSelect, OuterGoto
<1>3. CASE SupStep
  <2>1. CASE SupGiveUp \/ SupReapWorker
    BY <2>1 DEF SupGiveUp, SupReapWorker, SupGoto, SupFailures,
       CleanupFailures
  <2>2. CASE ~SupGiveUp /\ ~SupReapWorker
    BY <1>3, <2>2 DEF SupStep, SupTakeCustody, SupOffer, SupStart,
       SupAcknowledged, SupReleaseWorker, SupWorkerMilestone, SupLoseWorker,
       SupLaunch, SupLaunchFails, SupCheckpoint, SupSettleProcess,
       SupPublish, SupSendTerminal, SupGoto
  <2> QED BY <2>1, <2>2
<1>4. ASSUME NEW q \in Procs, CleanupStep(q) \/ Crash(q)
      PROVE  tree' = FALSE
  BY <1>4 DEF CleanupStep, CleanupStart, CleanupDelete, CleanupGivesUp,
     CleanupFailures, CleanupOnly, Crash
<1>5. CASE OperatorRecover
  BY <1>5 DEF OperatorRecover
<1>6. CASE WorkerNext \/ LeaderExits \/ OperatorFinal \/ Reboot
  BY <1>6 DEF WorkerNext, WorkerCommit, WorkerAdd, WorkerStep, WorkerFails,
     WorkerDies, WorkerOnly, LeaderExits, OperatorFinal, Reboot
<1>7. CASE UNCHANGED vars
  BY <1>7 DEF vars
<1> QED
  BY <1>1, <1>2, <1>3, <1>4, <1>5, <1>6, <1>7 DEF Next

LEMMA GoneHasNoWorker ==
  ASSUME LeaseDiscipline, Writers, NEW p \in Procs, Gone(p)
  PROVE  ~WorkerLive
<1> USE DEF Gone, GoneKinds, HelperIn
<1>1. CASE p = "outer"
  BY <1>1 DEF LeaseDiscipline, OuterAlone, OuterSole
<1>2. CASE p = "operator"
  BY <1>2 DEF LeaseDiscipline, OperatorAlone, OperatorHolds
<1>3. CASE p = "sup"
  BY <1>3
  DEF LeaseDiscipline, WorkerLockstep, Writers, WorkerAndHelper, Finished
<1> QED BY <1>1, <1>2, <1>3 DEF Procs

LEMMA TreeSteps ==
  ASSUME TypeOK, [Next]_vars, tree = FALSE, ~WorkerLive
  PROVE  tree' = FALSE
BY WorkerSteps DEF WorkerAdd, WorkerLive, CleanupDelete, TypeOK

LEMMA NextNothingUnowned ==
  ASSUME TypeOK, LeaseDiscipline, NothingUnowned, [Next]_vars
  PROVE  NothingUnowned'
<1> SUFFICES ASSUME Unowned'
             PROVE  /\ ~WorkerLive' /\ tree' = FALSE /\ leader'.st = "none"
                    /\ pc'["sup"] \notin ActiveLabels
  BY DEF NothingUnowned
<1>1. /\ ~WorkerLive /\ tree = FALSE /\ leader.st = "none"
      /\ pc["sup"] \notin ActiveLabels \cup {"adding", "await-worker"}
  BY UnownedOrigin, UnownedHasNoWorker DEF NothingUnowned
<1>2. ~WorkerLive' /\ tree' = FALSE
  BY <1>1, WorkerSteps, TreeSteps DEF SupReleaseWorker
<1>3. leader'.st = "none"
  BY <1>1, LeaderSteps DEF SupLaunch, ActiveLabels, ReviewLabels
<1>4. pc'["sup"] \notin ActiveLabels
  BY <1>1, SupMoves, ActiveNext
  DEF SupForward, SupLeaves, Finished, FailureKinds,
      ActiveLabels, CheckoutLabels, ReviewLabels, VerdictLabels
<1> QED BY <1>2, <1>3, <1>4

LEMMA NextRunningLeader ==
  ASSUME TypeOK, LeaseDiscipline, NothingUnowned, RunningLeader, [Next]_vars
  PROVE  RunningLeader'
<1> USE LabelFacts
<1> SUFFICES ASSUME leader'.st = "running"
             PROVE  /\ pc'["sup"] \in {"checkpoint", "launched", "running"}
                                        \cup Finished
                    /\ HelperLive("sup")' => helper'["sup"].kind = "launched"
  BY DEF RunningLeader
<1>1. CASE SupLaunch
  <2>1. ~HelperLive("sup")
    BY <1>1, WaitingHasNoHelper DEF SupLaunch, Waits, LeaseDiscipline
  <2> QED BY <1>1, <2>1 DEF SupLaunch, SupGoto, SupOnly, HelperLive, TypeOK
<1>2. CASE leader' = leader
  <2>1. /\ pc["sup"] \in {"checkpoint", "launched", "running"} \cup Finished
        /\ HelperLive("sup") => helper["sup"].kind = "launched"
    BY <1>2 DEF RunningLeader
  <2>2. pc["outer"] # "spawn"
    BY <1>2 DEF NothingUnowned, Unowned, OuterLabels, PostOwned, Finished
  <2>3. pc'["sup"] \in {"checkpoint", "launched", "running"} \cup Finished
    <3>1. CASE pc["sup"] = "checkpoint"
      BY <1>2, <3>1, CheckpointMoves
      DEF SupCheckpoint, SupGoto, TypeOK
    <3>2. CASE pc["sup"] = "launched"
      <4>1. After("sup", "launched") = {"running"}
              /\ OnFail("sup", "launched") = {"exit2"}
        BY DEF After, OnFail, HandoffKinds, CheckoutKinds, SpawnKinds,
           ClosedKinds, VerdictKinds, FailureKinds, CleanupCommits
      <4> QED
        BY <2>2, <3>2, <4>1, SupMoves DEF SupForward, SupLeaves, Finished
    <3>3. CASE pc["sup"] = "running"
      <4>1. ~SupSettleProcess
        BY <1>2 DEF SupSettleProcess, TypeOK
      <4>2. "running" \notin Kinds
        BY DEF Kinds, HandoffKinds, CheckoutKinds, LifecycleKinds, SpawnKinds,
           ClosedKinds, VerdictKinds, FailureKinds, CleanupKinds,
           SettleKinds, RecoverKinds
      <4> QED
        BY <2>2, <3>3, <4>1, <4>2, SupMoves
        DEF SupForward, SupLeaves, Finished, ClosedKinds
    <3>4. CASE pc["sup"] \in Finished
      <4>1. pc["sup"] \notin Kinds
        BY <3>4
        DEF Finished, Kinds, HandoffKinds, CheckoutKinds, LifecycleKinds,
            SpawnKinds, ClosedKinds, VerdictKinds, FailureKinds,
            CleanupKinds, SettleKinds, RecoverKinds
      <4> QED
        BY <2>2, <3>4, <4>1, SupMoves DEF SupForward, SupLeaves, Finished,
           FailureKinds
    <3> QED BY <2>1, <3>1, <3>2, <3>3, <3>4
  <2>4. HelperLive("sup")' => helper'["sup"].kind = "launched"
    BY <2>1, HelperOrigin
    DEF Finished, Kinds, HandoffKinds, CheckoutKinds, LifecycleKinds,
        SpawnKinds, ClosedKinds, VerdictKinds, FailureKinds, CleanupKinds,
        SettleKinds, RecoverKinds
  <2> QED BY <2>3, <2>4
<1> QED BY <1>1, <1>2, LeaderSteps

LEMMA NextGone ==
  ASSUME TypeOK, LeaseDiscipline, Writers, GoneIsGone, [Next]_vars
  PROVE  GoneIsGone'
<1> SUFFICES ASSUME NEW p \in Procs, Gone(p)' PROVE tree' = FALSE
  BY DEF GoneIsGone
<1>1. CASE Gone(p)
  BY <1>1, GoneHasNoWorker, TreeSteps DEF GoneIsGone
<1>2. CASE ~Gone(p)
  <2>1. ~HelperIn(p, GoneKinds)'
    BY <1>2, HelperOrigin DEF Gone, HelperIn
  <2> QED BY <1>2, <2>1, GoneMoves DEF Gone
<1> QED BY <1>1, <1>2

LEMMA NextExactCheckout ==
  ASSUME TypeOK, LeaseDiscipline, NoLostUpdate, OpenInv, GoneIsGone,
         ExactCheckoutIsGone, [Next]_vars
  PROVE  ExactCheckoutIsGone'
<1> SUFFICES ASSUME rec'.csettle = "exact" PROVE tree' = FALSE
  BY DEF ExactCheckoutIsGone
<1>1. CASE rec.csettle = "exact"
  <2>1. tree = FALSE /\ ~WorkerLive
    BY <1>1
    DEF ExactCheckoutIsGone, OpenInv, UnsettledWhileOpen, Unsettled, Open
  <2> QED BY <2>1, TreeSteps
<1>2. CASE rec.csettle # "exact"
  <2>1. ~WorkerCommit
    BY <1>2, SettlingCommits
    DEF WorkerCommit, WorkerCommits, TypeOK, Kinds, CheckoutKinds
  <2>2. PICK p \in Procs : Commits(p)
    BY <1>2, <2>1, RecordSteps DEF OpenInv
  <2>3. helper[p].kind \in {"absent", "removed"}
    BY <1>2, <2>2, SettlingCommits DEF Commits, TypeOK
  <2>4. tree = FALSE
    BY <2>2, <2>3 DEF GoneIsGone, Gone, HelperIn, GoneKinds, Commits
  <2> QED BY <2>2, <2>4 DEF Commits, HelperCommit
<1> QED BY <1>1, <1>2

LEMMA NextExactProcess ==
  ASSUME TypeOK, LeaseDiscipline, NoLostUpdate, OpenInv, NothingUnowned,
         RunningLeader, ExactProcessIsGone, [Next]_vars
  PROVE  ExactProcessIsGone'
<1> SUFFICES ASSUME rec'.psettle = "exact" PROVE leader'.st # "running"
  BY DEF ExactProcessIsGone
<1>1. CASE rec.psettle = "exact"
  <2>1. leader.st # "running" /\ pc["sup"] # "launch"
    BY <1>1
    DEF ExactProcessIsGone, OpenInv, UnsettledWhileOpen, Unsettled, Open,
        OpenLabels
  <2> QED BY <2>1, LeaderSteps DEF SupLaunch
<1>2. CASE rec.psettle # "exact"
  <2>1. ~WorkerCommit
    BY <1>2, SettlingCommits
    DEF WorkerCommit, WorkerCommits, TypeOK, Kinds, CheckoutKinds
  <2>2. PICK p \in Procs : Commits(p)
    BY <1>2, <2>1, RecordSteps DEF OpenInv
  <2>3. helper[p].kind = "settle" /\ HelperLive(p)
    BY <1>2, <2>2, SettlingCommits DEF Commits, TypeOK
  <2>4. leader.st # "running"
    <3>1. CASE p = "outer"
      BY <2>2, <2>3, <3>1 DEF NothingUnowned, Unowned, HelperIn, Commits
    <3>2. CASE p = "sup"
      BY <2>3, <3>2 DEF RunningLeader
    <3>3. CASE p = "operator"
      BY <2>3, <3>3 DEF OpenInv, Writers, RecoversAfterBoot, AfterBoot
    <3> QED BY <3>1, <3>2, <3>3, LabelFacts
  <2> QED BY <2>2, <2>4 DEF Commits, HelperCommit
<1> QED BY <1>1, <1>2

LEMMA SettledHolds == Spec => []SettledInv
<1>1. Init => SettledInv
  BY DEF Init, NoHelper, SettledInv, NothingUnowned, RunningLeader,
     GoneIsGone, ExactCheckoutIsGone, ExactProcessIsGone, WorkerLive,
     ActiveLabels, CheckoutLabels, ReviewLabels, VerdictLabels, Procs,
     ReservedRecord
<1>2. TypeOK /\ LeaseDiscipline /\ NoLostUpdate /\ OpenInv /\ SettledInv
        /\ [Next]_vars
      => SettledInv'
  BY NextNothingUnowned, NextRunningLeader, NextGone, NextExactCheckout,
     NextExactProcess DEF SettledInv, OpenInv
<1> QED
  BY <1>1, <1>2, OpenHolds, TypeCorrect, LeaseDisciplineHolds,
     NoUpdateIsLost, PTL DEF Spec

(* A process settlement is exact only when neither the reviewer nor the    *)
(* checkout worker runs any more.                                          *)
THEOREM ExactSettlementHolds == Spec => []ExactSettlementIsQuiescent
<1>1. OpenInv /\ SettledInv => ExactSettlementIsQuiescent
  BY DEF ExactSettlementIsQuiescent, SettledInv, ExactProcessIsGone,
     OpenInv, UnsettledWhileOpen, Unsettled, Open
<1> QED BY <1>1, OpenHolds, SettledHolds, PTL

(* A checkout settlement is exact only when the checkout is gone and       *)
(* nobody can create it again.                                             *)
THEOREM CheckoutExactHolds == Spec => []CheckoutExactMeansGone
<1>1. OpenInv /\ SettledInv => CheckoutExactMeansGone
  BY DEF CheckoutExactMeansGone, SettledInv, ExactCheckoutIsGone,
     OpenInv, UnsettledWhileOpen, Unsettled, Open
<1> QED BY <1>1, OpenHolds, SettledHolds, PTL

-----------------------------------------------------------------------------
(* A final authorization is the last thing that happens to an attempt. *)

(* It is written when nobody else is left, and stays: the attempt is       *)
(* settled, so that no recovery begins.                                    *)
FinalIsLast ==
  rec.last = "final-auth" =>
    /\ TerminalLifecycle(rec) /\ rec.charge = "exact"
    /\ pc["sup"] \in SupIdle /\ ~HelperLive("sup") /\ ~WorkerLive
    /\ ~OperatorHolds /\ ~HelperLive("operator")
    /\ pc["outer"] \in {"final-auth"} \cup Finished
    /\ helper["outer"].st \in {"off", "landed"}
    /\ pc["outer"] = "final-auth" => helper["outer"].st = "landed"

(* Whatever was handed to the user is final. *)
GivenIsFinal ==
  delivered \/ pc["outer"] = "exit0" \/ Landed("outer", {"final-auth"})
    => rec.last = "final-auth"

LEMMA DeliveredSteps ==
  ASSUME TypeOK, [Next]_vars
  PROVE  delivered' = delivered \/ OperatorFinal
BY DEF Next, CommitStep, Request, HelperCheck, HelperCommit, HelperFail,
   OrphanExit, Reply, Fail, CleanupStep, CleanupStart, CleanupDelete,
   CleanupGivesUp, CleanupOnly, Crash, OuterStart, OuterStep, SpawnSup,
   OuterCustodyAccepted, OuterAccepted, OuterOwnershipComplete, OuterAck,
   OuterTerminal, OuterGiveUp, OuterTerminateSup, OuterReap, OuterSelect,
   OuterOnly, SupStep, SupTakeCustody, SupOffer, SupStart, SupAcknowledged,
   SupGiveUp, SupReleaseWorker, SupWorkerMilestone, SupReapWorker,
   SupLoseWorker, SupLaunch, SupLaunchFails, SupCheckpoint,
   SupSettleProcess, SupPublish, SupSendTerminal, SupOnly, WorkerNext,
   WorkerCommit, WorkerAdd, WorkerStep, WorkerFails, WorkerDies, WorkerOnly,
   LeaderExits, OperatorRecover, Reboot, vars

(* A helper whose write landed is answered, left behind or killed. *)
LEMMA LandedSteps ==
  ASSUME TypeOK, [Next]_vars, NEW p \in Procs, helper[p].st = "landed",
         helper'[p] # helper[p]
  PROVE  \/ HelperFail(p)
         \/ /\ helper'[p] = NoHelper
            /\ \/ OrphanExit(p) \/ Reply(p) \/ Fail(p) \/ Reboot
               \/ p = "sup" /\ OuterTerminateSup
<1> USE DEF TypeOK
<1>1. ASSUME NEW q \in Procs, CommitStep(q), q # p
      PROVE  helper'[p] = helper[p]
  BY <1>1
  DEF CommitStep, Request, HelperCheck, HelperCommit, HelperFail, OrphanExit,
      Reply, Fail
<1>2. CASE CommitStep(p)
  BY <1>2
  DEF CommitStep, Request, HelperCheck, HelperCommit, HelperLive, OrphanExit,
      Reply, Fail
<1>3. CASE OuterTerminateSup \/ Reboot
  BY <1>3 DEF OuterTerminateSup, Reboot
<1>4. CASE OuterStart \/ (OuterStep /\ ~OuterTerminateSup)
  BY <1>4 DEF OuterStart, OuterStep, SpawnSup, OuterCustodyAccepted,
     OuterAccepted, OuterOwnershipComplete, OuterAck, OuterTerminal,
     OuterGiveUp, OuterReap, OuterSelect, OuterOnly
<1>5. CASE SupStep
  BY <1>5 DEF SupStep, SupTakeCustody, SupOffer, SupStart, SupAcknowledged,
     SupGiveUp, SupReleaseWorker, SupWorkerMilestone, SupReapWorker,
     SupLoseWorker, SupLaunch, SupLaunchFails, SupCheckpoint,
     SupSettleProcess, SupPublish, SupSendTerminal, SupOnly, OuterOnly
<1>6. CASE \/ WorkerNext \/ LeaderExits \/ OperatorRecover \/ OperatorFinal
           \/ \E q \in Procs : CleanupStep(q) \/ Crash(q)
  BY <1>6 DEF WorkerNext, WorkerCommit, WorkerAdd, WorkerStep, WorkerFails,
     WorkerDies, WorkerOnly, LeaderExits, OperatorRecover, OperatorFinal,
     CleanupStep, CleanupStart, CleanupDelete, CleanupGivesUp, CleanupOnly,
     Crash
<1>7. CASE UNCHANGED vars
  BY <1>7 DEF vars
<1> QED
  BY <1>1, <1>2, <1>3, <1>4, <1>5, <1>6, <1>7 DEF Next, OuterStep

LEMMA IdleIsNoCommit ==
  ({"idle", "spawn", "off"} \cup Finished) \cap Kinds = {}
BY DEF Finished, Kinds, HandoffKinds, CheckoutKinds, LifecycleKinds,
   SpawnKinds, ClosedKinds, VerdictKinds, FailureKinds, CleanupKinds,
   SettleKinds, RecoverKinds

LEMMA FinalAuthNext ==
  /\ After("outer", "final-auth") = {"exit0"}
  /\ OnFail("outer", "final-auth") = {"exit2"}
  /\ \A k \in Kinds \cap OuterLabels :
       /\ "exit0" \in After("outer", k) => k = "final-auth"
       /\ "exit0" \notin OnFail("outer", k)
BY DEF After, AfterCleanup, OnFail, CleanupFailures, CleanupCommits,
   OuterLabels, Finished, Kinds, HandoffKinds, CheckoutKinds,
   LifecycleKinds, SpawnKinds, ClosedKinds, VerdictKinds, FailureKinds,
   CleanupKinds, SettleKinds, RecoverKinds

(* Nobody writes the record after a final authorization. *)
LEMMA FinalRecordStays ==
  ASSUME TypeOK, NoLostUpdate, CheckedIsAllowed, FinalIsLast, [Next]_vars,
         rec.last = "final-auth"
  PROVE  rec' = rec
<1>1. ~WorkerCommit
  BY DEF FinalIsLast, WorkerCommit, WorkerCommits, WorkerLive
<1>2. ASSUME NEW p \in Procs PROVE ~Commits(p)
  BY LabelFacts DEF FinalIsLast, Commits, HelperCommit, HelperLive
<1> QED BY <1>1, <1>2, RecordSteps

(* The final authorization is the outer process's, and it is alone. *)
LEMMA FinalCommit ==
  ASSUME TypeOK, LeaseDiscipline, NoLostUpdate, OpenInv, [Next]_vars,
         rec' # rec, rec'.last = "final-auth"
  PROVE  FinalIsLast'
<1> USE LabelFacts DEF OpenInv, LeaseDiscipline
<1>1. ~WorkerCommit
  BY UpdateLast
  DEF WorkerCommit, WorkerCommits, Kinds, CheckoutKinds, TypeOK
<1>2. PICK p \in Procs : Commits(p)
  BY <1>1, RecordSteps
<1>3. helper[p].kind = "final-auth"
  BY <1>2, UpdateLast DEF Commits, TypeOK
<1>4. p = "outer"
  BY <1>2, <1>3
  DEF HelperKinds, Commits, SupLabels, OperatorLabels, Finished
<1>5. pc["sup"] \in SupIdle /\ ~HelperLive("sup") /\ ~WorkerLive
  BY <1>2, <1>3, <1>4
  DEF Writers, OuterCommitsAlone, HelperIn, OuterAlone, Commits
<1>6. ~OperatorHolds /\ ~HelperLive("operator")
  BY <1>2, <1>4 DEF OperatorAlone, Commits
<1>7. pc["outer"] \in {"final-auth"} \cup Finished
  BY <1>2, <1>3, <1>4 DEF HelperServesOwner, Orphaned, Commits
<1>8. TerminalLifecycle(rec') /\ rec'.charge = "exact"
  BY <1>2, <1>3, SettleOutcome DEF Commits, Allowed, SettleKinds, TypeOK
<1>9. /\ UNCHANGED <<pc, worker>>
      /\ helper'["sup"] = helper["sup"]
      /\ helper'["operator"] = helper["operator"]
      /\ helper'["outer"].st = "landed"
  BY <1>2, <1>4 DEF Commits, HelperCommit, TypeOK
<1> QED
  BY <1>5, <1>6, <1>7, <1>8, <1>9
  DEF FinalIsLast, HelperLive, OperatorHolds, WorkerLive

LEMMA NextFinal ==
  ASSUME TypeOK, LeaseDiscipline, NoLostUpdate, OpenInv, FinalIsLast,
         [Next]_vars
  PROVE  FinalIsLast'
<1> USE LabelFacts
<1>1. CASE rec' # rec
  BY <1>1, FinalCommit DEF FinalIsLast
<1>2. CASE rec' = rec
  <2> SUFFICES ASSUME rec.last = "final-auth" PROVE FinalIsLast'
    BY <1>2 DEF FinalIsLast
  <2>1. /\ TerminalLifecycle(rec) /\ rec.charge = "exact"
        /\ pc["sup"] \in SupIdle /\ ~HelperLive("sup") /\ ~WorkerLive
        /\ pc["operator"] = "idle" /\ ~HelperLive("operator")
        /\ pc["outer"] \in {"final-auth"} \cup Finished
        /\ helper["outer"].st \in {"off", "landed"}
        /\ pc["outer"] = "final-auth" => helper["outer"].st = "landed"
    BY DEF FinalIsLast, OperatorHolds
  <2>2. pc'["sup"] \in SupIdle /\ ~HelperLive("sup")' /\ ~WorkerLive'
    <3>1. pc["outer"] # "spawn" /\ pc["sup"] \notin Kinds \cup {"await-worker"}
      BY <2>1, IdleIsNoCommit DEF SupIdle, Finished
    <3> QED
      BY <2>1, <3>1, SupIdleStays, HelperOrigin, WorkerSteps
      DEF Landed, HelperLive, SupReleaseWorker
  <2>3. pc'["operator"] = "idle" /\ ~HelperLive("operator")'
    <3>1. pc["operator"] \notin Kinds
      BY <2>1, IdleIsNoCommit
    <3>2. ~OperatorRecover
      BY <2>1
      DEF OperatorRecover, Settled, FinalAuthorizationExact,
          TerminalLifecycle
    <3> QED
      BY <2>1, <3>1, <3>2, OperatorMoves, HelperOrigin DEF OperatorForward
  <2>4. pc'["outer"] \in {"final-auth"} \cup Finished
    <3>1. CASE pc["outer"] = "final-auth"
      BY <3>1, OuterMoves, FinalAuthNext DEF OuterForward, Finished
    <3>2. CASE pc["outer"] \in Finished
      BY <3>2, FinishedIsForGood
    <3> QED BY <2>1, <3>1, <3>2
  <2>5. /\ helper'["outer"].st \in {"off", "landed"}
        /\ pc'["outer"] = "final-auth" => helper'["outer"].st = "landed"
    <3>1. CASE helper["outer"].st = "off"
      <4>1. pc["outer"] \in Finished
        BY <2>1, <3>1
      <4>2. ~HelperLive("outer")'
        BY <3>1, <4>1, IdleIsNoCommit, HelperOrigin DEF HelperLive
      <4> QED
        BY <4>1, <4>2, FinishedIsForGood DEF HelperLive, Finished
    <3>2. CASE helper["outer"].st = "landed" /\ helper'["outer"] = helper["outer"]
      BY <3>2
    <3>3. CASE helper["outer"].st = "landed" /\ helper'["outer"] # helper["outer"]
      <4>1. ~HelperFail("outer")
        BY <3>3
        DEF HelperFail, OpenInv, HelperKinds, HelperLive, OuterLabels,
            Finished
      <4>2. helper'["outer"].st = "off"
        BY <3>3, <4>1, LandedSteps DEF NoHelper
      <4>3. pc'["outer"] # "final-auth"
        <5>1. CASE OrphanExit("outer")
          BY <5>1, FinishedIsForGood DEF OrphanExit, Orphaned, Finished
        <5>2. CASE Reply("outer")
          BY <2>1, <5>2, FinalAuthNext, IdleIsNoCommit
          DEF Reply, TypeOK, HelperLive
        <5>3. CASE Fail("outer")
          BY <2>1, <5>3, FinalAuthNext, IdleIsNoCommit DEF Fail, TypeOK
        <5>4. CASE Reboot
          BY <5>4 DEF Reboot, Finished
        <5> QED BY <3>3, <4>1, <5>1, <5>2, <5>3, <5>4, LandedSteps
      <4> QED BY <4>2, <4>3
    <3> QED BY <2>1, <3>1, <3>2, <3>3
  <2> QED
    BY <1>2, <2>1, <2>2, <2>3, <2>4, <2>5 DEF FinalIsLast, OperatorHolds
<1> QED BY <1>1, <1>2

LEMMA NextGiven ==
  ASSUME TypeOK, NoLostUpdate, CheckedIsAllowed, FinalIsLast, GivenIsFinal,
         [Next]_vars
  PROVE  GivenIsFinal'
<1> USE LabelFacts
<1> SUFFICES ASSUME \/ delivered' \/ pc'["outer"] = "exit0"
                    \/ Landed("outer", {"final-auth"})'
             PROVE  rec'.last = "final-auth"
  BY DEF GivenIsFinal
<1>1. CASE Commits("outer") /\ helper["outer"].kind = "final-auth"
  BY <1>1, UpdateLast DEF Commits, TypeOK
<1>2. CASE ~(Commits("outer") /\ helper["outer"].kind = "final-auth")
  <2>1. rec.last = "final-auth"
    <3>1. CASE delivered'
      BY <3>1, DeliveredSteps
      DEF OperatorFinal, FinalAuthorizationExact, GivenIsFinal
    <3>2. CASE pc'["outer"] = "exit0"
      BY <3>2, OuterMoves, FinalAuthNext DEF OuterForward, GivenIsFinal
    <3>3. CASE Landed("outer", {"final-auth"})'
      BY <1>2, <3>3, HelperSteps, HelperCommits
      DEF Landed, HelperLive, HelperCommit, TypeOK, GivenIsFinal
    <3> QED BY <3>1, <3>2, <3>3
  <2> QED BY <2>1, FinalRecordStays
<1> QED BY <1>1, <1>2

LEMMA FinalHolds == Spec => [](FinalIsLast /\ GivenIsFinal)
<1>1. Init => FinalIsLast /\ GivenIsFinal
  BY DEF Init, NoHelper, FinalIsLast, GivenIsFinal, Landed, ReservedRecord,
     Procs
<1>2. TypeOK /\ LeaseDiscipline /\ NoLostUpdate /\ OpenInv
        /\ FinalIsLast /\ GivenIsFinal /\ [Next]_vars
      => FinalIsLast' /\ GivenIsFinal'
  BY NextFinal, NextGiven DEF OpenInv
<1> QED
  BY <1>1, <1>2, OpenHolds, TypeCorrect, LeaseDisciplineHolds,
     NoUpdateIsLost, PTL DEF Spec

(* What was handed to the user stays the attempt's authorized outcome, and *)
(* the checkout is gone.                                                   *)
THEOREM DeliveredStaysFinal == Spec => []DeliveredIsFinal
<1>1. SettledInv /\ FinalIsLast /\ GivenIsFinal => DeliveredIsFinal
  BY DEF DeliveredIsFinal, SettledInv, ExactCheckoutIsGone, FinalIsLast,
     GivenIsFinal, FinalAuthorizationExact, TerminalLifecycle
<1> QED BY <1>1, SettledHolds, FinalHolds, PTL

-----------------------------------------------------------------------------
(* Who settles the process has cleaned up first. *)

SettlingLabels == {"terminal", "settle", "send-terminal", "charge"}
SettlingKinds  == {"terminal", "settle", "charge"}
CleanedKinds   == {"absent", "removed", "manual", "manual-recover"}
Settles(p) == \/ pc[p] \in SettlingLabels \/ HelperIn(p, SettlingKinds)
              \/ Landed(p, CleanedKinds)

SettledIsCleaned ==
  rec.psettle = "exact" \/ (\E p \in Procs : Settles(p)) => CleanedUp(rec)

LEMMA SettlingNext ==
  ASSUME NEW p \in Procs, NEW k \in Kinds \cap LabelsOf(p)
  PROVE  /\ \A l \in After(p, k) : l \in SettlingLabels =>
              \/ k \in CleanedKinds \cup SettlingLabels
              \/ k = "recovered" /\ rec.csettle = "exact"
         /\ \A l \in OnFail(p, k) : l \notin SettlingLabels
BY LabelFacts
DEF After, AfterCheckout, AfterClosed, AfterCleanup, OnFail, SupFailures,
    CleanupFailures, CleanupCommits, OuterLabels, SupLabels, OperatorLabels,
    Finished, Kinds, HandoffKinds, CheckoutKinds, LifecycleKinds,
    SpawnKinds, ClosedKinds, VerdictKinds, FailureKinds, CleanupKinds,
    SettleKinds, RecoverKinds, SettlingLabels, CleanedKinds

LEMMA SettlingMoves ==
  ASSUME TypeOK, [Next]_vars, NEW p \in Procs,
         pc'[p] \in SettlingLabels, pc[p] \notin SettlingLabels
  PROVE  /\ Reply(p) /\ Landed(p, {pc[p]})
         /\ \/ pc[p] \in CleanedKinds
            \/ pc[p] = "recovered" /\ rec.csettle = "exact"
<1> USE LabelFacts
<1>1. \/ /\ Reply(p) /\ Landed(p, {pc[p]})
         /\ pc[p] \in Kinds \cap LabelsOf(p)
         /\ pc'[p] \in After(p, pc[p])
      \/ /\ Fail(p) /\ pc[p] \in Kinds \cap LabelsOf(p)
         /\ pc'[p] \in OnFail(p, pc[p])
  <2> USE DEF SettlingLabels
  <2>1. CASE p = "outer"
    BY <2>1, OuterMoves DEF OuterForward
  <2>2. CASE p = "sup"
    BY <2>2, SupMoves
    DEF SupForward, SupLeaves, FailureKinds, Finished
  <2>3. CASE p = "operator"
    BY <2>3, OperatorMoves DEF OperatorForward
  <2> QED BY <2>1, <2>2, <2>3
<1> QED BY <1>1, SettlingNext

LEMMA SettlesOrigin ==
  ASSUME TypeOK, NoLostUpdate, CheckedIsAllowed, [Next]_vars,
         NEW p \in Procs, Settles(p)'
  PROVE  \/ Settles(p) \/ CleanedUp(rec')
<1>1. CASE pc'[p] \in SettlingLabels
  <2>1. CASE pc[p] \in SettlingLabels
    BY <2>1 DEF Settles
  <2>2. CASE pc[p] \notin SettlingLabels
    BY <1>1, <2>2, SettlingMoves
    DEF Settles, Landed, Reply, CleanedUp
  <2> QED BY <2>1, <2>2
<1>2. CASE HelperIn(p, SettlingKinds)'
  BY <1>2, HelperOrigin
  DEF HelperIn, Settles, SettlingLabels, SettlingKinds
<1>3. CASE Landed(p, CleanedKinds)'
  <2>1. CASE helper'[p] = helper[p]
    BY <1>3, <2>1 DEF Landed, Settles
  <2>2. CASE helper'[p] # helper[p]
    <3>1. Commits(p) /\ helper[p].kind \in CleanedKinds
      BY <1>3, <2>2, HelperSteps, HelperCommits
      DEF Landed, HelperLive, HelperCommit, TypeOK
    <3> QED
      BY <3>1, SettlingCommits
      DEF Commits, TypeOK, CleanedKinds, CleanupKinds
  <2> QED BY <2>1, <2>2
<1> QED BY <1>1, <1>2, <1>3 DEF Settles

(* While anybody settles, nobody commits a step of the checkout. *)
LEMMA SettlingExcludesCheckout ==
  ASSUME TypeOK, LeaseDiscipline, OpenInv, [Next]_vars,
         rec.psettle = "exact" \/ \E p \in Procs : Settles(p)
  PROVE  /\ ~WorkerCommit
         /\ \A p \in Procs : Commits(p) => helper[p].kind \notin CheckoutKinds
<1> USE LabelFacts DEF LeaseDiscipline
<1>1. CASE rec.psettle = "exact"
  <2>1. ~Open
    BY <1>1 DEF OpenInv, UnsettledWhileOpen, Unsettled
  <2> QED
    BY <2>1
    DEF Open, OpenKinds, HelperIn, Commits, OpenInv, HelperKinds,
        WorkerCommit, WorkerCommits, WorkerLive, CheckoutKinds, OuterLabels,
        OperatorLabels, Finished
<1>2. ASSUME NEW q \in Procs, Settles(q)
      PROVE  /\ ~WorkerLive
             /\ HelperLive("sup") => helper["sup"].kind \notin CheckoutKinds
                                       \/ helper["sup"].st # "checked"
  <2> USE DEF Settles, SettlingLabels, SettlingKinds, CleanedKinds,
              HelperIn, Landed, HelperLive
  <2>1. CASE q = "outer"
    BY <1>2, <2>1 DEF OuterAlone, OuterSole, TypeOK, OuterLabels, Finished
  <2>2. CASE q = "operator"
    BY <1>2, <2>2 DEF OperatorAlone, OperatorHolds
  <2>3. CASE q = "sup"
    <3>1. ~WorkerLive
      BY <1>2, <2>3
      DEF WorkerLockstep, OpenInv, Writers, WorkerAndHelper, Finished
    <3>2. pc["sup"] \in SettlingLabels /\ HelperLive("sup") =>
            helper["sup"].kind \notin CheckoutKinds
      BY SupHelper DEF CheckoutKinds, Finished
    <3>3. (SettlingKinds \cup CleanedKinds) \cap CheckoutKinds = {}
      BY DEF CheckoutKinds
    <3> QED BY <1>2, <2>3, <3>1, <3>2, <3>3
  <2> QED BY <2>1, <2>2, <2>3
<1>3. ASSUME NEW q \in Procs, Settles(q)
      PROVE  /\ ~WorkerCommit
             /\ \A p \in Procs :
                  Commits(p) => helper[p].kind \notin CheckoutKinds
  <2>1. \A p \in Procs : Commits(p) => HelperLive(p) /\ helper[p].st = "checked"
    BY DEF Commits, HelperCommit
  <2>2. \A p \in {"outer", "operator"} :
          HelperLive(p) => helper[p].kind \notin CheckoutKinds
    BY DEF OpenInv, HelperKinds, CheckoutKinds, OuterLabels, OperatorLabels,
       Finished
  <2> QED
    BY <1>2, <1>3, <2>1, <2>2 DEF WorkerCommit, WorkerCommits, WorkerLive
<1> QED BY <1>1, <1>3

LEMMA NextSettledIsCleaned ==
  ASSUME TypeOK, LeaseDiscipline, NoLostUpdate, OpenInv, SettledIsCleaned,
         [Next]_vars
  PROVE  SettledIsCleaned'
<1>1. ASSUME rec.psettle = "exact" \/ \E p \in Procs : Settles(p)
      PROVE  CleanedUp(rec')
  <2>1. CleanedUp(rec)
    BY <1>1 DEF SettledIsCleaned
  <2>2. CASE \E p \in Procs : Commits(p)
    BY <1>1, <2>1, <2>2, SettlingExcludesCheckout, SettlingCommits
    DEF Commits, TypeOK
  <2> QED
    BY <1>1, <2>1, <2>2, SettlingExcludesCheckout, RecordSteps DEF OpenInv
<1>2. ASSUME NEW p \in Procs, Settles(p)'
      PROVE  CleanedUp(rec')
  BY <1>1, <1>2, SettlesOrigin DEF OpenInv
<1>3. ASSUME rec'.psettle = "exact", rec.psettle # "exact"
      PROVE  CleanedUp(rec')
  <2>1. ~WorkerCommit
    BY <1>3, SettlingCommits
    DEF WorkerCommit, WorkerCommits, TypeOK, Kinds, CheckoutKinds
  <2>2. PICK p \in Procs : Commits(p)
    BY <1>3, <2>1, RecordSteps DEF OpenInv
  <2>3. Settles(p)
    BY <1>3, <2>2, SettlingCommits
    DEF Commits, TypeOK, Settles, HelperIn, SettlingKinds
  <2> QED BY <1>1, <2>3
<1> QED BY <1>1, <1>2, <1>3 DEF SettledIsCleaned

LEMMA SettledIsCleanedHolds == Spec => []SettledIsCleaned
<1>1. Init => SettledIsCleaned
  BY DEF Init, NoHelper, SettledIsCleaned, Settles, SettlingLabels,
     HelperIn, HelperLive, Landed, ReservedRecord, Procs
<1> QED
  BY <1>1, NextSettledIsCleaned, OpenHolds, TypeCorrect,
     LeaseDisciplineHolds, NoUpdateIsLost, PTL DEF Spec

(* Between commands admission sees one of the views the ledger relies on:  *)
(* a settled attempt whose checkout is not known to be gone counts as a    *)
(* retained worktree.                                                      *)
THEOREM ViewsAreKnown == Spec => []ViewIsKnown
<1>1. TypeOK /\ SettledIsCleaned => ViewIsKnown
  <2> SUFFICES ASSUME TypeOK, SettledIsCleaned
               PROVE  LedgerView(rec) \in LedgerViews
    BY DEF ViewIsKnown
  <2>1. rec.csettle \in Settlements
    BY DEF TypeOK, Record
  <2>2. rec.csettle = "exact" => ~RetainedWorktree(rec)
    BY DEF RetainedWorktree
  <2>3. rec.psettle = "exact" /\ rec.csettle = "outstanding" =>
          RetainedWorktree(rec)
    BY DEF SettledIsCleaned, CleanedUp, RetainedWorktree
  <2>4. FinalAuthorizationExact(rec) =>
          /\ rec.review = "verdict" /\ rec.psettle = "exact"
          /\ rec.csettle = "exact"
    BY DEF FinalAuthorizationExact, TerminalLifecycle
  <2> DEFINE o == LedgerView(rec)
  <2>5. o \in [settled : BOOLEAN, csettle : Settlements,
               wt : {"hidden", "visible", "manual"},
               verdict : BOOLEAN, delivered : BOOLEAN]
    BY <2>1 DEF LedgerView, FinalAuthorizationExact
  <2>6. /\ o.csettle = rec.csettle /\ o.settled = (rec.psettle = "exact")
        /\ o.wt = "hidden" <=> ~RetainedWorktree(rec)
        /\ o.verdict = (rec.review = "verdict")
        /\ o.delivered = FinalAuthorizationExact(rec)
    BY DEF LedgerView
  <2> HIDE DEF o
  <2>7. /\ o.csettle = "exact" => o.wt = "hidden"
        /\ o.settled /\ o.csettle = "outstanding" => o.wt # "hidden"
        /\ o.delivered => o.verdict /\ o.settled /\ o.csettle = "exact"
    BY <2>2, <2>3, <2>4, <2>6
  <2>8. o \in LedgerViews
    BY <2>5, <2>7 DEF LedgerViews
  <2> QED BY <2>8 DEF o
<1> QED BY <1>1, SettledIsCleanedHolds, TypeCorrect, PTL

-----------------------------------------------------------------------------
(* What precedes the launch of the reviewer. *)

NotYet == {"off", "ready", "await-offer", "accepted", "await-start",
           "complete", "await-ack", "adding"} \cup CheckoutLabels
LaunchLabels == SpawnKinds \cup {"launch"}

(* No process of a review stage runs before the checkout is complete. *)
NoneBeforeLaunch == pc["sup"] \in NotYet \/ WorkerLive => leader.st = "none"

(* Who is about to launch a stage has not launched the reviewer. *)
ReviewerOnce ==
  /\ leader.st = "none" => leader.stage = "none"
  /\ pc["sup"] \in NotYet \cup LaunchLabels \/ HelperIn("sup", SpawnKinds)
       => leader.stage # "reviewer"

(* From `git worktree add` on the checkout is there. *)
TreeStages == {"registered", "registered-done", "fill-index", "index-done",
               "check", "phase0-done", "materialize", "complete"}
TreeLabels == {"validated"} \cup ReviewLabels \cup VerdictLabels
TreeIsThere == worker \in TreeStages \/ pc["sup"] \in TreeLabels => tree

LaunchInv == NoneBeforeLaunch /\ ReviewerOnce /\ TreeIsThere

LEMMA LaunchNext ==
  ASSUME NEW k \in Kinds \cap SupLabels
  PROVE  /\ \A l \in After("sup", k) :
              /\ l \in NotYet => k \in NotYet
              /\ l \in SpawnKinds => \/ k = "validated"
                                     \/ k \in ClosedKinds
                                          /\ rec.stage = "auth-refresh"
              /\ l = "launch" => k \in SpawnKinds
              /\ l \in TreeLabels => k \in TreeLabels
         /\ \A l \in OnFail("sup", k) :
              l \notin NotYet \cup LaunchLabels \cup TreeLabels
BY DEF After, AfterCheckout, AfterClosed, AfterCleanup, OnFail, SupFailures,
       CleanupFailures, CleanupCommits, SupLabels, Finished, Kinds,
       HandoffKinds, CheckoutKinds, LifecycleKinds, SpawnKinds, ClosedKinds,
       VerdictKinds, FailureKinds, CleanupKinds, SettleKinds, RecoverKinds,
       NotYet, LaunchLabels, TreeLabels, CheckoutLabels, ReviewLabels,
       VerdictLabels

LEMMA NextNoneBeforeLaunch ==
  ASSUME TypeOK, LeaseDiscipline, NothingUnowned, NoneBeforeLaunch,
         [Next]_vars
  PROVE  NoneBeforeLaunch'
<1> SUFFICES ASSUME pc'["sup"] \in NotYet \/ WorkerLive'
             PROVE  leader'.st = "none"
  BY DEF NoneBeforeLaunch
<1>1. leader.st = "none"
  <2>1. CASE pc'["sup"] \in NotYet /\ pc'["sup"] # pc["sup"]
    <3>1. pc["sup"] \in NotYet \/ pc["outer"] = "spawn"
      BY <2>1, SupMoves, LaunchNext
      DEF NotYet, CheckoutLabels, SupForward, SupLeaves, FailureKinds,
          Finished
    <3>2. pc["outer"] = "spawn" => Unowned
      BY DEF Unowned, OuterLabels, PostOwned, Finished
    <3> QED BY <3>1, <3>2 DEF NoneBeforeLaunch, NothingUnowned
  <2>2. CASE pc'["sup"] \in NotYet /\ pc'["sup"] = pc["sup"]
    BY <2>2 DEF NoneBeforeLaunch
  <2>3. CASE WorkerLive'
    BY <2>3, WorkerSteps
    DEF NoneBeforeLaunch, NotYet, CheckoutLabels, SupReleaseWorker
  <2> QED BY <2>1, <2>2, <2>3
<1>2. ~SupLaunch
  <2>1. SupLaunch => /\ pc["sup"] = "launch" /\ pc'["sup"] = "checkpoint"
                     /\ worker' = worker
    BY LabelFacts DEF SupLaunch, SupGoto, SupOnly, TypeOK
  <2>2. WorkerLive => pc["sup"] # "launch"
    BY DEF LeaseDiscipline, WorkerLockstep, Finished
  <2> QED
    BY <2>1, <2>2 DEF WorkerLive, NotYet, CheckoutLabels
<1> QED BY <1>1, <1>2, LeaderSteps

LEMMA NextReviewerOnce ==
  ASSUME TypeOK, LeaseDiscipline, NoneBeforeLaunch', StageIsLaunched,
         ReviewerOnce, [Next]_vars
  PROVE  ReviewerOnce'
<1>1. leader'.st = "none" => leader'.stage = "none"
  BY LeaderSteps DEF ReviewerOnce, SupLaunch
<1>2. ASSUME pc'["sup"] \in LaunchLabels \/ HelperIn("sup", SpawnKinds)'
      PROVE  leader'.stage # "reviewer"
  <2>1. leader.stage # "reviewer"
    <3>1. CASE pc'["sup"] \in LaunchLabels /\ pc'["sup"] # pc["sup"]
      <4>1. /\ pc["sup"] \in Kinds \cap SupLabels
            /\ pc'["sup"] \in After("sup", pc["sup"])
        BY <3>1, SupMoves, LaunchNext
        DEF LaunchLabels, SpawnKinds, SupForward, SupLeaves, FailureKinds,
            Finished
      <4>2. \/ pc["sup"] \in {"validated"} \cup SpawnKinds
            \/ pc["sup"] \in ClosedKinds /\ rec.stage = "auth-refresh"
        BY <3>1, <4>1, LaunchNext DEF LaunchLabels
      <4> QED
        BY <4>2
        DEF ReviewerOnce, NotYet, CheckoutLabels, LaunchLabels,
            StageIsLaunched, LaunchedLabels, LaunchedKinds
    <3>2. CASE pc'["sup"] \in LaunchLabels /\ pc'["sup"] = pc["sup"]
      BY <3>2 DEF ReviewerOnce
    <3>3. CASE HelperIn("sup", SpawnKinds)'
      BY <3>3, HelperOrigin, LabelFacts
      DEF HelperIn, ReviewerOnce, LaunchLabels
    <3> QED BY <1>2, <3>1, <3>2, <3>3
  <2>2. ~SupLaunch
    <3>1. SupLaunch => /\ pc["sup"] = "launch" /\ pc'["sup"] = "checkpoint"
                       /\ helper' = helper
      BY LabelFacts DEF SupLaunch, SupGoto, SupOnly, TypeOK
    <3>2. pc["sup"] = "launch" => ~HelperLive("sup")
      BY SupHelper DEF Waits, Finished
    <3> QED
      BY <1>2, <3>1, <3>2
      DEF HelperIn, HelperLive, LaunchLabels, SpawnKinds
  <2> QED BY <2>1, <2>2, LeaderSteps
<1>3. pc'["sup"] \in NotYet => leader'.stage # "reviewer"
  BY <1>1 DEF NoneBeforeLaunch
<1> QED BY <1>1, <1>2, <1>3 DEF ReviewerOnce

(* How the worker and the supervisor get past `git worktree add`. *)
LEMMA TreeStagesOrigin ==
  ASSUME TypeOK, [Next]_vars, worker' \in TreeStages
  PROVE  \/ worker \in TreeStages
         \/ WorkerAdd
         \/ WorkerLive /\ HelperLive("sup") /\ pc["sup"] \in {"index", "phase0"}
<1> USE DEF TypeOK, TreeStages
<1>1. ASSUME NEW q \in Procs, CommitStep(q), ~Reply(q)
      PROVE  worker' = worker \/ worker' = "dead"
  BY <1>1
  DEF CommitStep, Request, HelperCheck, HelperCommit, HelperFail, OrphanExit,
      Fail
<1>2. ASSUME NEW q \in Procs, Reply(q)
      PROVE  \/ worker' = worker \/ worker' = "control"
             \/ /\ WorkerLive /\ HelperLive("sup")
                /\ pc["sup"] \in {"index", "phase0"}
  BY <1>2 DEF Reply, WorkerAfter, HelperLive
<1>3. CASE OuterStart \/ OuterStep
  BY <1>3 DEF OuterStart, OuterStep, SpawnSup, OuterCustodyAccepted,
     OuterAccepted, OuterOwnershipComplete, OuterAck, OuterTerminal,
     OuterGiveUp, OuterTerminateSup, OuterReap, OuterSelect, OuterOnly
<1>4. CASE SupStep
  BY <1>4 DEF SupStep, SupTakeCustody, SupOffer, SupStart, SupAcknowledged,
     SupGiveUp, SupReleaseWorker, SupWorkerMilestone, SupReapWorker,
     SupLoseWorker, SupLaunch, SupLaunchFails, SupCheckpoint,
     SupSettleProcess, SupPublish, SupSendTerminal, SupOnly, OuterOnly
<1>5. CASE WorkerNext
  BY <1>5 DEF WorkerNext, WorkerCommit, WorkerStep, WorkerFails, WorkerDies,
     WorkerCommits
<1>6. ASSUME NEW q \in Procs, CleanupStep(q) \/ Crash(q)
      PROVE  worker' = worker
  BY <1>6 DEF CleanupStep, CleanupStart, CleanupDelete, CleanupGivesUp,
     CleanupOnly, Crash
<1>7. CASE LeaderExits \/ OperatorRecover \/ OperatorFinal \/ Reboot
  BY <1>7 DEF LeaderExits, OperatorRecover, OperatorFinal, Reboot
<1>8. CASE UNCHANGED vars
  BY <1>8 DEF vars
<1> QED
  BY <1>1, <1>2, <1>3, <1>4, <1>5, <1>6, <1>7, <1>8 DEF Next

LEMMA ValidatedOrigin ==
  ASSUME TypeOK, [Next]_vars, pc["sup"] = "await-worker",
         pc'["sup"] = "validated"
  PROVE  worker = "complete" /\ worker' = "off"
<1> USE LabelFacts DEF TypeOK
<1>1. pc["sup"] \notin Kinds
  BY DEF Kinds, HandoffKinds, CheckoutKinds, LifecycleKinds, SpawnKinds,
     ClosedKinds, VerdictKinds, FailureKinds, CleanupKinds, SettleKinds,
     RecoverKinds
<1>2. ASSUME NEW q \in Procs, CommitStep(q)
      PROVE  FALSE
  BY <1>1, <1>2
  DEF CommitStep, Request, HelperCheck, HelperCommit, HelperFail, OrphanExit,
      Reply, Fail, HelperLive
<1>3. ~OuterStart /\ ~OuterStep
  BY DEF OuterStart, OuterStep, SpawnSup, OuterCustodyAccepted,
     OuterAccepted, OuterOwnershipComplete, OuterAck, OuterTerminal,
     OuterGiveUp, OuterTerminateSup, OuterReap, OuterSelect, OuterGoto,
     Finished
<1>4. CASE SupStep
  BY <1>4 DEF SupStep, SupTakeCustody, SupOffer, SupStart, SupAcknowledged,
     SupGiveUp, SupReleaseWorker, SupWorkerMilestone, SupReapWorker,
     SupLoseWorker, SupLaunch, SupLaunchFails, SupCheckpoint,
     SupSettleProcess, SupPublish, SupSendTerminal, SupGoto, SupFailures
<1>5. ASSUME NEW q \in Procs, CleanupStep(q) \/ Crash(q)
      PROVE  FALSE
  BY <1>5 DEF CleanupStep, CleanupStart, CleanupDelete, CleanupGivesUp,
     CleanupFailures, Crash
<1>6. ~WorkerNext /\ ~LeaderExits /\ ~OperatorRecover /\ ~OperatorFinal
        /\ ~Reboot
  BY DEF WorkerNext, WorkerCommit, WorkerAdd, WorkerStep, WorkerFails,
     WorkerDies, WorkerOnly, LeaderExits, OperatorRecover, OperatorFinal,
     Reboot, Finished
<1>7. ~UNCHANGED vars
  BY DEF vars
<1> QED
  BY <1>2, <1>3, <1>4, <1>5, <1>6, <1>7 DEF Next

LEMMA NextTreeIsThere ==
  ASSUME TypeOK, LeaseDiscipline, TreeIsThere, [Next]_vars
  PROVE  TreeIsThere'
<1> USE LabelFacts DEF LeaseDiscipline
<1> SUFFICES ASSUME worker' \in TreeStages \/ pc'["sup"] \in TreeLabels
             PROVE  tree'
  BY DEF TreeIsThere
<1>1. CASE WorkerAdd
  BY <1>1 DEF WorkerAdd
<1>2. CASE ~WorkerAdd
  <2>1. worker \in TreeStages \/ pc["sup"] \in TreeLabels
    <3>1. CASE worker' \in TreeStages
      <4>1. WorkerLive /\ HelperLive("sup")
              => worker \in {"index-done", "phase0-done"}
        BY DEF WorkerLockstep
      <4> QED BY <1>2, <3>1, <4>1, TreeStagesOrigin DEF TreeStages
    <3>2. CASE pc'["sup"] \in TreeLabels /\ pc'["sup"] # pc["sup"]
      <4>1. \/ pc["sup"] \in TreeLabels
            \/ pc["sup"] = "await-worker" /\ pc'["sup"] = "validated"
        BY <3>2, SupMoves, LaunchNext
        DEF TreeLabels, ReviewLabels, VerdictLabels, SupForward, SupLeaves,
            FailureKinds, Finished
      <4> QED BY <4>1, ValidatedOrigin DEF TreeStages
    <3>3. CASE pc'["sup"] \in TreeLabels /\ pc'["sup"] = pc["sup"]
      BY <3>3
    <3> QED BY <3>1, <3>2, <3>3
  <2>2. ASSUME NEW p \in Procs, CleanupDelete(p)
        PROVE  FALSE
    <3>1. pc[p] = "delete" /\ pc' = [pc EXCEPT ![p] = "cleanup-progress"]
            /\ worker' = worker
      BY <2>2 DEF CleanupDelete, CleanupOnly
    <3>2. CASE p = "outer"
      BY <2>1, <3>1, <3>2
      DEF OuterAlone, OuterSole, SupIdle, WorkerLive, TreeStages, TreeLabels,
          ReviewLabels, VerdictLabels, Finished
    <3>3. CASE p = "sup"
      BY <2>1, <3>1, <3>3
      DEF WorkerLockstep, WorkerLive, TreeStages, TreeLabels,
          ReviewLabels, VerdictLabels, Finished
    <3>4. CASE p = "operator"
      BY <2>1, <3>1, <3>4
      DEF OperatorAlone, OperatorHolds, SupHolds, SupLabels, WorkerLive,
          TreeStages, TreeLabels, ReviewLabels, VerdictLabels, Finished
    <3> QED BY <3>2, <3>3, <3>4
  <2> QED BY <1>2, <2>1, <2>2, WorkerSteps DEF TreeIsThere
<1> QED BY <1>1, <1>2

LEMMA LaunchHolds == Spec => []LaunchInv
<1>1. Init => LaunchInv
  BY DEF Init, NoHelper, LaunchInv, NoneBeforeLaunch, ReviewerOnce,
     TreeIsThere, TreeStages, TreeLabels, ReviewLabels, VerdictLabels,
     LaunchLabels, SpawnKinds, HelperIn, HelperLive, Procs
<1>2. TypeOK /\ LeaseDiscipline /\ SettledInv /\ VerdictInv /\ LaunchInv
        /\ [Next]_vars
      => LaunchInv'
  BY NextNoneBeforeLaunch, NextReviewerOnce, NextTreeIsThere
  DEF LaunchInv, SettledInv, VerdictInv
<1> QED
  BY <1>1, <1>2, SettledHolds, VerdictHolds, TypeCorrect,
     LeaseDisciplineHolds, PTL DEF Spec

-----------------------------------------------------------------------------
(* The attempt implements what ReviewAttempt promises. *)

OutcomeOf(r) ==
  CASE Concluded(r) -> "failed"
    [] ~Concluded(r) /\ FinalAuthorizationExact(r) -> "final"
    [] ~Concluded(r) /\ ~FinalAuthorizationExact(r)
         /\ r.review = "verdict" -> "reviewed"
    [] OTHER -> IF r.authorized THEN "authorized" ELSE "open"
Reviewer == IF leader.stage = "reviewer" THEN leader.st ELSE "none"

LEMMA OutcomeCases ==
  ASSUME NEW r \in Record
  PROVE  /\ OutcomeOf(r) \in {"open", "authorized", "reviewed", "final",
                              "failed"}
         /\ Concluded(r) <=> OutcomeOf(r) = "failed"
         /\ OutcomeOf(r) = "final" <=> FinalAuthorizationExact(r)
         /\ ~Concluded(r) /\ ~FinalAuthorizationExact(r) =>
              OutcomeOf(r) = IF r.review = "verdict" THEN "reviewed"
                             ELSE IF r.authorized THEN "authorized"
                             ELSE "open"
<1>1. FinalAuthorizationExact(r) => ~Concluded(r)
  BY DEF FinalAuthorizationExact, TerminalLifecycle, Concluded
<1> QED BY <1>1 DEF OutcomeOf

(* One commit changes the outcome as ReviewAttempt allows. *)
LEMMA OutcomeSteps ==
  ASSUME NEW r \in Record, NEW k \in Kinds, Allowed(k, r),
         Update(k, r) \in Record, OutcomeOf(r) # "final",
         Concluded(r) => k \notin OpenKinds
  PROVE  \/ OutcomeOf(Update(k, r)) = OutcomeOf(r)
         \/ k \in Concluding /\ OutcomeOf(Update(k, r)) = "failed"
         \/ /\ k = "authorize" /\ OutcomeOf(r) = "open"
            /\ OutcomeOf(Update(k, r)) = "authorized"
         \/ /\ OutcomeOf(r) = "authorized"
            /\ OutcomeOf(Update(k, r)) = "reviewed"
         \/ /\ k = "final-auth" /\ OutcomeOf(r) = "reviewed"
            /\ r.csettle = "exact" /\ OutcomeOf(Update(k, r)) = "final"
<1>1. k # "final-auth" => ~FinalAuthorizationExact(Update(k, r))
  BY UpdateLast DEF FinalAuthorizationExact
<1>2. ~FinalAuthorizationExact(r)
  BY OutcomeCases
<1>3. CASE k \in Concluding
  BY <1>3, ConcludingCommits, OutcomeCases
<1>4. CASE k \in OpenKinds \ VerdictKinds
  <2>1. /\ ~Concluded(r) /\ ~Concluded(Update(k, r))
        /\ Update(k, r).authorized = r.authorized
        /\ Update(k, r).review = r.review
    BY <1>4, OpenCommits
  <2>2. k # "final-auth"
    BY <1>4 DEF OpenKinds, CheckoutKinds, LifecycleKinds, SpawnKinds,
       ClosedKinds
  <2> QED BY <1>1, <1>2, <2>1, <2>2, OutcomeCases
<1>5. CASE k \in VerdictKinds
  <2>1. k \in OpenKinds /\ k # "final-auth"
    BY <1>5 DEF OpenKinds, VerdictKinds
  <2>2. /\ ~Concluded(r) /\ ~Concluded(Update(k, r))
        /\ k # "authorize" => Update(k, r).authorized = r.authorized
        /\ k = "authorize" => Update(k, r).authorized
        /\ k # "reviewed" => Update(k, r).review = r.review
        /\ k = "reviewed" => Update(k, r).review = "verdict" /\ r.authorized
    BY <1>5, <2>1, OpenCommits, VerdictOutcome, VerdictFields DEF Allowed
  <2> QED BY <1>1, <1>2, <1>5, <2>1, <2>2, OutcomeCases DEF VerdictKinds
<1>6. CASE k \in Neutral
  <2>1. /\ Update(k, r).review = r.review
        /\ Update(k, r).authorized = r.authorized
        /\ Concluded(Update(k, r)) <=> Concluded(r)
    BY <1>6, NeutralCommits DEF SameOutcome, Concluded
  <2>2. CASE k = "final-auth"
    <3>1. TerminalLifecycle(r) /\ TerminalLifecycle(Update(k, r))
      BY <2>2, SettleOutcome DEF Allowed, SettleKinds
    <3>2. FinalAuthorizationExact(Update(k, r))
      BY <2>2, <3>1, UpdateLast DEF FinalAuthorizationExact
    <3>3. ~Concluded(r) /\ r.review = "verdict" /\ r.csettle = "exact"
      BY <3>1 DEF TerminalLifecycle, Concluded
    <3> QED BY <1>2, <2>2, <3>2, <3>3, OutcomeCases
  <2>3. CASE k # "final-auth"
    BY <1>1, <1>2, <2>1, <2>3, OutcomeCases
  <2> QED BY <2>2, <2>3
<1> QED BY <1>3, <1>4, <1>5, <1>6 DEF Neutral

(* At most one of the four things ReviewAttempt speaks of changes. *)
LEMMA PromiseSteps ==
  ASSUME TypeOK, [Next]_vars
  PROVE  \/ UNCHANGED <<leader, tree, delivered>>
         \/ UNCHANGED <<rec, tree, delivered>>
         \/ UNCHANGED <<rec, leader, delivered>>
              /\ (WorkerAdd \/ \E p \in Procs : CleanupDelete(p))
         \/ OperatorFinal
<1>1. ASSUME NEW q \in Procs, CommitStep(q)
      PROVE  \/ UNCHANGED <<leader, tree, delivered>>
             \/ UNCHANGED <<rec, tree, delivered>>
  BY <1>1
  DEF CommitStep, Request, HelperCheck, HelperCommit, HelperFail, OrphanExit,
      Reply, Fail
<1>2. CASE OuterStart \/ OuterStep
  BY <1>2 DEF OuterStart, OuterStep, SpawnSup, OuterCustodyAccepted,
     OuterAccepted, OuterOwnershipComplete, OuterAck, OuterTerminal,
     OuterGiveUp, OuterTerminateSup, OuterReap, OuterSelect, OuterOnly
<1>3. CASE SupStep
  BY <1>3 DEF SupStep, SupTakeCustody, SupOffer, SupStart, SupAcknowledged,
     SupGiveUp, SupReleaseWorker, SupWorkerMilestone, SupReapWorker,
     SupLoseWorker, SupLaunch, SupLaunchFails, SupCheckpoint,
     SupSettleProcess, SupPublish, SupSendTerminal, SupOnly, OuterOnly
<1>4. CASE WorkerNext
  BY <1>4 DEF WorkerNext, WorkerCommit, WorkerAdd, WorkerStep, WorkerFails,
     WorkerDies, WorkerOnly
<1>5. ASSUME NEW q \in Procs, CleanupStep(q) \/ Crash(q)
      PROVE  \/ UNCHANGED <<leader, tree, delivered>>
             \/ UNCHANGED <<rec, leader, delivered>> /\ CleanupDelete(q)
  BY <1>5 DEF CleanupStep, CleanupStart, CleanupDelete, CleanupGivesUp,
     CleanupOnly, Crash
<1>6. CASE LeaderExits \/ OperatorRecover \/ Reboot
  BY <1>6 DEF LeaderExits, OperatorRecover, Reboot
<1>7. CASE UNCHANGED vars
  BY <1>7 DEF vars
<1> QED
  BY <1>1, <1>2, <1>3, <1>4, <1>5, <1>6, <1>7 DEF Next

PromiseInv ==
  /\ TypeOK /\ LeaseDiscipline /\ NoLostUpdate /\ OpenInv /\ SettledInv
  /\ VerdictInv /\ LaunchInv /\ FinalIsLast

(* A commit. *)
LEMMA CommitKeepsPromise ==
  ASSUME PromiseInv, [Next]_vars, rec' \in Record,
         UNCHANGED <<leader, tree, delivered>>
  PROVE  [Promise!ANext]_(Promise!avars)
<1> USE LabelFacts DEF PromiseInv, OpenInv, SettledInv
<1>1. /\ Outcome = OutcomeOf(rec) /\ Outcome' = OutcomeOf(rec')
      /\ Reviewer' = Reviewer
  BY DEF Outcome, OutcomeOf, Reviewer
<1>2. CASE Outcome' = Outcome
  BY <1>1, <1>2 DEF Promise!avars, Reviewer
<1>3. CASE Outcome' # Outcome
  <2>1. rec' # rec
    BY <1>1, <1>3
  <2>2. OutcomeOf(rec) # "final"
    BY <2>1, FinalRecordStays, OutcomeCases
    DEF TypeOK, FinalAuthorizationExact
  <2>3. PICK k \in Kinds : /\ Concluded(rec) => k \notin OpenKinds
                           /\ Allowed(k, rec) /\ rec' = Update(k, rec)
                           /\ \/ k \in WorkerCommits
                              \/ \E p \in Procs :
                                   Commits(p) /\ helper[p].kind = k
    <3>1. CASE WorkerCommit
      <4>1. ~Concluded(rec)
        BY <3>1 DEF WorkerCommit, NotConcludedWhileOpen, Open, WorkerLive,
           WorkerCommits
      <4> QED
        BY <3>1, <4>1
        DEF WorkerCommit, WorkerCommits, Kinds, CheckoutKinds
    <3>2. ASSUME NEW p \in Procs, Commits(p)
          PROVE  /\ helper[p].kind \in Kinds
                 /\ Concluded(rec) => helper[p].kind \notin OpenKinds
      BY <3>2
      DEF Open, HelperIn, HelperKinds, Commits, NotConcludedWhileOpen,
          OuterLabels, OperatorLabels, Finished, OpenKinds, CheckoutKinds,
          LifecycleKinds, SpawnKinds, ClosedKinds, VerdictKinds
    <3>3. CASE \E p \in Procs : Commits(p)
      BY <3>2, <3>3 DEF Commits
    <3> QED BY <2>1, <3>1, <3>3, RecordSteps
  <2>4. \/ k \in Concluding /\ OutcomeOf(rec') = "failed"
        \/ /\ k = "authorize" /\ OutcomeOf(rec) = "open"
           /\ OutcomeOf(rec') = "authorized"
        \/ OutcomeOf(rec) = "authorized" /\ OutcomeOf(rec') = "reviewed"
        \/ /\ k = "final-auth" /\ OutcomeOf(rec) = "reviewed"
           /\ rec.csettle = "exact" /\ OutcomeOf(rec') = "final"
    BY <1>1, <1>3, <2>2, <2>3, OutcomeSteps DEF TypeOK
  <2>5. k \in Concluding => leader.st # "running"
    <3> SUFFICES ASSUME k \in Concluding PROVE leader.st # "running"
      OBVIOUS
    <3>1. PICK p \in Procs : Commits(p) /\ helper[p].kind = k
      BY <2>3 DEF WorkerCommits, Concluding, FailureKinds
    <3>2. CASE p = "outer"
      BY <3>1, <3>2
      DEF NothingUnowned, Unowned, HelperIn, Commits, Concluding,
          FailureKinds
    <3>3. CASE p = "sup"
      BY <3>1, <3>3
      DEF RunningLeader, Commits, Concluding, FailureKinds
    <3>4. CASE p = "operator"
      BY <3>1, <3>4
      DEF Writers, RecoversAfterBoot, AfterBoot, Commits
    <3> QED BY <3>2, <3>3, <3>4
  <2>6. k = "authorize" => Reviewer = "zero"
    <3> SUFFICES ASSUME k = "authorize" PROVE Reviewer = "zero"
      OBVIOUS
    <3>1. PICK p \in Procs : Commits(p) /\ helper[p].kind = "authorize"
      BY <2>3 DEF WorkerCommits
    <3>2. p = "sup"
      BY <3>1 DEF Commits, HelperKinds, OuterLabels, OperatorLabels, Finished
    <3> QED
      BY <3>1, <3>2
      DEF VerdictInv, PublishedIsEarned, HelperIn, VerdictKinds, Commits,
          Earned, Reviewer
  <2>7. rec.csettle = "exact" => ~tree
    BY DEF ExactCheckoutIsGone
  <2>8. CASE k \in Concluding /\ OutcomeOf(rec') = "failed"
    <3>1. OutcomeOf(rec) \in {"open", "authorized", "reviewed"}
      BY <1>1, <1>3, <2>2, <2>8, OutcomeCases DEF TypeOK
    <3>2. Reviewer # "running"
      BY <2>5, <2>8 DEF Reviewer
    <3> QED
      BY <1>1, <2>8, <3>1, <3>2
      DEF Promise!ANext, Promise!Conclude, Reviewer
  <2>9. CASE k = "authorize" /\ OutcomeOf(rec) = "open"
               /\ OutcomeOf(rec') = "authorized"
    BY <1>1, <2>6, <2>9 DEF Promise!ANext, Promise!Authorize, Reviewer
  <2>10. CASE OutcomeOf(rec) = "authorized" /\ OutcomeOf(rec') = "reviewed"
    BY <1>1, <2>10 DEF Promise!ANext, Promise!Publish, Reviewer
  <2>11. CASE k = "final-auth" /\ OutcomeOf(rec) = "reviewed"
               /\ rec.csettle = "exact" /\ OutcomeOf(rec') = "final"
    BY <1>1, <2>7, <2>11 DEF Promise!ANext, Promise!Finalize, Reviewer
  <2> QED BY <2>4, <2>8, <2>9, <2>10, <2>11
<1> QED BY <1>2, <1>3

(* An attempt that is still before its verdict is open. *)
LEMMA OpenOutcome ==
  ASSUME PromiseInv, Open, rec.phase = "spawn-intent" \/ leader.st = "none"
  PROVE  OutcomeOf(rec) = "open"
<1>1. ~Concluded(rec)
  BY DEF PromiseInv, OpenInv, NotConcludedWhileOpen
<1>2. ~rec.authorized /\ rec.review # "verdict"
  BY DEF PromiseInv, VerdictInv, DecidedLate, Decided, VerdictIsEarned
<1>3. ~FinalAuthorizationExact(rec)
  BY <1>2 DEF FinalAuthorizationExact, TerminalLifecycle
<1> QED
  BY <1>1, <1>2, <1>3, OutcomeCases DEF PromiseInv, TypeOK

LEMMA LeaderKeepsPromise ==
  ASSUME PromiseInv, [Next]_vars, UNCHANGED <<rec, tree, delivered>>
  PROVE  [Promise!ANext]_(Promise!avars)
<1> USE DEF PromiseInv
<1>1. Outcome = OutcomeOf(rec) /\ Outcome' = OutcomeOf(rec)
  BY DEF Outcome, OutcomeOf
<1>2. CASE leader' = leader
  BY <1>1, <1>2 DEF Promise!avars
<1>3. CASE SupLaunch
  <2>1. /\ leader' = [stage |-> rec.stage, st |-> "running"]
        /\ pc["sup"] = "launch"
    BY <1>3 DEF SupLaunch
  <2>2. leader.stage # "reviewer" /\ tree
    BY <2>1
    DEF LaunchInv, ReviewerOnce, LaunchLabels, TreeIsThere, TreeLabels,
        ReviewLabels
  <2>3. OutcomeOf(rec) = "open"
    BY <2>1, OpenOutcome
    DEF Open, OpenLabels, VerdictInv, LaunchIsNext
  <2> QED
    BY <1>1, <2>1, <2>2, <2>3
    DEF Promise!ANext, Promise!StartReviewer, Promise!avars
<1>4. CASE /\ leader.st = "running" /\ leader'.st \in {"zero", "nonzero"}
           /\ leader'.stage = leader.stage
  BY <1>1, <1>4 DEF Promise!ANext, Promise!EndReviewer, Promise!avars
<1> QED BY <1>2, <1>3, <1>4, LeaderSteps

LEMMA TreeKeepsPromise ==
  ASSUME PromiseInv, UNCHANGED <<rec, leader, delivered>>,
         WorkerAdd \/ \E p \in Procs : CleanupDelete(p)
  PROVE  [Promise!ANext]_(Promise!avars)
<1> USE DEF PromiseInv
<1>1. Outcome = OutcomeOf(rec) /\ Outcome' = OutcomeOf(rec)
  BY DEF Outcome, OutcomeOf
<1>2. CASE WorkerAdd
  <2>1. WorkerLive /\ tree' = TRUE
    BY <1>2 DEF WorkerAdd, WorkerLive
  <2>2. leader.st = "none"
    BY <2>1 DEF LaunchInv, NoneBeforeLaunch
  <2>3. OutcomeOf(rec) = "open"
    BY <2>1, <2>2, OpenOutcome DEF Open
  <2> QED
    BY <1>1, <2>1, <2>2, <2>3 DEF Promise!ANext, Promise!CreateCheckout
<1>3. CASE \E p \in Procs : CleanupDelete(p)
  <2>1. tree' = FALSE
    BY <1>3 DEF CleanupDelete
  <2>2. CASE tree
    BY <1>1, <2>1, <2>2 DEF Promise!ANext, Promise!RemoveCheckout
  <2>3. CASE ~tree
    BY <1>1, <2>1, <2>3 DEF Promise!avars, TypeOK
  <2> QED BY <2>2, <2>3
<1> QED BY <1>2, <1>3

(* Every behaviour of the attempt, with all its processes, messages,       *)
(* helpers and crashes, is one of ReviewAttempt: the reviewer starts once  *)
(* and in a checkout, no outcome is concluded under a running reviewer, a  *)
(* failed outcome and a final one never change.                            *)
THEOREM PromiseIsKept == Spec => KeepsItsPromise
<1>1. Init => Promise!AInit
  BY DEF Init, Promise!AInit, Outcome, Concluded, FinalAuthorizationExact,
     ReservedRecord
<1>2. PromiseInv /\ TypeOK' /\ [Next]_vars => [Promise!ANext]_(Promise!avars)
  <2> SUFFICES ASSUME PromiseInv, TypeOK', [Next]_vars
               PROVE  [Promise!ANext]_(Promise!avars)
    OBVIOUS
  <2>1. CASE UNCHANGED <<leader, tree, delivered>>
    BY <2>1, CommitKeepsPromise DEF TypeOK
  <2>2. CASE UNCHANGED <<rec, tree, delivered>>
    BY <2>2, LeaderKeepsPromise
  <2>3. CASE /\ UNCHANGED <<rec, leader, delivered>>
             /\ WorkerAdd \/ \E p \in Procs : CleanupDelete(p)
    BY <2>3, TreeKeepsPromise
  <2>4. CASE OperatorFinal
    <3>1. Outcome = OutcomeOf(rec) /\ Outcome' = OutcomeOf(rec)
      BY <2>4 DEF Outcome, OutcomeOf, OperatorFinal
    <3>2. OutcomeOf(rec) = "final"
      BY <2>4, OutcomeCases DEF OperatorFinal, PromiseInv, TypeOK
    <3> QED
      BY <2>4, <3>1, <3>2 DEF OperatorFinal, Promise!ANext, Promise!Show
  <2> QED BY <2>1, <2>2, <2>3, <2>4, PromiseSteps DEF PromiseInv
<1>3. Spec => []PromiseInv
  BY TypeCorrect, LeaseDisciplineHolds, NoUpdateIsLost, OpenHolds,
     SettledHolds, VerdictHolds, LaunchHolds, FinalHolds, PTL DEF PromiseInv
<1> QED
  BY <1>1, <1>2, <1>3, TypeCorrect, PTL
  DEF Spec, KeepsItsPromise, Promise!ASpec
=============================================================================
