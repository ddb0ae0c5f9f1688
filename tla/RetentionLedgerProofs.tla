------------------------ MODULE RetentionLedgerProofs ------------------------
(***************************************************************************)
(* Theorems about the retention ledger, for every set of attempts, every   *)
(* envelope and cap that satisfy the module's assumptions and every bound  *)
(* on temporaries.  The first follow from one inductive invariant,         *)
(* LedgerInv: the type invariant, what the steps of a command rely on, and *)
(* two facts about the rewrite that a record carries; the last two, on the *)
(* cap and on retained worktrees, from another, CapInv, that builds on it. *)
(***************************************************************************)
EXTENDS RetentionLedger, FiniteSetTheorems, TLAPS

(* What a rewrite undertook to publish again can still be published, and   *)
(* every released record carries the rewrite of its release or a later one.*)
Promised ==
  \A a \in Attempts : st[a].rw.needs =>
    /\ st[a].rw.op # "none"
    /\ st[a].verdict /\ BothSettled(a) /\ st[a].auth # "none"
ReleasedByRewrite ==
  \A a \in Attempts :
    st[a].retention \in {"released", "reclaiming", "reclaimed"}
      => st[a].rw.op # "none"

LedgerInv == TypeOK /\ StepRelies /\ Promised /\ ReleasedByRewrite

-----------------------------------------------------------------------------
(* Facts about the data *)

LEMMA ReservedType == Reserved \in State
  BY EnvelopeAssumption DEF Reserved, State, Rewrite, NoRewrite

LEMMA JobTyped ==
  ASSUME TypeOK, job.step \in Steps
  PROVE  job \in Job
  BY DEF TypeOK, Idle, Job, Steps, CommitSteps

LEMMA GotoFacts ==
  ASSUME TypeOK, job.step \in Steps, NEW s \in Steps, Goto(s)
  PROVE  /\ job' \in Job
         /\ job'.step = s /\ job'.cur = job.cur
  <1>1. job \in Job
    BY JobTyped
  <1> QED
    BY <1>1 DEF Goto, Job

LEMMA IdleFacts == Idle.step = "none" /\ "none" \notin Steps
  BY DEF Idle, Steps, CommitSteps

(* An idle root relies on nothing. *)
LEMMA IdleRelies ==
  ASSUME job' = Idle
  PROVE  StepRelies'
  <1>1. job'.step = "none"
    BY IdleFacts
  <1> QED
    BY <1>1 DEF StepRelies, OnOneAttempt, CreatesAnew, RewritesAuthorized,
      RecoversUnpromised, ReclaimsReleased, StepsOnAttempt, Steps,
      CommitSteps, RecoverySteps, At

(* Steps before which nothing is relied upon but the attempt itself. *)
PlainSteps == {"scan", "ttl", "ttl-next", "admit", "settle", "finish",
               "clean-remove", "authorize", "unlink", "isolate", "rmdir"}

LEMMA PlainRelies ==
  ASSUME job'.step \in PlainSteps,
         job'.step \in StepsOnAttempt => job'.cur \in Attempts
  PROVE  StepRelies'
  BY DEF PlainSteps, StepRelies, OnOneAttempt, CreatesAnew,
    RewritesAuthorized, RecoversUnpromised, ReclaimsReleased,
    StepsOnAttempt, RecoverySteps, At

LEMMA CurrentAttempt ==
  ASSUME StepRelies, job.step \in StepsOnAttempt
  PROVE  job.cur \in Attempts
  BY DEF StepRelies, OnOneAttempt

LEMMA UsedBound ==
  ASSUME TypeOK, NEW a \in Attempts
  PROVE  Used(a) \in 1..Envelope
  BY EnvelopeAssumption DEF TypeOK, Artifacts, Used

(* A commit changes one record, as told, except that the authorization is  *)
(* no longer the last generation.                                          *)
LEMMA CommitFacts ==
  ASSUME TypeOK, NEW a \in Attempts, NEW s \in State, Commit(a, s)
  PROVE  /\ st' \in [Attempts -> State]
         /\ \A b \in Attempts : b # a => st'[b] = st[b]
         /\ st'[a].retention = s.retention /\ st'[a].csettle = s.csettle
         /\ st'[a].wt = s.wt /\ st'[a].verdict = s.verdict
         /\ st'[a].charge = s.charge /\ st'[a].rw = s.rw
         /\ s.auth # "none" => st'[a].auth # "none"
  BY DEF TypeOK, Commit, State

LEMMA SameRecords ==
  ASSUME Promised, ReleasedByRewrite, UNCHANGED st
  PROVE  Promised' /\ ReleasedByRewrite'
  BY DEF Promised, ReleasedByRewrite, BothSettled, Settled

-----------------------------------------------------------------------------
LEMMA InitInv == Init => LedgerInv
  <1> SUFFICES ASSUME Init PROVE LedgerInv
    OBVIOUS
  <1>1. TypeOK
    BY ReservedType, EnvelopeAssumption
      DEF Init, TypeOK, Dirs, Artifacts, NoArtifacts
  <1>2. StepRelies
    BY IdleFacts DEF Init, StepRelies, OnOneAttempt, CreatesAnew,
      RewritesAuthorized, RecoversUnpromised, ReclaimsReleased,
      StepsOnAttempt, Steps, CommitSteps, RecoverySteps, At
  <1>3. Promised /\ ReleasedByRewrite
    BY DEF Init, Promised, ReleasedByRewrite, Reserved, NoRewrite
  <1> QED
    BY <1>1, <1>2, <1>3 DEF LedgerInv

-----------------------------------------------------------------------------
(* Commands begin *)

LEMMA JobOnly ==
  ASSUME TypeOK, job' \in Job \cup {Idle}, OnlyJob
  PROVE  TypeOK'
  BY DEF TypeOK, OnlyJob

(* What makes an attempt reclaimable is what the first two steps of its    *)
(* reclaim rely on.                                                        *)
LEMMA ReclaimRelies ==
  ASSUME TypeOK, ReleasedByRewrite, NEW a \in Attempts, Reclaimable(a),
         UNCHANGED <<st, art, dir>>, job'.cur = a,
         job'.step = IF st[a].retention = "reclaimed" THEN "unlink"
                     ELSE "reclaim-mark"
  PROVE  StepRelies'
  <1>1. CASE st[a].retention = "reclaimed"
    BY <1>1, PlainRelies DEF PlainSteps
  <1>2. CASE st[a].retention # "reclaimed"
    <2>1. job'.step = "reclaim-mark"
      BY <1>2
    <2>2. st[a].retention \in {"released", "reclaiming"} /\ BothSettled(a)
      BY <1>2 DEF Reclaimable, Eligible
    <2>3. st[a].rw.op # "none"
      BY <2>2 DEF ReleasedByRewrite
    <2>4. st[a].rw.status = "complete"
      BY <2>3 DEF Reclaimable
    <2>5. ReclaimsReleased'
      BY <2>1, <2>2, <2>3, <2>4 DEF ReclaimsReleased, At, BothSettled, Settled
    <2> QED
      BY <2>1, <2>5 DEF StepRelies, OnOneAttempt, CreatesAnew, StepsOnAttempt,
        RewritesAuthorized, RecoversUnpromised, RecoverySteps, At
  <1> QED
    BY <1>1, <1>2

(* An attempt that owes an authorization is finished or already settled:   *)
(* the branch of recover that closes an attempt is not reached.            *)
LEMMA OwedIsNotClosed ==
  ASSUME TypeOK, Promised, NEW a \in Attempts, st[a].rw.needs,
         ~ReleaseInterrupted(a), ~CleanNeeded(a)
  PROVE  AlreadySettled(a)
  <1>1. st[a].rw.op # "none" /\ st[a].verdict /\ BothSettled(a)
    BY DEF Promised
  <1>2. st[a].rw.op \in {"release", "runtime-cleanup"}
    BY <1>1 DEF TypeOK, State, Rewrite
  <1>3. CASE st[a].rw.op = "release"
    BY <1>1, <1>3 DEF ReleaseInterrupted, AlreadySettled
  <1>4. CASE st[a].rw.op = "runtime-cleanup"
    BY <1>1, <1>4 DEF CleanNeeded, AlreadySettled
  <1> QED
    BY <1>2, <1>3, <1>4

LEMMA RecoverStartsInv ==
  ASSUME LedgerInv, NEW a \in Attempts, RecoverStarts(a)
  PROVE  LedgerInv'
  <1> USE DEF LedgerInv
  <1>1. PICK s \in Steps : Recovers(a, s)
    BY DEF RecoverStarts, Steps, CommitSteps
  <1>2. OnlyJob /\ job' = [Idle EXCEPT !.cmd = "recover", !.cur = a, !.step = s]
    BY <1>1 DEF Recovers
  <1>3. job' \in Job /\ job'.step = s /\ job'.cur = a
    BY <1>2 DEF Idle, Job, Commands
  <1>4. TypeOK' /\ Promised' /\ ReleasedByRewrite'
    BY <1>2, <1>3, JobOnly, SameRecords DEF OnlyJob
  <1>5. StepRelies'
    <2>1. CASE ReleaseInterrupted(a)
      <3>1. s = "settle"
        BY <1>3, <2>1 DEF RecoverStarts, Recovers, Idle
      <3> QED
        BY <1>3, <3>1, PlainRelies DEF PlainSteps
    <2>2. CASE ~ReleaseInterrupted(a) /\ CleanNeeded(a)
      <3>0. \/ Recovers(a, "clean-remove")
            \/ MayBeginRewrite(a) /\ Recovers(a, "clean-begin")
        BY <2>2 DEF RecoverStarts
      <3>1. s = "clean-remove" \/ (s = "clean-begin" /\ MayBeginRewrite(a))
        BY <1>3, <3>0 DEF Recovers, Idle
      <3>2. CASE s = "clean-remove"
        BY <1>3, <3>2, PlainRelies DEF PlainSteps
      <3>3. CASE s = "clean-begin" /\ MayBeginRewrite(a)
        <4>1. MayBeginRewrite(a)'
          BY <1>2, <3>3 DEF OnlyJob, MayBeginRewrite,
            AuthorizationRecordExact, BothSettled, Settled, Exact, Used
        <4> QED
          BY <1>3, <3>3, <4>1 DEF StepRelies, OnOneAttempt, CreatesAnew,
            StepsOnAttempt, RewritesAuthorized, RecoversUnpromised,
            RecoverySteps, ReclaimsReleased, At
      <3> QED
        BY <3>1, <3>2, <3>3
    <2>3. CASE ~ReleaseInterrupted(a) /\ ~CleanNeeded(a)
      <3>1. s \in {"conserve", "purge"} /\ ~AlreadySettled(a)
        BY <1>3, <2>3 DEF RecoverStarts, Recovers, Idle
      <3>2. ~st[a].rw.needs
        BY <2>3, <3>1, OwedIsNotClosed
      <3>3. ~st'[a].rw.needs
        BY <1>2, <3>2 DEF OnlyJob
      <3> QED
        BY <1>3, <3>1, <3>3 DEF StepRelies, OnOneAttempt, CreatesAnew,
          StepsOnAttempt, RewritesAuthorized, RecoversUnpromised,
          RecoverySteps, ReclaimsReleased, At
    <2> QED
      BY <2>1, <2>2, <2>3
  <1> QED
    BY <1>4, <1>5

LEMMA ReleaseStartsInv ==
  ASSUME LedgerInv, NEW a \in Attempts, ReleaseStarts(a)
  PROVE  LedgerInv'
  <1> USE DEF LedgerInv
  <1> DEFINE s == IF st[a].rw.op = "release" THEN "settle" ELSE "release-begin"
  <1>1. OnlyJob /\ job' \in Job /\ job'.step = s /\ job'.cur = a
    BY DEF ReleaseStarts, Idle, Job, Commands, Steps, CommitSteps
  <1>2. TypeOK' /\ Promised' /\ ReleasedByRewrite'
    BY <1>1, JobOnly, SameRecords DEF OnlyJob
  <1>3. StepRelies'
    <2>1. CASE s = "settle"
      BY <1>1, <2>1, PlainRelies DEF PlainSteps
    <2>2. CASE s = "release-begin"
      <3>1. MayBeginRewrite(a) /\ st[a].retention \in {"held", "released"}
        BY <2>2 DEF ReleaseStarts
      <3>2. MayBeginRewrite(a)' /\ st'[a].retention \in {"held", "released"}
        BY <1>1, <3>1 DEF OnlyJob, MayBeginRewrite,
          AuthorizationRecordExact, BothSettled, Settled, Exact, Used
      <3> QED
        BY <1>1, <2>2, <3>2 DEF StepRelies, OnOneAttempt, CreatesAnew,
          StepsOnAttempt, RewritesAuthorized, RecoversUnpromised,
          RecoverySteps, ReclaimsReleased, At
    <2> QED
      BY <2>1, <2>2
  <1> QED
    BY <1>2, <1>3

LEMMA CleanupStartsInv ==
  ASSUME LedgerInv, NEW a \in Attempts, CleanupStarts(a)
  PROVE  LedgerInv'
  <1> USE DEF LedgerInv
  <1>1. OnlyJob /\ job' \in Job /\ job'.cur = a
    BY DEF CleanupStarts, Idle, Job, Commands, Steps, CommitSteps
  <1>2. TypeOK' /\ Promised' /\ ReleasedByRewrite'
    BY <1>1, JobOnly, SameRecords DEF OnlyJob
  <1>3. StepRelies'
    <2>1. CASE dir[a] = "empty" /\ job'.step = "isolate"
      BY <1>1, <2>1, PlainRelies DEF PlainSteps
    <2>2. CASE /\ Reclaimable(a)
               /\ job'.step = IF st[a].retention = "reclaimed" THEN "unlink"
                              ELSE "reclaim-mark"
      BY <1>1, <2>2, ReclaimRelies DEF OnlyJob
    <2> QED
      BY <2>1, <2>2 DEF CleanupStarts, Idle
  <1> QED
    BY <1>2, <1>3

LEMMA StartInv ==
  ASSUME LedgerInv, Start
  PROVE  LedgerInv'
  <1> USE DEF LedgerInv
  <1>1. CASE RunStarts
    <2>1. OnlyJob /\ job' \in Job /\ job'.step = "scan"
      BY <1>1 DEF RunStarts, Idle, Job, Commands, Steps, CommitSteps
    <2>2. StepRelies'
      BY <2>1, PlainRelies DEF PlainSteps, StepsOnAttempt
    <2> QED
      BY <2>1, <2>2, JobOnly, SameRecords DEF OnlyJob
  <1>2. ASSUME NEW a \in Attempts, AuthorizeStarts(a)
        PROVE  LedgerInv'
    <2>1. CASE job' = [Idle EXCEPT !.cmd = "authorize", !.step = "authorize",
                         !.cur = a] /\ UNCHANGED waiting
      <3>1. OnlyJob /\ job' \in Job /\ job'.step = "authorize" /\ job'.cur = a
        BY <1>2, <2>1 DEF AuthorizeStarts, OnlyJob, Idle, Job, Commands, Steps,
          CommitSteps
      <3>2. StepRelies'
        BY <3>1, PlainRelies DEF PlainSteps
      <3> QED
        BY <3>1, <3>2, JobOnly, SameRecords DEF OnlyJob
    <2>2. CASE waiting' = waiting \ {a} /\ UNCHANGED job
      <3>1. job.cmd = "idle" /\ UNCHANGED <<dir, st, art, thisBoot, young, aged>>
        BY <1>2 DEF AuthorizeStarts
      <3>2. job' = Idle
        BY <2>2, <3>1 DEF TypeOK, Job, Commands
      <3>3. TypeOK'
        BY <2>2, <3>1 DEF TypeOK
      <3> QED
        BY <3>1, <3>2, <3>3, IdleRelies, SameRecords
    <2> QED
      BY <1>2, <2>1, <2>2 DEF AuthorizeStarts
  <1>3. ASSUME NEW a \in Attempts,
               CleanupStarts(a) \/ ReleaseStarts(a) \/ RecoverStarts(a)
        PROVE  LedgerInv'
    BY <1>3, CleanupStartsInv, ReleaseStartsInv, RecoverStartsInv
  <1> QED
    BY <1>1, <1>2, <1>3 DEF Start

-----------------------------------------------------------------------------
(* A run: the walk of the root, reclamation and admission *)

LEMMA RefusedInv ==
  ASSUME LedgerInv, Refused
  PROVE  LedgerInv'
  BY IdleRelies, SameRecords DEF LedgerInv, Refused, TypeOK

(* A step that only decides where its command goes next. *)
LEMMA GoesOn ==
  ASSUME LedgerInv, job.step \in Steps, NEW s \in PlainSteps, Goto(s), OnlyJob,
         s \in StepsOnAttempt => job.step \in StepsOnAttempt
  PROVE  LedgerInv'
  <1> USE DEF LedgerInv
  <1>1. s \in Steps
    BY DEF PlainSteps, Steps, CommitSteps
  <1>2. job' \in Job /\ job'.step = s /\ job'.cur = job.cur
    BY <1>1, GotoFacts
  <1>3. StepRelies'
    BY <1>2, CurrentAttempt, PlainRelies
  <1> QED
    BY <1>2, <1>3, JobOnly, SameRecords DEF OnlyJob

LEMMA ReclaimOrFailInv ==
  ASSUME LedgerInv, job.step \in Steps, NEW a \in Attempts,
         NEW back \in {"ttl-next", "admit"}, ReclaimOrFail(a, back)
  PROVE  LedgerInv'
  <1> USE DEF LedgerInv
  <1>1. CASE Reclaimable(a)
    <2>1. job \in Job
      BY JobTyped
    <2> DEFINE s == IF st[a].retention = "reclaimed" THEN "unlink"
                    ELSE "reclaim-mark"
    <2>0. s \in Steps
      BY DEF Steps, CommitSteps
    <2>2. OnlyJob /\ job' \in Job /\ job'.cur = a /\ job'.step = s
      <3>1. OnlyJob /\ job' = [job EXCEPT !.cur = a, !.back = back,
                                  !.todo = @ \ {a}, !.step = s]
        BY <1>1 DEF ReclaimOrFail
      <3> QED
        BY <2>0, <2>1, <3>1 DEF Job
    <2>3. StepRelies'
      BY <1>1, <2>2, ReclaimRelies DEF OnlyJob
    <2> QED
      BY <2>2, <2>3, JobOnly, SameRecords DEF OnlyJob
  <1>2. CASE ~Reclaimable(a)
    BY <1>2, RefusedInv DEF ReclaimOrFail
  <1> QED
    BY <1>1, <1>2

LEMMA ScanInv ==
  ASSUME LedgerInv, NEW a \in Attempts,
         ScanRestores(a) \/ ScanDropsResidue(a) \/ ScanRemoves(a)
  PROVE  LedgerInv'
  <1> USE DEF LedgerInv
  <1>1. job.step = "scan" /\ job \in Job
    BY JobTyped DEF ScanRestores, ScanDropsResidue, ScanRemoves, At, Steps
  <1>2. CASE \/ ScanRestores(a)
             \/ ScanDropsResidue(a) /\ a \notin young
    <2>1. /\ dir' = [dir EXCEPT ![a] = "empty"]
          /\ UNCHANGED <<st, art, job, waiting, thisBoot, young, aged>>
      BY <1>2 DEF ScanRestores, ScanDropsResidue
    <2>2. TypeOK'
      BY <2>1 DEF TypeOK, Dirs
    <2>3. StepRelies'
      BY <1>1, <2>1, PlainRelies DEF PlainSteps, StepsOnAttempt
    <2> QED
      BY <2>1, <2>2, <2>3, SameRecords
  <1>3. CASE ScanDropsResidue(a) /\ a \in young
    BY <1>3, RefusedInv DEF ScanDropsResidue
  <1>4. CASE ScanRemoves(a)
    <2>1. OnlyJob /\ job' \in Job /\ job'.step = "isolate" /\ job'.cur = a
      BY <1>1, <1>4 DEF ScanRemoves, Job, Steps
    <2>2. StepRelies'
      BY <2>1, PlainRelies DEF PlainSteps
    <2> QED
      BY <2>1, <2>2, JobOnly, SameRecords DEF OnlyJob
  <1>5. CASE ScanDropsResidue(a)
    BY <1>2, <1>3, <1>5
  <1>6. CASE ScanRestores(a)
    BY <1>2, <1>6
  <1> QED
    BY <1>4, <1>5, <1>6

LEMMA AdmissionInv ==
  ASSUME LedgerInv,
         \/ ScanEnds \/ TtlBegins \/ TtlEnds \/ AdmitFails \/ AdmitUnderPressure
         \/ \E a \in Attempts : TtlReclaims(a) \/ Admit(a)
  PROVE  LedgerInv'
  <1> USE DEF LedgerInv
  <1>1. CASE ScanEnds
    <2>1. Refused \/ (Goto("ttl") /\ OnlyJob)
      BY <1>1 DEF ScanEnds
    <2>2. job.step \in Steps
      BY <1>1 DEF ScanEnds, At, Steps
    <2> QED
      BY <2>1, <2>2, RefusedInv, GoesOn DEF PlainSteps, StepsOnAttempt
  <1>2. CASE TtlBegins
    <2>1. job \in Job
      BY <1>2, JobTyped DEF TtlBegins, At, Steps
    <2>2. CASE CandidatesFail
      BY <1>2, <2>2, RefusedInv DEF TtlBegins
    <2>3. CASE ~CandidatesFail
      <3>1. /\ OnlyJob
            /\ job' = [job EXCEPT !.step = "ttl-next", !.todo = Candidates(TRUE)]
        BY <1>2, <2>3 DEF TtlBegins
      <3>2. Candidates(TRUE) \subseteq Attempts
        BY DEF Candidates, Live
      <3>3. job' \in Job /\ job'.step = "ttl-next"
        BY <2>1, <3>1, <3>2 DEF Job, Steps
      <3>4. StepRelies'
        BY <3>3, PlainRelies DEF PlainSteps, StepsOnAttempt
      <3> QED
        BY <3>1, <3>3, <3>4, JobOnly, SameRecords DEF OnlyJob
    <2> QED
      BY <2>2, <2>3
  <1>3. CASE TtlEnds
    BY <1>3, GoesOn DEF TtlEnds, At, Steps, PlainSteps, StepsOnAttempt
  <1>4. CASE AdmitFails
    BY <1>4, RefusedInv DEF AdmitFails
  <1>5. CASE AdmitUnderPressure
    <2>1. job.step \in Steps
      BY <1>5 DEF AdmitUnderPressure, At, Steps
    <2>2. Candidates(FALSE) \subseteq Attempts
      BY DEF Candidates, Live
    <2>3. CASE Refused
      BY <2>3, RefusedInv
    <2>4. CASE \E a \in Candidates(FALSE) : ReclaimOrFail(a, "admit")
      BY <2>1, <2>2, <2>4, ReclaimOrFailInv
    <2> QED
      BY <1>5, <2>3, <2>4 DEF AdmitUnderPressure
  <1>6. ASSUME NEW a \in Attempts, TtlReclaims(a)
        PROVE  LedgerInv'
    BY <1>6, ReclaimOrFailInv DEF TtlReclaims, At, Steps
  <1>7. ASSUME NEW a \in Attempts, Admit(a)
        PROVE  LedgerInv'
    <2>1. job \in Job
      BY <1>7, JobTyped DEF Admit, At, Steps
    <2>2. /\ dir' = [dir EXCEPT ![a] = "empty"]
          /\ UNCHANGED <<st, art, waiting, thisBoot, young, aged>>
          /\ job' \in Job /\ job'.step = "create-temp" /\ job'.cur = a
      BY <1>7, <2>1 DEF Admit, Job, Steps
    <2>3. TypeOK'
      BY <2>2 DEF TypeOK, Dirs
    <2>4. dir'[a] # "live"
      BY <2>2 DEF TypeOK
    <2>5. StepRelies'
      BY <2>2, <2>4 DEF StepRelies, OnOneAttempt, CreatesAnew, StepsOnAttempt,
        RewritesAuthorized, RecoversUnpromised, RecoverySteps, ReclaimsReleased,
        At
    <2> QED
      BY <2>2, <2>3, <2>5, SameRecords
  <1> QED
    BY <1>1, <1>2, <1>3, <1>4, <1>5, <1>6, <1>7

LEMMA ViewFacts ==
  ASSUME NEW v \in AR!LedgerViews
  PROVE  /\ v.settled \in BOOLEAN /\ v.verdict \in BOOLEAN
         /\ v.csettle \in {"outstanding", "exact"}
         /\ v.wt \in {"hidden", "visible", "manual"}
  BY DEF AR!LedgerViews, AR!Settlements

LEMMA CreationInv ==
  ASSUME LedgerInv, CreateTemp \/ CreateFails \/ CreateRecord
  PROVE  LedgerInv'
  <1> USE DEF LedgerInv
  <1>1. job.step \in {"create-temp", "create-state"} /\ job.step \in Steps
    BY DEF CreateTemp, CreateFails, CreateRecord, At, Steps
  <1>2. job \in Job /\ job.cur \in Attempts
    BY <1>1, JobTyped, CurrentAttempt DEF StepsOnAttempt
  <1>3. CASE CreateTemp
    <2>1. job' \in Job /\ job'.step = "create-state" /\ job'.cur = job.cur
      BY <1>1, <1>3, GotoFacts DEF CreateTemp, Steps
    <2>2. TypeOK' /\ dir'[job.cur] # "live"
      BY <1>2, <1>3, <2>1 DEF CreateTemp, TypeOK, Dirs
    <2>3. StepRelies'
      BY <1>2, <2>1, <2>2 DEF StepRelies, OnOneAttempt, CreatesAnew,
        StepsOnAttempt, RewritesAuthorized, RecoversUnpromised, RecoverySteps,
        ReclaimsReleased, At
    <2> QED
      BY <1>3, <2>2, <2>3, SameRecords DEF CreateTemp
  <1>4. CASE CreateFails
    <2>1. TypeOK'
      BY <1>2, <1>4 DEF CreateFails, TypeOK, Dirs
    <2> QED
      BY <1>4, <2>1, IdleRelies, SameRecords DEF CreateFails
  <1>5. CASE CreateRecord
    <2>1. job' \in Job /\ job'.step = "review" /\ job'.cur = job.cur
      BY <1>1, <1>5, GotoFacts DEF CreateRecord, Steps
    <2>2. /\ st' \in [Attempts -> State] /\ st'[job.cur] = Reserved
          /\ \A b \in Attempts : b # job.cur => st'[b] = st[b]
      BY <1>2, <1>5, ReservedType DEF CreateRecord, TypeOK
    <2>3. TypeOK'
      BY <1>2, <1>5, <2>1, <2>2 DEF CreateRecord, TypeOK, Dirs
    <2>4. StepRelies'
      BY <1>2, <2>1, <2>2 DEF StepRelies, OnOneAttempt, CreatesAnew,
        StepsOnAttempt, RewritesAuthorized, RecoversUnpromised, RecoverySteps,
        ReclaimsReleased, At, Reserved
    <2>5. Promised' /\ ReleasedByRewrite'
      BY <1>2, <2>2 DEF Promised, ReleasedByRewrite, Reserved, NoRewrite,
        BothSettled, Settled
    <2> QED
      BY <2>3, <2>4, <2>5
  <1> QED
    BY <1>3, <1>4, <1>5

LEMMA RunEndsFacts ==
  ASSUME LedgerInv, RunEnds
  PROVE  /\ job.cur \in Attempts /\ st[job.cur].retention = "active"
         /\ job' = Idle /\ UNCHANGED dir
         /\ TypeOK'
         /\ st'[job.cur].retention \in {"active", "held"}
         /\ st'[job.cur].rw = NoRewrite
         /\ \A b \in Attempts : b # job.cur => st'[b] = st[b]
  <1> USE DEF LedgerInv
  <1>1. job.step = "review" /\ job.step \in Steps
    BY DEF RunEnds, At, Steps
  <1>2. job.cur \in Attempts
    BY <1>1, CurrentAttempt DEF StepsOnAttempt
  <1>3. st[job.cur].retention = "active" /\ st[job.cur].rw = NoRewrite
    BY <1>1 DEF StepRelies, CreatesAnew, At
  <1>4. PICK v \in AR!LedgerViews, r \in 0..1, extra \in 0..1 :
          LET t == (IF v.settled THEN 1 ELSE 0) + extra IN
          /\ t <= MaxTemps
          /\ art' = [art EXCEPT ![job.cur] = [files |-> 1, temps |-> t, runtime |-> r]]
          /\ st' = [st EXCEPT ![job.cur] =
                   [@ EXCEPT !.retention = IF v.settled THEN "held" ELSE "active",
                             !.csettle = v.csettle, !.wt = v.wt,
                             !.verdict = v.verdict /\ v.settled,
                             !.charge = IF v.settled THEN 3 + r ELSE Envelope]]
          /\ waiting' = IF v.verdict /\ v.settled /\ v.csettle = "exact"
                        THEN waiting \cup {job.cur} ELSE waiting
    BY DEF RunEnds
  <1> DEFINE s == [st[job.cur] EXCEPT
                     !.retention = IF v.settled THEN "held" ELSE "active",
                     !.csettle = v.csettle, !.wt = v.wt,
                     !.verdict = v.verdict /\ v.settled,
                     !.charge = IF v.settled THEN 3 + r ELSE Envelope]
  <1>5. st[job.cur] \in State
    BY <1>2 DEF TypeOK
  <1>6. 3 + r \in 0..Envelope /\ Envelope \in 0..Envelope
    BY EnvelopeAssumption
  <1>7. s \in State
    BY <1>5, <1>6, ViewFacts DEF State
  <1>8. st' = [st EXCEPT ![job.cur] = s]
    BY <1>4
  <1>9. st' \in [Attempts -> State]
    BY <1>7, <1>8 DEF TypeOK
  <1>10. art' \in [Attempts -> Artifacts]
    BY <1>2, <1>4, EnvelopeAssumption DEF TypeOK, Artifacts
  <1>11. waiting' \subseteq Attempts
    BY <1>2, <1>4 DEF TypeOK
  <1>12. TypeOK'
    BY <1>9, <1>10, <1>11 DEF TypeOK, RunEnds
  <1>13. st'[job.cur] = s
    BY <1>2, <1>8 DEF TypeOK
  <1>14. s.retention \in {"active", "held"} /\ s.rw = NoRewrite
    BY <1>3, <1>5 DEF State
  <1> HIDE DEF s
  <1>15. \A b \in Attempts : b # job.cur => st'[b] = st[b]
    BY <1>8 DEF TypeOK
  <1> QED
    BY <1>2, <1>3, <1>12, <1>13, <1>14, <1>15 DEF RunEnds

LEMMA RunEndsInv ==
  ASSUME LedgerInv, RunEnds
  PROVE  LedgerInv'
  <1>1. Promised' /\ ReleasedByRewrite'
    BY RunEndsFacts DEF LedgerInv, Promised, ReleasedByRewrite, NoRewrite,
      BothSettled, Settled
  <1> QED
    BY <1>1, RunEndsFacts, IdleRelies DEF LedgerInv

LEMMA RunStepInv ==
  ASSUME LedgerInv, RunStep
  PROVE  LedgerInv'
  BY ScanInv, AdmissionInv, CreationInv, RunEndsInv DEF RunStep

-----------------------------------------------------------------------------
(* Rewriting one record *)

(* What Promised and ReleasedByRewrite say of a single record *)
Sound(s) ==
  /\ s.rw.needs => /\ s.rw.op # "none"
                   /\ s.verdict /\ s.retention # "active"
                   /\ s.csettle = "exact" /\ s.auth # "none"
  /\ s.retention \in {"released", "reclaiming", "reclaimed"} => s.rw.op # "none"

LEMMA RecordIsSound ==
  ASSUME LedgerInv, NEW a \in Attempts
  PROVE  st[a] \in State /\ Sound(st[a])
  BY DEF LedgerInv, TypeOK, Promised, ReleasedByRewrite, Sound, BothSettled,
    Settled

LEMMA SoundRecordsInv ==
  ASSUME \A a \in Attempts : Sound(st'[a])
  PROVE  Promised' /\ ReleasedByRewrite'
  BY DEF Promised, ReleasedByRewrite, Sound, BothSettled, Settled

LEMMA WriteInv ==
  ASSUME LedgerInv, NEW a \in Attempts, NEW s \in State, Sound(s),
         st' = [st EXCEPT ![a] = s]
  PROVE  st' \in [Attempts -> State] /\ Promised' /\ ReleasedByRewrite'
  <1>1. st' \in [Attempts -> State]
    BY DEF LedgerInv, TypeOK
  <1>2. \A b \in Attempts : Sound(st'[b])
    BY RecordIsSound DEF LedgerInv, TypeOK
  <1> QED
    BY <1>1, <1>2, SoundRecordsInv

LEMMA CommitInv ==
  ASSUME LedgerInv, NEW a \in Attempts, NEW s \in State, Sound(s), Commit(a, s)
  PROVE  st' \in [Attempts -> State] /\ Promised' /\ ReleasedByRewrite'
  <1> DEFINE t == [s EXCEPT !.auth = IF @ = "last" THEN "stale" ELSE @]
  <1>1. t \in State
    BY DEF State
  <1>2. Sound(t)
    BY DEF Sound, State
  <1>3. st' = [st EXCEPT ![a] = t]
    BY DEF Commit
  <1> HIDE DEF t
  <1> QED
    BY <1>1, <1>2, <1>3, WriteInv

LEMMA RecordType ==
  ASSUME TypeOK, job' \in Job \cup {Idle}, st' \in [Attempts -> State], OnlyRecord
  PROVE  TypeOK'
  BY DEF TypeOK, OnlyRecord

LEMMA RecoveryRelies ==
  ASSUME job'.cur \in Attempts, job'.step \in RecoverySteps,
         ~st'[job'.cur].rw.needs,
         job'.step \notin {"conserve", "purge"} => art'[job'.cur].temps = 0
  PROVE  StepRelies'
  BY DEF StepRelies, OnOneAttempt, CreatesAnew, StepsOnAttempt,
    RewritesAuthorized, RecoversUnpromised, RecoverySteps, ReclaimsReleased, At

-----------------------------------------------------------------------------
(* Reclaiming *)

LEMMA ReclaimMarksInv ==
  ASSUME LedgerInv, ReclaimMarks
  PROVE  LedgerInv'
  <1> DEFINE a == job.cur
             s == [st[a] EXCEPT !.retention = "reclaiming", !.charge = Envelope]
  <1>1. job.step = "reclaim-mark" /\ job.step \in Steps /\ a \in Attempts
    BY CurrentAttempt DEF LedgerInv, ReclaimMarks, At, Steps, CommitSteps,
      StepsOnAttempt
  <1>2. BothSettled(a) /\ st[a].rw.op # "none" /\ st[a].rw.status = "complete"
    BY <1>1 DEF LedgerInv, StepRelies, ReclaimsReleased
  <1>0. s \in State
    <2>1. st[a] \in State
      BY <1>1, RecordIsSound
    <2>2. Envelope \in 0..Envelope
      BY EnvelopeAssumption
    <2> QED
      BY <2>1, <2>2 DEF State
  <1>3. Sound(s)
    BY <1>1, <1>2, RecordIsSound DEF State, Sound, BothSettled
  <1>4. Commit(a, s)
    BY DEF ReclaimMarks
  <1>5. /\ st' \in [Attempts -> State] /\ Promised' /\ ReleasedByRewrite'
        /\ st'[a].retention = s.retention /\ st'[a].csettle = s.csettle
        /\ st'[a].rw = s.rw
    BY <1>0, <1>1, <1>3, <1>4, CommitInv, CommitFacts DEF LedgerInv
  <1>6. /\ st'[a].retention = "reclaiming" /\ st'[a].csettle = "exact"
        /\ st'[a].rw = st[a].rw
    BY <1>1, <1>2, <1>5, RecordIsSound DEF State, BothSettled
  <1>7. job' \in Job /\ job'.step = "reclaim-files" /\ job'.cur = a
    BY <1>1, GotoFacts DEF LedgerInv, ReclaimMarks, Steps
  <1>8. TypeOK'
    BY <1>5, <1>7, RecordType DEF LedgerInv, ReclaimMarks
  <1>9. StepRelies'
    BY <1>1, <1>2, <1>6, <1>7 DEF StepRelies, OnOneAttempt, CreatesAnew,
      StepsOnAttempt, RewritesAuthorized, RecoversUnpromised, RecoverySteps,
      ReclaimsReleased, At, BothSettled, Settled
  <1> QED
    BY <1>5, <1>8, <1>9 DEF LedgerInv

LEMMA ReclaimUnlinksInv ==
  ASSUME LedgerInv, ReclaimUnlinks
  PROVE  LedgerInv'
  <1> USE DEF LedgerInv
  <1>1. job.step = "reclaim-files" /\ job.cur \in Attempts
    BY CurrentAttempt DEF ReclaimUnlinks, At, Steps, StepsOnAttempt
  <1>2. UNCHANGED <<dir, st, job, waiting, thisBoot, young, aged>>
    BY DEF ReclaimUnlinks
  <1>3. art[job.cur] \in Artifacts
    BY <1>1 DEF TypeOK
  <1>4. art' \in [Attempts -> Artifacts]
    <2>1. CASE /\ art[job.cur].files > 0
               /\ art' = [art EXCEPT ![job.cur].files = @ - 1]
      BY <1>1, <1>3, <2>1 DEF TypeOK, Artifacts
    <2>2. CASE /\ art[job.cur].temps > 0
               /\ art' = [art EXCEPT ![job.cur].temps = @ - 1]
      BY <1>1, <1>3, <2>2, EnvelopeAssumption DEF TypeOK, Artifacts
    <2> QED
      BY <2>1, <2>2 DEF ReclaimUnlinks
  <1>5. TypeOK'
    BY <1>2, <1>4 DEF TypeOK
  <1>6. StepRelies'
    BY <1>1, <1>2 DEF StepRelies, OnOneAttempt, CreatesAnew, StepsOnAttempt,
      RewritesAuthorized, RecoversUnpromised, RecoverySteps, ReclaimsReleased,
      At, BothSettled, Settled
  <1> QED
    BY <1>2, <1>5, <1>6, SameRecords

LEMMA ReclaimTombstoneInv ==
  ASSUME LedgerInv, ReclaimTombstone
  PROVE  LedgerInv'
  <1> DEFINE a == job.cur
             s == [st[a] EXCEPT !.retention = "reclaimed", !.charge = 0]
  <1>1. job.step = "reclaim-done" /\ job.step \in Steps /\ a \in Attempts
    BY CurrentAttempt DEF LedgerInv, ReclaimTombstone, At, Steps, CommitSteps,
      StepsOnAttempt
  <1>2. BothSettled(a) /\ st[a].rw.op # "none"
    BY <1>1 DEF LedgerInv, StepRelies, ReclaimsReleased
  <1>3. s \in State
    <2>1. st[a] \in State
      BY <1>1, RecordIsSound
    <2>2. 0 \in 0..Envelope
      BY EnvelopeAssumption
    <2> QED
      BY <2>1, <2>2 DEF State
  <1>4. Sound(s)
    BY <1>1, <1>2, RecordIsSound DEF State, Sound, BothSettled
  <1>5. Commit(a, s)
    BY DEF ReclaimTombstone
  <1>6. st' \in [Attempts -> State] /\ Promised' /\ ReleasedByRewrite'
    BY <1>1, <1>3, <1>4, <1>5, CommitInv
  <1>7. job' \in Job /\ job'.step = "unlink" /\ job'.cur = a
    BY <1>1, GotoFacts DEF LedgerInv, ReclaimTombstone, Steps
  <1>8. TypeOK'
    BY <1>6, <1>7, RecordType DEF LedgerInv, ReclaimTombstone
  <1>9. StepRelies'
    BY <1>1, <1>7, PlainRelies DEF PlainSteps
  <1> QED
    BY <1>6, <1>8, <1>9 DEF LedgerInv

LEMMA RemoveRecordInv ==
  ASSUME LedgerInv, RemoveRecord
  PROVE  LedgerInv'
  <1>1. job.step = "unlink" /\ job.step \in Steps /\ job.cur \in Attempts
    BY CurrentAttempt DEF LedgerInv, RemoveRecord, At, Steps, CommitSteps,
      StepsOnAttempt
  <1>2. CASE art[job.cur] # NoArtifacts
    BY <1>2, RefusedInv DEF RemoveRecord
  <1>3. CASE art[job.cur] = NoArtifacts
    <2>1. job' \in Job /\ job'.step = "isolate" /\ job'.cur = job.cur
      BY <1>1, <1>3, GotoFacts DEF LedgerInv, RemoveRecord, Steps
    <2>2. Reserved \in State /\ Sound(Reserved)
      BY ReservedType DEF Sound, Reserved, NoRewrite
    <2>3. st' \in [Attempts -> State] /\ Promised' /\ ReleasedByRewrite'
      BY <1>1, <1>3, <2>2, WriteInv DEF RemoveRecord
    <2>4. TypeOK'
      BY <1>1, <1>3, <2>1, <2>3 DEF LedgerInv, RemoveRecord, TypeOK, Dirs
    <2>5. StepRelies'
      BY <1>1, <2>1, PlainRelies DEF PlainSteps
    <2> QED
      BY <2>3, <2>4, <2>5 DEF LedgerInv
  <1> QED
    BY <1>2, <1>3

LEMMA RemovalInv ==
  ASSUME LedgerInv, Isolate \/ RemoveDirectory \/ RemovalUndone
  PROVE  LedgerInv'
  <1> USE DEF LedgerInv
  <1>1. job.step \in {"isolate", "rmdir"} /\ job.step \in Steps
    BY DEF Isolate, RemoveDirectory, RemovalUndone, At, Steps
  <1>2. job \in Job /\ job.cur \in Attempts
    BY <1>1, JobTyped, CurrentAttempt DEF StepsOnAttempt
  <1>3. CASE Isolate
    <2>1. job' \in Job /\ job'.step = "rmdir" /\ job'.cur = job.cur
      BY <1>1, <1>3, GotoFacts DEF Isolate, Steps
    <2>2. TypeOK'
      BY <1>3, <2>1 DEF Isolate, TypeOK, Dirs
    <2>3. StepRelies'
      BY <1>2, <2>1, PlainRelies DEF PlainSteps
    <2> QED
      BY <1>3, <2>2, <2>3, SameRecords DEF Isolate
  <1>4. CASE RemoveDirectory
    <2>1. CASE job.back = "idle"
      <3>1. job' = Idle
        BY <1>4, <2>1 DEF RemoveDirectory
      <3>2. TypeOK'
        BY <1>4, <3>1 DEF RemoveDirectory, TypeOK, Dirs
      <3> QED
        BY <1>4, <3>1, <3>2, IdleRelies, SameRecords DEF RemoveDirectory
    <2>2. CASE job.back # "idle"
      <3>1. job' = [job EXCEPT !.cur = None, !.step = job.back, !.back = "idle"]
        BY <1>4, <2>2 DEF RemoveDirectory
      <3>2. job' \in Job /\ job'.step \in {"scan", "ttl-next", "admit"}
        BY <1>2, <2>2, <3>1 DEF Job, Steps
      <3>3. TypeOK'
        BY <1>4, <3>2 DEF RemoveDirectory, TypeOK, Dirs
      <3>4. StepRelies'
        BY <3>2, PlainRelies DEF PlainSteps, StepsOnAttempt
      <3> QED
        BY <1>4, <3>3, <3>4, SameRecords DEF RemoveDirectory
    <2> QED
      BY <2>1, <2>2
  <1>5. CASE RemovalUndone
    <2>1. TypeOK'
      BY <1>5 DEF RemovalUndone, TypeOK, Dirs
    <2> QED
      BY <1>5, <2>1, IdleRelies, SameRecords DEF RemovalUndone
  <1> QED
    BY <1>3, <1>4, <1>5

LEMMA ReclaimStepInv ==
  ASSUME LedgerInv, ReclaimStep
  PROVE  LedgerInv'
  <1>1. CASE ReclaimMeetsRuntime
    BY <1>1, RefusedInv DEF ReclaimMeetsRuntime
  <1>2. CASE ReclaimEmptied
    <2> USE DEF LedgerInv
    <2>1. job.step = "reclaim-files" /\ job.step \in Steps /\ job.cur \in Attempts
      BY <1>2, CurrentAttempt DEF ReclaimEmptied, At, Steps, StepsOnAttempt
    <2>2. job' \in Job /\ job'.step = "reclaim-done" /\ job'.cur = job.cur
      BY <1>2, <2>1, GotoFacts DEF ReclaimEmptied, Steps, CommitSteps
    <2>3. OnlyJob
      BY <1>2 DEF ReclaimEmptied
    <2>4. StepRelies'
      BY <2>1, <2>2, <2>3 DEF OnlyJob, StepRelies, OnOneAttempt, CreatesAnew,
        StepsOnAttempt, RewritesAuthorized, RecoversUnpromised, RecoverySteps,
        ReclaimsReleased, At, BothSettled, Settled
    <2> QED
      BY <2>2, <2>3, <2>4, JobOnly, SameRecords DEF OnlyJob
  <1> QED
    BY <1>1, <1>2, ReclaimMarksInv, ReclaimUnlinksInv, ReclaimTombstoneInv,
      RemoveRecordInv, RemovalInv DEF ReclaimStep
-----------------------------------------------------------------------------
(* Authorizing, releasing and recovering *)

LEMMA AuthorizedFacts ==
  ASSUME LedgerInv, NEW a \in Attempts
  PROVE  /\ Authorized(a) \in State /\ Sound(Authorized(a))
         /\ Authorized(a).auth = "last"
         /\ Authorized(a).retention = st[a].retention
  <1>1. st[a] \in State /\ Sound(st[a])
    BY RecordIsSound
  <1>2. Used(a) \in 0..Envelope
    BY UsedBound, EnvelopeAssumption DEF LedgerInv
  <1>3. Authorized(a) \in State
    BY <1>1, <1>2 DEF Authorized, State, Rewrite
  <1>4. /\ Authorized(a).auth = "last"
        /\ Authorized(a).rw.op = st[a].rw.op
        /\ Authorized(a).rw.needs = st[a].rw.needs
        /\ Authorized(a).verdict = st[a].verdict
        /\ Authorized(a).retention = st[a].retention
        /\ Authorized(a).csettle = st[a].csettle
    BY <1>1 DEF Authorized, State, Rewrite
  <1>5. Sound(Authorized(a))
    BY <1>1, <1>4 DEF Sound
  <1> QED
    BY <1>3, <1>4, <1>5

LEMMA AuthorizeCommitsInv ==
  ASSUME LedgerInv, AuthorizeCommits
  PROVE  LedgerInv'
  <1>1. job.cur \in Attempts
    BY CurrentAttempt DEF LedgerInv, AuthorizeCommits, At, Steps, CommitSteps,
      StepsOnAttempt
  <1>2. st' = [st EXCEPT ![job.cur] = Authorized(job.cur)]
    BY DEF AuthorizeCommits
  <1>3. st' \in [Attempts -> State] /\ Promised' /\ ReleasedByRewrite'
    BY <1>1, <1>2, AuthorizedFacts, WriteInv
  <1>4. TypeOK'
    BY <1>3 DEF LedgerInv, AuthorizeCommits, TypeOK
  <1>5. StepRelies'
    BY IdleRelies DEF AuthorizeCommits
  <1> QED
    BY <1>3, <1>4, <1>5 DEF LedgerInv

(* What a rewrite undertakes when it begins, and that it may undertake it. *)
LEMMA BeginRewriteInv ==
  ASSUME LedgerInv, NEW a \in Attempts, MayBeginRewrite(a),
         NEW op \in {"release", "runtime-cleanup"},
         NEW r \in {"active", "held", "released", "reclaiming", "reclaimed"},
         st[a].retention # "active" => r # "active",
         BeginRewrite(a, op, r)
  PROVE  st' \in [Attempts -> State] /\ Promised' /\ ReleasedByRewrite'
  <1> DEFINE w == [op |-> op, status |-> "pending", needs |-> st[a].verdict]
             s == [st[a] EXCEPT !.retention = r, !.charge = Envelope, !.rw = w]
  <1>1. st[a] \in State
    BY RecordIsSound
  <1>2. w \in Rewrite
    BY <1>1 DEF Rewrite, State
  <1>3. Envelope \in 0..Envelope
    BY EnvelopeAssumption
  <1>4. Commit(a, s)
    BY DEF BeginRewrite
  <1>5. w.needs = st[a].verdict /\ w.op # "none"
    OBVIOUS
  <1> HIDE DEF w
  <1>6. s \in State
    BY <1>1, <1>2, <1>3 DEF State
  <1>7. st[a].verdict => /\ st[a].retention # "active" /\ st[a].csettle = "exact"
                         /\ st[a].auth = "last"
    BY DEF MayBeginRewrite, AuthorizationRecordExact, BothSettled, Settled
  <1>8. /\ s.retention = r /\ s.rw = w /\ s.verdict = st[a].verdict
        /\ s.csettle = st[a].csettle /\ s.auth = st[a].auth
    BY <1>1 DEF State
  <1>9. Sound(s)
    BY <1>5, <1>7, <1>8 DEF Sound
  <1> QED
    BY <1>4, <1>6, <1>9, CommitInv

LEMMA RewriteBeginsInv ==
  ASSUME LedgerInv, ReleaseBegins \/ CleanBegins
  PROVE  LedgerInv'
  <1>1. /\ job.step \in {"release-begin", "clean-begin"} /\ job.step \in Steps
        /\ job.cur \in Attempts
    BY CurrentAttempt DEF LedgerInv, ReleaseBegins, CleanBegins, At, Steps,
      CommitSteps, StepsOnAttempt
  <1>2. MayBeginRewrite(job.cur)
    BY <1>1 DEF LedgerInv, StepRelies, RewritesAuthorized
  <1>3. st' \in [Attempts -> State] /\ Promised' /\ ReleasedByRewrite'
    <2>1. CASE ReleaseBegins
      BY <1>1, <1>2, <2>1, BeginRewriteInv DEF ReleaseBegins
    <2>2. CASE CleanBegins
      <3>1. st[job.cur].retention
              \in {"active", "held", "released", "reclaiming", "reclaimed"}
        BY <1>1, RecordIsSound DEF State
      <3> QED
        BY <1>1, <1>2, <2>2, <3>1, BeginRewriteInv DEF CleanBegins
    <2> QED
      BY <2>1, <2>2
  <1>4. /\ job' \in Job /\ job'.step \in {"settle", "clean-remove"}
        /\ job'.cur = job.cur /\ OnlyRecord
    BY <1>1, GotoFacts DEF LedgerInv, ReleaseBegins, CleanBegins, Steps,
      CommitSteps
  <1>5. TypeOK' /\ StepRelies'
    BY <1>1, <1>3, <1>4, RecordType, PlainRelies DEF LedgerInv, PlainSteps
  <1> QED
    BY <1>3, <1>5 DEF LedgerInv

LEMMA RemovesResidueInv ==
  ASSUME LedgerInv, RemovesResidue
  PROVE  LedgerInv'
  <1> USE DEF LedgerInv
  <1>1. /\ job.step \in {"clean-remove", "purge"} /\ job.step \in Steps
        /\ job.cur \in Attempts
    BY CurrentAttempt DEF RemovesResidue, Steps, CommitSteps, StepsOnAttempt
  <1>2. /\ art[job.cur] \in Artifacts
        /\ UNCHANGED <<dir, st, waiting, thisBoot, young, aged>>
    BY <1>1 DEF RemovesResidue, TypeOK
  <1>3. ~At("clean-remove") => ~st[job.cur].rw.needs
    BY <1>1 DEF StepRelies, RecoversUnpromised, RecoverySteps, At
  <1>4. CASE /\ art[job.cur].temps > 0
             /\ art' = [art EXCEPT ![job.cur].temps = @ - 1]
             /\ UNCHANGED job
    <2>1. art' \in [Attempts -> Artifacts]
      BY <1>1, <1>2, <1>4, EnvelopeAssumption DEF TypeOK, Artifacts
    <2>2. TypeOK'
      BY <1>2, <1>4, <2>1 DEF TypeOK
    <2>3. StepRelies'
      BY <1>1, <1>2, <1>3, <1>4 DEF StepRelies, OnOneAttempt, CreatesAnew,
        StepsOnAttempt, RewritesAuthorized, RecoversUnpromised, RecoverySteps,
        ReclaimsReleased, At
    <2> QED
      BY <1>2, <2>2, <2>3, SameRecords
  <1>5. CASE /\ art[job.cur].temps = 0
             /\ art' = [art EXCEPT ![job.cur].runtime = 0]
             /\ Goto(IF At("purge") THEN "mark" ELSE "settle")
    <2>1. art' \in [Attempts -> Artifacts] /\ art'[job.cur].temps = 0
      BY <1>1, <1>2, <1>5 DEF TypeOK, Artifacts
    <2>2. /\ job' \in Job /\ job'.cur = job.cur
          /\ job'.step = IF At("purge") THEN "mark" ELSE "settle"
      BY <1>1, <1>5, GotoFacts DEF Steps, CommitSteps
    <2>3. TypeOK'
      BY <1>2, <2>1, <2>2 DEF TypeOK
    <2>4. StepRelies'
      <3>1. CASE At("purge")
        <4>1. /\ job'.cur \in Attempts /\ job'.step \in RecoverySteps
              /\ ~st'[job'.cur].rw.needs /\ art'[job'.cur].temps = 0
          BY <1>1, <1>2, <1>3, <2>1, <2>2, <3>1 DEF At, RecoverySteps
        <4> QED
          BY <4>1, RecoveryRelies
      <3>2. CASE ~At("purge")
        BY <1>1, <2>2, <3>2, PlainRelies DEF PlainSteps
      <3> QED
        BY <3>1, <3>2
    <2> QED
      BY <1>2, <2>3, <2>4, SameRecords
  <1> QED
    BY <1>4, <1>5 DEF RemovesResidue

LEMMA SettlesInv ==
  ASSUME LedgerInv, Settles
  PROVE  LedgerInv'
  <1> DEFINE a == job.cur
             s == [st[a] EXCEPT !.charge = Used(a)]
  <1>1. job.step = "settle" /\ job.step \in Steps /\ a \in Attempts
    BY CurrentAttempt DEF LedgerInv, Settles, At, Steps, CommitSteps,
      StepsOnAttempt
  <1>2. s \in State /\ Sound(s)
    <2>1. st[a] \in State /\ Sound(st[a]) /\ Used(a) \in 0..Envelope
      BY <1>1, RecordIsSound, UsedBound, EnvelopeAssumption DEF LedgerInv
    <2>2. s \in State
      BY <2>1 DEF State
    <2>3. Sound(s)
      BY <2>1 DEF State, Sound
    <2> QED
      BY <2>2, <2>3
  <1>3. st' \in [Attempts -> State] /\ Promised' /\ ReleasedByRewrite'
    <2>1. CASE UNCHANGED st
      BY <2>1, SameRecords DEF LedgerInv, TypeOK
    <2>2. CASE Commit(a, s)
      BY <1>1, <1>2, <2>2, CommitInv
    <2> QED
      BY <2>1, <2>2 DEF Settles
  <1>4. job' \in Job /\ job'.step = "finish" /\ job'.cur = a
    BY <1>1, GotoFacts DEF LedgerInv, Settles, Steps, CommitSteps
  <1>5. TypeOK' /\ StepRelies'
    BY <1>1, <1>3, <1>4, RecordType, PlainRelies DEF LedgerInv, Settles, PlainSteps
  <1> QED
    BY <1>3, <1>5 DEF LedgerInv

LEMMA FinishesInv ==
  ASSUME LedgerInv, Finishes
  PROVE  LedgerInv'
  <1> DEFINE a == job.cur
             s == [st[a] EXCEPT !.rw.status = "complete"]
  <1>1. a \in Attempts
    BY CurrentAttempt DEF LedgerInv, Finishes, At, Steps, CommitSteps,
      StepsOnAttempt
  <1>2. s \in State /\ Sound(s)
    <2>1. st[a] \in State /\ Sound(st[a])
      BY <1>1, RecordIsSound
    <2>2. s \in State
      BY <2>1 DEF State, Rewrite
    <2>3. Sound(s)
      BY <2>1 DEF State, Rewrite, Sound
    <2> QED
      BY <2>2, <2>3
  <1>3. st' \in [Attempts -> State] /\ Promised' /\ ReleasedByRewrite'
    <2>1. CASE UNCHANGED st
      BY <2>1, SameRecords DEF LedgerInv, TypeOK
    <2>2. CASE Commit(a, s)
      BY <1>1, <1>2, <2>2, CommitInv
    <2>3. CASE st' = [st EXCEPT ![a] = Authorized(a)]
      BY <1>1, <2>3, AuthorizedFacts, WriteInv
    <2> QED
      BY <2>1, <2>2, <2>3 DEF Finishes
  <1>4. TypeOK' /\ StepRelies'
    BY <1>3, RecordType, IdleRelies DEF LedgerInv, Finishes
  <1> QED
    BY <1>3, <1>4 DEF LedgerInv

(* A record that owes nothing may be closed and settled in any way. *)
LEMMA RecoveryRecord ==
  ASSUME LedgerInv, job.step \in RecoverySteps
  PROVE  /\ job.step \in Steps /\ job.cur \in Attempts
         /\ st[job.cur] \in State /\ Sound(st[job.cur])
         /\ ~st[job.cur].rw.needs
         /\ art[job.cur] \in Artifacts
         /\ job.step \notin {"conserve", "purge"} => art[job.cur].temps = 0
  <1>1. job.step \in Steps /\ job.cur \in Attempts
    BY CurrentAttempt DEF LedgerInv, RecoverySteps, Steps, CommitSteps,
      StepsOnAttempt
  <1>2. st[job.cur] \in State /\ Sound(st[job.cur])
    BY <1>1, RecordIsSound
  <1> QED
    BY <1>1, <1>2 DEF LedgerInv, TypeOK, StepRelies, RecoversUnpromised

(* One write of the branch of recover that closes an attempt *)
LEMMA RecoveryWriteInv ==
  ASSUME LedgerInv, job.step \in RecoverySteps, NEW s \in State,
         Commit(job.cur, s), s.rw = st[job.cur].rw,
         s.retention = st[job.cur].retention,
         NEW n \in RecoverySteps, Goto(n), OnlyRecord,
         n \in {"conserve", "purge"} \/ job.step \notin {"conserve", "purge"}
  PROVE  LedgerInv'
  <1>1. Sound(s)
    BY RecoveryRecord DEF Sound
  <1>2. /\ st' \in [Attempts -> State] /\ Promised' /\ ReleasedByRewrite'
        /\ st'[job.cur].rw = s.rw
    BY <1>1, RecoveryRecord, CommitInv, CommitFacts DEF LedgerInv
  <1>3. job' \in Job /\ job'.step = n /\ job'.cur = job.cur
    BY RecoveryRecord, GotoFacts DEF LedgerInv, RecoverySteps, Steps, CommitSteps
  <1>4. TypeOK'
    BY <1>2, <1>3, RecordType DEF LedgerInv
  <1>5. StepRelies'
    BY <1>2, <1>3, RecoveryRecord, RecoveryRelies DEF OnlyRecord
  <1> QED
    BY <1>2, <1>4, <1>5 DEF LedgerInv

LEMMA RecoveryWritesInv ==
  ASSUME LedgerInv, RecoverConserves \/ RecoverMarks \/ RecoverCleansWorktree
  PROVE  LedgerInv'
  <1> DEFINE r == st[job.cur]
  <1>1. job.step \in RecoverySteps
    BY DEF RecoverConserves, RecoverMarks, RecoverCleansWorktree, At,
      RecoverySteps
  <1>2. r \in State
    BY <1>1, RecoveryRecord
  <1>3. Envelope \in 0..Envelope
    BY EnvelopeAssumption
  <1>4. CASE RecoverConserves
    <2> DEFINE s == [r EXCEPT !.charge = Envelope]
    <2>1. s \in State /\ s.rw = r.rw /\ s.retention = r.retention
      BY <1>2, <1>3 DEF State
    <2>2. Commit(job.cur, s) /\ Goto("purge") /\ OnlyRecord
      BY <1>4 DEF RecoverConserves
    <2> HIDE DEF s
    <2> QED
      BY <1>1, <2>1, <2>2, RecoveryWriteInv DEF RecoverySteps
  <1>5. CASE RecoverMarks
    <2> DEFINE s == [r EXCEPT !.verdict = FALSE]
               n == IF r.csettle = "outstanding" THEN "worktree"
                    ELSE "settle-process"
    <2>1. s \in State /\ s.rw = r.rw /\ s.retention = r.retention
      BY <1>2 DEF State
    <2>2. /\ Commit(job.cur, s) /\ Goto(n) /\ OnlyRecord
          /\ job.step \notin {"conserve", "purge"}
      BY <1>5 DEF RecoverMarks, At
    <2>3. n \in RecoverySteps
      BY DEF RecoverySteps
    <2> HIDE DEF s, n
    <2> QED
      BY <1>1, <2>1, <2>2, <2>3, RecoveryWriteInv
  <1>6. CASE RecoverCleansWorktree
    <2> DEFINE s == [r EXCEPT !.csettle = "exact", !.wt = "hidden"]
               m == [r EXCEPT !.wt = "manual"]
    <2>1. /\ s \in State /\ s.rw = r.rw /\ s.retention = r.retention
          /\ m \in State /\ m.rw = r.rw /\ m.retention = r.retention
      BY <1>2 DEF State
    <2>2. /\ Commit(job.cur, s) \/ Commit(job.cur, m)
          /\ Goto("settle-process") /\ OnlyRecord
          /\ job.step \notin {"conserve", "purge"}
      BY <1>6 DEF RecoverCleansWorktree, At
    <2> HIDE DEF s, m
    <2> QED
      BY <1>1, <2>1, <2>2, RecoveryWriteInv DEF RecoverySteps
  <1> QED
    BY <1>4, <1>5, <1>6

LEMMA RecoverSettlesFacts ==
  ASSUME LedgerInv, RecoverSettles
  PROVE  /\ job.cur \in Attempts /\ TypeOK' /\ Promised' /\ ReleasedByRewrite'
         /\ job' = Idle /\ UNCHANGED dir
         /\ \A b \in Attempts : b # job.cur => st'[b] = st[b]
         /\ \/ st'[job.cur].retention = st[job.cur].retention
            \/ /\ st[job.cur].retention = "active"
               /\ st'[job.cur].retention = "held"
         /\ \A b \in Attempts : art'[b].files = art[b].files
  <1> DEFINE a == job.cur
             u == Used(a)
             s == [st[a] EXCEPT !.charge = u]
             t == [st[a] EXCEPT !.retention = "held", !.charge = u + 1]
  <1>1. job.step = "settle-process" /\ job.step \in RecoverySteps
    BY DEF RecoverSettles, At, RecoverySteps
  <1>2. /\ a \in Attempts /\ st[a] \in State /\ Sound(st[a]) /\ ~st[a].rw.needs
        /\ art[a] \in Artifacts /\ art[a].temps = 0
    BY <1>1, RecoveryRecord
  <1>3. u \in 0..Envelope /\ u + 1 \in 0..Envelope
    BY <1>2, EnvelopeAssumption DEF Artifacts, Used
  <1> HIDE DEF u
  <1>4. s \in State /\ s.retention = st[a].retention /\ s.rw = st[a].rw
    BY <1>2, <1>3 DEF State
  <1>5. t \in State /\ t.retention = "held" /\ t.rw = st[a].rw
    BY <1>2, <1>3 DEF State
  <1>6. Sound(s) /\ Sound(t)
    BY <1>2, <1>4, <1>5 DEF Sound
  <1>7. \/ Settled(a) /\ Commit(a, s) /\ UNCHANGED art
        \/ ~Settled(a) /\ Commit(a, t) /\ art' = [art EXCEPT ![a].temps = @ + 1]
    BY DEF RecoverSettles, u
  <1>8. /\ job' = Idle /\ UNCHANGED <<dir, waiting, thisBoot, young, aged>>
    BY DEF RecoverSettles
  <1> HIDE DEF s, t
  <1>9. /\ st' \in [Attempts -> State] /\ Promised' /\ ReleasedByRewrite'
        /\ \A b \in Attempts : b # a => st'[b] = st[b]
        /\ \/ st'[a].retention = s.retention
           \/ ~Settled(a) /\ st'[a].retention = t.retention
    BY <1>2, <1>4, <1>5, <1>6, <1>7, CommitInv, CommitFacts DEF LedgerInv
  <1>10. /\ art' \in [Attempts -> Artifacts]
         /\ \A b \in Attempts : art'[b].files = art[b].files
    <2>1. CASE UNCHANGED art
      BY <2>1 DEF LedgerInv, TypeOK
    <2>2. CASE art' = [art EXCEPT ![a].temps = @ + 1]
      BY <1>2, <2>2, EnvelopeAssumption DEF LedgerInv, TypeOK, Artifacts
    <2> QED
      BY <1>7, <2>1, <2>2
  <1>11. TypeOK'
    BY <1>8, <1>9, <1>10 DEF LedgerInv, TypeOK
  <1> QED
    BY <1>2, <1>4, <1>5, <1>8, <1>9, <1>10, <1>11 DEF Settled

LEMMA RecoverSettlesInv ==
  ASSUME LedgerInv, RecoverSettles
  PROVE  LedgerInv'
  BY RecoverSettlesFacts, IdleRelies DEF LedgerInv

LEMMA RewriteStepInv ==
  ASSUME LedgerInv, RewriteStep
  PROVE  LedgerInv'
  BY AuthorizeCommitsInv, RewriteBeginsInv, RemovesResidueInv, SettlesInv,
    FinishesInv, RecoveryWritesInv, RecoverSettlesInv DEF RewriteStep

-----------------------------------------------------------------------------
(* Crashes, restarts and the passing of time *)

LEMMA CrashInv ==
  ASSUME LedgerInv, Crash
  PROVE  LedgerInv'
  <1> USE DEF LedgerInv
  <1>1. art' \in [Attempts -> Artifacts]
    <2>1. CASE art' = art
      BY <2>1 DEF TypeOK
    <2>2. ASSUME NEW a \in Attempts, art[a].temps < MaxTemps,
                 art' = [art EXCEPT ![a].temps = @ + 1]
          PROVE  art' \in [Attempts -> Artifacts]
      BY <2>2, EnvelopeAssumption DEF TypeOK, Artifacts
    <2> QED
      BY <2>1, <2>2 DEF Crash, Live
  <1>2. TypeOK'
    BY <1>1 DEF Crash, TypeOK
  <1> QED
    BY <1>2, IdleRelies, SameRecords DEF Crash

(* A step that leaves the records, the root and the command alone *)
LEMMA NothingRewritten ==
  ASSUME LedgerInv, UNCHANGED <<dir, st, art, job>>,
         waiting' \subseteq Attempts, thisBoot' \subseteq Attempts,
         young' \subseteq Attempts, aged' \subseteq Attempts
  PROVE  LedgerInv'
  <1> USE DEF LedgerInv
  <1>1. TypeOK'
    BY DEF TypeOK
  <1>2. StepRelies'
    BY DEF StepRelies, OnOneAttempt, CreatesAnew, RewritesAuthorized,
      RecoversUnpromised, ReclaimsReleased, At, MayBeginRewrite,
      AuthorizationRecordExact, Exact, Used, BothSettled, Settled
  <1> QED
    BY <1>1, <1>2, SameRecords

LEMMA EnvironmentInv ==
  ASSUME LedgerInv, Environment
  PROVE  LedgerInv'
  <1>1. CASE Reboot
    BY <1>1, NothingRewritten DEF Reboot, LedgerInv, TypeOK
  <1>2. ASSUME NEW a \in Attempts, TtlElapses(a) \/ ResidueAges(a)
        PROVE  LedgerInv'
    BY <1>2, NothingRewritten DEF TtlElapses, ResidueAges, LedgerInv, TypeOK
  <1> QED
    BY <1>1, <1>2, CrashInv DEF Environment

-----------------------------------------------------------------------------
(* The invariant and what follows from it *)

LEMMA NextInv ==
  ASSUME LedgerInv, [Next]_vars
  PROVE  LedgerInv'
  <1>1. CASE UNCHANGED vars
    BY <1>1, NothingRewritten DEF vars, LedgerInv, TypeOK
  <1> QED
    BY <1>1, StartInv, RunStepInv, ReclaimStepInv, RewriteStepInv,
      EnvironmentInv DEF Next, Step

LEMMA LedgerInvariant == Spec => []LedgerInv
  BY InitInv, NextInv, PTL DEF Spec

(* Every command, crash and restart leaves the root, the records and the   *)
(* command in progress among the values that the code can write: charges   *)
(* within the envelope, at most MaxTemps temporaries in an attempt.        *)
THEOREM LedgerTypeCorrect == Spec => []TypeOK
  <1>1. LedgerInv => TypeOK
    BY DEF LedgerInv
  <1> QED
    BY <1>1, LedgerInvariant, PTL

(* The facts that a command reads when it begins still hold at each of its *)
(* later steps: no code path of _reclaim_attempt_locked, of the rewrites   *)
(* or of recover acts on a fact that its own earlier writes have undone.   *)
THEOREM StepsRely == Spec => []StepRelies
  <1>1. LedgerInv => StepRelies
    BY DEF LedgerInv
  <1> QED
    BY <1>1, LedgerInvariant, PTL

(* A release or a runtime cleanup that undertook to publish a verdict      *)
(* again (authorization_required in build_final_authorization_rewrite) can *)
(* always be finished: the verdict is there, settled, in every state.      *)
THEOREM RewriteKeepsVerdictHolds == Spec => []RewriteKeepsVerdict
  <1>1. LedgerInv => RewriteKeepsVerdict
    BY DEF LedgerInv, Promised, RewriteKeepsVerdict, Live
  <1> QED
    BY <1>1, LedgerInvariant, PTL

-----------------------------------------------------------------------------
(* What no step may do *)

(* What RetentionIsMonotone and EvidenceNeedsFinishedRelease say of one     *)
(* attempt                                                                 *)
Raises(a) ==
  dir[a] = "live" /\ dir'[a] = "live"
    => Rank(st[a].retention) <= Rank(st'[a].retention)
Deletes(a) ==
  dir[a] = "live" /\ art'[a].files < art[a].files /\ ~At("review")
    => /\ st[a].retention = "reclaiming" /\ BothSettled(a)
       /\ st[a].rw.op # "none" /\ st[a].rw.status = "complete"
       /\ st[a].rw.needs => st[a].auth # "none"

LEMMA KeepsFiles ==
  ASSUME TypeOK, NEW a \in Attempts, art'[a].files = art[a].files
  PROVE  Deletes(a)
  <1>1. art[a].files \in Int
    BY DEF TypeOK, Artifacts
  <1> QED
    BY <1>1 DEF Deletes

LEMMA KeepsRecord ==
  ASSUME TypeOK, NEW a \in Attempts, st'[a].retention = st[a].retention
  PROVE  Raises(a)
  <1>1. st[a].retention \in {"active", "held", "released", "reclaiming", "reclaimed"}
    BY DEF TypeOK, State
  <1> QED
    BY <1>1 DEF Raises, Rank

(* Steps that change neither the records nor the files *)
LEMMA UntouchedRecords ==
  ASSUME LedgerInv, NEW a \in Attempts, UNCHANGED <<st, art>>
  PROVE  Raises(a) /\ Deletes(a)
  BY KeepsFiles, KeepsRecord DEF LedgerInv

LEMMA StartTouchesNothing ==
  ASSUME Start
  PROVE  UNCHANGED <<st, art>>
  <1>1. CASE RunStarts
    BY <1>1 DEF RunStarts, OnlyJob
  <1>2. ASSUME NEW b \in Attempts,
               CleanupStarts(b) \/ AuthorizeStarts(b) \/ ReleaseStarts(b)
        PROVE  UNCHANGED <<st, art>>
    BY <1>2 DEF CleanupStarts, AuthorizeStarts, ReleaseStarts, OnlyJob
  <1>3. ASSUME NEW b \in Attempts, RecoverStarts(b)
        PROVE  UNCHANGED <<st, art>>
    BY <1>3 DEF RecoverStarts, Recovers, OnlyJob
  <1> QED
    BY <1>1, <1>2, <1>3 DEF Start

(* A run deletes nothing and changes the record it creates or ends only. *)
LEMMA RunStepKeeps ==
  ASSUME LedgerInv, RunStep, NEW a \in Attempts
  PROVE  Raises(a) /\ Deletes(a)
  <1> USE DEF LedgerInv
  <1>1. ASSUME NEW b \in Attempts,
               \/ ScanRestores(b) \/ ScanDropsResidue(b) \/ ScanRemoves(b)
               \/ TtlReclaims(b) \/ Admit(b)
        PROVE  UNCHANGED <<st, art>>
    BY <1>1 DEF ScanRestores, ScanDropsResidue, ScanRemoves, TtlReclaims, Admit,
      ReclaimOrFail, Refused, OnlyJob
  <1>2. CASE \/ ScanEnds \/ TtlBegins \/ TtlEnds \/ AdmitFails
             \/ AdmitUnderPressure \/ CreateTemp \/ CreateFails
    <2>1. UNCHANGED <<st, art>>
      BY <1>2 DEF ScanEnds, TtlBegins, TtlEnds, AdmitFails, AdmitUnderPressure,
        CreateTemp, CreateFails, ReclaimOrFail, Refused, OnlyJob
    <2> QED
      BY <2>1, UntouchedRecords
  <1>3. CASE CreateRecord
    <2>1. dir[job.cur] # "live"
      BY <1>3 DEF CreateRecord, StepRelies, CreatesAnew, At
    <2>2. a # job.cur => st'[a] = st[a]
      BY <1>3 DEF CreateRecord, TypeOK
    <2>3. Raises(a)
      BY <2>1, <2>2, KeepsRecord DEF Raises
    <2> QED
      BY <1>3, <2>3, KeepsFiles DEF CreateRecord
  <1>4. CASE RunEnds
    <2>1. /\ st[job.cur].retention = "active"
          /\ st'[job.cur].retention \in {"active", "held"}
          /\ a # job.cur => st'[a] = st[a]
      BY <1>4, RunEndsFacts
    <2>2. Raises(a)
      <3>1. CASE a = job.cur
        BY <2>1, <3>1 DEF Raises, Rank
      <3>2. CASE a # job.cur
        BY <2>1, <3>2, KeepsRecord
      <3> QED
        BY <3>1, <3>2
    <2>3. Deletes(a)
      BY <1>4 DEF RunEnds, Deletes
    <2> QED
      BY <2>2, <2>3
  <1> QED
    BY <1>1, <1>2, <1>3, <1>4, UntouchedRecords DEF RunStep

LEMMA ReclaimStepKeeps ==
  ASSUME LedgerInv, ReclaimStep, NEW a \in Attempts
  PROVE  Raises(a) /\ Deletes(a)
  <1> USE DEF LedgerInv
  <1>1. CASE \/ ReclaimMeetsRuntime \/ ReclaimEmptied \/ Isolate
             \/ RemoveDirectory \/ RemovalUndone
    <2>1. UNCHANGED <<st, art>>
      BY <1>1 DEF ReclaimMeetsRuntime, ReclaimEmptied, Isolate, RemoveDirectory,
        RemovalUndone, Refused, OnlyJob
    <2> QED
      BY <2>1, UntouchedRecords
  <1>2. CASE ReclaimMarks \/ ReclaimTombstone
    <2>1. /\ job.step \in {"reclaim-mark", "reclaim-done"} /\ job.cur \in Attempts
          /\ art' = art
      BY <1>2, CurrentAttempt DEF ReclaimMarks, ReclaimTombstone, At, OnlyRecord,
        Steps, CommitSteps, StepsOnAttempt
    <2>2. \/ /\ st[job.cur].retention \in {"released", "reclaiming"}
             /\ st'[job.cur].retention = "reclaiming"
          \/ st'[job.cur].retention = "reclaimed"
      <3>1. CASE ReclaimMarks
        <4>1. st[job.cur].retention \in {"released", "reclaiming"}
          BY <2>1 DEF StepRelies, ReclaimsReleased
        <4>2. st'[job.cur].retention = "reclaiming"
          BY <2>1, <3>1 DEF ReclaimMarks, Commit, TypeOK, State
        <4> QED
          BY <4>1, <4>2
      <3>2. CASE ReclaimTombstone
        BY <2>1, <3>2 DEF ReclaimTombstone, Commit, TypeOK, State
      <3> QED
        BY <1>2, <3>1, <3>2
    <2>3. a # job.cur => st'[a] = st[a]
      BY <1>2 DEF ReclaimMarks, ReclaimTombstone, Commit, TypeOK
    <2>4. st[a].retention \in {"active", "held", "released", "reclaiming", "reclaimed"}
      BY DEF TypeOK, State
    <2>5. Raises(a)
      BY <2>2, <2>3, <2>4, KeepsRecord DEF Raises, Rank
    <2> QED
      BY <2>1, <2>5, KeepsFiles
  <1>3. CASE ReclaimUnlinks
    <2>1. job.step = "reclaim-files" /\ job.cur \in Attempts /\ st' = st
      BY <1>3, CurrentAttempt DEF ReclaimUnlinks, At, Steps, StepsOnAttempt
    <2>2. a # job.cur => art'[a] = art[a]
      BY <1>3 DEF ReclaimUnlinks, TypeOK
    <2>3. /\ st[job.cur].retention = "reclaiming" /\ BothSettled(job.cur)
          /\ st[job.cur].rw.op # "none" /\ st[job.cur].rw.status = "complete"
      BY <2>1 DEF StepRelies, ReclaimsReleased, At
    <2>4. st[job.cur].rw.needs => st[job.cur].auth # "none"
      BY <2>1 DEF Promised
    <2>5. Deletes(a)
      BY <2>2, <2>3, <2>4, KeepsFiles DEF Deletes
    <2> QED
      BY <2>1, <2>5, KeepsRecord
  <1>4. CASE RemoveRecord
    <2>1. CASE Refused
      BY <2>1, UntouchedRecords DEF Refused
    <2>2. CASE /\ dir' = [dir EXCEPT ![job.cur] = "empty"]
               /\ st' = [st EXCEPT ![job.cur] = Reserved]
               /\ UNCHANGED art
      <3>1. a # job.cur => st'[a] = st[a]
        BY <2>2 DEF TypeOK
      <3>2. a = job.cur => dir'[a] # "live"
        BY <2>2 DEF TypeOK
      <3> QED
        BY <2>2, <3>1, <3>2, KeepsFiles, KeepsRecord DEF Raises
    <2> QED
      BY <1>4, <2>1, <2>2 DEF RemoveRecord
  <1> QED
    BY <1>1, <1>2, <1>3, <1>4 DEF ReclaimStep

LEMMA WriteKeeps ==
  ASSUME LedgerInv, NEW a \in Attempts, NEW b \in Attempts, UNCHANGED art,
         NEW s \in State, s.retention = st[b].retention,
         Commit(b, s) \/ st' = [st EXCEPT ![b] = s]
  PROVE  Raises(a) /\ Deletes(a)
  <1>1. st'[a].retention = st[a].retention
    BY DEF Commit, LedgerInv, TypeOK, State
  <1> QED
    BY <1>1, KeepsFiles, KeepsRecord DEF LedgerInv

LEMMA RewriteStepKeeps ==
  ASSUME LedgerInv, RewriteStep, NEW a \in Attempts
  PROVE  Raises(a) /\ Deletes(a)
  <1> USE DEF LedgerInv
  <1> DEFINE c == job.cur
  <1>1. CASE AuthorizeCommits \/ Settles \/ Finishes \/ CleanBegins
    <2>1. c \in Attempts /\ st[c] \in State /\ art' = art
      BY <1>1, CurrentAttempt, RecordIsSound DEF AuthorizeCommits, Settles,
        Finishes, CleanBegins, At, Steps, CommitSteps, StepsOnAttempt, OnlyRecord
    <2>0. Used(c) \in 0..Envelope /\ Envelope \in 0..Envelope
      BY <2>1, UsedBound, EnvelopeAssumption
    <2>2. PICK s \in State :
           \/ UNCHANGED st
           \/ /\ s.retention = st[c].retention
              /\ Commit(c, s) \/ st' = [st EXCEPT ![c] = s]
      <3>1. CASE AuthorizeCommits
        BY <2>1, <3>1, AuthorizedFacts DEF AuthorizeCommits
      <3>2. CASE Settles
        <4> DEFINE s == [st[c] EXCEPT !.charge = Used(c)]
        <4>1. s \in State /\ s.retention = st[c].retention
          BY <2>0, <2>1 DEF State, Rewrite
        <4>2. UNCHANGED st \/ Commit(c, s)
          BY <3>2 DEF Settles
        <4> QED
          BY <4>1, <4>2
      <3>3. CASE Finishes
        <4> DEFINE s == [st[c] EXCEPT !.rw.status = "complete"]
        <4>1. s \in State /\ s.retention = st[c].retention
          BY <2>0, <2>1 DEF State, Rewrite
        <4>2. \/ UNCHANGED st \/ Commit(c, s)
              \/ st' = [st EXCEPT ![c] = Authorized(c)]
          BY <3>3 DEF Finishes
        <4> QED
          BY <2>1, <4>1, <4>2, AuthorizedFacts
      <3>4. CASE CleanBegins
        <4> DEFINE s == [st[c] EXCEPT
                           !.retention = st[c].retention, !.charge = Envelope,
                           !.rw = [op |-> "runtime-cleanup", status |-> "pending",
                                   needs |-> st[c].verdict]]
        <4>1. s \in State /\ s.retention = st[c].retention
          BY <2>0, <2>1 DEF State, Rewrite
        <4>2. Commit(c, s)
          BY <3>4 DEF CleanBegins, BeginRewrite
        <4> QED
          BY <4>1, <4>2
      <3> QED
        BY <1>1, <3>1, <3>2, <3>3, <3>4
    <2> QED
      BY <2>1, <2>2, UntouchedRecords, WriteKeeps
  <1>2. CASE RecoverConserves \/ RecoverMarks \/ RecoverCleansWorktree
    <2>1. job.step \in RecoverySteps /\ art' = art
      BY <1>2 DEF RecoverConserves, RecoverMarks, RecoverCleansWorktree, At,
        RecoverySteps, OnlyRecord
    <2>2. c \in Attempts /\ st[c] \in State
      BY <2>1, RecoveryRecord
    <2>0. Envelope \in 0..Envelope
      BY EnvelopeAssumption
    <2>3. PICK s \in State : s.retention = st[c].retention /\ Commit(c, s)
      <3>1. CASE RecoverConserves
        <4> DEFINE s == [st[c] EXCEPT !.charge = Envelope]
        <4>1. s \in State /\ s.retention = st[c].retention
          BY <2>0, <2>2 DEF State
        <4>2. Commit(c, s)
          BY <3>1 DEF RecoverConserves
        <4> QED
          BY <4>1, <4>2
      <3>2. CASE RecoverMarks
        <4> DEFINE s == [st[c] EXCEPT !.verdict = FALSE]
        <4>1. s \in State /\ s.retention = st[c].retention
          BY <2>0, <2>2 DEF State
        <4>2. Commit(c, s)
          BY <3>2 DEF RecoverMarks
        <4> QED
          BY <4>1, <4>2
      <3>3. CASE RecoverCleansWorktree
        <4> DEFINE s == [st[c] EXCEPT !.csettle = "exact", !.wt = "hidden"]
                   m == [st[c] EXCEPT !.wt = "manual"]
        <4>1. /\ s \in State /\ s.retention = st[c].retention
              /\ m \in State /\ m.retention = st[c].retention
          BY <2>2 DEF State
        <4>2. Commit(c, s) \/ Commit(c, m)
          BY <3>3 DEF RecoverCleansWorktree
        <4> QED
          BY <4>1, <4>2
      <3> QED
        BY <1>2, <3>1, <3>2, <3>3
    <2> QED
      BY <2>1, <2>2, <2>3, WriteKeeps
  <1>3. CASE ReleaseBegins
    <2>1. /\ c \in Attempts /\ st[c] \in State /\ art' = art
          /\ st[c].retention \in {"held", "released"}
      BY <1>3, CurrentAttempt, RecordIsSound DEF ReleaseBegins, At, OnlyRecord,
        Steps, CommitSteps, StepsOnAttempt, StepRelies, RewritesAuthorized
    <2>2. st'[c].retention = "released" /\ (a # c => st'[a] = st[a])
      BY <1>3, <2>1 DEF ReleaseBegins, BeginRewrite, Commit, TypeOK, State
    <2>3. Raises(a)
      <3>1. CASE a = c
        BY <2>1, <2>2, <3>1 DEF Raises, Rank
      <3>2. CASE a # c
        BY <2>2, <3>2, KeepsRecord
      <3> QED
        BY <3>1, <3>2
    <2> QED
      BY <2>1, <2>3, KeepsFiles
  <1>4. CASE RemovesResidue
    <2>1. st' = st /\ art'[a].files = art[a].files
      BY <1>4 DEF RemovesResidue, TypeOK, Artifacts
    <2> QED
      BY <2>1, KeepsFiles, KeepsRecord
  <1>5. CASE RecoverSettles
    <2>1. Raises(a)
      <3>1. CASE st'[a].retention = st[a].retention
        BY <3>1, KeepsRecord
      <3>2. CASE st[a].retention = "active" /\ st'[a].retention = "held"
        BY <3>2 DEF Raises, Rank
      <3> QED
        BY <1>5, <3>1, <3>2, RecoverSettlesFacts
    <2> QED
      BY <1>5, <2>1, KeepsFiles, RecoverSettlesFacts
  <1> QED
    BY <1>1, <1>2, <1>3, <1>4, <1>5 DEF RewriteStep

LEMMA EnvironmentKeeps ==
  ASSUME LedgerInv, Environment, NEW a \in Attempts
  PROVE  Raises(a) /\ Deletes(a)
  <1> USE DEF LedgerInv
  <1>1. CASE Crash
    <2>1. st' = st /\ art'[a].files = art[a].files
      BY <1>1 DEF Crash, Live, TypeOK, Artifacts
    <2> QED
      BY <2>1, KeepsFiles, KeepsRecord
  <1>2. CASE \/ Reboot
             \/ \E b \in Attempts : TtlElapses(b) \/ ResidueAges(b)
    <2>1. UNCHANGED <<st, art>>
      BY <1>2 DEF Reboot, TtlElapses, ResidueAges
    <2> QED
      BY <2>1, UntouchedRecords
  <1> QED
    BY <1>1, <1>2 DEF Environment

LEMMA NextKeeps ==
  ASSUME LedgerInv, [Next]_vars, NEW a \in Attempts
  PROVE  Raises(a) /\ Deletes(a)
  <1>1. CASE Start \/ UNCHANGED vars
    BY <1>1, StartTouchesNothing, UntouchedRecords DEF vars
  <1> QED
    BY <1>1, RunStepKeeps, ReclaimStepKeeps, RewriteStepKeeps, EnvironmentKeeps
      DEF Next, Step

(* The retention of a record that stays in the root never moves back:      *)
(* a release is not undone by a recovery, nor a reclaim by either, however *)
(* many commands were interrupted in between.                              *)
THEOREM RetentionNeverGoesBack == Spec => RetentionIsMonotone
  <1>1. ASSUME LedgerInv, [Next]_vars
        PROVE  [\A a \in Attempts :
                  dir[a] = "live" /\ dir'[a] = "live"
                    => Rank(st[a].retention) <= Rank(st'[a].retention)]_vars
    BY <1>1, NextKeeps DEF Raises
  <1> QED
    BY <1>1, LedgerInvariant, PTL DEF Spec, RetentionIsMonotone

(* Final messages and logs are unlinked (_remove_reclaim_artifacts) only   *)
(* from a record that is settled in both scopes, marked for reclaim, and   *)
(* whose release was finished, its verdict's authorization included.       *)
THEOREM DeletionNeedsFinishedRelease == Spec => EvidenceNeedsFinishedRelease
  <1>1. ASSUME LedgerInv, [Next]_vars
        PROVE  [\A a \in Attempts :
                  dir[a] = "live" /\ art'[a].files < art[a].files /\ ~At("review")
                    => /\ st[a].retention = "reclaiming" /\ BothSettled(a)
                       /\ st[a].rw.op # "none" /\ st[a].rw.status = "complete"
                       /\ st[a].rw.needs => st[a].auth # "none"]_vars
    BY <1>1, NextKeeps DEF Deletes
  <1> QED
    BY <1>1, LedgerInvariant, PTL DEF Spec, EvidenceNeedsFinishedRelease

-----------------------------------------------------------------------------
(* Weighing attempts *)

LEMMA MaxOfTwo ==
  ASSUME NEW x \in Int, NEW y \in Int
  PROVE  Max({x, y}) \in {x, y} /\ Max({x, y}) >= x /\ Max({x, y}) >= y
  <1>1. \E m \in {x, y} : \A n \in {x, y} : m >= n
    <2>1. CASE x >= y
      BY <2>1
    <2>2. CASE ~(x >= y)
      <3>1. y >= x
        BY <2>2
      <3> QED
        BY <3>1
    <2> QED
      BY <2>1, <2>2
  <1> QED
    BY <1>1 DEF Max

(* One attempt's units *)
LEMMA UnitsOfOne ==
  ASSUME NEW a, NEW n \in Nat
  PROVE  IsFiniteSet({a} \X (1..n)) /\ Cardinality({a} \X (1..n)) = n
  <1>1. IsFiniteSet({a}) /\ Cardinality({a}) = 1
    BY FS_Singleton
  <1>2. IsFiniteSet(1..n) /\ Cardinality(1..n) = n
    <2>1. /\ IsFiniteSet(1..n)
          /\ Cardinality(1..n) = IF 1 > n THEN 0 ELSE n - 1 + 1
      BY FS_Interval
    <2> QED
      BY <2>1
  <1>3. \A S, T : IsFiniteSet(S) /\ IsFiniteSet(T) =>
          /\ IsFiniteSet(S \X T)
          /\ Cardinality(S \X T) = Cardinality(S) * Cardinality(T)
    BY FS_Product
  <1>4. /\ IsFiniteSet({a} \X (1..n))
        /\ Cardinality({a} \X (1..n)) = Cardinality({a}) * Cardinality(1..n)
    BY <1>1, <1>2, <1>3, Zenon
  <1> QED
    BY <1>1, <1>2, <1>4

(* The units of finitely many attempts, none heavier than k, are finite. *)
LEMMA UnitsFinite ==
  ASSUME NEW S, IsFiniteSet(S), NEW k \in Nat, NEW w \in [S -> 0..k]
  PROVE  IsFiniteSet(Units(w)) /\ Total(w) \in Nat
  <1>1. Units(w) \subseteq S \X (1..k)
    BY DEF Units
  <1>2. IsFiniteSet(S \X (1..k))
    <2>1. IsFiniteSet(1..k)
      BY FS_Interval
    <2> QED
      BY <2>1, FS_Product, Zenon
  <1>3. IsFiniteSet(Units(w))
    BY <1>1, <1>2, FS_Subset
  <1> QED
    BY <1>3, FS_CardinalityType DEF Total

(* Fewer attempts that weigh less weigh less together. *)
LEMMA TotalFalls ==
  ASSUME NEW S, NEW T, S \subseteq T, IsFiniteSet(T), NEW k \in Nat,
         NEW v \in [S -> 0..k], NEW w \in [T -> 0..k],
         \A a \in S : v[a] <= w[a]
  PROVE  Total(v) <= Total(w)
  <1>1. Units(v) \subseteq Units(w)
    BY DEF Units
  <1> QED
    BY <1>1, UnitsFinite, FS_Subset DEF Total

(* Every attempt is part of the total. *)
LEMMA TotalHolds ==
  ASSUME NEW S, IsFiniteSet(S), NEW k \in Nat, NEW w \in [S -> 0..k], NEW a \in S
  PROVE  w[a] <= Total(w)
  <1>1. {a} \X (1..w[a]) \subseteq Units(w)
    BY DEF Units
  <1>2. w[a] \in Nat
    OBVIOUS
  <1>3. Cardinality({a} \X (1..w[a])) = w[a]
    BY <1>2, UnitsOfOne
  <1> QED
    BY <1>1, <1>3, UnitsFinite, FS_Subset DEF Total

(* One attempt more adds its weight at most. *)
LEMMA TotalGrows ==
  ASSUME NEW S, NEW T, NEW c, S \subseteq T \cup {c}, IsFiniteSet(T), NEW k \in Nat,
         NEW v \in [S -> 0..k], NEW w \in [T -> 0..k],
         \A a \in S : a # c => v[a] <= w[a]
  PROVE  Total(v) <= Total(w) + k
  <1> DEFINE more == {c} \X (1..k)
  <1>1. IsFiniteSet(Units(w)) /\ Total(w) \in Nat
    BY UnitsFinite
  <1>2. IsFiniteSet(more) /\ Cardinality(more) = k
    BY UnitsOfOne
  <1>3. Units(v) \subseteq Units(w) \cup more
    BY DEF Units
  <1> HIDE DEF more
  <1>4. /\ IsFiniteSet(Units(w) \cup more)
        /\ Cardinality(Units(w) \cup more)
             = Total(w) + k - Cardinality(Units(w) \cap more)
    BY <1>1, <1>2, FS_Union DEF Total
  <1>5. Cardinality(Units(w) \cap more) \in Nat
    BY <1>1, FS_Intersection, FS_CardinalityType
  <1>6. Cardinality(Units(v)) <= Cardinality(Units(w) \cup more)
    BY <1>3, <1>4, FS_Subset
  <1>7. Cardinality(Units(v)) \in Nat /\ Cardinality(Units(w) \cup more) \in Nat
    BY <1>3, <1>4, FS_Subset, FS_CardinalityType
  <1> QED
    BY <1>1, <1>4, <1>5, <1>6, <1>7 DEF Total

-----------------------------------------------------------------------------
(* The cap and the retained worktree *)

(* An attempt whose checkout is not settled is still charged its envelope, *)
(* or else counts as a retained worktree; either keeps admission from      *)
(* letting in a second one.                                                *)
Outstanding == {a \in Live : st[a].csettle = "outstanding"}
AtMostOne == \A a, b \in Outstanding : a = b
Shows(a) == Settled(a) => st[a].wt # "hidden"
SettledShows == \A a \in Outstanding : Shows(a)
AdmissionFits ==
  job.step \in {"create-temp", "create-state"} =>
    Outstanding = {} /\ Evidence + Envelope <= Cap
ReviewIsOutstanding == At("review") => job.cur \in Outstanding
SettlementShows ==
  At("settle-process") =>
    st[job.cur].csettle = "exact" \/ st[job.cur].wt # "hidden"
CapInv ==
  /\ EvidenceWithinCap /\ AtMostOne /\ SettledShows
  /\ AdmissionFits /\ ReviewIsOutstanding /\ SettlementShows

LiveFootprint == [a \in Live |-> Footprint(a)]

LEMMA FootprintType ==
  ASSUME TypeOK
  PROVE  /\ LiveFootprint \in [Live -> 0..Envelope]
         /\ \A a \in Attempts : Footprint(a) \in 0..Envelope
         /\ IsFiniteSet(Live) /\ Evidence \in Nat
         /\ Evidence = Total(LiveFootprint)
  <1>1. \A a \in Attempts : Footprint(a) \in 0..Envelope
    BY EnvelopeAssumption DEF TypeOK, Artifacts, Footprint
  <1>2. LiveFootprint \in [Live -> 0..Envelope]
    BY <1>1 DEF LiveFootprint, Live
  <1>3. IsFiniteSet(Live)
    <2>1. Live \subseteq Attempts
      BY DEF Live
    <2> QED
      BY <2>1, NoneAssumption, FS_Subset
  <1>4. Evidence = Total(LiveFootprint)
    BY DEF Evidence, LiveFootprint
  <1> QED
    BY <1>1, <1>2, <1>3, <1>4, UnitsFinite, EnvelopeAssumption

(* Where reconcile_ledger can read the root, it charges every attempt at   *)
(* least the evidence it has, and an unsettled one its envelope.           *)
LEMMA ChargeCovers ==
  ASSUME TypeOK, Readable, NEW a \in Live
  PROVE  /\ LedgerCharge(a) \in 0..Envelope
         /\ Footprint(a) <= LedgerCharge(a)
         /\ ~Settled(a) => LedgerCharge(a) = Envelope
  <1>1. /\ a \in Attempts /\ st[a].charge \in 0..Envelope /\ Used(a) \in 0..Envelope
        /\ st[a].charge \in Int /\ Used(a) \in Int
    BY UsedBound DEF Live, TypeOK, State
  <1>2. /\ art[a].files \in 0..1 /\ art[a].temps \in Nat /\ art[a].runtime \in 0..1
    BY <1>1 DEF TypeOK, Artifacts
  <1>3. art[a].files + art[a].runtime <= Used(a)
    BY <1>2 DEF Used
  <1>4. CASE ~Settled(a)
    <2>1. LedgerCharge(a) = Envelope /\ Footprint(a) = Envelope
      BY <1>4 DEF LedgerCharge, Footprint, Settled
    <2> QED
      BY <2>1, EnvelopeAssumption
  <1>5. CASE Settled(a) /\ st[a].retention = "reclaimed"
    <2>1. Used(a) = 1
      BY <1>5 DEF Readable
    <2>2. art[a].files + art[a].runtime = 0
      BY <1>2, <2>1 DEF Used
    <2> QED
      BY <1>5, <2>2, EnvelopeAssumption DEF LedgerCharge, Footprint
  <1>6. CASE Settled(a) /\ st[a].retention # "reclaimed"
    <2>1. LedgerCharge(a) = Max({st[a].charge, Used(a)})
      BY <1>6 DEF LedgerCharge, Settled
    <2>2. /\ Max({st[a].charge, Used(a)}) \in {st[a].charge, Used(a)}
          /\ Max({st[a].charge, Used(a)}) >= Used(a)
      BY <1>1, MaxOfTwo
    <2>3. Footprint(a) = art[a].files + art[a].runtime
      BY <1>6 DEF Footprint
    <2> HIDE DEF Used
    <2> QED
      BY <1>1, <1>2, <1>3, <1>6, <2>1, <2>2, <2>3
  <1> QED
    BY <1>4, <1>5, <1>6

(* What admission finds: no outstanding checkout, and room for an envelope. *)
LEMMA AdmissionFinds ==
  ASSUME TypeOK, SettledShows, Readable, RetainedWorktrees = {}, ~OverCap
  PROVE  Outstanding = {} /\ Evidence + Envelope <= Cap
  <1> DEFINE charged == [a \in Live |-> LedgerCharge(a)]
  <1>1. charged \in [Live -> 0..Envelope]
    BY ChargeCovers
  <1>2. Total(charged) \in Nat /\ Total(charged) + Envelope <= Cap
    <2>1. Total(charged) \in Nat
      BY <1>1, FootprintType, UnitsFinite, EnvelopeAssumption
    <2> QED
      BY <2>1, EnvelopeAssumption DEF OverCap, ProcessBytes
  <1>3. Evidence <= Total(charged)
    <2>1. \A a \in Live : LiveFootprint[a] <= charged[a]
      BY ChargeCovers DEF LiveFootprint
    <2> HIDE DEF charged
    <2> QED
      BY <1>1, <2>1, FootprintType, TotalFalls, EnvelopeAssumption
  <1>4. ASSUME NEW a \in Outstanding
        PROVE  FALSE
    <2>1. a \in Live /\ ~Settled(a)
      BY <1>4 DEF Outstanding, SettledShows, Shows, RetainedWorktrees
    <2>2. charged[a] = Envelope
      BY <2>1, ChargeCovers
    <2> HIDE DEF charged
    <2>3. Envelope <= Total(charged)
      BY <1>1, <2>1, <2>2, FootprintType, TotalHolds, EnvelopeAssumption
    <2> QED
      BY <1>2, <2>3, EnvelopeAssumption
  <1> QED
    BY <1>2, <1>3, <1>4, FootprintType, EnvelopeAssumption

LEMMA FootprintTypeNext ==
  ASSUME TypeOK'
  PROVE  /\ LiveFootprint' \in [Live' -> 0..Envelope]
         /\ \A a \in Attempts : Footprint(a)' \in 0..Envelope
         /\ Evidence' \in Nat /\ Evidence' = Total(LiveFootprint')
  <1>1. \A a \in Attempts : Footprint(a)' \in 0..Envelope
    BY EnvelopeAssumption DEF TypeOK, Artifacts, Footprint
  <1>2. LiveFootprint' \in [Live' -> 0..Envelope]
    BY <1>1 DEF LiveFootprint, Live
  <1>3. IsFiniteSet(Live')
    <2>1. Live' \subseteq Attempts
      BY DEF Live
    <2> QED
      BY <2>1, NoneAssumption, FS_Subset
  <1>4. Evidence' = Total(LiveFootprint')
    BY DEF Evidence, LiveFootprint, Total, Units
  <1> QED
    BY <1>1, <1>2, <1>3, <1>4, UnitsFinite, EnvelopeAssumption

(* What a step of any other command does to each attempt: it brings none   *)
(* into the root, adds no evidence, and takes no checkout out of sight.    *)
Eases(a) ==
  a \in Live' =>
    /\ a \in Live
    /\ Footprint(a)' <= Footprint(a)
    /\ a \in Outstanding' => a \in Outstanding /\ Shows(a)'

(* Steps before which something is relied upon here *)
Watched == {"create-temp", "create-state", "review", "settle-process"}

LEMMA EasedInv ==
  ASSUME TypeOK, TypeOK', CapInv, \A a \in Attempts : Eases(a)
  PROVE  /\ EvidenceWithinCap' /\ AtMostOne' /\ SettledShows'
         /\ Evidence' <= Evidence /\ Outstanding' \subseteq Outstanding
  <1>1. Live' \subseteq Live /\ Live' \subseteq Attempts
    BY DEF Eases, Live
  <1>2. Outstanding' \subseteq Outstanding /\ SettledShows'
    BY <1>1 DEF Eases, Outstanding, SettledShows
  <1>3. \A a \in Live' : LiveFootprint'[a] <= LiveFootprint[a]
    BY <1>1 DEF Eases, LiveFootprint
  <1>4. Evidence' <= Evidence
    BY <1>1, <1>3, FootprintType, FootprintTypeNext, TotalFalls, EnvelopeAssumption
  <1>5. EvidenceWithinCap'
    BY <1>4, FootprintType, FootprintTypeNext, EnvelopeAssumption
    DEF CapInv, EvidenceWithinCap
  <1> QED
    BY <1>2, <1>4, <1>5 DEF CapInv, AtMostOne

(* A step that is not watched needs no more than that every attempt eases. *)
LEMMA QuietInv ==
  ASSUME TypeOK, TypeOK', CapInv, \A a \in Attempts : Eases(a),
         job'.step \notin Watched
  PROVE  CapInv'
  BY EasedInv DEF CapInv, AdmissionFits, ReviewIsOutstanding, SettlementShows,
    Watched, At

(* A record that keeps what matters here *)
Alike(s, r) ==
  /\ r.csettle = s.csettle /\ r.wt = s.wt
  /\ r.retention = "active" <=> s.retention = "active"

LEMMA AlikeEases ==
  ASSUME TypeOK, TypeOK', CapInv, NEW a \in Attempts, a \in Live' => a \in Live,
         Alike(st[a], st'[a]),
         art'[a].files <= art[a].files, art'[a].runtime <= art[a].runtime
  PROVE  Eases(a)
  <1>1. Footprint(a)' <= Footprint(a)
    BY EnvelopeAssumption DEF TypeOK, Artifacts, Footprint, Settled, Alike
  <1>2. a \in Outstanding' => a \in Outstanding /\ Shows(a)'
    BY DEF Outstanding, CapInv, SettledShows, Shows, Settled, Alike
  <1> QED
    BY <1>1, <1>2 DEF Eases

(* A step that leaves the records and what lies beside them alone *)
LEMMA UntouchedEases ==
  ASSUME TypeOK, TypeOK', CapInv, UNCHANGED <<st, art>>, Live' \subseteq Live,
         NEW a \in Attempts
  PROVE  Eases(a)
  <1>1. art'[a].files <= art[a].files /\ art'[a].runtime <= art[a].runtime
    BY DEF TypeOK, Artifacts
  <1> QED
    BY <1>1, AlikeEases DEF Alike

(* A step that changes one record, and nothing else *)
LEMMA WriteEases ==
  ASSUME TypeOK, TypeOK', CapInv, UNCHANGED <<dir, art>>, NEW c \in Attempts,
         NEW s \in State, Alike(st[c], s),
         Commit(c, s) \/ st' = [st EXCEPT ![c] = s],
         NEW a \in Attempts
  PROVE  Eases(a)
  <1>1. art'[a].files <= art[a].files /\ art'[a].runtime <= art[a].runtime
    BY DEF TypeOK, Artifacts
  <1>2. Alike(st[a], st'[a])
    <2>1. CASE a = c
      BY <2>1 DEF Commit, Alike, TypeOK, State
    <2>2. CASE a # c
      <3>1. st'[a] = st[a]
        BY <2>2 DEF Commit, TypeOK
      <3> QED
        BY <3>1 DEF Alike
    <2> QED
      BY <2>1, <2>2
  <1> QED
    BY <1>1, <1>2, AlikeEases DEF Live

LEMMA IdleIsQuiet == Idle.step \notin Watched
  BY DEF Idle, Watched

(* A command that begins reads; it changes neither record nor root. *)
LEMMA StartCap ==
  ASSUME LedgerInv, TypeOK', CapInv, Start
  PROVE  CapInv'
  <1> USE DEF LedgerInv
  <1>1. UNCHANGED <<st, art>>
    BY StartTouchesNothing
  <1>2. UNCHANGED dir /\ job'.step \notin Watched
    <2>1. CASE RunStarts
      BY <2>1 DEF RunStarts, OnlyJob, Idle, Watched
    <2>2. ASSUME NEW b \in Attempts, CleanupStarts(b)
          PROVE  UNCHANGED dir /\ job'.step \notin Watched
      BY <2>2 DEF CleanupStarts, OnlyJob, Idle, Watched
    <2>3. ASSUME NEW b \in Attempts, AuthorizeStarts(b)
          PROVE  UNCHANGED dir /\ job'.step \notin Watched
      <3>1. job.cmd = "idle"
        BY <2>3 DEF AuthorizeStarts
      <3>2. job = Idle
        BY <3>1 DEF TypeOK, Job, Commands
      <3>3. \/ job' = job
            \/ job' = [Idle EXCEPT !.cmd = "authorize", !.step = "authorize", !.cur = b]
        BY <2>3 DEF AuthorizeStarts
      <3>4. UNCHANGED dir
        BY <2>3 DEF AuthorizeStarts
      <3>5. job'.step \in {"none", "authorize"}
        <4>1. Idle.step = "none"
              /\ [Idle EXCEPT !.cmd = "authorize", !.step = "authorize",
                               !.cur = b].step = "authorize"
          BY DEF Idle
        <4> QED
          BY <3>2, <3>3, <4>1
      <3> QED
        BY <3>4, <3>5 DEF Watched
    <2>4. ASSUME NEW b \in Attempts, ReleaseStarts(b)
          PROVE  UNCHANGED dir /\ job'.step \notin Watched
      BY <2>4 DEF ReleaseStarts, OnlyJob, Idle, Watched
    <2>5. ASSUME NEW b \in Attempts, RecoverStarts(b)
          PROVE  UNCHANGED dir /\ job'.step \notin Watched
      <3>1. PICK s \in {"settle", "clean-remove", "clean-begin", "conserve", "purge"} :
              Recovers(b, s)
        BY <2>5 DEF RecoverStarts
      <3> QED
        BY <3>1 DEF Recovers, OnlyJob, Idle, Watched
    <2> QED
      BY <2>1, <2>2, <2>3, <2>4, <2>5 DEF Start
  <1>3. \A a \in Attempts : Eases(a)
    BY <1>1, <1>2, UntouchedEases DEF Live
  <1> QED
    BY <1>2, <1>3, QuietInv

(* What a reclaim does first, for whoever asked for it *)
LEMMA ReclaimOrFailQuiet ==
  ASSUME TypeOK, job.step \in Steps, NEW a \in Attempts, NEW back,
         ReclaimOrFail(a, back)
  PROVE  UNCHANGED <<dir, st, art>> /\ job'.step \notin Watched
  <1>1. job \in Job
    BY JobTyped
  <1>2. CASE Refused
    BY <1>2, IdleIsQuiet DEF Refused
  <1>3. CASE ~Refused
    <2>1. /\ job' = [job EXCEPT
               !.cur = a, !.back = back, !.todo = @ \ {a},
               !.step = IF st[a].retention = "reclaimed" THEN "unlink"
                        ELSE "reclaim-mark"]
          /\ OnlyJob
      BY <1>3 DEF ReclaimOrFail
    <2> QED
      BY <1>1, <2>1 DEF Job, OnlyJob, Watched
  <1> QED
    BY <1>2, <1>3

LEMMA ScanCap ==
  ASSUME LedgerInv, TypeOK', CapInv,
         \/ \E a \in Attempts : ScanRestores(a) \/ ScanDropsResidue(a) \/ ScanRemoves(a)
         \/ ScanEnds
  PROVE  CapInv'
  <1> USE DEF LedgerInv
  <1>1. job.step = "scan" /\ job.step \in Steps
    BY DEF ScanRestores, ScanDropsResidue, ScanRemoves, ScanEnds, At, Steps
  <1>2. job \in Job
    BY <1>1, JobTyped
  <1>3. UNCHANGED <<st, art>> /\ Live' \subseteq Live /\ job'.step \notin Watched
    <2>1. ASSUME NEW a \in Attempts, ScanRestores(a)
          PROVE  UNCHANGED <<st, art>> /\ Live' \subseteq Live /\ job'.step \notin Watched
      BY <1>1, <2>1 DEF ScanRestores, Live, TypeOK, Watched
    <2>2. ASSUME NEW a \in Attempts, ScanDropsResidue(a)
          PROVE  UNCHANGED <<st, art>> /\ Live' \subseteq Live /\ job'.step \notin Watched
      BY <1>1, <2>2, IdleIsQuiet DEF ScanDropsResidue, Refused, Live, TypeOK, Watched
    <2>3. ASSUME NEW a \in Attempts, ScanRemoves(a)
          PROVE  UNCHANGED <<st, art>> /\ Live' \subseteq Live /\ job'.step \notin Watched
      BY <1>2, <2>3 DEF ScanRemoves, OnlyJob, Live, Job, Watched
    <2>4. CASE ScanEnds
      BY <1>2, <2>4, IdleIsQuiet DEF ScanEnds, Refused, Goto, OnlyJob, Live, Job, Watched
    <2> QED
      BY <2>1, <2>2, <2>3, <2>4
  <1>4. \A a \in Attempts : Eases(a)
    BY <1>3, UntouchedEases
  <1> QED
    BY <1>3, <1>4, QuietInv

LEMMA AdmissionCap ==
  ASSUME LedgerInv, TypeOK', CapInv,
         \/ \E a \in Attempts : TtlReclaims(a)
         \/ TtlBegins \/ TtlEnds \/ AdmitFails \/ AdmitUnderPressure
  PROVE  CapInv'
  <1> USE DEF LedgerInv
  <1>1. job.step \in {"ttl", "ttl-next", "admit"} /\ job.step \in Steps
    BY DEF TtlReclaims, TtlBegins, TtlEnds, AdmitFails, AdmitUnderPressure, At, Steps
  <1>2. job \in Job
    BY <1>1, JobTyped
  <1>3. UNCHANGED <<dir, st, art>> /\ job'.step \notin Watched
    <2>1. ASSUME NEW a \in Attempts, TtlReclaims(a)
          PROVE  UNCHANGED <<dir, st, art>> /\ job'.step \notin Watched
      BY <1>1, <2>1, ReclaimOrFailQuiet DEF TtlReclaims
    <2>2. CASE TtlBegins \/ TtlEnds \/ AdmitFails
      BY <1>2, <2>2, IdleIsQuiet DEF TtlBegins, TtlEnds, AdmitFails, Refused, Goto,
        OnlyJob, Job, Watched
    <2>3. CASE AdmitUnderPressure
      <3>1. Candidates(FALSE) \subseteq Attempts
        BY DEF Candidates, Live
      <3>2. Refused \/ \E a \in Candidates(FALSE) : ReclaimOrFail(a, "admit")
        BY <2>3 DEF AdmitUnderPressure
      <3>3. CASE Refused
        BY <3>3, IdleIsQuiet DEF Refused
      <3>4. ASSUME NEW a \in Candidates(FALSE), ReclaimOrFail(a, "admit")
            PROVE  UNCHANGED <<dir, st, art>> /\ job'.step \notin Watched
        <4>1. a \in Attempts
          BY <3>1, <3>4
        <4> QED
          BY <1>1, <3>4, <4>1, ReclaimOrFailQuiet
      <3> QED
        BY <3>2, <3>3, <3>4
    <2> QED
      BY <2>1, <2>2, <2>3
  <1>4. \A a \in Attempts : Eases(a)
    BY <1>3, UntouchedEases DEF Live
  <1> QED
    BY <1>3, <1>4, QuietInv

(* Admission: room for an envelope is what it has just computed. *)
LEMMA AdmitCap ==
  ASSUME LedgerInv, TypeOK', CapInv, NEW c \in Attempts, Admit(c)
  PROVE  CapInv'
  <1> USE DEF LedgerInv
  <1>1. job \in Job /\ job.step = "admit"
    BY JobTyped DEF Admit, At, Steps
  <1>2. job'.step = "create-temp"
    BY <1>1 DEF Admit, Job
  <1>3. UNCHANGED <<st, art>> /\ Live' \subseteq Live
    BY DEF Admit, Live, TypeOK
  <1>4. \A a \in Attempts : Eases(a)
    BY <1>3, UntouchedEases
  <1>5. /\ EvidenceWithinCap' /\ AtMostOne' /\ SettledShows'
        /\ Evidence' <= Evidence /\ Outstanding' \subseteq Outstanding
    BY <1>4, EasedInv
  <1>6. Outstanding = {} /\ Evidence + Envelope <= Cap
    BY AdmissionFinds DEF Admit, CapInv
  <1>7. Evidence \in Nat /\ Evidence' \in Nat
    BY FootprintType, FootprintTypeNext
  <1>8. AdmissionFits'
    <2>1. Outstanding' = {}
      BY <1>5, <1>6
    <2>2. Evidence' + Envelope <= Cap
      <3>1. Evidence' <= Evidence /\ Evidence + Envelope <= Cap
        BY <1>5, <1>6
      <3>2. /\ Evidence \in Nat /\ Evidence' \in Nat
            /\ Envelope \in Nat /\ Cap \in Nat
        BY <1>7, EnvelopeAssumption
      <3>3. \A x, y, n, m \in Nat : x <= y /\ y + n <= m => x + n <= m
        OBVIOUS
      <3> QED
        BY <3>1, <3>2, <3>3
    <2> QED
      BY <2>1, <2>2 DEF AdmissionFits
  <1>9. ReviewIsOutstanding' /\ SettlementShows'
    BY <1>2 DEF ReviewIsOutstanding, SettlementShows, At
  <1> QED
    BY <1>5, <1>8, <1>9 DEF CapInv

LEMMA CreateTempCap ==
  ASSUME LedgerInv, TypeOK', CapInv, CreateTemp
  PROVE  CapInv'
  <1> USE DEF LedgerInv
  <1>1. job \in Job /\ job.step = "create-temp"
    BY JobTyped DEF CreateTemp, At, Steps
  <1>2. job'.step = "create-state"
    BY <1>1 DEF CreateTemp, Goto, Job
  <1>3. UNCHANGED <<st, art>> /\ Live' \subseteq Live
    BY DEF CreateTemp, Live, TypeOK
  <1>4. \A a \in Attempts : Eases(a)
    BY <1>3, UntouchedEases
  <1>5. /\ EvidenceWithinCap' /\ AtMostOne' /\ SettledShows'
        /\ Evidence' <= Evidence /\ Outstanding' \subseteq Outstanding
    BY <1>4, EasedInv
  <1>6. Outstanding = {} /\ Evidence + Envelope <= Cap
    BY <1>1 DEF CapInv, AdmissionFits
  <1>7. Evidence \in Nat /\ Evidence' \in Nat
    BY FootprintType, FootprintTypeNext
  <1>8. AdmissionFits'
    <2>1. Outstanding' = {}
      BY <1>5, <1>6
    <2>2. Evidence' + Envelope <= Cap
      <3>1. Evidence' <= Evidence /\ Evidence + Envelope <= Cap
        BY <1>5, <1>6
      <3>2. /\ Evidence \in Nat /\ Evidence' \in Nat
            /\ Envelope \in Nat /\ Cap \in Nat
        BY <1>7, EnvelopeAssumption
      <3>3. \A x, y, n, m \in Nat : x <= y /\ y + n <= m => x + n <= m
        OBVIOUS
      <3> QED
        BY <3>1, <3>2, <3>3
    <2> QED
      BY <2>1, <2>2 DEF AdmissionFits
  <1>9. ReviewIsOutstanding' /\ SettlementShows'
    BY <1>2 DEF ReviewIsOutstanding, SettlementShows, At
  <1> QED
    BY <1>5, <1>8, <1>9 DEF CapInv

LEMMA CreateFailsCap ==
  ASSUME LedgerInv, TypeOK', CapInv, CreateFails
  PROVE  CapInv'
  <1> USE DEF LedgerInv
  <1>1. UNCHANGED <<st, art>> /\ Live' \subseteq Live
    BY DEF CreateFails, Live, TypeOK
  <1>2. \A a \in Attempts : Eases(a)
    BY <1>1, UntouchedEases
  <1> QED
    BY <1>2, QuietInv, IdleIsQuiet DEF CreateFails

(* The new record is charged the envelope that admission kept for it, and  *)
(* is the only one whose checkout is outstanding.                          *)
LEMMA CreateRecordCap ==
  ASSUME LedgerInv, TypeOK', CapInv, CreateRecord
  PROVE  CapInv'
  <1> USE DEF LedgerInv
  <1> DEFINE c == job.cur
  <1>1. job \in Job /\ job.step = "create-state" /\ c \in Attempts
    BY JobTyped, CurrentAttempt DEF CreateRecord, At, Steps, StepsOnAttempt
  <1>2. job'.step = "review" /\ job'.cur = c
    BY <1>1 DEF CreateRecord, Goto, Job
  <1>3. /\ st'[c] = Reserved /\ dir'[c] = "live" /\ art' = art
        /\ \A a \in Attempts : a # c => st'[a] = st[a] /\ dir'[a] = dir[a]
    BY <1>1 DEF CreateRecord, TypeOK
  <1>4. Outstanding = {} /\ Evidence + Envelope <= Cap
    BY <1>1 DEF CapInv, AdmissionFits
  <1>5. Live' \subseteq Live \cup {c}
    BY <1>3 DEF Live
  <1>6. \A a \in Live' : a # c => LiveFootprint'[a] <= LiveFootprint[a]
    <2>1. ASSUME NEW a \in Live', a # c
          PROVE  LiveFootprint'[a] <= LiveFootprint[a]
      <3>1. a \in Attempts /\ a \in Live
        BY <1>3, <2>1 DEF Live
      <3>2. Footprint(a)' = Footprint(a) /\ Footprint(a) \in Int
        BY <1>3, <2>1, <3>1, FootprintType DEF Footprint, Settled
      <3> QED
        BY <2>1, <3>1, <3>2 DEF LiveFootprint
    <2> QED
      BY <2>1
  <1>7. Evidence' <= Evidence + Envelope
    <2>1. /\ LiveFootprint \in [Live -> 0..Envelope] /\ IsFiniteSet(Live)
          /\ LiveFootprint' \in [Live' -> 0..Envelope] /\ Envelope \in Nat
      BY FootprintType, FootprintTypeNext, EnvelopeAssumption
    <2>2. Total(LiveFootprint') <= Total(LiveFootprint) + Envelope
      BY <1>5, <1>6, <2>1, TotalGrows
    <2> QED
      BY <2>2, FootprintType, FootprintTypeNext
  <1>8. EvidenceWithinCap'
    BY <1>4, <1>7, FootprintType, FootprintTypeNext, EnvelopeAssumption
    DEF EvidenceWithinCap
  <1>9. Outstanding' = {c}
    <2>1. c \in Outstanding'
      BY <1>1, <1>3 DEF Outstanding, Live, Reserved
    <2>2. \A a \in Outstanding' : a = c
      BY <1>3, <1>4 DEF Outstanding, Live
    <2> QED
      BY <2>1, <2>2
  <1>10. AtMostOne' /\ SettledShows'
    BY <1>3, <1>9 DEF AtMostOne, SettledShows, Shows, Settled, Reserved
  <1>11. AdmissionFits' /\ ReviewIsOutstanding' /\ SettlementShows'
    BY <1>2, <1>9 DEF AdmissionFits, ReviewIsOutstanding, SettlementShows, At
  <1> QED
    BY <1>8, <1>10, <1>11 DEF CapInv

(* A run ends with less than an envelope, and where it could not settle    *)
(* the checkout, with a retained worktree (AttemptLifecycle: ViewIsKnown). *)
LEMMA RunEndsCap ==
  ASSUME LedgerInv, TypeOK', CapInv, RunEnds
  PROVE  CapInv'
  <1> USE DEF LedgerInv
  <1>0. PICK c : c = job.cur
    OBVIOUS
  <1>1. /\ c \in Attempts /\ job' = Idle /\ UNCHANGED dir
        /\ \A a \in Attempts : a # c => st'[a] = st[a]
    BY <1>0, RunEndsFacts
  <1>2. c \in Outstanding
    BY <1>0 DEF RunEnds, CapInv, ReviewIsOutstanding
  <1>3. PICK v \in AR!LedgerViews, r \in 0..1, extra \in 0..1 :
          LET t == (IF v.settled THEN 1 ELSE 0) + extra IN
          /\ art' = [art EXCEPT ![job.cur] = [files |-> 1, temps |-> t, runtime |-> r]]
          /\ st' = [st EXCEPT ![job.cur] =
                   [@ EXCEPT !.retention = IF v.settled THEN "held" ELSE "active",
                             !.csettle = v.csettle, !.wt = v.wt,
                             !.verdict = v.verdict /\ v.settled,
                             !.charge = IF v.settled THEN 3 + r ELSE Envelope]]
    BY DEF RunEnds
  <1>4. v.settled /\ v.csettle = "outstanding" => v.wt # "hidden"
    BY DEF AR!LedgerViews, AR!Settlements
  <1>5. /\ st'[c].csettle = v.csettle /\ st'[c].wt = v.wt
        /\ st'[c].retention = IF v.settled THEN "held" ELSE "active"
    BY <1>0, <1>1, <1>3 DEF TypeOK, State
  <1>6. \A a \in Attempts : a # c => art'[a] = art[a]
    BY <1>0, <1>3 DEF TypeOK
  <1>7. Eases(c)
    <2>1. Footprint(c) = Envelope
      BY <1>0, RunEndsFacts DEF Footprint, Settled
    <2>2. Footprint(c)' \in 0..Envelope
      BY <1>1, FootprintTypeNext
    <2>3. Shows(c)' \/ st'[c].csettle # "outstanding"
      BY <1>4, <1>5, ViewFacts DEF Shows, Settled
    <2> QED
      BY <1>2, <2>1, <2>2, <2>3, EnvelopeAssumption DEF Eases, Outstanding
  <1>8. ASSUME NEW a \in Attempts, a # c
        PROVE  Eases(a)
    <2>1. /\ Alike(st[a], st'[a])
          /\ a \in Live' => a \in Live
          /\ art'[a].files <= art[a].files /\ art'[a].runtime <= art[a].runtime
      BY <1>1, <1>6, <1>8 DEF Alike, Live, TypeOK, Artifacts
    <2> QED
      BY <2>1, AlikeEases
  <1> QED
    BY <1>1, <1>7, <1>8, QuietInv, IdleIsQuiet

LEMMA RunStepCap ==
  ASSUME LedgerInv, TypeOK', CapInv, RunStep
  PROVE  CapInv'
  BY ScanCap, AdmissionCap, AdmitCap, CreateTempCap, CreateFailsCap,
    CreateRecordCap, RunEndsCap DEF RunStep

LEMMA CommitKeeps ==
  ASSUME TypeOK, NEW c \in Attempts, NEW s \in State, Commit(c, s)
  PROVE  /\ st'[c].csettle = s.csettle /\ st'[c].wt = s.wt
         /\ st'[c].retention = s.retention
         /\ \A a \in Attempts : a # c => st'[a] = st[a]
  BY DEF Commit, TypeOK, State

(* A reclaim removes evidence, and ends with the record itself. *)
LEMMA ReclaimStepCap ==
  ASSUME LedgerInv, TypeOK', CapInv, ReclaimStep
  PROVE  CapInv'
  <1> USE DEF LedgerInv
  <1>0. PICK c : c = job.cur
    OBVIOUS
  <1>1. /\ job.step \in {"reclaim-mark", "reclaim-files", "reclaim-done", "unlink",
                         "isolate", "rmdir"}
        /\ job \in Job /\ c \in Attempts
    <2>1. /\ job.step \in {"reclaim-mark", "reclaim-files", "reclaim-done", "unlink",
                           "isolate", "rmdir"}
          /\ job.step \in Steps
      BY DEF ReclaimStep, ReclaimMarks, ReclaimUnlinks, ReclaimMeetsRuntime,
        ReclaimEmptied, ReclaimTombstone, RemoveRecord, Isolate, RemoveDirectory,
        RemovalUndone, At, Steps, CommitSteps
    <2> QED
      BY <1>0, <2>1, JobTyped, CurrentAttempt DEF StepsOnAttempt
  <1>2. CASE ReclaimMarks \/ ReclaimTombstone
    <2>1. st[c].retention \in {"released", "reclaiming"}
      BY <1>0, <1>1, <1>2 DEF ReclaimMarks, ReclaimTombstone, At, StepRelies,
        ReclaimsReleased
    <2>2. PICK s \in State : Alike(st[c], s) /\ Commit(c, s)
      <3> DEFINE marked == [st[c] EXCEPT !.retention = "reclaiming", !.charge = Envelope]
                 done == [st[c] EXCEPT !.retention = "reclaimed", !.charge = 0]
      <3>1. /\ marked \in State /\ Alike(st[c], marked)
            /\ done \in State /\ Alike(st[c], done)
        <4>1. 0 \in 0..Envelope /\ Envelope \in 0..Envelope
          BY EnvelopeAssumption
        <4>2. st[c] \in State
          BY <1>1 DEF TypeOK
        <4> QED
          BY <2>1, <4>1, <4>2 DEF State, Alike
      <3>2. Commit(c, marked) \/ Commit(c, done)
        BY <1>0, <1>2 DEF ReclaimMarks, ReclaimTombstone
      <3> QED
        BY <3>1, <3>2
    <2>3. UNCHANGED <<dir, art>> /\ job'.step \notin Watched
      BY <1>1, <1>2 DEF ReclaimMarks, ReclaimTombstone, OnlyRecord, Goto, Job, Watched
    <2>4. \A a \in Attempts : Eases(a)
      BY <1>1, <2>2, <2>3, WriteEases
    <2> QED
      BY <2>3, <2>4, QuietInv
  <1>3. CASE ReclaimUnlinks
    <2>1. UNCHANGED <<dir, st, job>>
      BY <1>3 DEF ReclaimUnlinks
    <2>2. ASSUME NEW a \in Attempts
          PROVE  art'[a].files <= art[a].files /\ art'[a].runtime <= art[a].runtime
      <3>1. art[a] \in Artifacts
        BY DEF TypeOK
      <3>2. \/ art' = [art EXCEPT ![c].files = @ - 1]
            \/ art' = [art EXCEPT ![c].temps = @ - 1]
        BY <1>0, <1>3 DEF ReclaimUnlinks
      <3> QED
        BY <3>1, <3>2 DEF TypeOK, Artifacts
    <2>3. \A a \in Attempts : Eases(a)
      BY <2>1, <2>2, AlikeEases DEF Alike, Live
    <2> QED
      BY <1>1, <2>1, <2>3, QuietInv DEF Watched
  <1>4. CASE ReclaimMeetsRuntime \/ ReclaimEmptied
    <2>1. UNCHANGED <<dir, st, art>> /\ job'.step \notin Watched
      BY <1>1, <1>4, IdleIsQuiet DEF ReclaimMeetsRuntime, ReclaimEmptied, Refused,
        Goto, OnlyJob, Job, Watched
    <2>2. \A a \in Attempts : Eases(a)
      BY <2>1, UntouchedEases DEF Live
    <2> QED
      BY <2>1, <2>2, QuietInv
  <1>5. CASE RemoveRecord
    <2>1. CASE Refused
      <3>1. \A a \in Attempts : Eases(a)
        BY <2>1, UntouchedEases DEF Refused, Live
      <3> QED
        BY <2>1, <3>1, QuietInv, IdleIsQuiet DEF Refused
    <2>2. CASE /\ dir' = [dir EXCEPT ![c] = "empty"]
               /\ st' = [st EXCEPT ![c] = Reserved]
               /\ Goto("isolate") /\ UNCHANGED art
      <3>1. ASSUME NEW a \in Attempts
            PROVE  Eases(a)
        <4>1. CASE a = c
          BY <1>1, <2>2, <4>1 DEF Eases, Live, TypeOK
        <4>2. CASE a # c
          <5>1. /\ Alike(st[a], st'[a])
                /\ a \in Live' => a \in Live
                /\ art'[a].files <= art[a].files /\ art'[a].runtime <= art[a].runtime
            BY <2>2, <4>2 DEF Alike, Live, TypeOK, Artifacts
          <5> QED
            BY <5>1, AlikeEases
        <4> QED
          BY <4>1, <4>2
      <3>2. job'.step \notin Watched
        BY <1>1, <2>2 DEF Goto, Job, Watched
      <3> QED
        BY <3>1, <3>2, QuietInv
    <2> QED
      BY <1>0, <1>5, <2>1, <2>2 DEF RemoveRecord
  <1>6. CASE Isolate \/ RemoveDirectory \/ RemovalUndone
    <2>1. UNCHANGED <<st, art>> /\ Live' \subseteq Live
      BY <1>6 DEF Isolate, RemoveDirectory, RemovalUndone, Live, TypeOK
    <2>2. job'.step \notin Watched
      <3>1. CASE Isolate
        BY <1>1, <3>1 DEF Isolate, Goto, Job, Watched
      <3>2. CASE job' = Idle
        BY <3>2, IdleIsQuiet
      <3>3. CASE /\ job.back # "idle"
                 /\ job' = [job EXCEPT !.cur = None, !.step = job.back, !.back = "idle"]
        BY <1>1, <3>3 DEF Job, Watched
      <3> QED
        BY <1>6, <3>1, <3>2, <3>3 DEF RemoveDirectory, RemovalUndone
    <2>3. \A a \in Attempts : Eases(a)
      BY <2>1, UntouchedEases
    <2> QED
      BY <2>2, <2>3, QuietInv
  <1> QED
    BY <1>2, <1>3, <1>4, <1>5, <1>6 DEF ReclaimStep

(* A rewrite leaves the checkout's settlement and the activity alone. *)
LEMMA RewriteWritesCap ==
  ASSUME LedgerInv, TypeOK', CapInv,
         AuthorizeCommits \/ Settles \/ Finishes \/ CleanBegins \/ ReleaseBegins
  PROVE  CapInv'
  <1> USE DEF LedgerInv
  <1>0. PICK c : c = job.cur
    OBVIOUS
  <1>1. /\ job.step \in {"authorize", "settle", "finish", "clean-begin", "release-begin"}
        /\ job \in Job /\ c \in Attempts /\ st[c] \in State
    <2>1. /\ job.step \in {"authorize", "settle", "finish", "clean-begin", "release-begin"}
          /\ job.step \in Steps
      BY DEF AuthorizeCommits, Settles, Finishes, CleanBegins, ReleaseBegins, At, Steps,
        CommitSteps
    <2>2. job \in Job /\ c \in Attempts
      BY <1>0, <2>1, JobTyped, CurrentAttempt DEF StepsOnAttempt
    <2> QED
      BY <2>1, <2>2 DEF TypeOK
  <1>2. Used(c) \in 0..Envelope /\ Envelope \in 0..Envelope
    BY <1>1, UsedBound, EnvelopeAssumption
  <1>3. UNCHANGED <<dir, art>> /\ job'.step \notin Watched
    BY <1>1, IdleIsQuiet DEF AuthorizeCommits, Settles, Finishes, CleanBegins,
      ReleaseBegins, OnlyRecord, Goto, Job, Watched
  <1>4. \/ UNCHANGED st
        \/ \E s \in State :
             Alike(st[c], s) /\ (Commit(c, s) \/ st' = [st EXCEPT ![c] = s])
    <2>1. CASE AuthorizeCommits
      BY <1>0, <1>1, <1>2, <2>1 DEF AuthorizeCommits, Authorized, State, Rewrite, Alike
    <2>2. CASE Settles
      <3> DEFINE s == [st[c] EXCEPT !.charge = Used(c)]
      <3>1. s \in State /\ Alike(st[c], s)
        BY <1>1, <1>2 DEF State, Alike
      <3>2. UNCHANGED st \/ Commit(c, s)
        BY <1>0, <2>2 DEF Settles
      <3> QED
        BY <3>1, <3>2
    <2>3. CASE Finishes
      <3> DEFINE s == [st[c] EXCEPT !.rw.status = "complete"]
      <3>1. /\ s \in State /\ Alike(st[c], s)
            /\ Authorized(c) \in State /\ Alike(st[c], Authorized(c))
        BY <1>1, <1>2 DEF Authorized, State, Rewrite, Alike
      <3>2. UNCHANGED st \/ Commit(c, s) \/ st' = [st EXCEPT ![c] = Authorized(c)]
        BY <1>0, <2>3 DEF Finishes
      <3> QED
        BY <3>1, <3>2
    <2>4. CASE CleanBegins
      <3> DEFINE s == [st[c] EXCEPT
                         !.retention = st[c].retention, !.charge = Envelope,
                         !.rw = [op |-> "runtime-cleanup", status |-> "pending",
                                 needs |-> st[c].verdict]]
      <3>1. s \in State /\ Alike(st[c], s)
        BY <1>1, <1>2 DEF State, Rewrite, Alike
      <3>2. Commit(c, s)
        BY <1>0, <2>4 DEF CleanBegins, BeginRewrite
      <3> QED
        BY <3>1, <3>2
    <2>5. CASE ReleaseBegins
      <3> DEFINE s == [st[c] EXCEPT
                         !.retention = "released", !.charge = Envelope,
                         !.rw = [op |-> "release", status |-> "pending",
                                 needs |-> st[c].verdict]]
      <3>1. st[c].retention \in {"held", "released"}
        BY <1>0, <2>5 DEF ReleaseBegins, StepRelies, RewritesAuthorized
      <3>2. s \in State /\ Alike(st[c], s)
        BY <1>1, <1>2, <3>1 DEF State, Rewrite, Alike
      <3>3. Commit(c, s)
        BY <1>0, <2>5 DEF ReleaseBegins, BeginRewrite
      <3> QED
        BY <3>2, <3>3
    <2> QED
      BY <2>1, <2>2, <2>3, <2>4, <2>5
  <1>5. \A a \in Attempts : Eases(a)
    <2>1. CASE UNCHANGED st
      BY <1>3, <2>1, UntouchedEases DEF Live
    <2>2. CASE ~UNCHANGED st
      BY <1>1, <1>3, <1>4, <2>2, WriteEases
    <2> QED
      BY <2>1, <2>2
  <1> QED
    BY <1>3, <1>5, QuietInv

LEMMA RemovesResidueCap ==
  ASSUME LedgerInv, TypeOK', CapInv, RemovesResidue
  PROVE  CapInv'
  <1> USE DEF LedgerInv
  <1>1. job \in Job
    BY JobTyped DEF RemovesResidue, Steps, CommitSteps
  <1>2. UNCHANGED <<dir, st>> /\ job'.step \notin Watched
    BY <1>1 DEF RemovesResidue, Goto, At, Job, Watched
  <1>3. ASSUME NEW a \in Attempts
        PROVE  art'[a].files <= art[a].files /\ art'[a].runtime <= art[a].runtime
    BY DEF RemovesResidue, TypeOK, Artifacts
  <1>4. \A a \in Attempts : Eases(a)
    BY <1>2, <1>3, AlikeEases DEF Alike, Live
  <1> QED
    BY <1>2, <1>4, QuietInv

(* A recovery settles the checkout, or declares it manual, before it       *)
(* settles the process.                                                    *)
LEMMA RecoveryWritesCap ==
  ASSUME LedgerInv, TypeOK', CapInv,
         RecoverConserves \/ RecoverMarks \/ RecoverCleansWorktree
  PROVE  CapInv'
  <1> USE DEF LedgerInv
  <1>0. PICK c : c = job.cur
    OBVIOUS
  <1>1. /\ job.step \in RecoverySteps /\ c \in Attempts /\ st[c] \in State
        /\ job \in Job /\ UNCHANGED <<dir, art>>
    BY <1>0, RecoveryRecord, JobTyped DEF RecoverConserves, RecoverMarks,
      RecoverCleansWorktree, At, RecoverySteps, OnlyRecord
  <1>2. CASE RecoverConserves
    <2> DEFINE s == [st[c] EXCEPT !.charge = Envelope]
    <2>1. s \in State /\ Alike(st[c], s)
      BY <1>1, EnvelopeAssumption DEF State, Alike
    <2>2. Commit(c, s) /\ job'.step \notin Watched
      BY <1>0, <1>1, <1>2 DEF RecoverConserves, Goto, Job, Watched
    <2>3. \A a \in Attempts : Eases(a)
      BY <1>1, <2>1, <2>2, WriteEases
    <2> QED
      BY <2>2, <2>3, QuietInv
  <1>3. CASE RecoverMarks
    <2> DEFINE s == [st[c] EXCEPT !.verdict = FALSE]
    <2>1. s \in State /\ Alike(st[c], s)
      BY <1>1 DEF State, Alike
    <2>2. Commit(c, s)
      BY <1>0, <1>3 DEF RecoverMarks
    <2>3. \A a \in Attempts : Eases(a)
      BY <1>1, <2>1, <2>2, WriteEases
    <2>4. /\ job'.cur = c
          /\ job'.step = IF st[c].csettle = "outstanding" THEN "worktree"
                         ELSE "settle-process"
      BY <1>0, <1>1, <1>3 DEF RecoverMarks, Goto, Job
    <2>5. st'[c].csettle = st[c].csettle
      BY <1>1, <1>0, <1>3 DEF RecoverMarks, Commit, TypeOK, State
    <2>6. SettlementShows'
      BY <1>1, <2>4, <2>5 DEF SettlementShows, At, State
    <2>7. AdmissionFits' /\ ReviewIsOutstanding'
      BY <2>4 DEF AdmissionFits, ReviewIsOutstanding, At
    <2> QED
      BY <2>3, <2>6, <2>7, EasedInv DEF CapInv
  <1>4. CASE RecoverCleansWorktree
    <2>1. job'.cur = c /\ job'.step = "settle-process"
      BY <1>0, <1>1, <1>4 DEF RecoverCleansWorktree, Goto, Job
    <2>2. /\ \/ st'[c].csettle = "exact"
             \/ st'[c].csettle = st[c].csettle /\ st'[c].wt = "manual"
          /\ st'[c].retention = st[c].retention
          /\ \A a \in Attempts : a # c => st'[a] = st[a]
      <3> DEFINE s == [st[c] EXCEPT !.csettle = "exact", !.wt = "hidden"]
                 m == [st[c] EXCEPT !.wt = "manual"]
      <3>1. /\ s \in State /\ s.csettle = "exact" /\ s.retention = st[c].retention
            /\ m \in State /\ m.csettle = st[c].csettle /\ m.wt = "manual"
            /\ m.retention = st[c].retention
        BY <1>1 DEF State
      <3>2. Commit(c, s) \/ Commit(c, m)
        BY <1>0, <1>4 DEF RecoverCleansWorktree
      <3> HIDE DEF s, m
      <3>3. ASSUME NEW r \in State, Commit(c, r)
            PROVE  /\ st'[c].csettle = r.csettle /\ st'[c].wt = r.wt
                   /\ st'[c].retention = r.retention
                   /\ \A a \in Attempts : a # c => st'[a] = st[a]
        BY <1>1, <3>3, CommitKeeps
      <3> QED
        BY <3>1, <3>2, <3>3
    <2>3. ASSUME NEW a \in Attempts
          PROVE  Eases(a)
      <3>1. CASE a = c
        <4>1. Footprint(a)' <= Footprint(a)
          BY <1>1, <2>2, <3>1, EnvelopeAssumption
          DEF Footprint, Settled, TypeOK, Artifacts
        <4>2. a \in Outstanding' => a \in Outstanding /\ Shows(a)'
          BY <1>1, <2>2, <3>1 DEF Outstanding, Live, Shows
        <4> QED
          BY <1>1, <4>1, <4>2 DEF Eases, Live
      <3>2. CASE a # c
        <4>1. /\ Alike(st[a], st'[a])
              /\ a \in Live' => a \in Live
              /\ art'[a].files <= art[a].files /\ art'[a].runtime <= art[a].runtime
          BY <1>1, <2>2, <3>2 DEF Alike, Live, TypeOK, Artifacts
        <4> QED
          BY <4>1, AlikeEases
      <3> QED
        BY <3>1, <3>2
    <2>4. SettlementShows'
      BY <2>1, <2>2 DEF SettlementShows, At
    <2>5. AdmissionFits' /\ ReviewIsOutstanding'
      BY <2>1 DEF AdmissionFits, ReviewIsOutstanding, At
    <2> QED
      BY <2>3, <2>4, <2>5, EasedInv DEF CapInv
  <1> QED
    BY <1>2, <1>3, <1>4

LEMMA RecoverSettlesRoom ==
  ASSUME LedgerInv, RecoverSettles
  PROVE  Used(job.cur) \in 0..Envelope /\ Used(job.cur) + 1 \in 0..Envelope
  <1>1. job.step \in RecoverySteps /\ job.step \notin {"conserve", "purge"}
    BY DEF RecoverSettles, At, RecoverySteps
  <1>2. art[job.cur] \in Artifacts /\ art[job.cur].temps = 0
    BY <1>1, RecoveryRecord
  <1> QED
    BY <1>2, EnvelopeAssumption DEF Artifacts, Used

LEMMA RecoverSettlesCap ==
  ASSUME LedgerInv, TypeOK', CapInv, RecoverSettles
  PROVE  CapInv'
  <1> USE DEF LedgerInv
  <1>0. PICK c : c = job.cur
    OBVIOUS
  <1>1. /\ c \in Attempts /\ job' = Idle /\ UNCHANGED dir
        /\ \A b \in Attempts : b # c => st'[b] = st[b]
        /\ \/ st'[c].retention = st[c].retention
           \/ st[c].retention = "active" /\ st'[c].retention = "held"
        /\ \A b \in Attempts : art'[b].files = art[b].files
    BY <1>0, RecoverSettlesFacts
  <1>2. st'[c].csettle = st[c].csettle /\ st'[c].wt = st[c].wt
    <2> DEFINE s == [st[c] EXCEPT !.charge = Used(c)]
               t == [st[c] EXCEPT !.retention = "held", !.charge = Used(c) + 1]
    <2>1. job.step \in RecoverySteps
      BY DEF RecoverSettles, At, RecoverySteps
    <2>2. /\ st[c] \in State /\ Used(c) \in 0..Envelope /\ Used(c) + 1 \in 0..Envelope
      BY <1>0, <2>1, RecoveryRecord, RecoverSettlesRoom
    <2>3. /\ s \in State /\ s.csettle = st[c].csettle /\ s.wt = st[c].wt
          /\ t \in State /\ t.csettle = st[c].csettle /\ t.wt = st[c].wt
      BY <2>2 DEF State
    <2>4. Commit(c, s) \/ Commit(c, t)
      BY <1>0 DEF RecoverSettles
    <2> HIDE DEF s, t
    <2> QED
      BY <1>1, <2>3, <2>4, CommitKeeps
  <1>3. \A b \in Attempts : art'[b].runtime = art[b].runtime
    BY DEF RecoverSettles, TypeOK, Artifacts
  <1>4. \A b \in Attempts : art'[b].files <= art[b].files /\ art'[b].runtime <= art[b].runtime
    BY <1>1, <1>3 DEF TypeOK, Artifacts
  <1>5. Eases(c)
    <2>1. Footprint(c)' <= Footprint(c)
      BY <1>1, <1>4, EnvelopeAssumption DEF Footprint, Settled, TypeOK, Artifacts
    <2>2. c \in Outstanding' => c \in Outstanding /\ Shows(c)'
      BY <1>0, <1>1, <1>2 DEF Outstanding, Live, Shows, CapInv, SettlementShows,
        RecoverSettles
    <2> QED
      BY <1>1, <2>1, <2>2 DEF Eases, Live
  <1>6. ASSUME NEW a \in Attempts, a # c
        PROVE  Eases(a)
    <2>1. Alike(st[a], st'[a]) /\ (a \in Live' => a \in Live)
      BY <1>1, <1>6 DEF Alike, Live
    <2> QED
      BY <1>4, <2>1, AlikeEases
  <1> QED
    BY <1>1, <1>5, <1>6, QuietInv, IdleIsQuiet

LEMMA RewriteStepCap ==
  ASSUME LedgerInv, TypeOK', CapInv, RewriteStep
  PROVE  CapInv'
  BY RewriteWritesCap, RemovesResidueCap, RecoveryWritesCap, RecoverSettlesCap
  DEF RewriteStep

(* A step that leaves the root and the command as they are *)
LEMMA UnchangedCap ==
  ASSUME CapInv, UNCHANGED <<dir, st, art, job>>
  PROVE  CapInv'
  <1>1. Live' = Live /\ Outstanding' = Outstanding
    BY DEF Live, Outstanding
  <1>2. LiveFootprint' = LiveFootprint
    BY <1>1 DEF LiveFootprint, Footprint, Settled
  <1>3. Evidence' = Evidence
    BY <1>2 DEF Evidence, LiveFootprint, Total, Units
  <1>4. EvidenceWithinCap' /\ AdmissionFits'
    BY <1>1, <1>3 DEF CapInv, EvidenceWithinCap, AdmissionFits
  <1>5. AtMostOne' /\ SettledShows' /\ ReviewIsOutstanding' /\ SettlementShows'
    BY <1>1 DEF CapInv, AtMostOne, SettledShows, Shows, Settled, ReviewIsOutstanding,
      SettlementShows, At
  <1> QED
    BY <1>4, <1>5 DEF CapInv

LEMMA EnvironmentCap ==
  ASSUME LedgerInv, TypeOK', CapInv, Environment
  PROVE  CapInv'
  <1> USE DEF LedgerInv
  <1>1. CASE Crash
    <2>1. UNCHANGED <<dir, st>> /\ job' = Idle
      BY <1>1 DEF Crash
    <2>2. ASSUME NEW a \in Attempts
          PROVE  art'[a].files <= art[a].files /\ art'[a].runtime <= art[a].runtime
      BY <1>1 DEF Crash, Live, TypeOK, Artifacts
    <2>3. \A a \in Attempts : Eases(a)
      BY <2>1, <2>2, AlikeEases DEF Alike, Live
    <2> QED
      BY <2>1, <2>3, QuietInv, IdleIsQuiet
  <1>2. CASE \/ Reboot
             \/ \E a \in Attempts : TtlElapses(a) \/ ResidueAges(a)
    BY <1>2, UnchangedCap DEF Reboot, TtlElapses, ResidueAges
  <1> QED
    BY <1>1, <1>2 DEF Environment

LEMMA InitCap ==
  ASSUME Init
  PROVE  CapInv
  <1>1. Live = {} /\ job.step = "none"
    BY DEF Init, Live, Idle
  <1>2. Evidence = 0
    <2>1. Units(LiveFootprint) = {}
      BY <1>1 DEF Units, LiveFootprint
    <2> QED
      BY <2>1, FS_EmptySet DEF Evidence, LiveFootprint, Total
  <1> QED
    BY <1>1, <1>2, EnvelopeAssumption DEF CapInv, EvidenceWithinCap, AtMostOne,
      SettledShows, AdmissionFits, ReviewIsOutstanding, SettlementShows, Outstanding, At

LEMMA NextCap ==
  ASSUME LedgerInv, LedgerInv', CapInv, [Next]_vars
  PROVE  CapInv'
  <1>1. CASE UNCHANGED vars
    BY <1>1, UnchangedCap DEF vars
  <1>2. TypeOK'
    BY DEF LedgerInv
  <1> QED
    BY <1>1, <1>2, StartCap, RunStepCap, ReclaimStepCap, RewriteStepCap,
      EnvironmentCap DEF Next, Step

LEMMA CapInvariant == Spec => []CapInv
  <1>1. Init => CapInv
    BY InitCap
  <1>2. LedgerInv /\ LedgerInv' /\ CapInv /\ [Next]_vars => CapInv'
    BY NextCap
  <1> QED
    BY <1>1, <1>2, LedgerInvariant, PTL DEF Spec

(* The evidence of all attempts stays within the retention cap, counting   *)
(* the whole envelope for an attempt that may still be writing, whichever  *)
(* commands were interrupted (ledger.py calculate_admission).              *)
THEOREM CapIsKept == Spec => []EvidenceWithinCap
  <1>1. CapInv => EvidenceWithinCap
    BY DEF CapInv
  <1> QED
    BY <1>1, CapInvariant, PTL

(* At most one attempt keeps a checkout: reconcile_ledger's error "more    *)
(* than one retained worktree record exists" never arises.                 *)
THEOREM OneWorktreeIsRetained == Spec => []OneRetainedWorktree
  <1>1. CapInv => OneRetainedWorktree
    <2>1. ASSUME CapInv
          PROVE  Cardinality(RetainedWorktrees) <= 1
      <3>1. \A a, b \in RetainedWorktrees : a = b
        BY <2>1 DEF CapInv, AtMostOne, Outstanding, RetainedWorktrees
      <3>2. CASE RetainedWorktrees = {}
        BY <3>2, FS_EmptySet
      <3>3. CASE RetainedWorktrees # {}
        <4>1. PICK a : RetainedWorktrees = {a}
          BY <3>1, <3>3
        <4>2. Cardinality({a}) = 1
          BY FS_Singleton
        <4> QED
          BY <4>1, <4>2
      <3> QED
        BY <3>2, <3>3
    <2> QED
      BY <2>1 DEF OneRetainedWorktree
  <1> QED
    BY <1>1, CapInvariant, PTL
=============================================================================
