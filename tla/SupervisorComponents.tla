------------------------ MODULE SupervisorComponents ------------------------
(***************************************************************************)
(* The components that share no state are checked side by side: a behaviour*)
(* chooses one of them and runs it alone, its variables in the slots s1,   *)
(* s2, ... in the order of their declaration. What is checked of a         *)
(* component here is what its own specification says; TLC explores the sum *)
(* of the components and not their product. These are the components of    *)
(* the supervisor package beside the attempt and the ledger: child         *)
(* processes, the session, the account, records on disk; and the two of    *)
(* the review runtime that guard files by locks, the refresh lock and a    *)
(* run with its cleaners.                                                  *)
(***************************************************************************)

CONSTANTS
  Cases,         \* the components a run looks at
  Bound,         \* their bounds
  None,
  Ids,           \* identifiers of threads, turns and items
  l1, p1, p2,    \* helpers, the last two of one lock
  c1, c2,        \* commands on a run
  Claude, Starter

VARIABLES
  which,  \* the component that runs
  s1, s2, s3, s4, s5, s6, s7, s8, s9, s10, s11, s12, s13, s14, s15, s16, s17, s18, s19, s20,
  s21, s22, s23, s24, s25, s26, s27, s28, s29

All == <<which,
         s1, s2, s3, s4, s5, s6, s7, s8, s9, s10, s11, s12, s13, s14, s15, s16, s17, s18, s19,
         s20, s21, s22, s23, s24, s25, s26, s27, s28, s29>>

(* The slots from the n-th on are not used, and stay so. *)
Idle == "idle"
Off29 == s29 = Idle
Off28 == s28 = Idle /\ Off29
Off27 == s27 = Idle /\ Off28
Off26 == s26 = Idle /\ Off27
Off25 == s25 = Idle /\ Off26
Off24 == s24 = Idle /\ Off25
Off23 == s23 = Idle /\ Off24
Off22 == s22 = Idle /\ Off23
Off21 == s21 = Idle /\ Off22
Off20 == s20 = Idle /\ Off21
Off19 == s19 = Idle /\ Off20
Off18 == s18 = Idle /\ Off19
Off17 == s17 = Idle /\ Off18
Off16 == s16 = Idle /\ Off17
Off15 == s15 = Idle /\ Off16
Off14 == s14 = Idle /\ Off15
Off13 == s13 = Idle /\ Off14
Off12 == s12 = Idle /\ Off13
Off11 == s11 = Idle /\ Off12
Off10 == s10 = Idle /\ Off11
Off9 == s9 = Idle /\ Off10
Off8 == s8 = Idle /\ Off9
Off7 == s7 = Idle /\ Off8
Off6 == s6 = Idle /\ Off7
Off5 == s5 = Idle /\ Off6
Off4 == s4 = Idle /\ Off5
Off3 == s3 = Idle /\ Off4
Off2 == s2 = Idle /\ Off3
Off1 == s1 = Idle /\ Off2

(* which, and the slots from the n-th on *)
Kept29 == <<which, s29>>
Kept28 == <<s28, Kept29>>
Kept27 == <<s27, Kept28>>
Kept26 == <<s26, Kept27>>
Kept25 == <<s25, Kept26>>
Kept24 == <<s24, Kept25>>
Kept23 == <<s23, Kept24>>
Kept22 == <<s22, Kept23>>
Kept21 == <<s21, Kept22>>
Kept20 == <<s20, Kept21>>
Kept19 == <<s19, Kept20>>
Kept18 == <<s18, Kept19>>
Kept17 == <<s17, Kept18>>
Kept16 == <<s16, Kept17>>
Kept15 == <<s15, Kept16>>
Kept14 == <<s14, Kept15>>
Kept13 == <<s13, Kept14>>
Kept12 == <<s12, Kept13>>
Kept11 == <<s11, Kept12>>
Kept10 == <<s10, Kept11>>
Kept9 == <<s9, Kept10>>
Kept8 == <<s8, Kept9>>
Kept7 == <<s7, Kept8>>
Kept6 == <<s6, Kept7>>
Kept5 == <<s5, Kept6>>
Kept4 == <<s4, Kept5>>
Kept3 == <<s3, Kept4>>
Kept2 == <<s2, Kept3>>
Kept1 == <<s1, Kept2>>

(* A child between fork and reap, with interrupts; then two in a row without. *)
Own == INSTANCE ProcessOwnership WITH
  pc <- s1, caller <- s2, group <- s3, receipt <- s4, owner <- s5, err <- s6, attempt <- s7,
  after <- s8, end <- s9, fd <- s10, child <- s11, kin <- s12, wrote <- s13, reported <- s14,
  latched <- s15, spawns <- s16, interrupts <- s17,
  Callers <- {"internal-helper", "custody-helper"}, MaxSpawns <- 1, MaxInterrupts <- Bound.own

Fence == INSTANCE ProcessOwnership WITH
  pc <- s1, caller <- s2, group <- s3, receipt <- s4, owner <- s5, err <- s6, attempt <- s7,
  after <- s8, end <- s9, fd <- s10, child <- s11, kin <- s12, wrote <- s13, reported <- s14,
  latched <- s15, spawns <- s16, interrupts <- s17,
  Callers <- {"internal-helper", "custody-helper"}, MaxSpawns <- 2, MaxInterrupts <- 0

Relay == INSTANCE SignalRelay WITH
  pc <- s1, relay <- s2, child <- s3, pending <- s4, hits <- s5, stray <- s6, caller <- s7,
  sent <- s8, interrupt <- s9, state <- s10, None <- None, MaxSignals <- Bound.relay

Launch == INSTANCE NoChildLaunch WITH
  pc <- s1, err <- s2, worker <- s3, escaped <- s4, receipt <- s5, outcome <- s6, fd <- s7,
  child <- s8, told <- s9, complaint <- s10, leader <- s11, acked <- s12, inner <- s13,
  outer <- s14, unproven <- s15, file <- s16, ran <- s17, interrupts <- s18,
  MaxInterrupts <- Bound.launch, MaxSwaps <- 1, Faults <- TRUE

(* A session with texts in parts, then one that logs in. *)
Session == INSTANCE AppServerSession WITH
  st <- s1, pending <- s2, sent <- s3, clash <- s4, thread <- s5, turn <- s6, proved <- s7,
  items <- s8, stream <- s9, reason <- s10, telemetry <- s11, io <- s12, result <- s13,
  None <- None, ExternalAuth <- FALSE, Ids <- Ids, Words <- {"a"}, Budget <- 2, MaxParts <- 2,
  MaxReasoning <- 1, MaxTelemetry <- 0, MaxItems <- 2, MaxDeltas <- 1

Login == INSTANCE AppServerSession WITH
  st <- s1, pending <- s2, sent <- s3, clash <- s4, thread <- s5, turn <- s6, proved <- s7,
  items <- s8, stream <- s9, reason <- s10, telemetry <- s11, io <- s12, result <- s13,
  None <- None, ExternalAuth <- TRUE, Ids <- Ids, Words <- {"a", "_"}, Budget <- 1,
  MaxParts <- 1, MaxReasoning <- 1, MaxTelemetry <- 1, MaxItems <- 1, MaxDeltas <- 1

Carrier == INSTANCE AuthCarrier WITH
  kind <- s1, name <- s2, content <- s3, private <- s4, edits <- s5, clock <- s6, stage <- s7,
  pc <- s8, seen <- s9, evidence <- s10, history <- s11, launched <- s12, None <- None,
  Margin <- 1, Tolerance <- 1, Fresh <- 2, MaxEdits <- Bound.edits, MaxTime <- Bound.time,
  MaxSkew <- 1

Refresh == INSTANCE AuthRefresh WITH
  pc <- s1, child <- s2, code <- s3, sent <- s4, bound <- s5, host <- s6, knows <- s7,
  proto <- s8, io <- s9, late <- s10, closing <- s11, closure <- s12, result <- s13,
  failure <- s14, outcome <- s15, None <- None

Review == INSTANCE AuthenticatedReview WITH
  pc <- s1, stage <- s2, lease <- s3, snap <- s4, custody <- s5, launch <- s6, roots <- s7,
  child <- s8, helper <- s9, state <- s10, known <- s11, life <- s12, owed <- s13, err <- s14,
  source <- s15, errs <- s16, faults <- s17, blind <- s18, refused <- s19, MaxFaults <- 3

Staging == INSTANCE SnapshotStaging WITH
  pc <- s1, place <- s2, file <- s3, synced <- s4, state <- s5, created <- s6, ident <- s7,
  build <- s8, fd <- s9, held <- s10, out <- s11, faults <- s12, MaxFaults <- 2

Preflight == INSTANCE PreflightCommand WITH
  pc <- s1, dir <- s2, outcome <- s3, anchors <- s4, child <- s5, killed <- s6, own <- s7,
  bound <- s8, receipt <- s9, fds <- s10, eof <- s11, bytes <- s12, reaped <- s13, err <- s14,
  retained <- s15, faults <- s16, MaxFaults <- Bound.preflight, Limit <- 1

File == INSTANCE RecordFile WITH
  pc <- s1, kind <- s2, writer <- s3, tries <- s4, dir <- s5, log <- s6, inode <- s7,
  other <- s8, claim <- s9, base <- s10, result <- s11, returned <- s12, MaxWrites <- 2,
  MaxOther <- Bound.other, MaxTries <- Bound.tries

(* One helper beside Claude, then two helpers. *)
Lock == INSTANCE RefreshLock WITH
  dir <- s1, inodes <- s2, pc <- s3, todo <- s4, lease <- s5, locks <- s6, fds <- s7,
  beat <- s8, op <- s9, handoff <- s10, removed <- s11, faults <- s12, signals <- s13,
  None <- None, Helpers <- {l1}, Claude <- Claude, Foreign <- TRUE,
  OnSuccess <- Bound.onSuccess, MaxInterrupts <- Bound.signals, MaxInodes <- Bound.inodes

Locks == INSTANCE RefreshLock WITH
  dir <- s1, inodes <- s2, pc <- s3, todo <- s4, lease <- s5, locks <- s6, fds <- s7,
  beat <- s8, op <- s9, handoff <- s10, removed <- s11, faults <- s12, signals <- s13,
  None <- None, Helpers <- {p1, p2}, Claude <- Claude, Foreign <- FALSE, OnSuccess <- TRUE,
  MaxInterrupts <- 1, MaxInodes <- Bound.shared

(* One command while processes are killed, then two commands. *)
Run == INSTANCE RunCustody WITH
  mode <- s1, keep <- s2, starter <- s3, runner <- s4, marker <- s5, record <- s6, box <- s7,
  art <- s8, receipts <- s9, tree <- s10, exit <- s11, sealed <- s12, lock <- s13, fds <- s14,
  cmd <- s15, worker <- s16, job <- s17, kills <- s18, Commands <- Bound.commands,
  Starter <- Starter, Nobody <- None, Artifacts <- Bound.artifacts, MaxKills <- Bound.kills

Runs == INSTANCE RunCustody WITH
  mode <- s1, keep <- s2, starter <- s3, runner <- s4, marker <- s5, record <- s6, box <- s7,
  art <- s8, receipts <- s9, tree <- s10, exit <- s11, sealed <- s12, lock <- s13, fds <- s14,
  cmd <- s15, worker <- s16, job <- s17, kills <- s18, Commands <- {c1, c2}, Starter <- Starter,
  Nobody <- None, Artifacts <- {}, MaxKills <- 0

-----------------------------------------------------------------------------
SupervisorInit ==
  \/ which = "own" /\ Own!Init /\ Off18
  \/ which = "fence" /\ Fence!Init /\ Off18
  \/ which = "relay" /\ Relay!Init /\ Off11
  \/ which = "launch" /\ Launch!Init /\ Off19
  \/ which = "session" /\ Session!Init /\ Off14
  \/ which = "login" /\ Login!Init /\ Off14
  \/ which = "carrier" /\ Carrier!Init /\ Off13
  \/ which = "refresh" /\ Refresh!Init /\ Off16
  \/ which = "review" /\ Review!Init /\ Off20
  \/ which = "staging" /\ Staging!Init /\ Off13
  \/ which = "preflight" /\ Preflight!Init /\ Off17
  \/ which = "file" /\ File!Init /\ Off13
  \/ which = "lock" /\ Lock!Init /\ Off14
  \/ which = "locks" /\ Locks!Init /\ Off14
  \/ which = "run" /\ Run!Init /\ Off19
  \/ which = "runs" /\ Runs!Init /\ Off19

SupervisorNext ==
  \/ which = "own" /\ Own!Next /\ UNCHANGED Kept18
  \/ which = "fence" /\ Fence!Next /\ UNCHANGED Kept18
  \/ which = "relay" /\ Relay!Next /\ UNCHANGED Kept11
  \/ which = "launch" /\ Launch!Next /\ UNCHANGED Kept19
  \/ which = "session" /\ Session!Next /\ UNCHANGED Kept14
  \/ which = "login" /\ Login!Next /\ UNCHANGED Kept14
  \/ which = "carrier" /\ Carrier!Next /\ UNCHANGED Kept13
  \/ which = "refresh" /\ Refresh!Next /\ UNCHANGED Kept16
  \/ which = "review" /\ Review!Next /\ UNCHANGED Kept20
  \/ which = "staging" /\ Staging!Next /\ UNCHANGED Kept13
  \/ which = "preflight" /\ Preflight!Next /\ UNCHANGED Kept17
  \/ which = "file" /\ File!Next /\ UNCHANGED Kept13
  \/ which = "lock" /\ Lock!Next /\ UNCHANGED Kept14
  \/ which = "locks" /\ Locks!Next /\ UNCHANGED Kept14
  \/ which = "run" /\ Run!Next /\ UNCHANGED Kept19
  \/ which = "runs" /\ Runs!Next /\ UNCHANGED Kept19

(* Fairness: what each component's own specification assumes. *)
SupervisorFairness ==
  /\ WF_(Fence!vars)(which = "fence" /\ Fence!Parent)
  /\ WF_(Relay!vars)(which = "relay" /\ Relay!Gate)
  /\ WF_(Launch!vars)(which = "launch" /\ Launch!Launch)
  /\ WF_(Launch!vars)(which = "launch" /\ Launch!Worker)
  /\ WF_(Refresh!vars)(which = "refresh" /\ Refresh!Due)
  /\ WF_(Refresh!vars)(which = "refresh" /\ Refresh!Time)
  /\ WF_(Review!vars)(which = "review" /\ Review!Step)
  /\ WF_(Preflight!vars)(which = "preflight" /\ Preflight!Step)
  /\ WF_(File!vars)(which = "file" /\ File!Steps)
  /\ WF_(Lock!vars)(which = "lock" /\ Lock!Main(l1))
  /\ WF_(Run!vars)(which = "run" /\ Run!StarterSteps)
  /\ WF_(Run!vars)(which = "run" /\ Run!RunnerSteps)
  /\ \A p \in Run!Actors : WF_(Run!vars)(which = "run" /\ Run!Remove(p))
  /\ \A c \in Bound.commands : WF_(Run!vars)(which = "run" /\ Run!CommandSteps(c))
  /\ \A c \in Bound.commands : WF_(Run!vars)(which = "run" /\ Run!WorkerSteps(c))

-----------------------------------------------------------------------------
(* Properties *)

(* Whatever interrupt strikes between fork, exec and reap, a child is known *)
(* to somebody, proven means gone, and no descriptor is closed twice.       *)
(* process.py:604, no_child_profile.py:4122                                 *)
ChildrenAreAccountedFor ==
  /\ which = "own" =>
       /\ Own!TypeOK
       /\ Own!NoSilentChild
       /\ Own!ProvenMeansGone
       /\ Own!NeverClosesForeign
  /\ which = "launch" =>
       /\ Launch!TypeOK
       /\ Launch!NoSilentChild
       /\ Launch!ResultRuns
       /\ Launch!NoLeakedPipe
       /\ Launch!NeverClosesForeign

(* A termination signal reaches the child and then the caller, and nobody's *)
(* process after the child was reaped. signal_relay.py:139                  *)
SignalsArriveOnce ==
  /\ which = "relay" =>
       /\ Relay!TypeOK
       /\ Relay!CallerIsTold
       /\ Relay!ChildIsTold
       /\ Relay!NoStraySignal
       /\ Relay!ReapedIsGone

(* One request at a time, no prompt before the session is shown to execute  *)
(* nothing, and the answer is the text that streamed in the turn both sides *)
(* agreed on. appserver_protocol.py:1088, 1579                              *)
SessionIsAgreed ==
  /\ which = "session" =>
       /\ Session!TypeOK
       /\ Session!RunsOnAgreedTurn
       /\ Session!ResultIsTheStream
       /\ Session!HeldIsCounted
       /\ Session!AnswerIsDelivered
  /\ which = "login" =>
       /\ Login!TypeOK
       /\ Login!OneOutstanding
       /\ Login!PromptIsEarned

(* The credential sent was read whole, was the account's after the launch   *)
(* and outlives the review; a refresh counts only when its process is gone  *)
(* and no signal came first. auth_carrier.py:300, auth_refresh.py:1018      *)
AccountIsCurrent ==
  /\ which = "carrier" =>
       /\ Carrier!TypeOK
       /\ Carrier!EvidenceWasWhole
       /\ Carrier!SentWasHeldAfterLaunch
       /\ Carrier!SentOutlivesReview
  /\ which = "refresh" =>
       /\ Refresh!TypeOK
       /\ Refresh!RefreshedIsProved
       /\ Refresh!BoundIsOwn
       /\ Refresh!ClosedLeavesNothing
       /\ Refresh!SignalWins

(* The copy of the executable and every directory made for it outlive the   *)
(* process that uses them, what is left has an owner who names it, and what *)
(* is called removed is removed on disk. review_execution.py:1714,          *)
(* codex_executable.py:2740, 3690                                           *)
EvidenceOutlivesReview ==
  /\ which = "review" =>
       /\ Review!TypeOK
       /\ Review!KnownKeepsSnapshot
       /\ Review!AliveIsUnproven
       /\ Review!OpenLaunchIsUnproven
       /\ Review!NamedIsKept
       /\ Review!NothingLeft
  /\ which = "staging" =>
       /\ Staging!TypeOK
       /\ Staging!EvidenceIsTrue
       /\ Staging!CleanIsDurable
       /\ Staging!DescriptorsAccounted
  /\ which = "preflight" =>
       /\ Preflight!TypeOK
       /\ Preflight!NoSilentProcess
       /\ Preflight!DirectoryOutlivesProcess
       /\ Preflight!LeftIsHeld
       /\ Preflight!LaunchControlsKept
       /\ Preflight!ResultIsWhole

(* A settlement reported as exact stays exact across crashes of the writer  *)
(* and of the machine. settlement_state.py:172                              *)
RecordIsExact ==
  /\ which = "file" =>
       /\ File!TypeOK
       /\ File!SettledIsExact

(* Only own lock directories are removed, but where Claude took one over by *)
(* age between two system calls on its name; no descriptor is used after    *)
(* its close, what is left is reported, and two helpers never hold the      *)
(* lease at once. claude_refresh_lock.py:1690, 1986, 3345                         *)
LocksAreOwned ==
  /\ which = "lock" =>
       /\ Lock!TypeOK
       /\ Lock!RemovesOnlyOwn
       /\ Lock!NoLateUse
       /\ Lock!ResidueIsReported
       /\ Lock!ReleasedIsClean
       /\ Lock!VerifiedMeansClosed
  /\ which = "locks" =>
       /\ Locks!TypeOK
       /\ Locks!RemovesOnlyOwn
       /\ Locks!OneHolder

(* A run that is reviewed is never cleaned, two cleaners never work at      *)
(* once, and the marker of a run outlives its content. cleanup_worker.py:41,*)
(* state.py:3604                                                            *)
RunIsKept ==
  /\ which = "run" =>
       /\ Run!TypeOK
       /\ Run!ReviewUndisturbed
       /\ Run!OneCleaner
       /\ Run!SuccessIsRemoval
       /\ Run!MarkerOutlivesContent
  /\ which = "runs" =>
       /\ Runs!ReviewUndisturbed
       /\ Runs!OneCleaner
       /\ Runs!SuccessIsRemoval

(* No child is started while the closure of an earlier one is unproven, a   *)
(* record is replaced as a whole and what was reported written survives,    *)
(* the latest time a credential was used at never goes back, a lease that   *)
(* may not delete any more deletes nothing, and the exit of a run is what   *)
(* its runner wrote. process.py:260, secure_files.py:1582,                  *)
(* auth_carrier.py:1133, claude_refresh_lock.py:2107, state.py:3604         *)
SupervisorSteps ==
  [][ /\ which = "fence" => Fence!SpawnIsFenced
      /\ which = "file" => File!RecordsAreKept
      /\ which = "carrier" => Carrier!HighWaterStays
      /\ which = "locks" => Locks!FencedStay
      /\ which = "run" => Run!ExitStands
      /\ which = "runs" => Runs!ExitStands ]_All

(* A helper's scope is left, the gate ends, a launch reaches it, a refresh, *)
(* a review and a preflight command end, and so does a writer whose record  *)
(* changes the size it records; a call on the lock ends even if its         *)
(* heartbeat hangs, and so does a command on a run. direct_gate.py:606,     *)
(* settlement_state.py:104, claude_refresh_lock.py:3025, cleanup_worker.py:41*)
SupervisorBegun ==
  \/ which = "fence" /\ Fence!Begun
  \/ which = "relay"
  \/ which = "launch"
  \/ which = "refresh"
  \/ which = "review"
  \/ which = "preflight"
  \/ which = "file" /\ File!Begun
  \/ which = "lock" /\ Lock!Begun(l1)
  \/ which = "run" /\ Run!Begun(c1)
SupervisorEnded ==
  \/ which = "fence" /\ Fence!Ended
  \/ which = "relay" /\ Relay!Ended
  \/ which = "launch" /\ Launch!Ended
  \/ which = "refresh" /\ Refresh!Ended
  \/ which = "review" /\ Review!AtEnd
  \/ which = "preflight" /\ Preflight!AtEnd
  \/ which = "file" /\ File!Ended
  \/ which = "lock" /\ Lock!Ended(l1)
  \/ which = "run" /\ Run!Ended(c1)
SupervisorEnds == SupervisorBegun ~> SupervisorEnded
=============================================================================
