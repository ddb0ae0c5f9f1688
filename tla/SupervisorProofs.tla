--------------------------- MODULE SupervisorProofs ---------------------------
(***************************************************************************)
(* What is proved of the components that SupervisorComponents puts side by  *)
(* side: each component's own proof is used as it stands, its variables in  *)
(* their slots.                                                             *)
(***************************************************************************)
EXTENDS SupervisorComponents, Naturals, TLAPS

SupervisorSpec == SupervisorInit /\ [][SupervisorNext]_All

(* No step changes which component runs. *)
LEMMA OneRuns == ASSUME [SupervisorNext]_All PROVE which' = which
BY DEF SupervisorNext, All, Kept11, Kept12, Kept13, Kept14, Kept15, Kept16, Kept17, Kept18, Kept19,
   Kept20, Kept21, Kept22, Kept23, Kept24, Kept25, Kept26, Kept27, Kept28, Kept29

-----------------------------------------------------------------------------
(* ProcessOwnership, NoChildLaunch *)

ChildProof == INSTANCE SignalRelayProofs WITH
  at <- s1, starter <- s2, ownGroup <- s3, slip <- s4, keeper <- s5, failure <- s6,
  attempt <- s7, after <- s8, closes <- s9, slots <- s10, helper <- s11, kin <- s12,
  wrote <- s13, reported <- s14, latched <- s15, spawns <- s16, breaks <- s17,
  Callers <- {"internal-helper", "custody-helper"}, MaxSpawns <- 1, MaxBreaks <- Bound.own,
  step <- s1, error <- s2, worker <- s3, escaped <- s4, note <- s5, outcome <- s6,
  handles <- s7, reviewer <- s8, told <- s9, complaint <- s10, leader <- s11, acked <- s12,
  inner <- s13, outer <- s14, unproven <- s15, file <- s16, ran <- s17, shocks <- s18,
  MaxShocks <- Bound.launch, MaxSwaps <- 1, Faults <- TRUE, pc <- s1, relay <- s2,
  child <- s3, pending <- s4, hits <- s5, stray <- s6, caller <- s7, sent <- s8,
  interrupt <- s9, state <- s10, None <- None, MaxSignals <- Bound.relay

OwnBound == Bound.own \in Nat /\ Bound.own <= 1
OwnInv == which = "own" => ChildProof!HelperInv

(* The component and the module it is proved in say the same. *)
LEMMA OwnSame ==
  /\ Own!Init = ChildProof!Helper!Init /\ Own!Next = ChildProof!Helper!Next
  /\ Own!TypeOK = ChildProof!Helper!TypeOK
  /\ Own!NoSilentChild = ChildProof!Helper!NoSilentChild
  /\ Own!ProvenMeansGone = ChildProof!Helper!ProvenMeansGone
  /\ Own!NeverClosesForeign = ChildProof!Helper!NeverClosesForeign
<1>1. Own!Init = ChildProof!Helper!Init
  BY DEF Own!Init, ChildProof!Helper!Init, Own!NoReceipt, ChildProof!Helper!NoReceipt, Own!NoOwner,
     ChildProof!Helper!NoOwner, Own!Ends, ChildProof!Helper!Ends
<1>2. Own!Next = ChildProof!Helper!Next
  BY DEF Own!Next, ChildProof!Helper!Next, Own!Parent, ChildProof!Helper!Parent, Own!Interrupt,
     ChildProof!Helper!Interrupt, Own!Child, ChildProof!Helper!Child, Own!ReuseInteger,
     ChildProof!Helper!ReuseInteger, Own!Spawn, ChildProof!Helper!Spawn, Own!OpenPipe,
     ChildProof!Helper!OpenPipe, Own!PublishReceipt, ChildProof!Helper!PublishReceipt,
     Own!StartForkCall, ChildProof!Helper!StartForkCall, Own!ForkCall, ChildProof!Helper!ForkCall,
     Own!BindReturnedPid, ChildProof!Helper!BindReturnedPid, Own!CloseWrite,
     ChildProof!Helper!CloseWrite, Own!ReadReceipt, ChildProof!Helper!ReadReceipt,
     Own!StartIdentity, ChildProof!Helper!StartIdentity, Own!Transfer, ChildProof!Helper!Transfer,
     Own!Settle, ChildProof!Helper!Settle, Own!CloseUnusedWrite, ChildProof!Helper!CloseUnusedWrite,
     Own!CloseUnusedRead, ChildProof!Helper!CloseUnusedRead, Own!Identify,
     ChildProof!Helper!Identify, Own!IdentifyRead, ChildProof!Helper!IdentifyRead,
     Own!SettleCloseWrite, ChildProof!Helper!SettleCloseWrite, Own!SettleCloseRead,
     ChildProof!Helper!SettleCloseRead, Own!Kill, ChildProof!Helper!Kill, Own!Wait,
     ChildProof!Helper!Wait, Own!EmptyGroup, ChildProof!Helper!EmptyGroup, Own!Reap,
     ChildProof!Helper!Reap, Own!Prove, ChildProof!Helper!Prove, Own!Exit, ChildProof!Helper!Exit,
     Own!LeaveScope, ChildProof!Helper!LeaveScope, Own!AwaitExec, ChildProof!Helper!AwaitExec,
     Own!Use, ChildProof!Helper!Use, Own!Term, ChildProof!Helper!Term, Own!TermWait,
     ChildProof!Helper!TermWait, Own!TermReap, ChildProof!Helper!TermReap, Own!Return,
     ChildProof!Helper!Return, Own!Interruptible, ChildProof!Helper!Interruptible, Own!Raise,
     ChildProof!Helper!Raise, Own!Returned, ChildProof!Helper!Returned, Own!pipes,
     ChildProof!Helper!pipes, Own!ChildReceipt, ChildProof!Helper!ChildReceipt, Own!ChildExec,
     ChildProof!Helper!ChildExec, Own!ChildForks, ChildProof!Helper!ChildForks, Own!ChildEnds,
     ChildProof!Helper!ChildEnds, Own!Ends, ChildProof!Helper!Ends, Own!family,
     ChildProof!Helper!family, Own!raised, ChildProof!Helper!raised, Own!Goto,
     ChildProof!Helper!Goto, Own!NoReceipt, ChildProof!Helper!NoReceipt, Own!NoOwner,
     ChildProof!Helper!NoOwner, Own!Fault, ChildProof!Helper!Fault, Own!CloseStep,
     ChildProof!Helper!CloseStep, Own!Settled, ChildProof!Helper!Settled, Own!MayHaveChild,
     ChildProof!Helper!MayHaveChild, Own!CloseEnd, ChildProof!Helper!CloseEnd, Own!Killed,
     ChildProof!Helper!Killed, Own!Alive, ChildProof!Helper!Alive, Own!CarriesOwner,
     ChildProof!Helper!CarriesOwner, Own!Released, ChildProof!Helper!Released, Own!InForkExec,
     ChildProof!Helper!InForkExec, Own!InSettle, ChildProof!Helper!InSettle, Own!InAttempt,
     ChildProof!Helper!InAttempt, Own!InDirect, ChildProof!Helper!InDirect, Own!NextAttempt,
     ChildProof!Helper!NextAttempt, Own!CloseTrying, ChildProof!Helper!CloseTrying
<1>3. /\ Own!TypeOK = ChildProof!Helper!TypeOK
      /\ Own!NoSilentChild = ChildProof!Helper!NoSilentChild
      /\ Own!ProvenMeansGone = ChildProof!Helper!ProvenMeansGone
      /\ Own!NeverClosesForeign = ChildProof!Helper!NeverClosesForeign
  BY DEF Own!TypeOK, ChildProof!Helper!TypeOK, Own!Labels, ChildProof!Helper!Labels, Own!NoReceipt,
     ChildProof!Helper!NoReceipt, Own!NoOwner, ChildProof!Helper!NoOwner, Own!Errors,
     ChildProof!Helper!Errors, Own!Ends, ChildProof!Helper!Ends, Own!Outcomes,
     ChildProof!Helper!Outcomes, Own!Alive, ChildProof!Helper!Alive, Own!NoSilentChild,
     ChildProof!Helper!NoSilentChild, Own!ProvenMeansGone, ChildProof!Helper!ProvenMeansGone,
     Own!NeverClosesForeign, ChildProof!Helper!NeverClosesForeign
<1> QED
  BY <1>1, <1>2, <1>3

LEMMA OwnBounds == ASSUME OwnBound PROVE ChildProof!HelperBounds
BY DEF OwnBound, ChildProof!HelperBounds

LEMMA OwnInit == ASSUME OwnBound, SupervisorInit PROVE OwnInv
BY OwnBounds, OwnSame, ChildProof!HelperInitHolds DEF SupervisorInit, OwnInv

LEMMA OwnKeeps == ASSUME OwnBound, OwnInv, [SupervisorNext]_All PROVE OwnInv'
<1>1. CASE which = "own"
  <2>1. [ChildProof!Helper!Next]_(ChildProof!Helper!vars)
    BY <1>1, OwnSame DEF SupervisorNext, All, ChildProof!Helper!vars
  <2>2. ChildProof!HelperInv'
    BY <1>1, <2>1, OwnBounds, ChildProof!HelperStepKeeps DEF OwnInv
  <2> QED
    BY <2>2 DEF OwnInv
<1>2. CASE which # "own"
  BY <1>2, OneRuns DEF OwnInv
<1> QED
  BY <1>1, <1>2

LaunchBound == Bound.launch \in Nat
LaunchInv == which = "launch" => ChildProof!ReviewerInv

(* The component and the module it is proved in say the same. *)
LEMMA LaunchSame ==
  /\ Launch!Init = ChildProof!Reviewer!Init /\ Launch!Next = ChildProof!Reviewer!Next
  /\ Launch!TypeOK = ChildProof!Reviewer!TypeOK
  /\ Launch!NoSilentChild = ChildProof!Reviewer!NoSilentChild
  /\ Launch!ResultRuns = ChildProof!Reviewer!ResultRuns
  /\ Launch!NoLeakedPipe = ChildProof!Reviewer!NoLeakedPipe
  /\ Launch!NeverClosesForeign = ChildProof!Reviewer!NeverClosesForeign
<1>1. Launch!Init = ChildProof!Reviewer!Init
  BY DEF Launch!Init, ChildProof!Reviewer!Init, Launch!NoReceipt, ChildProof!Reviewer!NoReceipt,
     Launch!Ends, ChildProof!Reviewer!Ends
<1>2. Launch!Next = ChildProof!Reviewer!Next
  BY DEF Launch!Next, ChildProof!Reviewer!Next, Launch!Launch, ChildProof!Reviewer!Launch,
     Launch!Worker, ChildProof!Reviewer!Worker, Launch!Interrupt, ChildProof!Reviewer!Interrupt,
     Launch!Swap, ChildProof!Reviewer!Swap, Launch!ChildTells, ChildProof!Reviewer!ChildTells,
     Launch!ChildChecks, ChildProof!Reviewer!ChildChecks, Launch!ChildExecs,
     ChildProof!Reviewer!ChildExecs, Launch!ChildDies, ChildProof!Reviewer!ChildDies, Launch!Ends,
     ChildProof!Reviewer!Ends, Launch!ReuseInteger, ChildProof!Reviewer!ReuseInteger, Launch!Check,
     ChildProof!Reviewer!Check, Launch!StartWorker, ChildProof!Reviewer!StartWorker,
     Launch!JoinWorker, ChildProof!Reviewer!JoinWorker, Launch!ForkRefused,
     ChildProof!Reviewer!ForkRefused, Launch!Fork, ChildProof!Reviewer!Fork, Launch!ForkReturned,
     ChildProof!Reviewer!ForkReturned, Launch!ReadLeader, ChildProof!Reviewer!ReadLeader,
     Launch!CloseEnd, ChildProof!Reviewer!CloseEnd, Launch!Acknowledge,
     ChildProof!Reviewer!Acknowledge, Launch!CloseReadFailed, ChildProof!Reviewer!CloseReadFailed,
     Launch!BindLeader, ChildProof!Reviewer!BindLeader, Launch!PublishInner,
     ChildProof!Reviewer!PublishInner, Launch!PublishOuter, ChildProof!Reviewer!PublishOuter,
     Launch!FinishPublication, ChildProof!Reviewer!FinishPublication, Launch!Settle,
     ChildProof!Reviewer!Settle, Launch!Identify, ChildProof!Reviewer!Identify, Launch!Kill,
     ChildProof!Reviewer!Kill, Launch!Reap, ChildProof!Reviewer!Reap, Launch!Prove,
     ChildProof!Reviewer!Prove, Launch!WorkerCalls, ChildProof!Reviewer!WorkerCalls,
     Launch!WorkerReturns, ChildProof!Reviewer!WorkerReturns, Launch!pipe, ChildProof!Reviewer!pipe,
     Launch!Fail, ChildProof!Reviewer!Fail, Launch!kid, ChildProof!Reviewer!kid, Launch!result,
     ChildProof!Reviewer!result, Launch!world, ChildProof!Reviewer!world, Launch!Living,
     ChildProof!Reviewer!Living, Launch!Goto, ChildProof!Reviewer!Goto, Launch!Closing,
     ChildProof!Reviewer!Closing, Launch!MayHaveChild, ChildProof!Reviewer!MayHaveChild,
     Launch!PipesClosed, ChildProof!Reviewer!PipesClosed, Launch!Tried, ChildProof!Reviewer!Tried,
     Launch!CloseBoth, ChildProof!Reviewer!CloseBoth, Launch!Closable, ChildProof!Reviewer!Closable
<1>3. /\ Launch!TypeOK = ChildProof!Reviewer!TypeOK
      /\ Launch!NoSilentChild = ChildProof!Reviewer!NoSilentChild
      /\ Launch!ResultRuns = ChildProof!Reviewer!ResultRuns
      /\ Launch!NoLeakedPipe = ChildProof!Reviewer!NoLeakedPipe
      /\ Launch!NeverClosesForeign = ChildProof!Reviewer!NeverClosesForeign
  BY DEF Launch!TypeOK, ChildProof!Reviewer!TypeOK, Launch!Labels, ChildProof!Reviewer!Labels,
     Launch!NoReceipt, ChildProof!Reviewer!NoReceipt, Launch!Ends, ChildProof!Reviewer!Ends,
     Launch!Living, ChildProof!Reviewer!Living, Launch!pipe, ChildProof!Reviewer!pipe,
     Launch!NoSilentChild, ChildProof!Reviewer!NoSilentChild, Launch!ResultRuns,
     ChildProof!Reviewer!ResultRuns, Launch!NoLeakedPipe, ChildProof!Reviewer!NoLeakedPipe,
     Launch!NeverClosesForeign, ChildProof!Reviewer!NeverClosesForeign
<1> QED
  BY <1>1, <1>2, <1>3

LEMMA LaunchBounds == ASSUME LaunchBound PROVE ChildProof!ReviewerBounds
BY DEF LaunchBound, ChildProof!ReviewerBounds

LEMMA LaunchInit == ASSUME LaunchBound, SupervisorInit PROVE LaunchInv
BY LaunchBounds, LaunchSame, ChildProof!ReviewerInitHolds DEF SupervisorInit, LaunchInv

LEMMA LaunchKeeps == ASSUME LaunchBound, LaunchInv, [SupervisorNext]_All PROVE LaunchInv'
<1>1. CASE which = "launch"
  <2>1. [ChildProof!Reviewer!Next]_(ChildProof!Reviewer!vars)
    BY <1>1, LaunchSame DEF SupervisorNext, All, ChildProof!Reviewer!vars
  <2>2. ChildProof!ReviewerInv'
    BY <1>1, <2>1, LaunchBounds, ChildProof!ReviewerStepKeeps DEF LaunchInv
  <2> QED
    BY <2>2 DEF LaunchInv
<1>2. CASE which # "launch"
  BY <1>2, OneRuns DEF LaunchInv
<1> QED
  BY <1>1, <1>2

(* Whatever fails or is interrupted between a fork and its publication, the *)
(* child is owned, gone, or raised as unproven, and no descriptor is closed *)
(* twice: for a helper with at most one interrupt, for a reviewer with any  *)
(* number (process.py:604, no_child_profile.py:4122).                      *)
THEOREM ChildrenStayAccounted ==
  ASSUME OwnBound, LaunchBound
  PROVE  SupervisorSpec => []ChildrenAreAccountedFor
<1> DEFINE Inv == OwnInv /\ LaunchInv
<1>1. SupervisorInit => Inv
  BY OwnInit, LaunchInit
<1>2. Inv /\ [SupervisorNext]_All => Inv'
  BY OwnKeeps, LaunchKeeps
<1>3. Inv => ChildrenAreAccountedFor
  <2>1. ASSUME Inv, which = "own"
       PROVE  Own!TypeOK /\ Own!NoSilentChild /\ Own!ProvenMeansGone
             /\ Own!NeverClosesForeign
    BY <2>1, OwnBounds, OwnSame, ChildProof!HelperFewInterrupts DEF OwnInv, ChildProof!HelperInv,
       OwnBound
  <2>2. ASSUME Inv, which = "launch"
       PROVE  Launch!TypeOK /\ Launch!NoSilentChild /\ Launch!ResultRuns
             /\ Launch!NoLeakedPipe /\ Launch!NeverClosesForeign
    BY <2>2, LaunchBounds, LaunchSame, ChildProof!ReviewerInvariantTells DEF LaunchInv,
       ChildProof!ReviewerInv
  <2> QED
    BY <2>1, <2>2 DEF ChildrenAreAccountedFor
<1> QED
  BY <1>1, <1>2, <1>3, PTL DEF SupervisorSpec

-----------------------------------------------------------------------------
(* SignalRelay *)

RelayBound == Bound.relay \in Nat /\ None \notin {"SIGHUP", "SIGTERM", "SIGQUIT"}
RelayInv == which = "relay" => ChildProof!IInv

(* The component and the module it is proved in say the same. *)
LEMMA RelaySame ==
  /\ Relay!Init = ChildProof!Init /\ Relay!Next = ChildProof!Next
  /\ Relay!TypeOK = ChildProof!TypeOK
  /\ Relay!CallerIsTold = ChildProof!CallerIsTold
  /\ Relay!ChildIsTold = ChildProof!ChildIsTold
  /\ Relay!NoStraySignal = ChildProof!NoStraySignal
  /\ Relay!ReapedIsGone = ChildProof!ReapedIsGone
<1>1. Relay!Init = ChildProof!Init
  BY DEF Relay!Init, ChildProof!Init, Relay!Signals, ChildProof!Signals
<1>2. Relay!Next = ChildProof!Next
  BY DEF Relay!Next, ChildProof!Next, Relay!Gate, ChildProof!Gate, Relay!Interrupt,
     ChildProof!Interrupt, Relay!ChildExits, ChildProof!ChildExits, Relay!Signals,
     ChildProof!Signals, Relay!Send, ChildProof!Send, Relay!Block, ChildProof!Block, Relay!Install,
     ChildProof!Install, Relay!Unblock, ChildProof!Unblock, Relay!Admit, ChildProof!Admit,
     Relay!Launch, ChildProof!Launch, Relay!Bind, ChildProof!Bind, Relay!Check, ChildProof!Check,
     Relay!Loop, ChildProof!Loop, Relay!Unbind, ChildProof!Unbind, Relay!WaitPid,
     ChildProof!WaitPid, Relay!Record, ChildProof!Record, Relay!Cleanup, ChildProof!Cleanup,
     Relay!Term, ChildProof!Term, Relay!Release, ChildProof!Release, Relay!RestoreBlock,
     ChildProof!RestoreBlock, Relay!RestoreHandlers, ChildProof!RestoreHandlers, Relay!RestoreMask,
     ChildProof!RestoreMask, Relay!Redeliver, ChildProof!Redeliver, Relay!Quiet, ChildProof!Quiet,
     Relay!Same, ChildProof!Same, Relay!Handle, ChildProof!Handle, Relay!Raises, ChildProof!Raises,
     Relay!Step, ChildProof!Step, Relay!Forward, ChildProof!Forward, Relay!TargetSignal,
     ChildProof!TargetSignal
<1>3. /\ Relay!TypeOK = ChildProof!TypeOK
      /\ Relay!CallerIsTold = ChildProof!CallerIsTold
      /\ Relay!ChildIsTold = ChildProof!ChildIsTold
      /\ Relay!NoStraySignal = ChildProof!NoStraySignal
      /\ Relay!ReapedIsGone = ChildProof!ReapedIsGone
  BY DEF Relay!TypeOK, ChildProof!TypeOK, Relay!Labels, ChildProof!Labels, Relay!Signals,
     ChildProof!Signals, Relay!CallerIsTold, ChildProof!CallerIsTold, Relay!Deliveries,
     ChildProof!Deliveries, Relay!ChildIsTold, ChildProof!ChildIsTold, Relay!NoStraySignal,
     ChildProof!NoStraySignal, Relay!ReapedIsGone, ChildProof!ReapedIsGone
<1> QED
  BY <1>1, <1>2, <1>3

LEMMA RelayBounds == ASSUME RelayBound PROVE ChildProof!Bounds
BY DEF RelayBound, ChildProof!Bounds, ChildProof!Signals

LEMMA RelayInit == ASSUME RelayBound, SupervisorInit PROVE RelayInv
BY RelayBounds, RelaySame, ChildProof!InitHolds DEF SupervisorInit, RelayInv

LEMMA RelayKeeps == ASSUME RelayBound, RelayInv, [SupervisorNext]_All PROVE RelayInv'
<1>1. CASE which = "relay"
  <2>1. [ChildProof!Next]_(ChildProof!vars)
    BY <1>1, RelaySame DEF SupervisorNext, All, ChildProof!vars
  <2>2. ChildProof!IInv'
    BY <1>1, <2>1, RelayBounds, ChildProof!StepKeeps DEF RelayInv
  <2> QED
    BY <2>2 DEF RelayInv
<1>2. CASE which # "relay"
  BY <1>2, OneRuns DEF RelayInv
<1> QED
  BY <1>1, <1>2

(* A termination signal to the supervisor reaches the live child, then the *)
(* caller and never a process that was reaped, in the suite of the         *)
(* supervisor's components (signal_relay.py:139).                          *)
THEOREM SignalsArrive ==
  ASSUME RelayBound
  PROVE  SupervisorSpec => []SignalsArriveOnce
<1> DEFINE Inv == RelayInv
<1>1. SupervisorInit => Inv
  BY RelayInit
<1>2. Inv /\ [SupervisorNext]_All => Inv'
  BY RelayKeeps
<1>3. Inv => SignalsArriveOnce
  <2>1. ASSUME Inv, which = "relay"
       PROVE  Relay!TypeOK /\ Relay!CallerIsTold /\ Relay!ChildIsTold /\ Relay!NoStraySignal
             /\ Relay!ReapedIsGone
    BY <2>1, RelayBounds, RelaySame, ChildProof!InvariantTells DEF RelayInv, ChildProof!IInv
  <2> QED
    BY <2>1 DEF SignalsArriveOnce
<1> QED
  BY <1>1, <1>2, <1>3, PTL DEF SupervisorSpec

-----------------------------------------------------------------------------
(* AppServerSession *)

AccountProof == INSTANCE AuthProofs WITH
  st <- s1, pending <- s2, queue <- s3, clash <- s4, thread <- s5, round <- s6,
  proved <- s7, items <- s8, stream <- s9, reason <- s10, telemetry <- s11, pipes <- s12,
  answer <- s13, None <- None, ExternalAuth <- FALSE, Ids <- Ids, Words <- {"a"},
  Budget <- 2, MaxParts <- 2, MaxReasoning <- 1, MaxTelemetry <- 0, MaxItems <- 2,
  MaxDeltas <- 1, kind <- s1, name <- s2, content <- s3, private <- s4, edits <- s5,
  clock <- s6, stage <- s7, pc <- s8, seen <- s9, evidence <- s10, history <- s11,
  launched <- s12, Margin <- 1, Tolerance <- 1, Fresh <- 2, MaxEdits <- Bound.edits,
  MaxTime <- Bound.time, MaxSkew <- 1, turn <- s1, child <- s2, code <- s3, sent <- s4,
  bound <- s5, host <- s6, knows <- s7, proto <- s8, io <- s9, late <- s10, closing <- s11,
  closure <- s12, result <- s13, failure <- s14, outcome <- s15

SessionBound == None \notin Ids /\ None \notin AccountProof!Session!Items /\ None \notin AccountProof!Requests
SessionInv == which = "session" => AccountProof!SessionInv

(* The component and the module it is proved in say the same. *)
LEMMA SessionSame ==
  /\ Session!Init = AccountProof!Session!Init /\ Session!Next = AccountProof!Session!Next
  /\ Session!TypeOK = AccountProof!Session!TypeOK
  /\ Session!RunsOnAgreedTurn = AccountProof!Session!RunsOnAgreedTurn
  /\ Session!ResultIsTheStream = AccountProof!Session!ResultIsTheStream
  /\ Session!HeldIsCounted = AccountProof!Session!HeldIsCounted
  /\ Session!AnswerIsDelivered = AccountProof!Session!AnswerIsDelivered
<1>1. Session!Init = AccountProof!Session!Init
  BY DEF Session!Init, AccountProof!Session!Init, Session!Unknown, AccountProof!Session!Unknown
<1>2. Session!Next = AccountProof!Session!Next
  BY DEF Session!Next, AccountProof!Session!Next, Session!Start, AccountProof!Session!Start,
     Session!SetupResponse, AccountProof!Session!SetupResponse, Session!ThreadResponse,
     AccountProof!Session!ThreadResponse, Session!ThreadStarted, AccountProof!Session!ThreadStarted,
     Session!AuthNotice, AccountProof!Session!AuthNotice, Session!TurnResponse,
     AccountProof!Session!TurnResponse, Session!TurnStarted, AccountProof!Session!TurnStarted,
     Session!UserMessageStarted, AccountProof!Session!UserMessageStarted, Session!ReasoningStarted,
     AccountProof!Session!ReasoningStarted, Session!AgentMessageStarted,
     AccountProof!Session!AgentMessageStarted, Session!MessageDelta,
     AccountProof!Session!MessageDelta, Session!SummaryPartAdded,
     AccountProof!Session!SummaryPartAdded, Session!ReasoningDelta,
     AccountProof!Session!ReasoningDelta, Session!UserMessageCompleted,
     AccountProof!Session!UserMessageCompleted, Session!ReasoningCompleted,
     AccountProof!Session!ReasoningCompleted, Session!AgentMessageCompleted,
     AccountProof!Session!AgentMessageCompleted, Session!TurnCompleted,
     AccountProof!Session!TurnCompleted, Session!Telemetry, AccountProof!Session!Telemetry,
     Session!Reject, AccountProof!Session!Reject, Session!Flush, AccountProof!Session!Flush,
     Session!CloseStdin, AccountProof!Session!CloseStdin, Session!StdoutEnds,
     AccountProof!Session!StdoutEnds, Session!PartialRecord, AccountProof!Session!PartialRecord,
     Session!ServerExits, AccountProof!Session!ServerExits, Session!Finish,
     AccountProof!Session!Finish, Session!Ask, AccountProof!Session!Ask, Session!NextState,
     AccountProof!Session!NextState, Session!Answered, AccountProof!Session!Answered,
     Session!RequestOf, AccountProof!Session!RequestOf, Session!ClaimsOf,
     AccountProof!Session!ClaimsOf, Session!MaybeStartTurn, AccountProof!Session!MaybeStartTurn,
     Session!Reads, AccountProof!Session!Reads, Session!AuthNotices,
     AccountProof!Session!AuthNotices, Session!EnterRunning, AccountProof!Session!EnterRunning,
     Session!work, AccountProof!Session!work, Session!ItemStarted, AccountProof!Session!ItemStarted,
     Session!Item, AccountProof!Session!Item, Session!Others, AccountProof!Session!Others,
     Session!Reasonings, AccountProof!Session!Reasonings, Session!InitialParts,
     AccountProof!Session!InitialParts, Session!Size, AccountProof!Session!Size, Session!BoundedSeq,
     AccountProof!Session!BoundedSeq, Session!SeqOf, AccountProof!Session!SeqOf, Session!Running,
     AccountProof!Session!Running, Session!Active, AccountProof!Session!Active, Session!CountDelta,
     AccountProof!Session!CountDelta, Session!Complete, AccountProof!Session!Complete,
     Session!Texts, AccountProof!Session!Texts, Session!Agrees, AccountProof!Session!Agrees,
     Session!talk, AccountProof!Session!talk, Session!conv, AccountProof!Session!conv,
     Session!IoStep, AccountProof!Session!IoStep, Session!Whole, AccountProof!Session!Whole,
     Session!InitializeClaims, AccountProof!Session!InitializeClaims, Session!ConfigClaims,
     AccountProof!Session!ConfigClaims, Session!HooksClaims, AccountProof!Session!HooksClaims,
     Session!ThreadStartClaims, AccountProof!Session!ThreadStartClaims, Session!ThreadClaims,
     AccountProof!Session!ThreadClaims, Session!Ready, AccountProof!Session!Ready, Session!Starts,
     AccountProof!Session!Starts, Session!Used, AccountProof!Session!Used, Session!Total,
     AccountProof!Session!Total, Session!Join, AccountProof!Session!Join, Session!NoExecutionClaims,
     AccountProof!Session!NoExecutionClaims, Session!LayerClaims, AccountProof!Session!LayerClaims,
     Session!Cardinality, AccountProof!Session!Cardinality, Session!FoldLeft,
     AccountProof!Session!FoldLeft, Session!MapThenFoldSet, AccountProof!Session!MapThenFoldSet,
     Session!Max, AccountProof!Session!Max
<1>3. /\ Session!TypeOK = AccountProof!Session!TypeOK
      /\ Session!RunsOnAgreedTurn = AccountProof!Session!RunsOnAgreedTurn
      /\ Session!ResultIsTheStream = AccountProof!Session!ResultIsTheStream
      /\ Session!HeldIsCounted = AccountProof!Session!HeldIsCounted
      /\ Session!AnswerIsDelivered = AccountProof!Session!AnswerIsDelivered
  BY DEF Session!TypeOK, AccountProof!Session!TypeOK, Session!IdNote, AccountProof!Session!IdNote,
     Session!Items, AccountProof!Session!Items, Session!Texts, AccountProof!Session!Texts,
     Session!BoundedSeq, AccountProof!Session!BoundedSeq, Session!SeqOf, AccountProof!Session!SeqOf,
     Session!RunsOnAgreedTurn, AccountProof!Session!RunsOnAgreedTurn, Session!ResultIsTheStream,
     AccountProof!Session!ResultIsTheStream, Session!Cardinality, AccountProof!Session!Cardinality,
     Session!Join, AccountProof!Session!Join, Session!FoldLeft, AccountProof!Session!FoldLeft,
     Session!MapThenFoldSet, AccountProof!Session!MapThenFoldSet, Session!Max,
     AccountProof!Session!Max, Session!HeldIsCounted, AccountProof!Session!HeldIsCounted,
     Session!Size, AccountProof!Session!Size, Session!Total, AccountProof!Session!Total,
     Session!Active, AccountProof!Session!Active, Session!AnswerIsDelivered,
     AccountProof!Session!AnswerIsDelivered
<1> QED
  BY <1>1, <1>2, <1>3

LEMMA SessionBounds == ASSUME SessionBound PROVE AccountProof!SessionBounds
BY DEF SessionBound, AccountProof!SessionBounds

LEMMA SessionInit == ASSUME SessionBound, SupervisorInit PROVE SessionInv
BY SessionBounds, SessionSame, AccountProof!SessionInitHolds DEF SupervisorInit, SessionInv

LEMMA SessionKeeps == ASSUME SessionBound, SessionInv, [SupervisorNext]_All PROVE SessionInv'
<1>1. CASE which = "session"
  <2>1. [AccountProof!Session!Next]_(AccountProof!Session!vars)
    BY <1>1, SessionSame DEF SupervisorNext, All, AccountProof!Session!vars
  <2>2. AccountProof!SessionInv'
    BY <1>1, <2>1, SessionBounds, AccountProof!SessionStepKeeps DEF SessionInv
  <2> QED
    BY <2>2 DEF SessionInv
<1>2. CASE which # "session"
  BY <1>2, OneRuns DEF SessionInv
<1> QED
  BY <1>1, <1>2

LoginProof == INSTANCE AuthProofs WITH
  st <- s1, pending <- s2, queue <- s3, clash <- s4, thread <- s5, round <- s6,
  proved <- s7, items <- s8, stream <- s9, reason <- s10, telemetry <- s11, pipes <- s12,
  answer <- s13, None <- None, ExternalAuth <- TRUE, Ids <- Ids, Words <- {"a", "_"},
  Budget <- 1, MaxParts <- 1, MaxReasoning <- 1, MaxTelemetry <- 1, MaxItems <- 1,
  MaxDeltas <- 1, turn <- Idle, child <- Idle, code <- Idle, sent <- Idle, bound <- Idle,
  host <- Idle, knows <- Idle, proto <- Idle, io <- Idle, late <- Idle, closing <- Idle,
  closure <- Idle, result <- Idle, failure <- Idle, outcome <- Idle, Margin <- Idle,
  Tolerance <- Idle, Fresh <- Idle, MaxEdits <- Idle, MaxTime <- Idle, MaxSkew <- Idle,
  kind <- Idle, name <- Idle, content <- Idle, private <- Idle, edits <- Idle,
  clock <- Idle, stage <- Idle, pc <- Idle, seen <- Idle, evidence <- Idle, history <- Idle,
  launched <- Idle

LoginBound == None \notin Ids /\ None \notin LoginProof!Session!Items /\ None \notin LoginProof!Requests
LoginInv == which = "login" => LoginProof!SessionInv

(* The component and the module it is proved in say the same. *)
LEMMA LoginSame ==
  /\ Login!Init = LoginProof!Session!Init /\ Login!Next = LoginProof!Session!Next
  /\ Login!TypeOK = LoginProof!Session!TypeOK
  /\ Login!OneOutstanding = LoginProof!Session!OneOutstanding
  /\ Login!PromptIsEarned = LoginProof!Session!PromptIsEarned
<1>1. Login!Init = LoginProof!Session!Init
  BY DEF Login!Init, LoginProof!Session!Init, Login!Unknown, LoginProof!Session!Unknown
<1>2. Login!Next = LoginProof!Session!Next
  BY DEF Login!Next, LoginProof!Session!Next, Login!Start, LoginProof!Session!Start,
     Login!SetupResponse, LoginProof!Session!SetupResponse, Login!ThreadResponse,
     LoginProof!Session!ThreadResponse, Login!ThreadStarted, LoginProof!Session!ThreadStarted,
     Login!AuthNotice, LoginProof!Session!AuthNotice, Login!TurnResponse,
     LoginProof!Session!TurnResponse, Login!TurnStarted, LoginProof!Session!TurnStarted,
     Login!UserMessageStarted, LoginProof!Session!UserMessageStarted, Login!ReasoningStarted,
     LoginProof!Session!ReasoningStarted, Login!AgentMessageStarted,
     LoginProof!Session!AgentMessageStarted, Login!MessageDelta, LoginProof!Session!MessageDelta,
     Login!SummaryPartAdded, LoginProof!Session!SummaryPartAdded, Login!ReasoningDelta,
     LoginProof!Session!ReasoningDelta, Login!UserMessageCompleted,
     LoginProof!Session!UserMessageCompleted, Login!ReasoningCompleted,
     LoginProof!Session!ReasoningCompleted, Login!AgentMessageCompleted,
     LoginProof!Session!AgentMessageCompleted, Login!TurnCompleted,
     LoginProof!Session!TurnCompleted, Login!Telemetry, LoginProof!Session!Telemetry, Login!Reject,
     LoginProof!Session!Reject, Login!Flush, LoginProof!Session!Flush, Login!CloseStdin,
     LoginProof!Session!CloseStdin, Login!StdoutEnds, LoginProof!Session!StdoutEnds,
     Login!PartialRecord, LoginProof!Session!PartialRecord, Login!ServerExits,
     LoginProof!Session!ServerExits, Login!Finish, LoginProof!Session!Finish, Login!Ask,
     LoginProof!Session!Ask, Login!NextState, LoginProof!Session!NextState, Login!Answered,
     LoginProof!Session!Answered, Login!RequestOf, LoginProof!Session!RequestOf, Login!ClaimsOf,
     LoginProof!Session!ClaimsOf, Login!MaybeStartTurn, LoginProof!Session!MaybeStartTurn,
     Login!Reads, LoginProof!Session!Reads, Login!AuthNotices, LoginProof!Session!AuthNotices,
     Login!EnterRunning, LoginProof!Session!EnterRunning, Login!work, LoginProof!Session!work,
     Login!ItemStarted, LoginProof!Session!ItemStarted, Login!Item, LoginProof!Session!Item,
     Login!Others, LoginProof!Session!Others, Login!Reasonings, LoginProof!Session!Reasonings,
     Login!InitialParts, LoginProof!Session!InitialParts, Login!Size, LoginProof!Session!Size,
     Login!BoundedSeq, LoginProof!Session!BoundedSeq, Login!SeqOf, LoginProof!Session!SeqOf,
     Login!Running, LoginProof!Session!Running, Login!Active, LoginProof!Session!Active,
     Login!CountDelta, LoginProof!Session!CountDelta, Login!Complete, LoginProof!Session!Complete,
     Login!Texts, LoginProof!Session!Texts, Login!Agrees, LoginProof!Session!Agrees, Login!talk,
     LoginProof!Session!talk, Login!conv, LoginProof!Session!conv, Login!IoStep,
     LoginProof!Session!IoStep, Login!Whole, LoginProof!Session!Whole, Login!InitializeClaims,
     LoginProof!Session!InitializeClaims, Login!ConfigClaims, LoginProof!Session!ConfigClaims,
     Login!HooksClaims, LoginProof!Session!HooksClaims, Login!ThreadStartClaims,
     LoginProof!Session!ThreadStartClaims, Login!ThreadClaims, LoginProof!Session!ThreadClaims,
     Login!Ready, LoginProof!Session!Ready, Login!Starts, LoginProof!Session!Starts, Login!Used,
     LoginProof!Session!Used, Login!Total, LoginProof!Session!Total, Login!Join,
     LoginProof!Session!Join, Login!NoExecutionClaims, LoginProof!Session!NoExecutionClaims,
     Login!LayerClaims, LoginProof!Session!LayerClaims, Login!Cardinality,
     LoginProof!Session!Cardinality, Login!FoldLeft, LoginProof!Session!FoldLeft,
     Login!MapThenFoldSet, LoginProof!Session!MapThenFoldSet, Login!Max, LoginProof!Session!Max
<1>3. /\ Login!TypeOK = LoginProof!Session!TypeOK
      /\ Login!OneOutstanding = LoginProof!Session!OneOutstanding
      /\ Login!PromptIsEarned = LoginProof!Session!PromptIsEarned
  BY DEF Login!TypeOK, LoginProof!Session!TypeOK, Login!IdNote, LoginProof!Session!IdNote,
     Login!Items, LoginProof!Session!Items, Login!Texts, LoginProof!Session!Texts, Login!BoundedSeq,
     LoginProof!Session!BoundedSeq, Login!SeqOf, LoginProof!Session!SeqOf, Login!OneOutstanding,
     LoginProof!Session!OneOutstanding, Login!RequestOf, LoginProof!Session!RequestOf,
     Login!PromptIsEarned, LoginProof!Session!PromptIsEarned, Login!ToSet, LoginProof!Session!ToSet,
     Login!Cardinality, LoginProof!Session!Cardinality, Login!AuthNotices,
     LoginProof!Session!AuthNotices
<1> QED
  BY <1>1, <1>2, <1>3

LEMMA LoginBounds == ASSUME LoginBound PROVE LoginProof!SessionBounds
BY DEF LoginBound, LoginProof!SessionBounds

LEMMA LoginInit == ASSUME LoginBound, SupervisorInit PROVE LoginInv
BY LoginBounds, LoginSame, LoginProof!SessionInitHolds DEF SupervisorInit, LoginInv

LEMMA LoginKeeps == ASSUME LoginBound, LoginInv, [SupervisorNext]_All PROVE LoginInv'
<1>1. CASE which = "login"
  <2>1. [LoginProof!Session!Next]_(LoginProof!Session!vars)
    BY <1>1, LoginSame DEF SupervisorNext, All, LoginProof!Session!vars
  <2>2. LoginProof!SessionInv'
    BY <1>1, <2>1, LoginBounds, LoginProof!SessionStepKeeps DEF LoginInv
  <2> QED
    BY <2>2 DEF LoginInv
<1>2. CASE which # "login"
  BY <1>2, OneRuns DEF LoginInv
<1> QED
  BY <1>1, <1>2

(* One request at a time, a prompt that was earned, and the answer that     *)
(* streamed in the agreed turn, in both scopes the suite looks at the      *)
(* session (appserver_protocol.py:1088, 1579).                             *)
THEOREM SessionStaysAgreed ==
  ASSUME SessionBound, LoginBound
  PROVE  SupervisorSpec => []SessionIsAgreed
<1> DEFINE Inv == SessionInv /\ LoginInv
<1>1. SupervisorInit => Inv
  BY SessionInit, LoginInit
<1>2. Inv /\ [SupervisorNext]_All => Inv'
  BY SessionKeeps, LoginKeeps
<1>3. Inv => SessionIsAgreed
  <2>1. ASSUME Inv, which = "session"
       PROVE  Session!TypeOK /\ Session!RunsOnAgreedTurn /\ Session!ResultIsTheStream
             /\ Session!HeldIsCounted /\ Session!AnswerIsDelivered
    BY <2>1, SessionBounds, SessionSame, AccountProof!SessionInvariantTells DEF SessionInv,
       AccountProof!SessionInv
  <2>2. ASSUME Inv, which = "login"
       PROVE  Login!TypeOK /\ Login!OneOutstanding /\ Login!PromptIsEarned
    BY <2>2, LoginBounds, LoginSame, LoginProof!SessionInvariantTells DEF LoginInv,
       LoginProof!SessionInv
  <2> QED
    BY <2>1, <2>2 DEF SessionIsAgreed
<1> QED
  BY <1>1, <1>2, <1>3, PTL DEF SupervisorSpec

-----------------------------------------------------------------------------
(* RecordFile *)

FileProof == INSTANCE RecordFileProofs WITH
  pc <- s1, kind <- s2, writer <- s3, tries <- s4, dir <- s5, log <- s6, inode <- s7,
  other <- s8, claim <- s9, base <- s10, result <- s11, returned <- s12, MaxWrites <- 2,
  MaxOther <- Bound.other, MaxTries <- Bound.tries, step <- s1, stage <- s2, leased <- s3,
  copy <- s4, custody <- s5, launch <- s6, roots <- s7, process <- s8, aide <- s9,
  closure <- s10, known <- s11, life <- s12, owed <- s13, failure <- s14, cause <- s15,
  collected <- s16, missteps <- s17, blind <- s18, refused <- s19, MaxMissteps <- 3,
  act <- s1, place <- s2, content <- s3, synced <- s4, entry <- s5, created <- s6,
  ident <- s7, build <- s8, opened <- s9, held <- s10, verdict <- s11, slips <- s12,
  MaxSlips <- 2, point <- s1, schema <- s2, outcome <- s3, anchors <- s4, program <- s5,
  killed <- s6, ownership <- s7, bound <- s8, receipt <- s9, channels <- s10, eof <- s11,
  bytes <- s12, reaped <- s13, error <- s14, retained <- s15, breaks <- s16,
  MaxBreaks <- Bound.preflight, Limit <- 1

FileBound == Bound.other \in Nat /\ Bound.tries \in Nat \ {0}
FileInv == which = "file" => FileProof!IInv

(* The component and the module it is proved in say the same. *)
LEMMA FileSame ==
  /\ File!Init = FileProof!Init /\ File!Next = FileProof!Next
  /\ File!TypeOK = FileProof!TypeOK
  /\ File!SettledIsExact = FileProof!SettledIsExact
<1>1. File!Init = FileProof!Init
  BY DEF File!Init, FileProof!Init, File!Names, FileProof!Names, File!State, FileProof!State,
     File!Absent, FileProof!Absent, File!Empty, FileProof!Empty
<1>2. File!Next = FileProof!Next
  BY DEF File!Next, FileProof!Next, File!Start, FileProof!Start, File!Steps, FileProof!Steps,
     File!WriterDies, FileProof!WriterDies, File!PowerFails, FileProof!PowerFails, File!Grow,
     FileProof!Grow, File!Goto, FileProof!Goto, File!State, FileProof!State, File!disk,
     FileProof!disk, File!end, FileProof!end, File!Create, FileProof!Create, File!Write,
     FileProof!Write, File!Sync, FileProof!Sync, File!Rename, FileProof!Rename, File!SyncDirectory,
     FileProof!SyncDirectory, File!Unlink, FileProof!Unlink, File!Measure, FileProof!Measure,
     File!Recheck, FileProof!Recheck, File!Exchange, FileProof!Exchange, File!Verify,
     FileProof!Verify, File!GiveUp, FileProof!GiveUp, File!self, FileProof!self, File!Empty,
     FileProof!Empty, File!Names, FileProof!Names, File!Change, FileProof!Change, File!Blocks,
     FileProof!Blocks, File!Raise, FileProof!Raise, File!Absent, FileProof!Absent, File!SumFunction,
     FileProof!SumFunction, File!SumFunctionOnSet, FileProof!SumFunctionOnSet,
     File!FoldFunctionOnSet, FileProof!FoldFunctionOnSet, File!MapThenFoldSet,
     FileProof!MapThenFoldSet
<1>3. /\ File!TypeOK = FileProof!TypeOK
      /\ File!SettledIsExact = FileProof!SettledIsExact
  BY DEF File!TypeOK, FileProof!TypeOK, File!Labels, FileProof!Labels, File!Names, FileProof!Names,
     File!Absent, FileProof!Absent, File!State, FileProof!State, File!SettledIsExact,
     FileProof!SettledIsExact, File!Blocks, FileProof!Blocks, File!SumFunction,
     FileProof!SumFunction, File!SumFunctionOnSet, FileProof!SumFunctionOnSet,
     File!FoldFunctionOnSet, FileProof!FoldFunctionOnSet, File!MapThenFoldSet,
     FileProof!MapThenFoldSet
<1> QED
  BY <1>1, <1>2, <1>3

LEMMA FileBounds == ASSUME FileBound PROVE FileProof!Bounds
BY DEF FileBound, FileProof!Bounds

LEMMA FileInit == ASSUME FileBound, SupervisorInit PROVE FileInv
BY FileBounds, FileSame, FileProof!InitHolds DEF SupervisorInit, FileInv

LEMMA FileKeeps == ASSUME FileBound, FileInv, [SupervisorNext]_All PROVE FileInv'
<1>1. CASE which = "file"
  <2>1. [FileProof!Next]_(FileProof!vars)
    BY <1>1, FileSame DEF SupervisorNext, All, FileProof!vars
  <2>2. FileProof!IInv'
    BY <1>1, <2>1, FileBounds, FileProof!StepKeeps DEF FileInv
  <2> QED
    BY <2>2 DEF FileInv
<1>2. CASE which # "file"
  BY <1>2, OneRuns DEF FileInv
<1> QED
  BY <1>1, <1>2

LEMMA FileStep ==
  ASSUME FileBound, FileInv, [SupervisorNext]_All, which = "file"
  PROVE  File!RecordsAreKept
<1>1. [FileProof!Next]_(FileProof!vars)
  BY FileSame DEF SupervisorNext, All, FileProof!vars
<1>2. File!RecordsAreKept = FileProof!RecordsAreKept
  BY DEF File!RecordsAreKept, FileProof!RecordsAreKept, File!Store!Next, FileProof!Store!Next,
     File!Store!vars, FileProof!Store!vars, File!Store!Publish, FileProof!Store!Publish,
     File!Store!Settle, FileProof!Store!Settle, File!Store!Return, FileProof!Store!Return,
     File!Store!PowerFails, FileProof!Store!PowerFails, File!Current, FileProof!Current, File!State,
     FileProof!State, File!Absent, FileProof!Absent
<1> QED
  BY <1>1, <1>2, FileBounds, FileSame, FileProof!StepIsStoreStep DEF FileInv, FileProof!RecordsAreKept

(* A settlement reported as exact stays exact across the deaths of the     *)
(* writer and of the machine, in the suite of the supervisor's components  *)
(* (settlement_state.py:172).                                              *)
THEOREM RecordStaysExact ==
  ASSUME FileBound
  PROVE  SupervisorSpec => []RecordIsExact
<1> DEFINE Inv == FileInv
<1>1. SupervisorInit => Inv
  BY FileInit
<1>2. Inv /\ [SupervisorNext]_All => Inv'
  BY FileKeeps
<1>3. Inv => RecordIsExact
  <2>1. ASSUME Inv, which = "file"
       PROVE  File!TypeOK /\ File!SettledIsExact
    BY <2>1, FileBounds, FileSame, FileProof!InvariantTells DEF FileInv, FileProof!IInv
  <2> QED
    BY <2>1 DEF RecordIsExact
<1> QED
  BY <1>1, <1>2, <1>3, PTL DEF SupervisorSpec

-----------------------------------------------------------------------------
(* AuthenticatedReview, SnapshotStaging, PreflightCommand *)

ReviewInv == which = "review" => FileProof!ReviewInv

(* The component and the module it is proved in say the same. *)
LEMMA ReviewSame ==
  /\ Review!Init = FileProof!Review!Init /\ Review!Next = FileProof!Review!Next
  /\ Review!TypeOK = FileProof!Review!TypeOK
  /\ Review!KnownKeepsSnapshot = FileProof!Review!KnownKeepsSnapshot
  /\ Review!AliveIsUnproven = FileProof!Review!AliveIsUnproven
  /\ Review!OpenLaunchIsUnproven = FileProof!Review!OpenLaunchIsUnproven
  /\ Review!NamedIsKept = FileProof!Review!NamedIsKept
  /\ Review!NothingLeft = FileProof!Review!NothingLeft
<1>1. Review!Init = FileProof!Review!Init
  BY ZenonT(60) DEF Review!Init, FileProof!Review!Init, Review!NoState, FileProof!Review!NoState
<1>2. Review!Next = FileProof!Review!Next
  BY DEF Review!Next, FileProof!Review!Next, Review!Step, FileProof!Review!Step, Review!ChildExits,
     FileProof!Review!ChildExits, Review!Done, FileProof!Review!Done, Review!Allocate,
     FileProof!Review!Allocate, Review!Load, FileProof!Review!Load, Review!Dirs,
     FileProof!Review!Dirs, Review!Authenticate, FileProof!Review!Authenticate, Review!Attest,
     FileProof!Review!Attest, Review!Handoff, FileProof!Review!Handoff, Review!Begin,
     FileProof!Review!Begin, Review!Launch, FileProof!Review!Launch, Review!Publish,
     FileProof!Review!Publish, Review!Bind, FileProof!Review!Bind, Review!Serve,
     FileProof!Review!Serve, Review!Stop, FileProof!Review!Stop, Review!Settle,
     FileProof!Review!Settle, Review!Judge, FileProof!Review!Judge, Review!Close,
     FileProof!Review!Close, Review!Quiesce, FileProof!Review!Quiesce, Review!Leave,
     FileProof!Review!Leave, Review!Result, FileProof!Review!Result, Review!Handle,
     FileProof!Review!Handle, Review!Cleanup, FileProof!Review!Cleanup, Review!Disk,
     FileProof!Review!Disk, Review!Held, FileProof!Review!Held, Review!Life, FileProof!Review!Life,
     Review!Error, FileProof!Review!Error, Review!Past, FileProof!Review!Past, Review!vars,
     FileProof!Review!vars, Review!Goto, FileProof!Review!Goto, Review!NoError,
     FileProof!Review!NoError, Review!Raise, FileProof!Review!Raise, Review!Process,
     FileProof!Review!Process, Review!NoState, FileProof!Review!NoState, Review!RaiseHelper,
     FileProof!Review!RaiseHelper, Review!GateState, FileProof!Review!GateState, Review!Review,
     FileProof!Review!Review, Review!Throw, FileProof!Review!Throw, Review!Piped,
     FileProof!Review!Piped, Review!Unclosed, FileProof!Review!Unclosed, Review!RaiseRetained,
     FileProof!Review!RaiseRetained, Review!Proven, FileProof!Review!Proven, Review!Fault,
     FileProof!Review!Fault, Review!Quiescent, FileProof!Review!Quiescent, Review!Entered,
     FileProof!Review!Entered
<1>3. /\ Review!TypeOK = FileProof!Review!TypeOK
      /\ Review!KnownKeepsSnapshot = FileProof!Review!KnownKeepsSnapshot
      /\ Review!AliveIsUnproven = FileProof!Review!AliveIsUnproven
      /\ Review!OpenLaunchIsUnproven = FileProof!Review!OpenLaunchIsUnproven
      /\ Review!NamedIsKept = FileProof!Review!NamedIsKept
      /\ Review!NothingLeft = FileProof!Review!NothingLeft
  BY DEF Review!TypeOK, FileProof!Review!TypeOK, Review!KnownKeepsSnapshot,
     FileProof!Review!KnownKeepsSnapshot, Review!AliveIsUnproven, FileProof!Review!AliveIsUnproven,
     Review!AtEnd, FileProof!Review!AtEnd, Review!OpenLaunchIsUnproven,
     FileProof!Review!OpenLaunchIsUnproven, Review!NamedIsKept, FileProof!Review!NamedIsKept,
     Review!NothingLeft, FileProof!Review!NothingLeft
<1> QED
  BY <1>1, <1>2, <1>3

LEMMA ReviewBounds == FileProof!ReviewBounds
BY DEF FileProof!ReviewBounds

LEMMA ReviewInit == ASSUME SupervisorInit PROVE ReviewInv
BY ReviewBounds, ReviewSame, FileProof!ReviewInitHolds DEF SupervisorInit, ReviewInv

LEMMA ReviewKeeps == ASSUME ReviewInv, [SupervisorNext]_All PROVE ReviewInv'
<1>1. CASE which = "review"
  <2>1. [FileProof!Review!Next]_(FileProof!Review!vars)
    BY <1>1, ReviewSame DEF SupervisorNext, All, FileProof!Review!vars
  <2>2. FileProof!ReviewInv'
    BY <1>1, <2>1, ReviewBounds, FileProof!ReviewStepKeeps DEF ReviewInv
  <2> QED
    BY <2>2 DEF ReviewInv
<1>2. CASE which # "review"
  BY <1>2, OneRuns DEF ReviewInv
<1> QED
  BY <1>1, <1>2

StagingInv == which = "staging" => FileProof!StagingInv

(* The component and the module it is proved in say the same. *)
LEMMA StagingSame ==
  /\ Staging!Init = FileProof!Staging!Init /\ Staging!Next = FileProof!Staging!Next
  /\ Staging!TypeOK = FileProof!Staging!TypeOK
  /\ Staging!EvidenceIsTrue = FileProof!Staging!EvidenceIsTrue
  /\ Staging!CleanIsDurable = FileProof!Staging!CleanIsDurable
  /\ Staging!DescriptorsAccounted = FileProof!Staging!DescriptorsAccounted
<1>1. Staging!Init = FileProof!Staging!Init
  BY DEF Staging!Init, FileProof!Staging!Init, Staging!Closed, FileProof!Staging!Closed
<1>2. Staging!Next = FileProof!Staging!Next
  BY DEF Staging!Next, FileProof!Staging!Next, Staging!Mkdir, FileProof!Staging!Mkdir,
     Staging!Capture, FileProof!Staging!Capture, Staging!AbortRemove, FileProof!Staging!AbortRemove,
     Staging!AbortSync, FileProof!Staging!AbortSync, Staging!AbortCheck,
     FileProof!Staging!AbortCheck, Staging!Open, FileProof!Staging!Open, Staging!Create,
     FileProof!Staging!Create, Staging!Seal, FileProof!Staging!Seal, Staging!CloseBuild,
     FileProof!Staging!CloseBuild, Staging!Reopen, FileProof!Staging!Reopen, Staging!Enter,
     FileProof!Staging!Enter, Staging!Check, FileProof!Staging!Check, Staging!Unlink,
     FileProof!Staging!Unlink, Staging!Name, FileProof!Staging!Name, Staging!Rename,
     FileProof!Staging!Rename, Staging!QuarantineSync, FileProof!Staging!QuarantineSync,
     Staging!RemoveQuarantine, FileProof!Staging!RemoveQuarantine, Staging!RemovalSync,
     FileProof!Staging!RemovalSync, Staging!Removed, FileProof!Staging!Removed, Staging!Release,
     FileProof!Staging!Release, Staging!Use, FileProof!Staging!Use, Staging!Destroy,
     FileProof!Staging!Destroy, Staging!DestroyRoot, FileProof!Staging!DestroyRoot, Staging!Done,
     FileProof!Staging!Done, Staging!At, FileProof!Staging!At, Staging!Goto, FileProof!Staging!Goto,
     Staging!Fail, FileProof!Staging!Fail, Staging!Finish, FileProof!Staging!Finish, Staging!Closed,
     FileProof!Staging!Closed, Staging!Known, FileProof!Staging!Known, Staging!Disk,
     FileProof!Staging!Disk, Staging!Fds, FileProof!Staging!Fds, Staging!Remove,
     FileProof!Staging!Remove, Staging!KeepCreation, FileProof!Staging!KeepCreation,
     Staging!KeepOnFault, FileProof!Staging!KeepOnFault, Staging!AsExpected,
     FileProof!Staging!AsExpected, Staging!Keep, FileProof!Staging!Keep, Staging!Refresh,
     FileProof!Staging!Refresh, Staging!KeepCustody, FileProof!Staging!KeepCustody, Staging!vars,
     FileProof!Staging!vars
<1>3. /\ Staging!TypeOK = FileProof!Staging!TypeOK
      /\ Staging!EvidenceIsTrue = FileProof!Staging!EvidenceIsTrue
      /\ Staging!CleanIsDurable = FileProof!Staging!CleanIsDurable
      /\ Staging!DescriptorsAccounted = FileProof!Staging!DescriptorsAccounted
  BY DEF Staging!TypeOK, FileProof!Staging!TypeOK, Staging!EvidenceIsTrue,
     FileProof!Staging!EvidenceIsTrue, Staging!CleanIsDurable, FileProof!Staging!CleanIsDurable,
     Staging!DescriptorsAccounted, FileProof!Staging!DescriptorsAccounted, Staging!Closed,
     FileProof!Staging!Closed
<1> QED
  BY <1>1, <1>2, <1>3

LEMMA StagingBounds == FileProof!StagingBounds
BY DEF FileProof!StagingBounds

LEMMA StagingInit == ASSUME SupervisorInit PROVE StagingInv
BY StagingBounds, StagingSame, FileProof!StagingInitHolds DEF SupervisorInit, StagingInv

LEMMA StagingKeeps == ASSUME StagingInv, [SupervisorNext]_All PROVE StagingInv'
<1>1. CASE which = "staging"
  <2>1. [FileProof!Staging!Next]_(FileProof!Staging!vars)
    BY <1>1, StagingSame DEF SupervisorNext, All, FileProof!Staging!vars
  <2>2. FileProof!StagingInv'
    BY <1>1, <2>1, StagingBounds, FileProof!StagingStepKeeps DEF StagingInv
  <2> QED
    BY <2>2 DEF StagingInv
<1>2. CASE which # "staging"
  BY <1>2, OneRuns DEF StagingInv
<1> QED
  BY <1>1, <1>2

PreflightBound == Bound.preflight \in Nat
PreflightInv == which = "preflight" => FileProof!PreflightInv

(* The component and the module it is proved in say the same. *)
LEMMA PreflightSame ==
  /\ Preflight!Init = FileProof!Preflight!Init /\ Preflight!Next = FileProof!Preflight!Next
  /\ Preflight!TypeOK = FileProof!Preflight!TypeOK
  /\ Preflight!NoSilentProcess = FileProof!Preflight!NoSilentProcess
  /\ Preflight!DirectoryOutlivesProcess = FileProof!Preflight!DirectoryOutlivesProcess
  /\ Preflight!LeftIsHeld = FileProof!Preflight!LeftIsHeld
  /\ Preflight!LaunchControlsKept = FileProof!Preflight!LaunchControlsKept
  /\ Preflight!ResultIsWhole = FileProof!Preflight!ResultIsWhole
<1>1. Preflight!Init = FileProof!Preflight!Init
  BY ZenonT(60) DEF Preflight!Init, FileProof!Preflight!Init, Preflight!Ends, FileProof!Preflight!Ends,
     Preflight!Streams, FileProof!Preflight!Streams
<1>2. Preflight!Next = FileProof!Preflight!Next
  BY DEF Preflight!Next, FileProof!Preflight!Next, Preflight!Step, FileProof!Preflight!Step,
     Preflight!ChildExits, FileProof!Preflight!ChildExits, Preflight!Done, FileProof!Preflight!Done,
     Preflight!OpenRoot, FileProof!Preflight!OpenRoot, Preflight!MakeDirectory,
     FileProof!Preflight!MakeDirectory, Preflight!BindDirectory, FileProof!Preflight!BindDirectory,
     Preflight!Pipes, FileProof!Preflight!Pipes, Preflight!Launch, FileProof!Preflight!Launch,
     Preflight!CloseEnds, FileProof!Preflight!CloseEnds, Preflight!LaunchFailed,
     FileProof!Preflight!LaunchFailed, Preflight!LaunchClose, FileProof!Preflight!LaunchClose,
     Preflight!Read, FileProof!Preflight!Read, Preflight!End, FileProof!Preflight!End,
     Preflight!TimeOut, FileProof!Preflight!TimeOut, Preflight!Wait, FileProof!Preflight!Wait,
     Preflight!RunFailed, FileProof!Preflight!RunFailed, Preflight!Finalize,
     FileProof!Preflight!Finalize, Preflight!Hash, FileProof!Preflight!Hash, Preflight!Keep,
     FileProof!Preflight!Keep, Preflight!Created, FileProof!Preflight!Created, Preflight!Destroy,
     FileProof!Preflight!Destroy, Preflight!Nothing, FileProof!Preflight!Nothing,
     Preflight!CloseAnchors, FileProof!Preflight!CloseAnchors, Preflight!Files,
     FileProof!Preflight!Files, Preflight!Launched, FileProof!Preflight!Launched, Preflight!Stream,
     FileProof!Preflight!Stream, Preflight!Error, FileProof!Preflight!Error, Preflight!vars,
     FileProof!Preflight!vars, Preflight!Goto, FileProof!Preflight!Goto, Preflight!Raise,
     FileProof!Preflight!Raise, Preflight!Process, FileProof!Preflight!Process, Preflight!Ends,
     FileProof!Preflight!Ends, Preflight!Retain, FileProof!Preflight!Retain, Preflight!Reap,
     FileProof!Preflight!Reap, Preflight!ClosedAll, FileProof!Preflight!ClosedAll,
     Preflight!Unproven, FileProof!Preflight!Unproven, Preflight!OneUnproven,
     FileProof!Preflight!OneUnproven, Preflight!Fault, FileProof!Preflight!Fault, Preflight!Streams,
     FileProof!Preflight!Streams, Preflight!Throw, FileProof!Preflight!Throw, Preflight!Named,
     FileProof!Preflight!Named, Preflight!Hold, FileProof!Preflight!Hold
<1>3. /\ Preflight!TypeOK = FileProof!Preflight!TypeOK
      /\ Preflight!NoSilentProcess = FileProof!Preflight!NoSilentProcess
      /\ Preflight!DirectoryOutlivesProcess = FileProof!Preflight!DirectoryOutlivesProcess
      /\ Preflight!LeftIsHeld = FileProof!Preflight!LeftIsHeld
      /\ Preflight!LaunchControlsKept = FileProof!Preflight!LaunchControlsKept
      /\ Preflight!ResultIsWhole = FileProof!Preflight!ResultIsWhole
  BY DEF Preflight!TypeOK, FileProof!Preflight!TypeOK, Preflight!Ends, FileProof!Preflight!Ends,
     Preflight!Streams, FileProof!Preflight!Streams, Preflight!NoSilentProcess,
     FileProof!Preflight!NoSilentProcess, Preflight!AtEnd, FileProof!Preflight!AtEnd,
     Preflight!DirectoryOutlivesProcess, FileProof!Preflight!DirectoryOutlivesProcess,
     Preflight!LeftIsHeld, FileProof!Preflight!LeftIsHeld, Preflight!LaunchControlsKept,
     FileProof!Preflight!LaunchControlsKept, Preflight!ResultIsWhole,
     FileProof!Preflight!ResultIsWhole
<1> QED
  BY <1>1, <1>2, <1>3

LEMMA PreflightBounds == ASSUME PreflightBound PROVE FileProof!PreflightBounds
BY DEF PreflightBound, FileProof!PreflightBounds

LEMMA PreflightInit == ASSUME PreflightBound, SupervisorInit PROVE PreflightInv
BY PreflightBounds, PreflightSame, FileProof!PreflightInitHolds DEF SupervisorInit, PreflightInv

LEMMA PreflightKeeps == ASSUME PreflightBound, PreflightInv, [SupervisorNext]_All PROVE PreflightInv'
<1>1. CASE which = "preflight"
  <2>1. [FileProof!Preflight!Next]_(FileProof!Preflight!vars)
    BY <1>1, PreflightSame DEF SupervisorNext, All, FileProof!Preflight!vars
  <2>2. FileProof!PreflightInv'
    BY <1>1, <2>1, PreflightBounds, FileProof!PreflightStepKeeps DEF PreflightInv
  <2> QED
    BY <2>2 DEF PreflightInv
<1>2. CASE which # "preflight"
  BY <1>2, OneRuns DEF PreflightInv
<1> QED
  BY <1>1, <1>2

(* What a process may still use is there, and what is left of a review, of *)
(* its executable's snapshot and of the command that writes the schema is   *)
(* named by the error, with evidence that is true                          *)
(* (review_execution.py:1714, codex_executable.py:2740, 3690).             *)
THEOREM EvidenceStaysKept ==
  ASSUME PreflightBound
  PROVE  SupervisorSpec => []EvidenceOutlivesReview
<1> DEFINE Inv == ReviewInv /\ StagingInv /\ PreflightInv
<1>1. SupervisorInit => Inv
  BY ReviewInit, StagingInit, PreflightInit
<1>2. Inv /\ [SupervisorNext]_All => Inv'
  BY ReviewKeeps, StagingKeeps, PreflightKeeps
<1>3. Inv => EvidenceOutlivesReview
  <2>1. ASSUME Inv, which = "review"
       PROVE  Review!TypeOK /\ Review!KnownKeepsSnapshot /\ Review!AliveIsUnproven
             /\ Review!OpenLaunchIsUnproven /\ Review!NamedIsKept
             /\ Review!NothingLeft
    BY <2>1, ReviewBounds, ReviewSame, FileProof!ReviewInvariantTells DEF ReviewInv,
       FileProof!ReviewInv
  <2>2. ASSUME Inv, which = "staging"
       PROVE  Staging!TypeOK /\ Staging!EvidenceIsTrue /\ Staging!CleanIsDurable
             /\ Staging!DescriptorsAccounted
    BY <2>2, StagingBounds, StagingSame, FileProof!StagingInvariantTells DEF StagingInv,
       FileProof!StagingInv
  <2>3. ASSUME Inv, which = "preflight"
       PROVE  Preflight!TypeOK /\ Preflight!NoSilentProcess
             /\ Preflight!DirectoryOutlivesProcess /\ Preflight!LeftIsHeld
             /\ Preflight!LaunchControlsKept /\ Preflight!ResultIsWhole
    BY <2>3, PreflightBounds, PreflightSame, FileProof!PreflightInvariantTells DEF PreflightInv,
       FileProof!PreflightInv
  <2> QED
    BY <2>1, <2>2, <2>3 DEF EvidenceOutlivesReview
<1> QED
  BY <1>1, <1>2, <1>3, PTL DEF SupervisorSpec

-----------------------------------------------------------------------------
(* RunCustody *)

RunProof == INSTANCE RunCustodyProofs WITH mode <- s1, keep <- s2, starter <- s3, runner <- s4,
  marker <- s5, record <- s6, box <- s7, art <- s8, receipts <- s9, tree <- s10, exit <- s11,
  sealed <- s12, lock <- s13, fds <- s14, cmd <- s15, worker <- s16, job <- s17, kills <- s18,
  Commands <- Bound.commands, Starter <- Starter, Nobody <- None, Artifacts <- Bound.artifacts,
  MaxKills <- Bound.kills, dir <- s1, inodes <- s2, place <- s3, agenda <- s4, hold <- s5,
  adopted <- s6, opened <- s7, beat <- s8, operator <- s9, handoff <- s10, cleared <- s11,
  faults <- s12, signals <- s13, Nil <- None, Helpers <- {l1}, Claude <- Claude,
  Foreign <- TRUE, OnSuccess <- Bound.onSuccess, MaxInterrupts <- Bound.signals,
  MaxInodes <- Bound.inodes, parents <- s1, present <- s2, trees <- s3, root <- s4,
  verdict <- s5, scope <- s6, store <- s7, damage <- s8, valid <- s9, N <- Bound.commits,
  MaxDamage <- 0

RunBound == Bound.kills \in Nat /\ Starter \notin Bound.commands /\ None \notin Bound.commands \cup {Starter}
RunInv == which = "run" => RunProof!IInv

(* The component and the module it is proved in say the same. *)
LEMMA RunSame ==
  /\ Run!Init = RunProof!Init /\ Run!Next = RunProof!Next
  /\ Run!TypeOK = RunProof!TypeOK
  /\ Run!ReviewUndisturbed = RunProof!ReviewUndisturbed
  /\ Run!OneCleaner = RunProof!OneCleaner
  /\ Run!SuccessIsRemoval = RunProof!SuccessIsRemoval
  /\ Run!MarkerOutlivesContent = RunProof!MarkerOutlivesContent
<1>1. Run!Init = RunProof!Init
  BY ZenonT(60) DEF Run!Init, RunProof!Init, Run!Dirs, RunProof!Dirs, Run!Actors, RunProof!Actors, Run!NoJob,
     RunProof!NoJob, Run!files, RunProof!files
<1>2. Run!Next = RunProof!Next
  BY DEF Run!Next, RunProof!Next, Run!Steps, RunProof!Steps, Run!StarterDies, RunProof!StarterDies,
     Run!RunnerDies, RunProof!RunnerDies, Run!Call, RunProof!Call, Run!CommandDies,
     RunProof!CommandDies, Run!WorkerDies, RunProof!WorkerDies, Run!StarterSteps,
     RunProof!StarterSteps, Run!RunnerSteps, RunProof!RunnerSteps, Run!Actors, RunProof!Actors,
     Run!Remove, RunProof!Remove, Run!CommandSteps, RunProof!CommandSteps, Run!WorkerSteps,
     RunProof!WorkerSteps, Run!Kill, RunProof!Kill, Run!NoJob, RunProof!NoJob, Run!files,
     RunProof!files, Run!RunnerLives, RunProof!RunnerLives, Run!locks, RunProof!locks, Run!Is,
     RunProof!Is, Run!run, RunProof!run, Run!End, RunProof!End, Run!Close, RunProof!Close,
     Run!Create, RunProof!Create, Run!Accept, RunProof!Accept, Run!Build, RunProof!Build, Run!Ready,
     RunProof!Ready, Run!Record, RunProof!Record, Run!Spawn, RunProof!Spawn, Run!Publish,
     RunProof!Publish, Run!UndoEnds, RunProof!UndoEnds, Run!Foreground, RunProof!Foreground,
     Run!Active, RunProof!Active, Run!Removing, RunProof!Removing, Run!ByWorker, RunProof!ByWorker,
     Run!Load, RunProof!Load, Run!Probe, RunProof!Probe, Run!Exit, RunProof!Exit, Run!Acquire,
     RunProof!Acquire, Run!Clean, RunProof!Clean, Run!Cleaned, RunProof!Cleaned, Run!Poll,
     RunProof!Poll, Run!Begin, RunProof!Begin, Run!Over, RunProof!Over, Run!At, RunProof!At,
     Run!Ending, RunProof!Ending, Run!Starting, RunProof!Starting, Run!Undo, RunProof!Undo,
     Run!Dirs, RunProof!Dirs, Run!Scan, RunProof!Scan, Run!Pick, RunProof!Pick, Run!UnlinkArtifact,
     RunProof!UnlinkArtifact, Run!Receipt, RunProof!Receipt, Run!Workspace, RunProof!Workspace,
     Run!Git, RunProof!Git, Run!Contents, RunProof!Contents, Run!Box, RunProof!Box, Run!Forced,
     RunProof!Forced, Run!RunnerLockHeld, RunProof!RunnerLockHeld, Run!Go, RunProof!Go, Run!Answer,
     RunProof!Answer, Run!Late, RunProof!Late, Run!Refuse, RunProof!Refuse, Run!CleanUnrecorded,
     RunProof!CleanUnrecorded, Run!CleanRecorded, RunProof!CleanRecorded, Run!Unlock,
     RunProof!Unlock, Run!Receipted, RunProof!Receipted, Run!Step, RunProof!Step,
     Run!AfterArtifacts, RunProof!AfterArtifacts, Run!EnterDirectory, RunProof!EnterDirectory,
     Run!EmptyDirectory, RunProof!EmptyDirectory, Run!RemoveDirectory, RunProof!RemoveDirectory,
     Run!AfterGit, RunProof!AfterGit, Run!Quarantined, RunProof!Quarantined, Run!MayClean,
     RunProof!MayClean
<1>3. /\ Run!TypeOK = RunProof!TypeOK
      /\ Run!ReviewUndisturbed = RunProof!ReviewUndisturbed
      /\ Run!OneCleaner = RunProof!OneCleaner
      /\ Run!SuccessIsRemoval = RunProof!SuccessIsRemoval
      /\ Run!MarkerOutlivesContent = RunProof!MarkerOutlivesContent
  BY DEF Run!TypeOK, RunProof!TypeOK, Run!Dirs, RunProof!Dirs, Run!Actors, RunProof!Actors,
     Run!files, RunProof!files, Run!ReviewUndisturbed, RunProof!ReviewUndisturbed, Run!Reviewing,
     RunProof!Reviewing, Run!RunnerLives, RunProof!RunnerLives, Run!OneCleaner, RunProof!OneCleaner,
     Run!Active, RunProof!Active, Run!SuccessIsRemoval, RunProof!SuccessIsRemoval, Run!Forced,
     RunProof!Forced, Run!MarkerOutlivesContent, RunProof!MarkerOutlivesContent
<1> QED
  BY <1>1, <1>2, <1>3

LEMMA RunBounds == ASSUME RunBound PROVE RunProof!Bounds
BY DEF RunBound, RunProof!Bounds, RunProof!Actors

LEMMA RunInit == ASSUME RunBound, SupervisorInit PROVE RunInv
BY RunBounds, RunSame, RunProof!InitHolds DEF SupervisorInit, RunInv

LEMMA RunKeeps == ASSUME RunBound, RunInv, [SupervisorNext]_All PROVE RunInv'
<1>1. CASE which = "run"
  <2>1. [RunProof!Next]_(RunProof!vars)
    BY <1>1, RunSame DEF SupervisorNext, All, RunProof!vars, RunProof!run, RunProof!files,
       RunProof!locks
  <2>2. RunProof!IInv'
    BY <1>1, <2>1, RunBounds, RunProof!StepKeeps DEF RunInv
  <2> QED
    BY <2>2 DEF RunInv
<1>2. CASE which # "run"
  BY <1>2, OneRuns DEF RunInv
<1> QED
  BY <1>1, <1>2

LEMMA RunStep ==
  ASSUME RunBound, RunInv, [SupervisorNext]_All, which = "run"
  PROVE  Run!ExitStands
<1>1. [RunProof!Next]_(RunProof!vars)
  BY RunSame DEF SupervisorNext, All, RunProof!vars, RunProof!run, RunProof!files, RunProof!locks
<1>2. Run!ExitStands = RunProof!ExitStands
  BY DEF Run!ExitStands, RunProof!ExitStands
<1> QED
  BY <1>1, <1>2, RunBounds, RunSame, RunProof!ExitStandsStep DEF RunInv

RunsProof == INSTANCE RunCustodyProofs WITH mode <- s1, keep <- s2, starter <- s3, runner <- s4,
  marker <- s5, record <- s6, box <- s7, art <- s8, receipts <- s9, tree <- s10, exit <- s11,
  sealed <- s12, lock <- s13, fds <- s14, cmd <- s15, worker <- s16, job <- s17, kills <- s18,
  Commands <- {c1, c2}, Starter <- Starter, Nobody <- None, Artifacts <- {}, MaxKills <- 0,
  dir <- s1, inodes <- s2, place <- s3, agenda <- s4, hold <- s5, adopted <- s6, opened <- s7,
  beat <- s8, operator <- s9, handoff <- s10, cleared <- s11, faults <- s12, signals <- s13,
  Nil <- None, Helpers <- {p1, p2}, Claude <- Claude, Foreign <- FALSE, OnSuccess <- TRUE,
  MaxInterrupts <- 1, MaxInodes <- Bound.shared, parents <- s1, present <- s2, trees <- s3,
  root <- s4, verdict <- s5, scope <- s6, store <- s7, damage <- s8, valid <- s9,
  N <- Bound.commits, MaxDamage <- 0

RunsBound == Starter \notin {c1, c2} /\ None \notin {c1, c2, Starter}
RunsInv == which = "runs" => RunsProof!IInv

(* The component and the module it is proved in say the same. *)
LEMMA RunsSame ==
  /\ Runs!Init = RunsProof!Init /\ Runs!Next = RunsProof!Next
  /\ Runs!ReviewUndisturbed = RunsProof!ReviewUndisturbed
  /\ Runs!OneCleaner = RunsProof!OneCleaner
  /\ Runs!SuccessIsRemoval = RunsProof!SuccessIsRemoval
<1>1. Runs!Init = RunsProof!Init
  BY ZenonT(60) DEF Runs!Init, RunsProof!Init, Runs!Dirs, RunsProof!Dirs, Runs!Actors, RunsProof!Actors,
     Runs!NoJob, RunsProof!NoJob, Runs!files, RunsProof!files
<1>2. Runs!Next = RunsProof!Next
  BY ZenonT(60) DEF Runs!Next, RunsProof!Next, Runs!Steps, RunsProof!Steps, Runs!StarterDies,
     RunsProof!StarterDies, Runs!RunnerDies, RunsProof!RunnerDies, Runs!Call, RunsProof!Call,
     Runs!CommandDies, RunsProof!CommandDies, Runs!WorkerDies, RunsProof!WorkerDies,
     Runs!StarterSteps, RunsProof!StarterSteps, Runs!RunnerSteps, RunsProof!RunnerSteps,
     Runs!Actors, RunsProof!Actors, Runs!Remove, RunsProof!Remove, Runs!CommandSteps,
     RunsProof!CommandSteps, Runs!WorkerSteps, RunsProof!WorkerSteps, Runs!Kill, RunsProof!Kill,
     Runs!NoJob, RunsProof!NoJob, Runs!files, RunsProof!files, Runs!RunnerLives,
     RunsProof!RunnerLives, Runs!locks, RunsProof!locks, Runs!Is, RunsProof!Is, Runs!run,
     RunsProof!run, Runs!End, RunsProof!End, Runs!Close, RunsProof!Close, Runs!Create,
     RunsProof!Create, Runs!Accept, RunsProof!Accept, Runs!Build, RunsProof!Build, Runs!Ready,
     RunsProof!Ready, Runs!Record, RunsProof!Record, Runs!Spawn, RunsProof!Spawn, Runs!Publish,
     RunsProof!Publish, Runs!UndoEnds, RunsProof!UndoEnds, Runs!Foreground, RunsProof!Foreground,
     Runs!Active, RunsProof!Active, Runs!Removing, RunsProof!Removing, Runs!ByWorker,
     RunsProof!ByWorker, Runs!Load, RunsProof!Load, Runs!Probe, RunsProof!Probe, Runs!Exit,
     RunsProof!Exit, Runs!Acquire, RunsProof!Acquire, Runs!Clean, RunsProof!Clean, Runs!Cleaned,
     RunsProof!Cleaned, Runs!Poll, RunsProof!Poll, Runs!Begin, RunsProof!Begin, Runs!Over,
     RunsProof!Over, Runs!At, RunsProof!At, Runs!Ending, RunsProof!Ending, Runs!Starting,
     RunsProof!Starting, Runs!Undo, RunsProof!Undo, Runs!Dirs, RunsProof!Dirs, Runs!Scan,
     RunsProof!Scan, Runs!Pick, RunsProof!Pick, Runs!UnlinkArtifact, RunsProof!UnlinkArtifact,
     Runs!Receipt, RunsProof!Receipt, Runs!Workspace, RunsProof!Workspace, Runs!Git, RunsProof!Git,
     Runs!Contents, RunsProof!Contents, Runs!Box, RunsProof!Box, Runs!Forced, RunsProof!Forced,
     Runs!RunnerLockHeld, RunsProof!RunnerLockHeld, Runs!Go, RunsProof!Go, Runs!Answer,
     RunsProof!Answer, Runs!Late, RunsProof!Late, Runs!Refuse, RunsProof!Refuse,
     Runs!CleanUnrecorded, RunsProof!CleanUnrecorded, Runs!CleanRecorded, RunsProof!CleanRecorded,
     Runs!Unlock, RunsProof!Unlock, Runs!Receipted, RunsProof!Receipted, Runs!Step, RunsProof!Step,
     Runs!AfterArtifacts, RunsProof!AfterArtifacts, Runs!EnterDirectory, RunsProof!EnterDirectory,
     Runs!EmptyDirectory, RunsProof!EmptyDirectory, Runs!RemoveDirectory, RunsProof!RemoveDirectory,
     Runs!AfterGit, RunsProof!AfterGit, Runs!Quarantined, RunsProof!Quarantined, Runs!MayClean,
     RunsProof!MayClean
<1>3. /\ Runs!ReviewUndisturbed = RunsProof!ReviewUndisturbed
      /\ Runs!OneCleaner = RunsProof!OneCleaner
      /\ Runs!SuccessIsRemoval = RunsProof!SuccessIsRemoval
  BY DEF Runs!ReviewUndisturbed, RunsProof!ReviewUndisturbed, Runs!Reviewing, RunsProof!Reviewing,
     Runs!Dirs, RunsProof!Dirs, Runs!RunnerLives, RunsProof!RunnerLives, Runs!OneCleaner,
     RunsProof!OneCleaner, Runs!Actors, RunsProof!Actors, Runs!Active, RunsProof!Active, Runs!files,
     RunsProof!files, Runs!SuccessIsRemoval, RunsProof!SuccessIsRemoval, Runs!Forced,
     RunsProof!Forced
<1> QED
  BY <1>1, <1>2, <1>3

LEMMA RunsBounds == ASSUME RunsBound PROVE RunsProof!Bounds
BY DEF RunsBound, RunsProof!Bounds, RunsProof!Actors

LEMMA RunsInit == ASSUME RunsBound, SupervisorInit PROVE RunsInv
BY RunsBounds, RunsSame, RunsProof!InitHolds DEF SupervisorInit, RunsInv

LEMMA RunsKeeps == ASSUME RunsBound, RunsInv, [SupervisorNext]_All PROVE RunsInv'
<1>1. CASE which = "runs"
  <2>1. [RunsProof!Next]_(RunsProof!vars)
    BY <1>1, RunsSame DEF SupervisorNext, All, RunsProof!vars, RunsProof!run, RunsProof!files,
       RunsProof!locks
  <2>2. RunsProof!IInv'
    BY <1>1, <2>1, RunsBounds, RunsProof!StepKeeps DEF RunsInv
  <2> QED
    BY <2>2 DEF RunsInv
<1>2. CASE which # "runs"
  BY <1>2, OneRuns DEF RunsInv
<1> QED
  BY <1>1, <1>2

LEMMA RunsStep ==
  ASSUME RunsBound, RunsInv, [SupervisorNext]_All, which = "runs"
  PROVE  Runs!ExitStands
<1>1. [RunsProof!Next]_(RunsProof!vars)
  BY RunsSame DEF SupervisorNext, All, RunsProof!vars, RunsProof!run, RunsProof!files,
     RunsProof!locks
<1>2. Runs!ExitStands = RunsProof!ExitStands
  BY DEF Runs!ExitStands, RunsProof!ExitStands
<1> QED
  BY <1>1, <1>2, RunsBounds, RunsSame, RunsProof!ExitStandsStep DEF RunsInv

(* A run under review is left alone, one process cleans it at a time, and   *)
(* its marker outlives its content, in both scopes the suite looks at it   *)
(* (cleanup_worker.py:41, state.py:3604).                                  *)
THEOREM RunStaysKept ==
  ASSUME RunBound, RunsBound
  PROVE  SupervisorSpec => []RunIsKept
<1> DEFINE Inv == RunInv /\ RunsInv
<1>1. SupervisorInit => Inv
  BY RunInit, RunsInit
<1>2. Inv /\ [SupervisorNext]_All => Inv'
  BY RunKeeps, RunsKeeps
<1>3. Inv => RunIsKept
  <2>1. ASSUME Inv, which = "run"
       PROVE  Run!TypeOK /\ Run!ReviewUndisturbed /\ Run!OneCleaner /\ Run!SuccessIsRemoval
             /\ Run!MarkerOutlivesContent
    BY <2>1, RunBounds, RunSame, RunProof!InvariantTells DEF RunInv, RunProof!IInv
  <2>2. ASSUME Inv, which = "runs"
       PROVE  Runs!ReviewUndisturbed /\ Runs!OneCleaner /\ Runs!SuccessIsRemoval
    BY <2>2, RunsBounds, RunsSame, RunsProof!InvariantTells DEF RunsInv, RunsProof!IInv
  <2> QED
    BY <2>1, <2>2 DEF RunIsKept
<1> QED
  BY <1>1, <1>2, <1>3, PTL DEF SupervisorSpec

-----------------------------------------------------------------------------
(* AuthCarrier, AuthRefresh *)

CarrierBound == /\ Bound.edits \in Nat /\ Bound.time \in Nat
                /\ None \notin AccountProof!Objects /\ None \notin AccountProof!Evidence
CarrierInv == which = "carrier" => AccountProof!IInv

(* The component and the module it is proved in say the same. *)
LEMMA CarrierSame ==
  /\ Carrier!Init = AccountProof!Init /\ Carrier!Next = AccountProof!Next
  /\ Carrier!TypeOK = AccountProof!TypeOK
  /\ Carrier!EvidenceWasWhole = AccountProof!EvidenceWasWhole
  /\ Carrier!SentWasHeldAfterLaunch = AccountProof!SentWasHeldAfterLaunch
  /\ Carrier!SentOutlivesReview = AccountProof!SentOutlivesReview
<1>1. Carrier!Init = AccountProof!Init
  BY DEF Carrier!Init, AccountProof!Init, Carrier!Kinds, AccountProof!Kinds, Carrier!Versions,
     AccountProof!Versions, Carrier!Objects, AccountProof!Objects, Carrier!Unseen,
     AccountProof!Unseen
<1>2. Carrier!Next = AccountProof!Next
  BY DEF Carrier!Next, AccountProof!Next, Carrier!RewriteFirst, AccountProof!RewriteFirst,
     Carrier!RewriteSecond, AccountProof!RewriteSecond, Carrier!Replace, AccountProof!Replace,
     Carrier!Remove, AccountProof!Remove, Carrier!Loosen, AccountProof!Loosen, Carrier!Tick,
     AccountProof!Tick, Carrier!SetWall, AccountProof!SetWall, Carrier!Inspect,
     AccountProof!Inspect, Carrier!Load, AccountProof!Load, Carrier!Revalidate,
     AccountProof!Revalidate, Carrier!Refresh, AccountProof!Refresh, Carrier!Launch,
     AccountProof!Launch, Carrier!Serve, AccountProof!Serve, Carrier!Edit, AccountProof!Edit,
     Carrier!Compose, AccountProof!Compose, Carrier!reader, AccountProof!reader, Carrier!Running,
     AccountProof!Running, Carrier!Objects, AccountProof!Objects, Carrier!disk, AccountProof!disk,
     Carrier!Open, AccountProof!Open, Carrier!Read, AccountProof!Read, Carrier!Stat,
     AccountProof!Stat, Carrier!Digest, AccountProof!Digest, Carrier!At, AccountProof!At,
     Carrier!Confirm, AccountProof!Confirm, Carrier!Selected, AccountProof!Selected, Carrier!Fail,
     AccountProof!Fail, Carrier!Short, AccountProof!Short, Carrier!Go, AccountProof!Go,
     Carrier!Expiration, AccountProof!Expiration, Carrier!Begin, AccountProof!Begin,
     Carrier!SameSource, AccountProof!SameSource, Carrier!ClockAgrees, AccountProof!ClockAgrees,
     Carrier!Effective, AccountProof!Effective, Carrier!Lasts, AccountProof!Lasts, Carrier!After,
     AccountProof!After, Carrier!Kinds, AccountProof!Kinds, Carrier!Unseen, AccountProof!Unseen,
     Carrier!Expected, AccountProof!Expected, Carrier!Candidate, AccountProof!Candidate,
     Carrier!Later, AccountProof!Later
<1>3. /\ Carrier!TypeOK = AccountProof!TypeOK
      /\ Carrier!EvidenceWasWhole = AccountProof!EvidenceWasWhole
      /\ Carrier!SentWasHeldAfterLaunch = AccountProof!SentWasHeldAfterLaunch
      /\ Carrier!SentOutlivesReview = AccountProof!SentOutlivesReview
  BY DEF Carrier!TypeOK, AccountProof!TypeOK, Carrier!Versions, AccountProof!Versions,
     Carrier!Kinds, AccountProof!Kinds, Carrier!Objects, AccountProof!Objects,
     Carrier!EvidenceWasWhole, AccountProof!EvidenceWasWhole, Carrier!SentWasHeldAfterLaunch,
     AccountProof!SentWasHeldAfterLaunch, Carrier!Sent, AccountProof!Sent,
     Carrier!SentOutlivesReview, AccountProof!SentOutlivesReview
<1> QED
  BY <1>1, <1>2, <1>3

LEMMA CarrierBounds == ASSUME CarrierBound PROVE AccountProof!Bounds
BY DEF CarrierBound, AccountProof!Bounds

LEMMA CarrierInit == ASSUME CarrierBound, SupervisorInit PROVE CarrierInv
BY CarrierBounds, CarrierSame, AccountProof!InitHolds DEF SupervisorInit, CarrierInv

LEMMA CarrierKeeps == ASSUME CarrierBound, CarrierInv, [SupervisorNext]_All PROVE CarrierInv'
<1>1. CASE which = "carrier"
  <2>1. [AccountProof!Next]_(AccountProof!vars)
    BY <1>1, CarrierSame DEF SupervisorNext, All, AccountProof!vars, AccountProof!disk,
       AccountProof!reader
  <2>2. AccountProof!IInv'
    BY <1>1, <2>1, CarrierBounds, AccountProof!StepKeeps DEF CarrierInv
  <2> QED
    BY <2>2 DEF CarrierInv
<1>2. CASE which # "carrier"
  BY <1>2, OneRuns DEF CarrierInv
<1> QED
  BY <1>1, <1>2

LEMMA CarrierStep ==
  ASSUME CarrierBound, CarrierInv, [SupervisorNext]_All, which = "carrier"
  PROVE  Carrier!HighWaterStays
<1>1. [AccountProof!Next]_(AccountProof!vars)
  BY CarrierSame DEF SupervisorNext, All, AccountProof!vars, AccountProof!disk, AccountProof!reader
<1>2. Carrier!HighWaterStays = AccountProof!HighWaterStays
  BY DEF Carrier!HighWaterStays, AccountProof!HighWaterStays
<1> QED
  BY <1>1, <1>2, CarrierBounds, CarrierSame, AccountProof!HighWaterStep DEF CarrierInv

RefreshBound == None \notin {0, 1} /\ None \notin {"refreshed", "failed", "retained"}
RefreshInv == which = "refresh" => AccountProof!ServerInv

(* The component and the module it is proved in say the same. *)
LEMMA RefreshSame ==
  /\ Refresh!Init = AccountProof!Server!Init /\ Refresh!Next = AccountProof!Server!Next
  /\ Refresh!TypeOK = AccountProof!Server!TypeOK
  /\ Refresh!RefreshedIsProved = AccountProof!Server!RefreshedIsProved
  /\ Refresh!BoundIsOwn = AccountProof!Server!BoundIsOwn
  /\ Refresh!ClosedLeavesNothing = AccountProof!Server!ClosedLeavesNothing
  /\ Refresh!SignalWins = AccountProof!Server!SignalWins
<1>1. Refresh!Init = AccountProof!Server!Init
  BY DEF Refresh!Init, AccountProof!Server!Init
<1>2. Refresh!Next = AccountProof!Server!Next
  BY DEF Refresh!Next, AccountProof!Server!Next, Refresh!Exits, AccountProof!Server!Exits,
     Refresh!HostSignal, AccountProof!Server!HostSignal, Refresh!Time, AccountProof!Server!Time,
     Refresh!Refresh, AccountProof!Server!Refresh, Refresh!talk, AccountProof!Server!talk,
     Refresh!timing, AccountProof!Server!timing, Refresh!verdict, AccountProof!Server!verdict,
     Refresh!process, AccountProof!Server!process, Refresh!Launch, AccountProof!Server!Launch,
     Refresh!Bind, AccountProof!Server!Bind, Refresh!Start, AccountProof!Server!Start,
     Refresh!Break, AccountProof!Server!Break, Refresh!Write, AccountProof!Server!Write,
     Refresh!ReadRecord, AccountProof!Server!ReadRecord, Refresh!ReadPart,
     AccountProof!Server!ReadPart, Refresh!ReadEnd, AccountProof!Server!ReadEnd, Refresh!CloseStdin,
     AccountProof!Server!CloseStdin, Refresh!Finish, AccountProof!Server!Finish, Refresh!LetGo,
     AccountProof!Server!LetGo, Refresh!Wait, AccountProof!Server!Wait, Refresh!Close,
     AccountProof!Server!Close, Refresh!Term, AccountProof!Server!Term, Refresh!Kill,
     AccountProof!Server!Kill, Refresh!Await, AccountProof!Server!Await, Refresh!LeaveBoundary,
     AccountProof!Server!LeaveBoundary, Refresh!Finalize, AccountProof!Server!Finalize,
     Refresh!Goto, AccountProof!Server!Goto, Refresh!Raise, AccountProof!Server!Raise, Refresh!Step,
     AccountProof!Server!Step, Refresh!In, AccountProof!Server!In, Refresh!Records,
     AccountProof!Server!Records, Refresh!Admit, AccountProof!Server!Admit, Refresh!Complete,
     AccountProof!Server!Complete, Refresh!Unbind, AccountProof!Server!Unbind, Refresh!Boundary,
     AccountProof!Server!Boundary, Refresh!Proven, AccountProof!Server!Proven, Refresh!Valid,
     AccountProof!Server!Valid, Refresh!Ask, AccountProof!Server!Ask
<1>3. /\ Refresh!TypeOK = AccountProof!Server!TypeOK
      /\ Refresh!RefreshedIsProved = AccountProof!Server!RefreshedIsProved
      /\ Refresh!BoundIsOwn = AccountProof!Server!BoundIsOwn
      /\ Refresh!ClosedLeavesNothing = AccountProof!Server!ClosedLeavesNothing
      /\ Refresh!SignalWins = AccountProof!Server!SignalWins
  BY DEF Refresh!TypeOK, AccountProof!Server!TypeOK, Refresh!Records, AccountProof!Server!Records,
     Refresh!RefreshedIsProved, AccountProof!Server!RefreshedIsProved, Refresh!BoundIsOwn,
     AccountProof!Server!BoundIsOwn, Refresh!ClosedLeavesNothing,
     AccountProof!Server!ClosedLeavesNothing, Refresh!SignalWins, AccountProof!Server!SignalWins
<1> QED
  BY <1>1, <1>2, <1>3

LEMMA RefreshBounds == ASSUME RefreshBound PROVE AccountProof!ServerBounds
BY DEF RefreshBound, AccountProof!ServerBounds

LEMMA RefreshInit == ASSUME RefreshBound, SupervisorInit PROVE RefreshInv
BY RefreshBounds, RefreshSame, AccountProof!ServerInitHolds DEF SupervisorInit, RefreshInv

LEMMA RefreshKeeps == ASSUME RefreshBound, RefreshInv, [SupervisorNext]_All PROVE RefreshInv'
<1>1. CASE which = "refresh"
  <2>1. [AccountProof!Server!Next]_(AccountProof!Server!vars)
    BY <1>1, RefreshSame DEF SupervisorNext, All, AccountProof!Server!vars,
       AccountProof!Server!process, AccountProof!Server!talk, AccountProof!Server!timing,
       AccountProof!Server!verdict
  <2>2. AccountProof!ServerInv'
    BY <1>1, <2>1, RefreshBounds, AccountProof!ServerStepKeeps DEF RefreshInv
  <2> QED
    BY <2>2 DEF RefreshInv
<1>2. CASE which # "refresh"
  BY <1>2, OneRuns DEF RefreshInv
<1> QED
  BY <1>1, <1>2

(* The credential a reviewer is sent was in the account's file after it was *)
(* launched, and a refresh is reported only of a server that proved it and *)
(* is gone (auth_carrier.py:300, auth_refresh.py:602).                     *)
THEOREM AccountStaysCurrent ==
  ASSUME CarrierBound, RefreshBound
  PROVE  SupervisorSpec => []AccountIsCurrent
<1> DEFINE Inv == CarrierInv /\ RefreshInv
<1>1. SupervisorInit => Inv
  BY CarrierInit, RefreshInit
<1>2. Inv /\ [SupervisorNext]_All => Inv'
  BY CarrierKeeps, RefreshKeeps
<1>3. Inv => AccountIsCurrent
  <2>1. ASSUME Inv, which = "carrier"
       PROVE  Carrier!TypeOK /\ Carrier!EvidenceWasWhole /\ Carrier!SentWasHeldAfterLaunch
             /\ Carrier!SentOutlivesReview
    BY <2>1, CarrierBounds, CarrierSame, AccountProof!InvariantTells DEF CarrierInv,
       AccountProof!IInv
  <2>2. ASSUME Inv, which = "refresh"
       PROVE  Refresh!TypeOK /\ Refresh!RefreshedIsProved /\ Refresh!BoundIsOwn
             /\ Refresh!ClosedLeavesNothing /\ Refresh!SignalWins
    BY <2>2, RefreshBounds, RefreshSame, AccountProof!ServerInvariantTells DEF RefreshInv,
       AccountProof!ServerInv
  <2> QED
    BY <2>1, <2>2 DEF AccountIsCurrent
<1> QED
  BY <1>1, <1>2, <1>3, PTL DEF SupervisorSpec

-----------------------------------------------------------------------------
(* RefreshLock *)

LockBound == /\ Bound.inodes \in Nat /\ Bound.signals \in Nat /\ Bound.onSuccess \in BOOLEAN
             /\ None \notin {l1, Claude, "primary", "legacy", "main", "beat"} /\ Claude # l1
LockInv == which = "lock" => RunProof!LockInv

(* The component and the module it is proved in say the same. *)
LEMMA LockSame ==
  /\ Lock!Init = RunProof!Lock!Init /\ Lock!Next = RunProof!Lock!Next
  /\ Lock!TypeOK = RunProof!Lock!TypeOK
  /\ Lock!RemovesOnlyOwn = RunProof!Lock!RemovesOnlyOwn
  /\ Lock!NoLateUse = RunProof!Lock!NoLateUse
  /\ Lock!ResidueIsReported = RunProof!Lock!ResidueIsReported
  /\ Lock!ReleasedIsClean = RunProof!Lock!ReleasedIsClean
  /\ Lock!VerifiedMeansClosed = RunProof!Lock!VerifiedMeansClosed
<1>1. Lock!Init = RunProof!Lock!Init
  BY ZenonT(60) DEF Lock!Init, RunProof!Lock!Init, Lock!Names, RunProof!Lock!Names, Lock!Free,
     RunProof!Lock!Free, Lock!NewLease, RunProof!Lock!NewLease, Lock!NoFault, RunProof!Lock!NoFault
<1>2. Lock!Next = RunProof!Lock!Next
  BY DEF Lock!Next, RunProof!Lock!Next, Lock!Main, RunProof!Lock!Main, Lock!AssertHeld,
     RunProof!Lock!AssertHeld, Lock!BeatWakes, RunProof!Lock!BeatWakes, Lock!BeatLocks,
     RunProof!Lock!BeatLocks, Lock!BeatRenews, RunProof!Lock!BeatRenews, Lock!Interrupt,
     RunProof!Lock!Interrupt, Lock!Crash, RunProof!Lock!Crash, Lock!Names, RunProof!Lock!Names,
     Lock!Age, RunProof!Lock!Age, Lock!ClaudeTakes, RunProof!Lock!ClaudeTakes, Lock!ClaudeLeaves,
     RunProof!Lock!ClaudeLeaves, Lock!MakeLock, RunProof!Lock!MakeLock, Lock!Adopt,
     RunProof!Lock!Adopt, Lock!StartHeartbeat, RunProof!Lock!StartHeartbeat, Lock!BodyEnds,
     RunProof!Lock!BodyEnds, Lock!Entry, RunProof!Lock!Entry, Lock!ReleaseStart,
     RunProof!Lock!ReleaseStart, Lock!Join, RunProof!Lock!Join, Lock!Acquire, RunProof!Lock!Acquire,
     Lock!Mark, RunProof!Lock!Mark, Lock!CheckLock, RunProof!Lock!CheckLock, Lock!RemoveLock,
     RunProof!Lock!RemoveLock, Lock!Close, RunProof!Lock!Close, Lock!FreeOperation,
     RunProof!Lock!FreeOperation, Lock!FreeAfterFailure, RunProof!Lock!FreeAfterFailure,
     Lock!Abandon, RunProof!Lock!Abandon, Lock!AbandonJoin, RunProof!Lock!AbandonJoin,
     Lock!AbandonOpen, RunProof!Lock!AbandonOpen, Lock!AbandonClose, RunProof!Lock!AbandonClose,
     Lock!Renew, RunProof!Lock!Renew, Lock!Guard, RunProof!Lock!Guard, Lock!Disk,
     RunProof!Lock!Disk, Lock!AcquireFails, RunProof!Lock!AcquireFails, Lock!Free,
     RunProof!Lock!Free, Lock!Make, RunProof!Lock!Make, Lock!Retry, RunProof!Lock!Retry, Lock!Goto,
     RunProof!Lock!Goto, Lock!Lease, RunProof!Lock!Lease, Lock!Adopting, RunProof!Lock!Adopting,
     Lock!Removing, RunProof!Lock!Removing, Lock!Mk, RunProof!Lock!Mk, Lock!Resumes,
     RunProof!Lock!Resumes, Lock!Reconcile, RunProof!Lock!Reconcile, Lock!Checking,
     RunProof!Lock!Checking, Lock!Owns, RunProof!Lock!Owns, Lock!After, RunProof!Lock!After,
     Lock!Renewed, RunProof!Lock!Renewed, Lock!Late, RunProof!Lock!Late, Lock!RemoveDirectory,
     RunProof!Lock!RemoveDirectory, Lock!Lapsed, RunProof!Lock!Lapsed
<1>3. /\ Lock!TypeOK = RunProof!Lock!TypeOK
      /\ Lock!RemovesOnlyOwn = RunProof!Lock!RemovesOnlyOwn
      /\ Lock!NoLateUse = RunProof!Lock!NoLateUse
      /\ Lock!ResidueIsReported = RunProof!Lock!ResidueIsReported
      /\ Lock!ReleasedIsClean = RunProof!Lock!ReleasedIsClean
      /\ Lock!VerifiedMeansClosed = RunProof!Lock!VerifiedMeansClosed
  BY DEF Lock!TypeOK, RunProof!Lock!TypeOK, Lock!Labels, RunProof!Lock!Labels, Lock!Names,
     RunProof!Lock!Names, Lock!Descriptors, RunProof!Lock!Descriptors, Lock!RemovesOnlyOwn,
     RunProof!Lock!RemovesOnlyOwn, Lock!NoLateUse, RunProof!Lock!NoLateUse, Lock!ResidueIsReported,
     RunProof!Lock!ResidueIsReported, Lock!ReleasedIsClean, RunProof!Lock!ReleasedIsClean,
     Lock!VerifiedMeansClosed, RunProof!Lock!VerifiedMeansClosed, Lock!VerifiedClosed,
     RunProof!Lock!VerifiedClosed
<1> QED
  BY <1>1, <1>2, <1>3

LEMMA LockBounds == ASSUME LockBound PROVE RunProof!LockBounds
BY DEF LockBound, RunProof!LockBounds, RunProof!Lock!Names

LEMMA LockInit == ASSUME LockBound, SupervisorInit PROVE LockInv
BY LockBounds, LockSame, RunProof!LockInitHolds DEF SupervisorInit, LockInv

LEMMA LockKeeps == ASSUME LockBound, LockInv, [SupervisorNext]_All PROVE LockInv'
<1>1. CASE which = "lock"
  <2>1. [RunProof!Lock!Next]_(RunProof!Lock!vars)
    BY <1>1, LockSame DEF SupervisorNext, All, RunProof!Lock!vars
  <2>2. RunProof!LockInv'
    BY <1>1, <2>1, LockBounds, RunProof!LockStepKeeps DEF LockInv
  <2> QED
    BY <2>2 DEF LockInv
<1>2. CASE which # "lock"
  BY <1>2, OneRuns DEF LockInv
<1> QED
  BY <1>1, <1>2

LocksBound == /\ Bound.shared \in Nat /\ None \notin {p1, p2, Claude, "primary", "legacy", "main", "beat"}
              /\ Claude \notin {p1, p2}
LocksInv == which = "locks" => RunsProof!LockInv

(* The component and the module it is proved in say the same. *)
LEMMA LocksSame ==
  /\ Locks!Init = RunsProof!Lock!Init /\ Locks!Next = RunsProof!Lock!Next
  /\ Locks!TypeOK = RunsProof!Lock!TypeOK
  /\ Locks!RemovesOnlyOwn = RunsProof!Lock!RemovesOnlyOwn
  /\ Locks!OneHolder = RunsProof!Lock!OneHolder
<1>1. Locks!Init = RunsProof!Lock!Init
  BY ZenonT(60) DEF Locks!Init, RunsProof!Lock!Init, Locks!Names, RunsProof!Lock!Names, Locks!Free,
     RunsProof!Lock!Free, Locks!NewLease, RunsProof!Lock!NewLease, Locks!NoFault,
     RunsProof!Lock!NoFault
<1>2. Locks!Next = RunsProof!Lock!Next
  BY DEF Locks!Next, RunsProof!Lock!Next, Locks!Main, RunsProof!Lock!Main, Locks!AssertHeld,
     RunsProof!Lock!AssertHeld, Locks!BeatWakes, RunsProof!Lock!BeatWakes, Locks!BeatLocks,
     RunsProof!Lock!BeatLocks, Locks!BeatRenews, RunsProof!Lock!BeatRenews, Locks!Interrupt,
     RunsProof!Lock!Interrupt, Locks!Crash, RunsProof!Lock!Crash, Locks!Names, RunsProof!Lock!Names,
     Locks!Age, RunsProof!Lock!Age, Locks!ClaudeTakes, RunsProof!Lock!ClaudeTakes,
     Locks!ClaudeLeaves, RunsProof!Lock!ClaudeLeaves, Locks!MakeLock, RunsProof!Lock!MakeLock,
     Locks!Adopt, RunsProof!Lock!Adopt, Locks!StartHeartbeat, RunsProof!Lock!StartHeartbeat,
     Locks!BodyEnds, RunsProof!Lock!BodyEnds, Locks!Entry, RunsProof!Lock!Entry, Locks!ReleaseStart,
     RunsProof!Lock!ReleaseStart, Locks!Join, RunsProof!Lock!Join, Locks!Acquire,
     RunsProof!Lock!Acquire, Locks!Mark, RunsProof!Lock!Mark, Locks!CheckLock,
     RunsProof!Lock!CheckLock, Locks!RemoveLock, RunsProof!Lock!RemoveLock, Locks!Close,
     RunsProof!Lock!Close, Locks!FreeOperation, RunsProof!Lock!FreeOperation,
     Locks!FreeAfterFailure, RunsProof!Lock!FreeAfterFailure, Locks!Abandon, RunsProof!Lock!Abandon,
     Locks!AbandonJoin, RunsProof!Lock!AbandonJoin, Locks!AbandonOpen, RunsProof!Lock!AbandonOpen,
     Locks!AbandonClose, RunsProof!Lock!AbandonClose, Locks!Renew, RunsProof!Lock!Renew,
     Locks!Guard, RunsProof!Lock!Guard, Locks!Disk, RunsProof!Lock!Disk, Locks!AcquireFails,
     RunsProof!Lock!AcquireFails, Locks!Free, RunsProof!Lock!Free, Locks!Make, RunsProof!Lock!Make,
     Locks!Retry, RunsProof!Lock!Retry, Locks!Goto, RunsProof!Lock!Goto, Locks!Lease,
     RunsProof!Lock!Lease, Locks!Adopting, RunsProof!Lock!Adopting, Locks!Removing,
     RunsProof!Lock!Removing, Locks!Mk, RunsProof!Lock!Mk, Locks!Resumes, RunsProof!Lock!Resumes,
     Locks!Reconcile, RunsProof!Lock!Reconcile, Locks!Checking, RunsProof!Lock!Checking, Locks!Owns,
     RunsProof!Lock!Owns, Locks!After, RunsProof!Lock!After, Locks!Renewed, RunsProof!Lock!Renewed,
     Locks!Late, RunsProof!Lock!Late, Locks!RemoveDirectory, RunsProof!Lock!RemoveDirectory,
     Locks!Lapsed, RunsProof!Lock!Lapsed
<1>3. /\ Locks!TypeOK = RunsProof!Lock!TypeOK
      /\ Locks!RemovesOnlyOwn = RunsProof!Lock!RemovesOnlyOwn
      /\ Locks!OneHolder = RunsProof!Lock!OneHolder
  BY DEF Locks!TypeOK, RunsProof!Lock!TypeOK, Locks!Labels, RunsProof!Lock!Labels, Locks!Names,
     RunsProof!Lock!Names, Locks!Descriptors, RunsProof!Lock!Descriptors, Locks!OneHolder,
     RunsProof!Lock!OneHolder, Locks!Holds, RunsProof!Lock!Holds, Locks!RemovesOnlyOwn,
     RunsProof!Lock!RemovesOnlyOwn
<1> QED
  BY <1>1, <1>2, <1>3

LEMMA LocksBounds == ASSUME LocksBound PROVE RunsProof!LockBounds
BY DEF LocksBound, RunsProof!LockBounds, RunsProof!Lock!Names

LEMMA LocksInit == ASSUME LocksBound, SupervisorInit PROVE LocksInv
BY LocksBounds, LocksSame, RunsProof!LockInitHolds DEF SupervisorInit, LocksInv

LEMMA LocksKeeps == ASSUME LocksBound, LocksInv, [SupervisorNext]_All PROVE LocksInv'
<1>1. CASE which = "locks"
  <2>1. [RunsProof!Lock!Next]_(RunsProof!Lock!vars)
    BY <1>1, LocksSame DEF SupervisorNext, All, RunsProof!Lock!vars
  <2>2. RunsProof!LockInv'
    BY <1>1, <2>1, LocksBounds, RunsProof!LockStepKeeps DEF LocksInv
  <2> QED
    BY <2>2 DEF LocksInv
<1>2. CASE which # "locks"
  BY <1>2, OneRuns DEF LocksInv
<1> QED
  BY <1>1, <1>2

LEMMA LocksStep ==
  ASSUME LocksBound, LocksInv, [SupervisorNext]_All, which = "locks"
  PROVE  Locks!FencedStay
<1>1. [RunsProof!Lock!Next]_(RunsProof!Lock!vars)
  BY LocksSame DEF SupervisorNext, All, RunsProof!Lock!vars
<1>2. Locks!FencedStay = RunsProof!Lock!FencedStay
  BY DEF Locks!FencedStay, RunsProof!Lock!FencedStay
<1> QED
  BY <1>1, <1>2, LocksBounds, LocksSame, RunsProof!FenceStep DEF LocksInv

(* Only own lock directories are removed, but where Claude took one over by *)
(* age between two system calls on its name; no descriptor is used after    *)
(* its close, what is left is reported, and two helpers never hold the      *)
(* lease at once, in both scopes the suite looks at it                            *)
(* (claude_refresh_lock.py:1690, 1986, 3345).                               *)
THEOREM LocksStayOwned ==
  ASSUME LockBound, LocksBound
  PROVE  SupervisorSpec => []LocksAreOwned
<1> DEFINE Inv == LockInv /\ LocksInv
<1>1. SupervisorInit => Inv
  BY LockInit, LocksInit
<1>2. Inv /\ [SupervisorNext]_All => Inv'
  BY LockKeeps, LocksKeeps
<1>3. Inv => LocksAreOwned
  <2>1. ASSUME Inv, which = "lock"
       PROVE  Lock!TypeOK /\ Lock!RemovesOnlyOwn /\ Lock!NoLateUse /\ Lock!ResidueIsReported
             /\ Lock!ReleasedIsClean /\ Lock!VerifiedMeansClosed
    BY <2>1, LockBounds, LockSame, RunProof!LockInvariantTells DEF LockInv, RunProof!LockInv,
       RunProof!LockPromise
  <2>2. ASSUME Inv, which = "locks"
       PROVE  Locks!TypeOK /\ Locks!RemovesOnlyOwn /\ Locks!OneHolder
    BY <2>2, LocksBounds, LocksSame, RunsProof!LockInvariantTells, RunsProof!HoldersDiffer DEF
       LocksInv, RunsProof!LockInv, RunsProof!LockPromise
  <2> QED
    BY <2>1, <2>2 DEF LocksAreOwned
<1> QED
  BY <1>1, <1>2, <1>3, PTL DEF SupervisorSpec

-----------------------------------------------------------------------------
(* What a step may never do *)

FenceProof == INSTANCE SignalRelayProofs WITH
  at <- s1, starter <- s2, ownGroup <- s3, slip <- s4, keeper <- s5, failure <- s6,
  attempt <- s7, after <- s8, closes <- s9, slots <- s10, helper <- s11, kin <- s12,
  wrote <- s13, reported <- s14, latched <- s15, spawns <- s16, breaks <- s17,
  Callers <- {"internal-helper", "custody-helper"}, MaxSpawns <- 2, MaxBreaks <- 0,
  MaxShocks <- Idle, MaxSwaps <- Idle, Faults <- Idle, step <- Idle, error <- Idle,
  worker <- Idle, escaped <- Idle, note <- Idle, outcome <- Idle, handles <- Idle,
  reviewer <- Idle, told <- Idle, complaint <- Idle, leader <- Idle, acked <- Idle,
  inner <- Idle, outer <- Idle, unproven <- Idle, file <- Idle, ran <- Idle, shocks <- Idle,
  None <- Idle, MaxSignals <- Idle, pc <- Idle, relay <- Idle, child <- Idle,
  pending <- Idle, hits <- Idle, stray <- Idle, caller <- Idle, sent <- Idle,
  interrupt <- Idle, state <- Idle

FenceInv == which = "fence" => FenceProof!HelperInv

(* The component and the module it is proved in say the same. *)
LEMMA FenceSame ==
  /\ Fence!Init = FenceProof!Helper!Init /\ Fence!Next = FenceProof!Helper!Next
  /\ Fence!SpawnIsFenced = FenceProof!Helper!SpawnIsFenced
<1>1. Fence!Init = FenceProof!Helper!Init
  BY DEF Fence!Init, FenceProof!Helper!Init, Fence!NoReceipt, FenceProof!Helper!NoReceipt,
     Fence!NoOwner, FenceProof!Helper!NoOwner, Fence!Ends, FenceProof!Helper!Ends
<1>2. Fence!Next = FenceProof!Helper!Next
  BY ZenonT(60) DEF Fence!Next, FenceProof!Helper!Next, Fence!Parent, FenceProof!Helper!Parent,
     Fence!Interrupt, FenceProof!Helper!Interrupt, Fence!Child, FenceProof!Helper!Child,
     Fence!ReuseInteger, FenceProof!Helper!ReuseInteger, Fence!Spawn, FenceProof!Helper!Spawn,
     Fence!OpenPipe, FenceProof!Helper!OpenPipe, Fence!PublishReceipt,
     FenceProof!Helper!PublishReceipt, Fence!StartForkCall, FenceProof!Helper!StartForkCall,
     Fence!ForkCall, FenceProof!Helper!ForkCall, Fence!BindReturnedPid,
     FenceProof!Helper!BindReturnedPid, Fence!CloseWrite, FenceProof!Helper!CloseWrite,
     Fence!ReadReceipt, FenceProof!Helper!ReadReceipt, Fence!StartIdentity,
     FenceProof!Helper!StartIdentity, Fence!Transfer, FenceProof!Helper!Transfer, Fence!Settle,
     FenceProof!Helper!Settle, Fence!CloseUnusedWrite, FenceProof!Helper!CloseUnusedWrite,
     Fence!CloseUnusedRead, FenceProof!Helper!CloseUnusedRead, Fence!Identify,
     FenceProof!Helper!Identify, Fence!IdentifyRead, FenceProof!Helper!IdentifyRead,
     Fence!SettleCloseWrite, FenceProof!Helper!SettleCloseWrite, Fence!SettleCloseRead,
     FenceProof!Helper!SettleCloseRead, Fence!Kill, FenceProof!Helper!Kill, Fence!Wait,
     FenceProof!Helper!Wait, Fence!EmptyGroup, FenceProof!Helper!EmptyGroup, Fence!Reap,
     FenceProof!Helper!Reap, Fence!Prove, FenceProof!Helper!Prove, Fence!Exit,
     FenceProof!Helper!Exit, Fence!LeaveScope, FenceProof!Helper!LeaveScope, Fence!AwaitExec,
     FenceProof!Helper!AwaitExec, Fence!Use, FenceProof!Helper!Use, Fence!Term,
     FenceProof!Helper!Term, Fence!TermWait, FenceProof!Helper!TermWait, Fence!TermReap,
     FenceProof!Helper!TermReap, Fence!Return, FenceProof!Helper!Return, Fence!Interruptible,
     FenceProof!Helper!Interruptible, Fence!Raise, FenceProof!Helper!Raise, Fence!Returned,
     FenceProof!Helper!Returned, Fence!pipes, FenceProof!Helper!pipes, Fence!ChildReceipt,
     FenceProof!Helper!ChildReceipt, Fence!ChildExec, FenceProof!Helper!ChildExec, Fence!ChildForks,
     FenceProof!Helper!ChildForks, Fence!ChildEnds, FenceProof!Helper!ChildEnds, Fence!Ends,
     FenceProof!Helper!Ends, Fence!family, FenceProof!Helper!family, Fence!raised,
     FenceProof!Helper!raised, Fence!Goto, FenceProof!Helper!Goto, Fence!NoReceipt,
     FenceProof!Helper!NoReceipt, Fence!NoOwner, FenceProof!Helper!NoOwner, Fence!Fault,
     FenceProof!Helper!Fault, Fence!CloseStep, FenceProof!Helper!CloseStep, Fence!Settled,
     FenceProof!Helper!Settled, Fence!MayHaveChild, FenceProof!Helper!MayHaveChild, Fence!CloseEnd,
     FenceProof!Helper!CloseEnd, Fence!Killed, FenceProof!Helper!Killed, Fence!Alive,
     FenceProof!Helper!Alive, Fence!CarriesOwner, FenceProof!Helper!CarriesOwner, Fence!Released,
     FenceProof!Helper!Released, Fence!InForkExec, FenceProof!Helper!InForkExec, Fence!InSettle,
     FenceProof!Helper!InSettle, Fence!InAttempt, FenceProof!Helper!InAttempt, Fence!InDirect,
     FenceProof!Helper!InDirect, Fence!NextAttempt, FenceProof!Helper!NextAttempt,
     Fence!CloseTrying, FenceProof!Helper!CloseTrying
<1>3. Fence!SpawnIsFenced = FenceProof!Helper!SpawnIsFenced
  BY DEF Fence!SpawnIsFenced, FenceProof!Helper!SpawnIsFenced
<1> QED
  BY <1>1, <1>2, <1>3

LEMMA FenceBounds == FenceProof!HelperBounds
BY DEF FenceProof!HelperBounds

LEMMA FenceInit == ASSUME SupervisorInit PROVE FenceInv
BY FenceBounds, FenceSame, FenceProof!HelperInitHolds DEF SupervisorInit, FenceInv

LEMMA FenceKeeps == ASSUME FenceInv, [SupervisorNext]_All PROVE FenceInv'
<1>1. CASE which = "fence"
  <2>1. [FenceProof!Helper!Next]_(FenceProof!Helper!vars)
    BY <1>1, FenceSame DEF SupervisorNext, All, FenceProof!Helper!vars
  <2>2. FenceProof!HelperInv'
    BY <1>1, <2>1, FenceBounds, FenceProof!HelperStepKeeps DEF FenceInv
  <2> QED
    BY <2>2 DEF FenceInv
<1>2. CASE which # "fence"
  BY <1>2, OneRuns DEF FenceInv
<1> QED
  BY <1>1, <1>2

LEMMA FenceStep ==
  ASSUME FenceInv, [SupervisorNext]_All, which = "fence"
  PROVE  Fence!SpawnIsFenced
<1>1. [FenceProof!Helper!Next]_(FenceProof!Helper!vars)
  BY FenceSame DEF SupervisorNext, All, FenceProof!Helper!vars
<1> QED
  BY <1>1, FenceBounds, FenceSame, FenceProof!SpawnWaits DEF FenceInv

(* In every step of the supervisor's components: no helper is started while *)
(* an earlier one may live, a record is replaced as a whole and what was    *)
(* reported written survives, the time a credential is judged by and the   *)
(* fence of a lease stay, and so does the exit of a run (runtime.py:1052,   *)
(* secure_files.py:1582, auth_carrier.py:1133, claude_refresh_lock.py:2107, *)
(* state.py:3604).                                                         *)
THEOREM StepsStayInBounds ==
  ASSUME FileBound, CarrierBound, LocksBound, RunBound, RunsBound
  PROVE  SupervisorSpec => SupervisorSteps
<1> DEFINE Inv == FenceInv /\ FileInv /\ CarrierInv /\ LocksInv /\ RunInv /\ RunsInv
           Step == /\ which = "fence" => Fence!SpawnIsFenced
                   /\ which = "file" => File!RecordsAreKept
                   /\ which = "carrier" => Carrier!HighWaterStays
                   /\ which = "locks" => Locks!FencedStay
                   /\ which = "run" => Run!ExitStands
                   /\ which = "runs" => Runs!ExitStands
<1>1. SupervisorInit => Inv
  BY FenceInit, FileInit, CarrierInit, LocksInit, RunInit, RunsInit
<1>2. Inv /\ [SupervisorNext]_All => Inv'
  BY FenceKeeps, FileKeeps, CarrierKeeps, LocksKeeps, RunKeeps, RunsKeeps
<1>3. Inv /\ [SupervisorNext]_All => [Step]_All
  BY FenceStep, FileStep, CarrierStep, LocksStep, RunStep, RunsStep
<1> QED
  BY <1>1, <1>2, <1>3, PTL DEF SupervisorSpec, SupervisorSteps
=============================================================================
