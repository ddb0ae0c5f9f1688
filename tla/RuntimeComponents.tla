------------------------- MODULE RuntimeComponents -------------------------
(***************************************************************************)
(* The other components of the review runtime, in the same slots: the      *)
(* credentials and what hands them out, workspaces, commit scopes,         *)
(* removals, the lanes.                                                    *)
(***************************************************************************)
EXTENDS SupervisorComponents

CONSTANTS
  h1, h2,        \* handlers of refreshes, reviews that write back
  Prep, Old

(* Two roots: in the first a directory with a file in it, in the second a   *)
(* file.                                                                    *)
CustodyRoots == <<"r", "s">>
CustodyTree == [r |-> <<"d">>, d |-> <<"b">>, s |-> <<"a">>]

Stage == INSTANCE StagedCredential WITH
  source <- s1, fresh <- s2, staged <- s3, slock <- s4, writer <- s5, proof <- s6, base <- s7,
  seen <- s8, watch <- s9, ctl <- s10, drain <- s11, anchor <- s12, carrier <- s13, lock <- s14,
  owner <- s15, told <- s16, retain <- s17, logins <- s18, faults <- s19, saved <- s20,
  harm <- s21, MaxVersions <- Bound.versions, MaxLogins <- Bound.logins,
  MaxFaults <- Bound.stage

Cleanup == INSTANCE HostLockCleanup WITH
  phase <- s1, decision <- s2, open <- s3, lease <- s4, watcher <- s5, anchor <- s6,
  source <- s7, claimed <- s8, proven <- s9, pc <- s10, stable <- s11, failed <- s12,
  raised <- s13, faults <- s14, late <- s15, MaxFaults <- Bound.cleanup

(* Refreshes in a row, then one with a helper that answers nonsense and the journal of its carrier. *)
Keychain == INSTANCE KeychainRefresh WITH
  at <- s1, gen <- s2, answer <- s3, stage <- s4, srv <- s5, tx <- s6, run <- s7, disk <- s8,
  host <- s9, main <- s10, out <- s11, lock <- s12, fin <- s13, rec <- s14, root <- s15,
  acked <- s16, stuck <- s17, faults <- s18, None <- None, Handlers <- {h1, h2},
  Malformed <- {}, Old <- Old, MaxStages <- Bound.stages, MaxFaults <- Bound.keychain

Journal == INSTANCE KeychainRefresh WITH
  at <- s1, gen <- s2, answer <- s3, stage <- s4, srv <- s5, tx <- s6, run <- s7, disk <- s8,
  host <- s9, main <- s10, out <- s11, lock <- s12, fin <- s13, rec <- s14, root <- s15,
  acked <- s16, stuck <- s17, faults <- s18, None <- None, Handlers <- {h1, h2},
  Malformed <- {h2}, Old <- Old, MaxStages <- 1, MaxFaults <- Bound.journal

(* The carrier of a refreshed login, and the writing of one to the host: by one review with faults, then by two. *)
Retained == INSTANCE RecoveryCarrier WITH
  op <- s1, at <- s2, durable <- s3, disk <- s4, safe <- s5, loose <- s6, want <- s7,
  moved <- s8, rival <- s9, complete <- s10, verified <- s11, told <- s12, blind <- s13,
  owed <- s14, proven <- s15, faults <- s16, edits <- s17, MaxFaults <- Bound.retained,
  MaxEdits <- 1

Host == INSTANCE HostWriteback WITH
  pc <- s1, out <- s2, cause <- s3, snap <- s4, source <- s5, form <- s6, got <- s7,
  attempt <- s8, temp <- s9, mask <- s10, pending <- s11, bound <- s12, late <- s13,
  keychain <- s14, file <- s15, generation <- s16, lockKeychain <- s17, lockFile <- s18,
  refresh <- s19, faults <- s20, logins <- s21, Writers <- {h1}, MaxFaults <- Bound.host,
  MaxLogins <- 1

Hosts == INSTANCE HostWriteback WITH
  pc <- s1, out <- s2, cause <- s3, snap <- s4, source <- s5, form <- s6, got <- s7,
  attempt <- s8, temp <- s9, mask <- s10, pending <- s11, bound <- s12, late <- s13,
  keychain <- s14, file <- s15, generation <- s16, lockKeychain <- s17, lockFile <- s18,
  refresh <- s19, faults <- s20, logins <- s21, Writers <- {h1, h2}, MaxFaults <- 1,
  MaxLogins <- 0

(* The broker of a login, with faults, with a signal, then with a second client from outside. *)
Broker == INSTANCE KeychainBroker WITH
  at <- s1, who <- s2, err <- s3, snap <- s4, live <- s5, loop <- s6, request <- s7,
  closed <- s8, gate <- s9, cancelled <- s10, admitted <- s11, exposed <- s12, leaving <- s13,
  srv <- s14, errors <- s15, h <- s16, cap <- s17, copy <- s18, got <- s19, bound <- s20,
  mask <- s21, stuck <- s22, pending <- s23, told <- s24, quiet <- s25, latched <- s26,
  out <- s27, faults <- s28, signals <- s29, Clients <- {"a"}, Strangers <- {},
  MaxFaults <- Bound.broker, MaxSignals <- 0

Struck == INSTANCE KeychainBroker WITH
  at <- s1, who <- s2, err <- s3, snap <- s4, live <- s5, loop <- s6, request <- s7,
  closed <- s8, gate <- s9, cancelled <- s10, admitted <- s11, exposed <- s12, leaving <- s13,
  srv <- s14, errors <- s15, h <- s16, cap <- s17, copy <- s18, got <- s19, bound <- s20,
  mask <- s21, stuck <- s22, pending <- s23, told <- s24, quiet <- s25, latched <- s26,
  out <- s27, faults <- s28, signals <- s29, Clients <- {"a"}, Strangers <- {}, MaxFaults <- 0,
  MaxSignals <- 1

Brokers == INSTANCE KeychainBroker WITH
  at <- s1, who <- s2, err <- s3, snap <- s4, live <- s5, loop <- s6, request <- s7,
  closed <- s8, gate <- s9, cancelled <- s10, admitted <- s11, exposed <- s12, leaving <- s13,
  srv <- s14, errors <- s15, h <- s16, cap <- s17, copy <- s18, got <- s19, bound <- s20,
  mask <- s21, stuck <- s22, pending <- s23, told <- s24, quiet <- s25, latched <- s26,
  out <- s27, faults <- s28, signals <- s29, Clients <- {"a", "b"}, Strangers <- {"b"},
  MaxFaults <- 0, MaxSignals <- 0

Workspace == INSTANCE WorkspaceRecovery WITH
  pc <- s1, stage <- s2, writing <- s3, mem <- s4, failed <- s5, child <- s6, ctl <- s7,
  receipt <- s8, root <- s9, body <- s10, marker <- s11, known <- s12, lock <- s13,
  target <- s14, kills <- s15, faults <- s16, calls <- s17, Prep <- Prep,
  Validators <- Bound.validators, MaxKills <- Bound.deaths, MaxFaults <- Bound.recovery,
  MaxCalls <- Bound.calls

(* A whole history, then a smaller one that loses objects. *)
Scope == INSTANCE CommitScope WITH
  parents <- s1, present <- s2, trees <- s3, base <- s4, verdict <- s5, scope <- s6,
  store <- s7, damage <- s8, valid <- s9, N <- Bound.commits, MaxDamage <- 0

Import == INSTANCE CommitScope WITH
  parents <- s1, present <- s2, trees <- s3, base <- s4, verdict <- s5, scope <- s6,
  store <- s7, damage <- s8, valid <- s9, N <- 4, MaxDamage <- Bound.damage

Custody == INSTANCE CleanupCustody WITH
  mode <- s1, todo <- s2, home <- s3, aside <- s4, mark <- s5, extra <- s6, recorded <- s7,
  gone <- s8, lost <- s9, dirty <- s10, fd <- s11, open <- s12, reclosed <- s13,
  attached <- s14, manifest <- s15, outcome <- s16, evid <- s17, cur <- s18, blind <- s19,
  err <- s20, hit <- s21, faults <- s22, moves <- s23, out <- s24, Roots <- CustodyRoots,
  Tree <- CustodyTree, MaxFaults <- Bound.custody, MaxMoves <- Bound.moves

Process == INSTANCE SupervisedProcess WITH
  at <- s1, worker <- s2, cancelled <- s3, requested <- s4, claimed <- s5, cleaned <- s6,
  handle <- s7, leader <- s8, kin <- s9, ran <- s10, gate <- s11, bound <- s12, io <- s13,
  found <- s14, signal <- s15, sent <- s16, primary <- s17, failures <- s18,
  inconclusive <- s19, quiet <- s20, marked <- s21, outcome <- s22, faults <- s23,
  MaxFaults <- Bound.process

Verifier == INSTANCE ObjectVerifier WITH
  worker <- s1, requested <- s2, settling <- s3, refused <- s4, proof <- s5, child <- s6,
  faults <- s7, at <- s8, store <- s9, asked <- s10, given <- s11, verified <- s12,
  status <- s13, signal <- s14, known <- s15, active <- s16, published <- s17, control <- s18,
  primary <- s19, quiet <- s20, leaked <- s21, receipt <- s22, second <- s23, outcome <- s24,
  MaxFaults <- Bound.verifier, Objects <- Bound.objects

Lane == INSTANCE LaneRun WITH
  at <- s1, made <- s2, known <- s3, removed <- s4, lease <- s5, parent <- s6, started <- s7,
  call <- s8, alive <- s9, quiet <- s10, masked <- s11, signal <- s12, failure <- s13,
  control <- s14, dropped <- s15, named <- s16, capture <- s17, emits <- s18, receipt <- s19,
  committed <- s20, incomplete <- s21, torn <- s22, outcome <- s23, faults <- s24,
  MaxFaults <- Bound.lane

(* The answers of a workspace command, and the receipts for short names: one with faults and signals, then two names. *)
Answer == INSTANCE LanePublication WITH
  at <- s1, kind <- s2, handlers <- s3, mask <- s4, prior <- s5, owner <- s6, pending <- s7,
  saved <- s8, early <- s9, primary <- s10, where <- s11, named <- s12, out <- s13, err <- s14,
  committed <- s15, exit <- s16, torn <- s17, faults <- s18, signals <- s19,
  MaxFaults <- Bound.answer, MaxSignals <- 2

Legacy == INSTANCE LegacyPrefix WITH
  at <- s1, k <- s2, truth <- s3, complete <- s4, bad <- s5, taint <- s6, place <- s7,
  known <- s8, made <- s9, answer <- s10, handlers <- s11, mask <- s12, pending <- s13,
  early <- s14, failure <- s15, named <- s16, out <- s17, committed <- s18, exit <- s19,
  torn <- s20, faults <- s21, changes <- s22, signals <- s23, Count <- 1, MaxFaults <- 1,
  MaxChanges <- 1, MaxSignals <- Bound.legacy

Names == INSTANCE LegacyPrefix WITH
  at <- s1, k <- s2, truth <- s3, complete <- s4, bad <- s5, taint <- s6, place <- s7,
  known <- s8, made <- s9, answer <- s10, handlers <- s11, mask <- s12, pending <- s13,
  early <- s14, failure <- s15, named <- s16, out <- s17, committed <- s18, exit <- s19,
  torn <- s20, faults <- s21, changes <- s22, signals <- s23, Count <- 2, MaxFaults <- 0,
  MaxChanges <- 1, MaxSignals <- 0

Material == INSTANCE WorktreeMaterializer WITH
  at <- s1, plan <- s2, bad <- s3, taint <- s4, place <- s5, known <- s6, started <- s7,
  pack <- s8, signal <- s9, masked <- s10, failure <- s11, named <- s12, receipt <- s13,
  verdict <- s14, late <- s15, changes <- s16, faults <- s17, MaxChanges <- Bound.changes,
  MaxFaults <- 1

-----------------------------------------------------------------------------
RuntimeInit ==
  \/ which = "stage" /\ Stage!Init /\ Off22
  \/ which = "cleanup" /\ Cleanup!Init /\ Off16
  \/ which = "keychain" /\ Keychain!Init /\ Off19
  \/ which = "journal" /\ Journal!Init /\ Off19
  \/ which = "retained" /\ Retained!Init /\ Off18
  \/ which = "host" /\ Host!Init /\ Off22
  \/ which = "hosts" /\ Hosts!Init /\ Off22
  \/ which = "broker" /\ Broker!Init
  \/ which = "struck" /\ Struck!Init
  \/ which = "brokers" /\ Brokers!Init
  \/ which = "workspace" /\ Workspace!Init /\ Off18
  \/ which = "scope" /\ Scope!Init /\ Off10
  \/ which = "import" /\ Import!Init /\ Off10
  \/ which = "custody" /\ Custody!Init /\ Off25
  \/ which = "process" /\ Process!Init /\ Off24
  \/ which = "verifier" /\ Verifier!Init /\ Off25
  \/ which = "lane" /\ Lane!Init /\ Off25
  \/ which = "answer" /\ Answer!Init /\ Off20
  \/ which = "legacy" /\ Legacy!Init /\ Off24
  \/ which = "names" /\ Names!Init /\ Off24
  \/ which = "material" /\ Material!Init /\ Off18

RuntimeNext ==
  \/ which = "stage" /\ Stage!Next /\ UNCHANGED Kept22
  \/ which = "cleanup" /\ Cleanup!Next /\ UNCHANGED Kept16
  \/ which = "keychain" /\ Keychain!Next /\ UNCHANGED Kept19
  \/ which = "journal" /\ Journal!Next /\ UNCHANGED Kept19
  \/ which = "retained" /\ Retained!Next /\ UNCHANGED Kept18
  \/ which = "host" /\ Host!Next /\ UNCHANGED Kept22
  \/ which = "hosts" /\ Hosts!Next /\ UNCHANGED Kept22
  \/ which = "broker" /\ Broker!Next /\ UNCHANGED which
  \/ which = "struck" /\ Struck!Next /\ UNCHANGED which
  \/ which = "brokers" /\ Brokers!Next /\ UNCHANGED which
  \/ which = "workspace" /\ Workspace!Next /\ UNCHANGED Kept18
  \/ which = "scope" /\ Scope!Next /\ UNCHANGED Kept10
  \/ which = "import" /\ Import!Next /\ UNCHANGED Kept10
  \/ which = "custody" /\ Custody!Next /\ UNCHANGED Kept25
  \/ which = "process" /\ Process!Next /\ UNCHANGED Kept24
  \/ which = "verifier" /\ Verifier!Next /\ UNCHANGED Kept25
  \/ which = "lane" /\ Lane!Next /\ UNCHANGED Kept25
  \/ which = "answer" /\ Answer!Next /\ UNCHANGED Kept20
  \/ which = "legacy" /\ Legacy!Next /\ UNCHANGED Kept24
  \/ which = "names" /\ Names!Next /\ UNCHANGED Kept24
  \/ which = "material" /\ Material!Next /\ UNCHANGED Kept18

(* Fairness: what each component's own specification assumes. *)
RuntimeFairness ==
  /\ WF_(Stage!vars)(which = "stage" /\ Stage!Owner)
  /\ WF_(Stage!vars)(which = "stage" /\ Stage!Watcher)
  /\ WF_(Cleanup!vars)(which = "cleanup" /\ Cleanup!Owner)
  /\ WF_(Cleanup!vars)(which = "cleanup" /\ Cleanup!Worker)
  /\ WF_(Keychain!vars)(which = "keychain" /\ Keychain!Main)
  /\ WF_(Broker!vars)(which = "broker" /\ Broker!Context)
  /\ \A w \in {h1, h2} : WF_(Hosts!vars)(which = "hosts" /\ Hosts!Write(w))
  /\ \A p \in Workspace!Procs : WF_(Workspace!vars)(which = "workspace" /\ Workspace!Work(p))
  /\ \A p \in Workspace!Procs : WF_(Workspace!vars)(which = "workspace" /\ Workspace!ChildExit(p))
  /\ \A p \in Workspace!Procs : WF_(Workspace!vars)(which = "workspace" /\ Workspace!CallRecovery(p))
  /\ WF_(Workspace!vars)(which = "workspace" /\ Workspace!Preparing)
  /\ \A a \in {Prep, Workspace!Cleaner} : WF_(Workspace!vars)(which = "workspace" /\ Workspace!Cleaning(a))
  /\ WF_(Workspace!vars)(which = "workspace" /\ (Workspace!Recover \/ Workspace!ClearEntry \/ Workspace!RecoverEnds))
  /\ WF_(Custody!vars)(which = "custody" /\ Custody!Step)
  /\ WF_(Process!vars)(which = "process" /\ Process!Main)
  /\ WF_(Process!vars)(which = "process" /\ Process!Worker)
  /\ WF_(Process!vars)(which = "process" /\ Process!Drains)
  /\ WF_(Process!vars)(which = "process" /\ Process!GivesUp)
  /\ WF_(Verifier!vars)(which = "verifier" /\ Verifier!Call)
  /\ WF_(Lane!vars)(which = "lane" /\ Lane!Lane)
  /\ WF_(Answer!vars)(which = "answer" /\ Answer!Command)
  /\ WF_(Legacy!vars)(which = "legacy" /\ Legacy!Call)

-----------------------------------------------------------------------------
(* Properties *)

(* A refreshed credential is in the login, in its stage or in a carrier     *)
(* that the error names; the host's lock is released only when nothing      *)
(* writes any more, by one cleaner; what hands a login out is quiet only    *)
(* when its threads are gone. claude_linux.py:6455, 4594,                   *)
(* providers.py:12961, 9769                                                 *)
CredentialSurvives ==
  /\ which = "stage" =>
       /\ Stage!TypeOK
       /\ Stage!RefreshSurvives
       /\ Stage!OnlyBaselineIsReplaced
       /\ Stage!AnchorOutlivesUse
       /\ Stage!ReleasedIsQuiet
       /\ Stage!KeptIsTold
  /\ which = "cleanup" =>
       /\ Cleanup!TypeOK
       /\ Cleanup!OneCleaner
       /\ Cleanup!ProvenIsSettled
       /\ Cleanup!ReleaseIsDecided
       /\ Cleanup!OwnerIsTold
       /\ Cleanup!WatcherKeepsDirectory
  /\ which = "keychain" =>
       /\ Keychain!TypeOK
       /\ Keychain!StagedSurvives
       /\ Keychain!OutcomeNames
       /\ Keychain!ClaimStaysTrue
       /\ Keychain!NothingMissed
       /\ Keychain!FreeMeansSettled
       /\ Keychain!LateIsCleared
  /\ which = "journal" =>
       /\ Journal!StagedSurvives
       /\ Journal!OutcomeNames
       /\ Journal!ClaimStaysTrue
       /\ Journal!FreeMeansSettled
  /\ which = "retained" =>
       /\ Retained!TypeOK
       /\ Retained!ProofIsTrue
       /\ Retained!NothingUnnamed
       /\ Retained!CleanupIsReal
       /\ Retained!CrashKeepsCopy
       /\ Retained!UpdateSurvives
  /\ which = "broker" =>
       /\ Broker!TypeOK
       /\ Broker!NotStartedIsTrue
       /\ Broker!QuietMeansGone
       /\ Broker!ErrorsAreTold
  /\ which = "struck" =>
       /\ Struck!OnlyAdmittedServe
       /\ Struck!QuietMeansGone
       /\ Struck!ErrorsAreTold
  /\ which = "brokers" =>
       /\ Brokers!OneReader
       /\ Brokers!QuietMeansGone
  /\ which = "host" =>
       /\ Host!TypeOK
       /\ Host!FileGoesFirst
       /\ Host!NothingHalfRefused
       /\ Host!LocksReturned
       /\ Host!LeftoverIsSaid
  /\ which = "hosts" =>
       /\ Hosts!FileGoesFirst
       /\ Hosts!NothingHalfRefused
       /\ Hosts!LocksReturned

(* The recovery command a failed preparation prints is still true when it   *)
(* is used, what a preparation leaves is told, and objects are called       *)
(* verified when every one was. review_workspace.py:4944, 8071              *)
WorkspaceIsKept ==
  /\ which = "workspace" =>
       /\ Workspace!TypeOK
       /\ Workspace!ReceiptIsHonoured
       /\ Workspace!MarkerOutlivesBody
       /\ Workspace!LeftoversAreTold
  /\ which = "verifier" =>
       /\ Verifier!TypeOK
       /\ Verifier!VerifiedIsWhole
       /\ Verifier!ControlOutlivesProcess
       /\ Verifier!SurvivorIsReported
       /\ Verifier!ReceiptIsTrue

(* The frozen range is the range of the whole history or a refusal, and the *)
(* import answers for itself. review_workspace.py:3387, 3447                *)
ScopeIsTrue ==
  /\ which = "scope" =>
       /\ Scope!TypeOK
       /\ Scope!RangeIsTrue
       /\ Scope!AnswerIsTrue
  /\ which = "import" =>
       /\ Import!TypeOK
       /\ Import!ImportIsSelfContained
       /\ Import!OwnWorkIsValid
       /\ Import!ValidIsWhole

(* Others' files survive a removal, complete means gone, every descriptor   *)
(* has one owner and is closed once, and what is set aside is named.        *)
(* recovery_cleanup.py:2282, 2047                                           *)
RemovalIsExact ==
  /\ which = "custody" =>
       /\ Custody!TypeOK
       /\ Custody!ForeignFilesSurvive
       /\ Custody!CompleteMeansGone
       /\ Custody!DescriptorsAccounted
       /\ Custody!ClosedOnce
       /\ Custody!QuarantineIsNamed
       /\ Custody!InterruptSurvives

(* A lane publishes a clean worktree or nothing, both outputs of a run or   *)
(* none, names what it leaves and lets a signal prevail over a receipt; its *)
(* command runs when its launch is recorded, and is called quiet when       *)
(* nothing of its group is left. named_lane.py:6846, 11204, common.py:3289  *)
LaneIsHonest ==
  /\ which = "process" =>
       /\ Process!TypeOK
       /\ Process!QuietMeansGone
       /\ Process!LeftIsMarked
       /\ Process!CommandIsBound
       /\ Process!SignalIsTold
  /\ which = "lane" =>
       /\ Lane!TypeOK
       /\ Lane!LeftIsTold
       /\ Lane!BothOrNone
       /\ Lane!CaptureIsCleared
       /\ Lane!SignalUndoes
  /\ which = "answer" =>
       /\ Answer!TypeOK
       /\ Answer!LeftIsTold
       /\ Answer!NamesAreTrue
       /\ Answer!ReceiptStands
       /\ Answer!SignalUndoes
       /\ Answer!AnswerIsFinal
  /\ which = "legacy" =>
       /\ Legacy!TypeOK
       /\ Legacy!ReceiptIsTrue
       /\ Legacy!InconclusiveIsTrue
       /\ Legacy!LeftIsNamed
       /\ Legacy!SignalUndoes
  /\ which = "names" =>
       /\ Names!ReceiptIsTrue
       /\ Names!InconclusiveIsTrue
  /\ which = "material" =>
       /\ Material!TypeOK
       /\ Material!ReceiptIsClean
       /\ Material!ValidationIsClean
       /\ Material!LeftIsNamed
       /\ Material!PackIsCleared
       /\ Material!SignalPrevails

(* The watcher writes nothing after the stop, a decision stands, a login is *)
(* replaced only by something newer, and what belongs to Git or to others   *)
(* stays. claude_linux.py:4901, providers.py:9257,                          *)
(* review_workspace.py:12247, named_lane.py:2663                            *)
RuntimeSteps ==
  [][ /\ which = "stage" => Stage!StopIsKept
      /\ which = "cleanup" => Cleanup!NothingIsTakenBack
      /\ which = "keychain" => Keychain!WriteIsNewest
      /\ which = "retained" => Retained!ReturnIsWhole
      /\ which = "retained" => Retained!RemovedIsExpected
      /\ which = "host" => Host!NewerSurvives
      /\ which = "host" => Host!ProvenIsWhole
      /\ which = "hosts" => Hosts!NewerSurvives
      /\ which = "hosts" => Hosts!ProvenIsWhole
      /\ which = "workspace" => Workspace!SparesGit
      /\ which = "process" => Process!KeepsPromise
      /\ which = "verifier" => Verifier!KeepsPromise
      /\ which = "lane" => Lane!RemovesOwnQuietly
      /\ which = "material" => Material!OthersStay
      /\ which = "legacy" => Legacy!OthersStay ]_All

(* The cleanups of the credentials end and close their directory, the       *)
(* broker of a login ends, the recovery command clears its workspace, and a *)
(* removal, a lane and its commands end. claude_linux.py:5311,              *)
(* providers.py:10174, named_lane.py:11204                                  *)
RuntimeBegun ==
  \/ which = "stage" /\ Stage!Begun
  \/ which = "cleanup" /\ Cleanup!Begun
  \/ which = "keychain" /\ Keychain!Begun
  \/ which = "broker" /\ Broker!Begun
  \/ which = "hosts" /\ Hosts!Begun
  \/ which = "workspace" /\ \E p \in Workspace!Procs : Workspace!Promised(p)
  \/ which = "custody"
  \/ which = "process"
  \/ which = "verifier" /\ Verifier!Begun
  \/ which = "lane" /\ Lane!Begun
  \/ which = "answer" /\ Answer!Begun
  \/ which = "legacy" /\ Legacy!Begun
RuntimeEnded ==
  \/ which = "stage" /\ Stage!Ended /\ Stage!AnchorClosed
  \/ which = "cleanup" /\ Cleanup!Ended
  \/ which = "keychain" /\ Keychain!Ended
  \/ which = "broker" /\ Broker!Ended
  \/ which = "hosts" /\ Hosts!Ended
  \/ which = "workspace" /\ Workspace!Cleared
  \/ which = "custody" /\ Custody!Ended
  \/ which = "process" /\ Process!Settled
  \/ which = "verifier" /\ Verifier!Ended
  \/ which = "lane" /\ Lane!Ended
  \/ which = "answer" /\ Answer!Ended
  \/ which = "legacy" /\ Legacy!Ended
RuntimeEnds == RuntimeBegun ~> RuntimeEnded
=============================================================================
