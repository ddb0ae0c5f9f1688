# A verification project for the review supervisor and the review runtime

The repository ships skills (prose) and two programs the skills call. One,
`independent_codex_pr_review/review_supervisor`, runs a code review of a pull
request by an untrusted-output child process in a private checkout, and keeps a
durable, digest-chained record of every attempt. The other, `review_runtime`,
runs named review lanes through other providers: it builds private workspaces,
lends a login to a sandboxed client, supervises commands, and cleans up after
itself. This project models both: the record, the ledger and the processes of
the first; the locks, credentials, workspaces, runs, removals and lanes of the
second.

Paths are relative to `skills/review-orchestration-playbook/scripts/`, and to
`independent_codex_pr_review/review_supervisor/` or `review_runtime/` within it;
each file name occurs in one of the two only.

## 1. The system

### The supervisor package

| component | state it keeps | operations | interacts with |
|---|---|---|---|
| outer process (`supervisor.py`: `run`) | the retention lease, a cached record and its digest | prepare, admit, fork the supervisor, hand over, wait, abort, authorize | the supervisor (socket, inherited descriptors), helpers |
| attempt supervisor (`runtime.py`: `attempt_supervisor_main`) | the transferred lease, cached record | accept hand-off, check out, refresh authorization, launch the reviewer, publish, record failures, clean up, settle | outer, worker, reviewer, helpers |
| checkout worker (`runtime.py`: `checkout_worker_main`; `gitraw.py`) | the worktree and its registration | two commits, `git worktree add`, index, validation | supervisor (milestones on a pipe) |
| phase helpers (`runtime.py`: `phase_helper_main`, `commit_via_helper`) | none: reads the record, checks digest and allowed update, commits | one commit | its requester, who may die or time out; keeps the lease meanwhile |
| operator commands (`supervisor.py`: `recover`, `final_result`, `release`, `cleanup`) | none but the record | close a dead attempt, show a result, release evidence, reclaim it | the record and the directory |
| retention ledger (`ledger.py`) | the root directory, one directory per attempt, one lock | reconcile, admit, create, restore crash residue | every command |
| attempt record (`secureio.py`, `settlement_state.py`) | `state.json`, its candidate and predecessor | write, rename, exchange, sync | everything above |
| child processes (`process.py`, `no_child_profile.py`, `signal_relay.py`) | children, receipts, descriptors, pending signals | fork and exec under an owner, terminate, reap, forward signals | outer, supervisor, gate |
| gate and session (`direct_gate.py`, `appserver_protocol.py`) | the app-server process, the automaton of one session | launch, drain, answer, close, reap | the app-server |
| account (`auth_carrier.py`, `auth_refresh.py`) | the credential loaded, clocks, the refresh process | load, revalidate, refresh | the account's own client, who rewrites the file |
| stages of a review (`review_execution.py`, `codex_executable.py`) | the runtime directory, the copy of the executable, who has custody | stage, preflight, refresh, review, finalize, destroy | gate, account |
| removal (`recovery_cleanup.py`) | manifest, open descriptors, quarantine names | build the manifest, quarantine, delete, retire | other processes in the same directories |
| log sinks, legacy retention, attestation of path components | per run | archive, convert, verify | not modelled, section 7 |

### The review runtime

| component | state it keeps | operations | interacts with |
|---|---|---|---|
| refresh lock (`claude_refresh_lock.py`) | two lock directories, a heartbeat thread | acquire, renew, release, abandon | other helpers and Claude, who may take a stale lock over |
| staged credential (`claude_linux.py`) | the carrier, a watcher thread, the host lock | stage, watch, write back, drain, release | the sandboxed client, a new login |
| macOS login (`providers.py`) | broker servers, handlers, recovery carrier, two update locks | lend the login, stage a refresh, recover, write back | the security client, other reviews, other logins |
| runs (`state.py`, `cleanup_worker.py`, `workspace.py`, `cli.py`) | a container with marker, record, exit code, receipts; two locks | start, run, status, wait, cleanup | runner and cleaner processes that inherit locks |
| private workspaces (`review_workspace.py`) | the workspace, recovery controls beside it | prepare, validate, clean, recover, verify objects, freeze the range | Git children that outlive their parents |
| supervised commands (`common.py`) | a worker thread, a process group, drains | launch, watch, terminate, settle, verify quiet | descendants, signals |
| named lanes (`named_lane.py`) | worktree, session directory, copy of the executable, outputs | materialize, validate, run, publish, answer | signals, other processes of the account |
| terminal hand-off of signals, sandbox profiles, other providers, wrapper scripts | | | not modelled, section 7 |

What is hard here:

* *Several processes write one file.* Each write is a read, a digest check and a
  rename by a helper process whose requester may be gone by the time it lands.
  What keeps two writers apart is a lease that is an inherited file descriptor,
  and a hand-off of seven messages during which two processes hold it.
* *Every step may be the last.* Processes are killed, machines restart, waits
  time out, and the only evidence left is the record and the directory.
* *An exception may come from anywhere.* Forwarded signals become exceptions, so
  the code masks them around every step whose effect must not be lost and looks
  for them again at checkpoints; between the two lie windows.
* *Threads that do not stop.* Heartbeats, watchers, handlers and spawn workers
  may hang in a system call. Nobody waits for them for ever, and nobody may pull
  a descriptor, a lock or a process away from under them.
* *Others act on the same names.* What was checked may be replaced before it is
  used; a removal must not touch what it did not make.
* *What is left must be said.* Every failure path either removes a thing or names
  it in the error, receipt or control; a thing that is neither is lost.

Per component, what makes it correct: the record is written by one process at a
time, never over somebody else's commit, and never says more than happened;
evidence stays within its cap and is deleted only after a finished release; a
child between fork and reap is known to somebody; a refreshed credential is never
lost and never overwrites a newer one; a lock is released only when nothing
writes under it; whatever may still be in use is kept; what is kept is named; a
signal is neither lost nor delivered twice; every call ends. `PROJECT.json` lists
each hazard at its line with the property that would notice it going wrong.

## 2. Modules

### The attempt and the ledger

| module | what it is |
|---|---|
| `AttemptRecord` | the record's fields, one update and one guard per kind of commit (`Update`, `Allowed`), and `LedgerView`, what the ledger reads of it. No variables: lemmas about one commit need no process. |
| `AttemptLifecycle` | one attempt: outer process, supervisor, worker, reviewer, helpers, operator; crashes of each, timeouts, restarts. |
| `ReviewAttempt` | the abstract specification of an attempt, four variables, nine actions. `AttemptLifecycle` implements it (`KeepsItsPromise`). |
| `RetentionLedger` | all attempts in the root and every command, each a sequence of durable steps that may stop between any two. |
| `AttemptLifecycleProofs`, `RetentionLedgerProofs` | the theorems of section 5; those of components are in `RecordFileProofs`, `SignalRelayProofs`, `RunCustodyProofs`, `AuthProofs`, `SupervisorProofs` and `RuntimeProofs`. |
| `MCRetentionLedger` | the ledger's instance for TLC, with symmetry and a specification without restarts; `AttemptLifecycle` needs none. |

*AttemptLifecycle.* `pc[p]` is the place in `run`, `attempt_supervisor_main` or
`recover` that process p is at. Where the label is the name of a commit, p is
inside `commit_via_helper`: `Request` spawns the helper, `HelperCheck` is its
read, digest comparison and guard, `HelperCommit` the rename, `Reply` the answer,
and p may die (`Crash`) or fail (`Fail`) between any two. `fresh` says whether p's
cached digest is that of the file; a helper whose requester is gone is
`Orphaned`, and keeps the lease until `OrphanExit`. The digest chain is
abstracted to the kind of the last commit. `worker` walks through the checkout;
`WorkerAdd` is the instant from which a tree or a registration exists. `leader`
is the last reviewer-stage child; its launch, the checkpoint that follows and
the record of the launch are three steps because the code can stop at each.
`toSup` and `toOuter` are the messages in flight. `Reboot` kills every process
and changes the boot identifier `recover` compares.

*RetentionLedger.* Every command takes the root's lock, so one `job` runs at a
time; a job has a command, the step it is at, the attempt it works on, and where
to return to after a nested reclaim. A step is one durable effect: a commit, an
unlink, a rename. A read and the decisions taken on it belong to the step they
precede, which is exact because nobody else changes the root meanwhile. `dir` is
what stands under a name (nothing, an empty directory, a directory with only a
temporary, a live attempt, a directory renamed aside), `art` what lies beside
`state.json`, `st` its fields. `Crash` may leave one temporary of an unfinished
write. Sizes are units: a file one unit, an envelope `Envelope`, the cap `Cap`,
with one envelope fitting and two not, as 257 MiB in 512 MiB.

`RunEnds` is a whole attempt in one step: it may leave any view in
`AttemptRecord!LedgerViews` that is not yet authorized. The two models are tied
together there: `ViewIsKnown` of AttemptLifecycle says that whenever the lease is
free the record shows one of these views. The final authorization that follows is
its own command (`AuthorizeStarts`, `AuthorizeCommits`), for `run` takes the lock
a second time for it.

Abstracted in the ledger: any order of candidates instead of the oldest release
first; the host's free space (admission may always be under pressure); the
physical charges per file system, which follow the logical ones; an attempt that
never settled keeps one unit of files and its verdict, which nothing reads again,
is dropped; preflight, which is a run that stops before it creates.

### The components

Each has a module with its own `Init`, `Next`, fairness and properties. `pc` is
where a thread of the code is; a guard is the code's condition; a call that may
fail is an action with a disjunct for each outcome that the code tells apart.

| module | code | state and actions in terms of the code | its main properties |
|---|---|---|---|
| `ProcessOwnership` | `process.py` | the parent's place from `fork_exec` to `ForkExecResultOwner.__exit__`, the child's receipt, descriptors with their owner; an exception between any two steps | `NoSilentChild`, `ProvenMeansGone`, `SpawnIsFenced`, `NeverClosesForeign` |
| `SignalRelay` | `signal_relay.py`, `direct_gate.py` | handlers, pending and forwarded signals, the bound PID; a handler runs between any two steps | `ChildIsTold`, `CallerIsTold`, `NoStraySignal` |
| `NoChildLaunch` | `no_child_profile.py`, `codex_executable.py` | the error pipe made by a worker, fork, the child's receipt in the pipe, two owners of the result | `NoSilentChild`, `ResultRuns`, `NoLeakedPipe` |
| `AppServerSession` | `appserver_protocol.py`, drain loop of `direct_gate.py` | the automaton's fields, requests outstanding, items and deltas of the turn; the server sends any record | `PromptIsEarned`, `OneOutstanding`, `ResultIsTheStream`, `RunsOnAgreedTurn` |
| `AuthCarrier` | `auth_carrier.py` | the file as two blocks with identity, three clocks; load, revalidate, use | `EvidenceWasWhole`, `SentWasHeldAfterLaunch`, `SentOutlivesReview`, `HighWaterStays` |
| `AuthRefresh` | `auth_refresh.py` | the refresh process, its protocol and deadlines, relay bound or not | `RefreshedIsProved`, `ClosedLeavesNothing`, `SignalWins` |
| `AuthenticatedReview` | `review_execution.py` | stages, custody phases, runtime directory; calls as outcomes | `KnownKeepsSnapshot`, `AliveIsUnproven`, `NamedIsKept` |
| `SnapshotStaging` | `codex_executable.py` 2740 ff. | directory, copy, quarantine name, evidence, descriptors | `EvidenceIsTrue`, `CleanIsDurable` |
| `PreflightCommand` | `codex_executable.py`, `process.py` | a command within a directory within an error | `DirectoryOutlivesProcess`, `LeftIsHeld` |
| `RecordFile`, abstract `RecordStore` | `secureio.py`, `settlement_state.py` | volatile and durable names, candidate, exchange, predecessor | `SettledIsExact`; implements `RecordStore` (`RecordsAreKept`) |
| `CleanupCustody` | `recovery_cleanup.py` | manifest, descriptors, quarantine names; others act on public names | `ForeignFilesSurvive`, `CompleteMeansGone`, `QuarantineIsNamed`, `InterruptSurvives` |
| `RefreshLock` | `claude_refresh_lock.py` | lock directories by inode, main thread and heartbeat of each helper, Claude | `OneHolder`, `RemovesOnlyOwn`, `NoLateUse`, `FencedStay` |
| `StagedCredential` | `claude_linux.py` | login and copy by version, owner, watcher, drains | `RefreshSurvives`, `OnlyBaselineIsReplaced`, `ReleasedIsQuiet` |
| `HostLockCleanup` | `claude_linux.py` 4594 ff. | phases of the coordinator under its state lock | `OneCleaner`, `ProvenIsSettled`, `NothingIsTakenBack` |
| `KeychainRefresh` | `providers.py` | handlers, stages, the recovery thread, carriers by the refreshes they hold | `StagedSurvives`, `OutcomeNames`, `LateIsCleared`, `WriteIsNewest` |
| `KeychainBroker` | `providers.py` 9769-10776 | servers, their threads and connections, the context that starts and stops them | `OneReader`, `NotStartedIsTrue`, `QuietMeansGone`, `ErrorsAreTold` |
| `RecoveryCarrier` | `providers.py` | the carrier's directory and file, volatile and synced, two names | `ProofIsTrue`, `NothingUnnamed`, `CrashKeepsCopy`, `UpdateSurvives` |
| `HostWriteback` | `providers.py` | Keychain and file, two update locks, the host lock, what was read before | `FileGoesFirst`, `NothingHalfRefused`, `NewerSurvives`, `ProvenIsWhole` |
| `RunCustody` | `state.py`, `cleanup_worker.py`, `workspace.py`, `cli.py` | container, marker, receipts, lock descriptions and who shares them | `ReviewUndisturbed`, `OneCleaner`, `SuccessIsRemoval`, `ExitStands` |
| `WorkspaceRecovery` | `review_workspace.py` | workspace body and marker, controls (armed, bound, sealed, torn), tokens | `ReceiptIsHonoured`, `MarkerOutlivesBody`, `SparesGit` |
| `OwnedProcess`, `ObjectVerifier` | `common.py`, `review_workspace.py` 8071 ff. | the worker that owns a child; the verifying call around it | `VerifiedIsWhole`, `ControlOutlivesProcess`, `SurvivorIsReported` |
| `CommitScope` | `review_workspace.py` 3387 ff. | true history, present commits, the answer, the import | `RangeIsTrue`, `AnswerIsTrue`, `ImportIsSelfContained` |
| `SupervisedProcess` | `common.py` | worker at the gate, main thread, drains, group and descendants | `QuietMeansGone`, `LeftIsMarked`, `SignalIsTold` |
| `LaneRun` | `named_lane.py` | session directory, copy, command, two outputs, receipt | `BothOrNone`, `LeftIsTold`, `SignalUndoes` |
| `LanePublication` | `named_lane.py` 8160 ff. | signal context, mask, workspace as an outcome, the answer | `NamesAreTrue`, `ReceiptStands`, `AnswerIsFinal` |
| `LegacyPrefix` | `named_lane.py` | view and session directories, names asked for, receipts | `ReceiptIsTrue`, `InconclusiveIsTrue`, `LeftIsNamed` |
| `WorktreeMaterializer` | `named_lane.py` | repository, alternate, pack, worktree, receipt | `ReceiptIsClean`, `ValidationIsClean`, `SignalPrevails` |
| `BoundedCall` | the abstract promise of a supervised command, two variables | what was started is gone or marked before its caller lets go | implemented by `SupervisedProcess`, `LaneRun` and `ObjectVerifier` (`KeepsPromise`, `RemovesOwnQuietly`) |

An operator whose comment begins "Variant" is a plausible bug beside the
definition it would replace; no specification uses it. For each property of each
passing run, `PROJECT.json` names one such bug under which TLC finds the property
violated.

### How they are checked together

The components above share no state with each other: where one calls another,
the caller's module has the callee's outcomes and the callee has a module of its
own. Their product would therefore say nothing more than their sum.
`SupervisorComponents` has a variable `which` and slots `s1 ... s29`; every component is
an `INSTANCE` whose variables are the first slots in the order of their
declaration, and a behaviour chooses a component in its first state and runs it
alone, the slots it does not use staying idle. It holds the
instances of the supervisor package and, of the review runtime, the two that
guard files by locks (`RefreshLock`, `RunCustody`); `RuntimeComponents` extends it by the rest.
An invariant of a run (`ChildrenAreAccountedFor`, `CredentialSurvives`, ...) is a
conjunction: for each component it names, "if that component runs, then its
invariants hold". `SupervisorSteps` and `RuntimeSteps` do the same for action
properties, refinements among them, `SupervisorEnds` and `RuntimeEnds` for
liveness, with each component's own fairness in `SupervisorFairness` and
`RuntimeFairness`. Several instances of one module differ in their constants (one
helper beside Claude, two helpers; one command with kills, two without).
`MCComponents` fixes the bounds (`SafetyBound`, `EndsBound`) and the symmetry.

Where components do interact through state, they are composed in one module:
outer process, supervisor, worker, helpers and operator in `AttemptLifecycle`;
the object verifier and the worker that owns its child in `ObjectVerifier`
(which extends `OwnedProcess`); carrier, watcher, host lock and the client in
`StagedCredential`; both writers of a login in `HostWriteback`.

## 3. Runs

`CHECK_DEADLOCK FALSE` everywhere: an attempt ends, restarts and faults are
bounded, and an idle root need not receive another command, so a state without
successors is legitimate; that nothing is *stuck* is what the liveness runs say.

| run | bounds | what it shows |
|---|---|---|
| `AttemptSafety` | two restarts | type, no lost update, single writer, lease discipline, quiescence of settled attempts, settled checkouts are gone, effects follow the hand-off, verdicts earned, delivered results final, views known to the ledger, conclusions permanent; and the attempt implements `ReviewAttempt` |
| `AttemptLiveness` | one restart, fairness | the lease is released, runs end |
| `LedgerSafety` | two attempts, `Envelope` 5, `Cap` 8, two temporaries, symmetry | evidence within the cap, one retained worktree, what a step relies on still holds, a rewrite keeps its verdict, retention is monotone, deletion needs a finished release |
| `LedgerLiveness` | one attempt, with restarts, fairness | every command ends |
| `LedgerOneBoot` | two attempts, no restarts, one temporary, fairness | every command ends, reclaim loops included |
| `SupervisorSafety` | `SafetyBound`, symmetry | the invariants and steps of sixteen instances: children, signals, session, account, stages, record, refresh lock, runs |
| `RuntimeSafety` | `SafetyBound` | the invariants and steps of twenty-one instances: credentials and brokers, workspaces, scopes, removals, supervised commands, lanes |
| `Progress` | `EndsBound`, fairness | what was begun ends, in twenty-one instances |
| `AttemptPrelaunch`, `LedgerReclaim`, `LedgerTombstone`, `LedgerVerdict` | | section 6 |

Why the bounds are enough to be interesting. The processes of one attempt are
all there; the only bound is the number of restarts: one makes `recover` run on
whatever a first life left, two make it run on what a first recovery left. Two
attempts suffice for the ledger's relations (the cap holds one envelope and parts
of another, two checkouts would be one too many); two temporaries allow one from
an exchange and one from a crash. Liveness takes no symmetry and so a smaller
state space: restarts matter for recover, which concerns one attempt, and several
attempts matter for the reclaim loops, which no restart touches; the two runs
split along that line.

For the components, `MaxFaults` of 1 to 3 lets an error meet a failure of its own
cleanup, which is where the code's error paths differ (`cleanup` has six because
its phases swallow one each). Two helpers, writers, commands or handlers are what
a lock or an order of refreshes can be wrong about; versions, inodes and stages
are bounded so that a replacement of a replacement fits. `CommitScope` has four
commits, the least number with a merge and a missing parent on each side.
`CleanupCustody` has two roots and a directory within one. Every bound is a field
of `SafetyBound` or `EndsBound` or a literal in an `INSTANCE`, and every guard
that uses one names it.

Fairness. In AttemptLifecycle every live process takes its next step, a helper
included, and waits have deadlines (`commit_via_helper`, the hand-off and
`wait_terminal` all carry one), so giving up is a fair step of the waiting
process. Nothing forces a crash, a restart or an operator. The reviewer's exit is
forced because the gate terminates it at its deadline. In RetentionLedger only
`Step`, the next step of the command that holds the lock, is fair. In the
components the calling thread is always fair, and nothing else unless the code
waits for it without a deadline: the parent (`ProcessOwnership`), the gate, the
launching thread and its worker, the preflight and review steps, the deadline and
the clock of a refresh (not the server), the caller's thread of `RefreshLock`
(not the heartbeat, which may hang), owner and watcher of a staged credential,
owner and worker of the coordinator, the broker's context, main thread, drains
and worker of a supervised command, the writers of `HostWriteback` (update locks
have deadlines), every process of a run and of a workspace while it lives (no
kill and no new call is forced; a Git child ends; a caller repeats the recovery
it was told to run).

## 4. Properties worth a second look

* `NoLostUpdate` says that at the moment of the rename the file is still the one
  the helper compared. The code does not compare and swap; it relies on the
  lease. The run shows that the lease is enough, also for a helper whose
  requester was killed and during the hand-off, when outer and supervisor both
  hold it.
* `KeepsItsPromise` compresses the attempt into an abstract one; `Conclude` may
  not happen under a running reviewer, which is what the gate's order of closure
  is for.
* `EvidenceWithinCap` counts a whole envelope for an attempt that may still be
  writing, and files and runtime otherwise.
* `StepRelies` is about time of check and time of use inside one command. A
  reclaim, a rewrite and the closing branch of `recover` check the record once
  and then write it several times; each of their later steps is right only while
  what was read is still so.
* `SettledIsExact` (`RecordFile`): the settled record states the size of its
  directory, itself included; the candidate is written until it does, exchanged,
  and read back. A crash at any step, or a power failure that undoes what was not
  synced, must not leave a record that states another size; only a leftover of an
  earlier writer, counted and never synced, may shrink in a power failure.
* `RemovesOnlyOwn` (`RefreshLock`): Claude may take a lock over at any step, and
  the removal goes by name. What is not the helper's own goes only where its own
  directory was lost between the check and the rmdir, or while it was inspected;
  at every other step the loss is noticed. `OneHolder` is stated among helpers
  alone, which never take over; it needs two of them and four inodes to fail.
* `StagedSurvives` and `OutcomeNames` (`KeychainRefresh`): a refresh invalidates
  what was before, so the newest credential a handler accepted is in the login or
  in a carrier which the error names, although the handler may commit after the
  caller has given up on it.
* `NothingHalfRefused` (`HostWriteback`): of two places that hold one login, a
  refusal leaves none updated; what is half done is called unproven.
* `ReceiptIsHonoured` (`WorkspaceRecovery`): the command a failed preparation
  prints is one that will work, however many processes died since.
* `RangeIsTrue` (`CommitScope`): the true history is a variable that no action
  reads; the frozen range, computed from the commits that are present, is that of
  the true history or a refusal.
* `QuietMeansGone` (`SupervisedProcess`, `KeychainBroker`, `BoundedCall`): quiet
  may be told only when nothing is left, and what is kept while it is not told is
  what its user still needs. A caller relies on exactly this, so it is the
  abstract specification three modules implement.

## 5. What is proved
`AttemptLifecycleProofs`, for every bound on restarts:

| theorem | statement |
|---|---|
| `TypeCorrect` | `Spec => []TypeOK` |
| `LeaseDisciplineHolds` | `Spec => []LeaseDiscipline` |
| `SingleWriterHolds` | `Spec => []SingleWriter` |
| `NoUpdateIsLost` | `Spec => []NoLostUpdate` |

The only assumption is `BootAssumption` (`MaxBoot \in Nat`). `TypeCorrect` rests
on one lemma per group of updates (each maps records to records) and one per
group of actions. `SingleWriter` is not inductive: that two processes do not
write at once says nothing about where the others stand. `LeaseDiscipline` is
the strengthening: which labels the supervisor, worker and operator may be at
for each label of the outer process (`OuterAlone`, `OperatorAlone`), which
message may be in flight then (`HandoffOrder`), that a helper either serves the
commit its process waits for or is an orphan (`HelperServesOwner`), and that the
worker and the supervisor's commits alternate (`WorkerLockstep`). Its proof has
one lemma per process and one step per action. `SingleWriter` follows from it;
`NoLostUpdate` is inductive together with it, since a commit or a worker's write
can only happen when no other helper is between its check and its rename.

TLC checked each of these invariants first (`AttemptSafety`).

Its second half builds on this, first with what runs and what it earns:

| theorem | statement |
|---|---|
| `EffectsFollow` | `Spec => []EffectsFollowHandoff` |
| `VerdictsAreEarned` | `Spec => []VerdictIsEarned` |

Both speak of the record and of the world at once, so they need to know what a
commit does to the record: one lemma per group of updates (`HandoffFields` to
`RecoverFields`), and `CheckedIsAllowed` (a helper past its check has an update
its record still allows), which follows from `NoLostUpdate`. `SoleWriter` says
that between the hand-off and the supervisor's end no one else writes what the
supervisor relies on. `EffectsFollowHandoff` is then strengthened by what each
label has already recorded (`Effects`, `Owns`), and `VerdictIsEarned` by
`VerdictInv`: what record and reviewer process say of one another at each step
from the launch intent to the verdict (`LaunchIsNext`, `StageIsLaunched`,
`ZeroIsReaped`, `ExitIsRecorded`, `PublishedIsEarned`, `AuthorizedInTime`).

and then with how an attempt ends:

| theorem | statement |
|---|---|
| `ConclusionsArePermanent` | `Spec => ConclusionIsPermanent` |
| `ExactSettlementHolds` | `Spec => []ExactSettlementIsQuiescent` |
| `CheckoutExactHolds` | `Spec => []CheckoutExactMeansGone` |
| `DeliveredStaysFinal` | `Spec => []DeliveredIsFinal` |
| `ViewsAreKnown` | `Spec => []ViewIsKnown` |
| `PromiseIsKept` | `Spec => KeepsItsPromise`, that is `Promise!ASpec` |

`OpenInv` is the first invariant: as long as a process is left that could still
bring the attempt forward (`Open`), the record is neither settled nor concluded.
A conclusion is permanent because whoever writes after it is not one of those, and
the commits of all others leave the outcome alone (`NeutralCommits`) or conclude
it again. `Writers` says who is left when the outer process and the operator
write, and `AfterBoot` that a restart leaves the operator alone. `SettledInv`
adds what the record cannot say: before the supervisor owns the attempt there is
neither checkout nor reviewer (`NothingUnowned`), a supervisor past its reviewer
has reaped it (`RunningLeader`), and whoever records that the checkout is gone
has seen it gone (`GoneIsGone`). `FinalIsLast` makes a final authorization the
last commit: when it is written every other process has ended, and the record it
leaves is settled, so that no recovery begins. `SettledIsCleaned` orders cleanup
and settlement; the views of `ViewIsKnown` follow, and they are the assumption
under which `RetentionLedger` models admission. For the refinement, `LaunchInv`
says what precedes the launch of the reviewer; then a step changes at most one of
the four things `ReviewAttempt` speaks of (`PromiseSteps`), and a commit, a step
of the reviewer and a step of the checkout each map to one of its actions or to a
stutter (`CommitKeepsPromise`, `LeaderKeepsPromise`, `TreeKeepsPromise`).

`RetentionLedgerProofs`, for every finite set of attempts and every envelope, cap
and number of temporaries that satisfy the assumptions:

| theorem | statement |
|---|---|
| `LedgerTypeCorrect` | `Spec => []TypeOK` |
| `StepsRely` | `Spec => []StepRelies` |
| `RewriteKeepsVerdictHolds` | `Spec => []RewriteKeepsVerdict` |
| `RetentionNeverGoesBack` | `Spec => RetentionIsMonotone` |
| `DeletionNeedsFinishedRelease` | `Spec => EvidenceNeedsFinishedRelease` |
| `CapIsKept` | `Spec => []EvidenceWithinCap` |
| `OneWorktreeIsRetained` | `Spec => []OneRetainedWorktree` |

The first five rest on `EnvelopeAssumption` (an attempt's files and temporaries fit in an
envelope; without it a charge could leave its range) and on one inductive
invariant, `LedgerInv`, the conjunction of four parts. `TypeOK` alone is not
inductive, because `RecoverSettles` adds a temporary and needs to know that there
was none; that is in `StepRelies`. `StepRelies` needs `Promised` (a rewrite that
owes an authorization has its verdict, settled, and an earlier authorization:
`RewriteKeepsVerdict`, for every name and with the rewrite's kind) to exclude that
recover closes such a record, and `ReleasedByRewrite` (a released, reclaiming or
reclaimed record carries a rewrite) to know that a reclaim has checked that it is
complete. `Promised` and `ReleasedByRewrite` speak of one record at a time
(`Sound`), so a commit preserves them as soon as the record it writes is sound
(`CommitInv`). The two action properties follow from `LedgerInv` at one step:
`Raises` and `Deletes` are their bodies for one attempt, shown for each group of
actions.

The cap and the retained worktree need each other, and a second invariant,
`CapInv`. An attempt that died before its checkout was visible is kept apart from
every other by the cap alone: it is not a retained worktree, but it is charged an
envelope, and two do not fit (`AdmissionFinds`; this is where `Cap < 2 * Envelope`
is used). Once recover has settled it, its checkout is settled too or counts as
retained (`SettledShows`, `SettlementShows`), which blocks admission in the other
way. In between nobody adds evidence (`Eases`, for each group of actions), so what
admission computed still holds when the record is created (`AdmissionFits`). Sums
of sizes are numbers of units (`Units`, `Total`), so that a sum grows and falls
with its parts by theorems about cardinalities (`TotalFalls`, `TotalHolds`,
`TotalGrows`) where a fold would have needed induction.

The proofs of components, for every value of their constants (natural numbers; at
least one try; integers for the margins of time; `None` is no signal, no exit code
and no file, the starter no command, nobody neither;
Claude is no helper):

| theorem | statement |
|---|---|
| `RecordsAreOneStore` | `Spec => KeepsRecords`, that is `Store!Spec` |
| `SettlementsAreExact` | `Spec => [](TypeOK /\ SettledIsExact)` |
| `ReturnedSurvives` | the record a reader finds is whole and none older than the last whose writer returned |
| `SignalsReachTheirGoal` | `Spec => []` of the properties of `SignalRelay` |
| `SentIsCurrent` | `Spec => []` of `TypeOK` and the three invariants of `AuthCarrier` |
| `HighWaterHolds` | `Spec => HighWaterRises` |
| `RefreshIsProved` | `Spec => []` of `TypeOK` and the four invariants of `AuthRefresh` |
| `ChildrenAreSettled` | `Helper!Spec => []` of `TypeOK` and the three invariants of `ProcessOwnership`, for at most one interrupt |
| `SpawnsWait` | `Helper!Spec => Helper!FencedSpawn`, where nothing is interrupted |
| `LaunchesAreSettled` | `Reviewer!Spec => []` of the four invariants of `NoChildLaunch` |
| `SessionIsEarned` | `Session!Spec => []` of `TypeOK` and the six invariants of `AppServerSession` |
| `ReviewIsTold` | `Review!Spec => []` of `TypeOK` and the five invariants of `AuthenticatedReview` |
| `StagingIsTold` | `Staging!Spec => []` of `TypeOK` and the three invariants of `SnapshotStaging` |
| `CommandIsSettled` | `Preflight!Spec => []` of `TypeOK` and the five invariants of `PreflightCommand` |
| `LockIsKept` | `Spec => []` of `TypeOK` and the five invariants of `RefreshLock` that speak of each helper |
| `OneHolderHolds` | `Spec => []OneHolder`, where only helpers take the lease (`~Foreign`) |
| `FenceHolds` | `Spec => FenceStays` |
| `RangeIsExact` | `Scope!Spec => []` of `TypeOK` and the five invariants of `CommitScope` |
| `RunIsSafe` | `Spec => []` of `TypeOK` and the four invariants of `RunCustody` |
| `ExitIsKept` | `Spec => ExitIsTheRunners` |

The invariant of `RecordFile` says of every directory a power failure may bring
back what it says of the present one: the name leads to a record that is whole and
synchronised (`Sound`), and the directories since the last fsync are ordered by
their records (`Directories`). The refinement then needs only which of five things
a step does to the record in force and to the least one a crash leaves
(`WriterStep`). That a settlement is exact follows from `Stated` (what the
candidate states is what was measured last) and from the last measurement. The
sum of sizes is never expanded. The proof found that the model had let power fail
only while something was being written: a settled directory may hold the
candidate an earlier, failed settlement left without having synchronised it, and
if the power fails later that file may shrink, and with it the directory, below
what the record states. Power may now fail at any time, and `SettledIsExact` names
that case (`worn`).

For the relay, `Balance` counts: what reached the caller, what is held back while
signals are blocked, and the one received that is still owed never exceed what was
sent, and are not nothing once something was sent. `Custody` says at which steps
the PID is bound.

A child between fork and publication, in `ProcessOwnership` and in `NoChildLaunch`:
what the receipt says of the fork, what the pipe's two integers refer to at each
step, and who is bound to the child are three parts of one invariant, and the
fourth says what may be silent: with a second interrupt, which may hit the
settlement of what the first one left, `NoSilentChild` of a helper fails, so the
theorem is about one, as the run is; for the reviewer the model knows when an
interrupt escapes, and its theorem is about any number. That an acknowledgement is
not mistaken rests on `ran = 0`: between the child's own check and its exec nothing
replaces the program, which is the profile's stated limit. The proof found a slip in
the model: two arms of the expression that says where an exception goes had
overlapping guards, which TLC reads from top to bottom and TLA+ does not. The same
slip was then found, and removed, in six other modules.

That one process at a time removes a run's files is no accident of its program:
it rests on the lock being held exactly as long as somebody shares its description
(`LockTells`: the command itself, or the worker it handed a descriptor to), and on
a command reaching the lock only when starter and runner are gone (`Settled`),
while the starter removes only before anybody else may (`MayRemove`). `Progress`
says for each step of a removal what is gone already; `success` and the marker's
order follow from it. `StarterTells` says what the starter has made at each step,
which is what a reviewer finds whole. Each step of a removal is shown once, for
whoever takes it (`Advances`), and then for starter, command and worker.

That a credential read one block after the other was the file at one moment is the
purpose of the second reading, and the proof says why it suffices. Every write uses
a number nobody used (`NumbersAreNew`), so a first block that is found again was
there all along; then the second block, read in between, was beside it
(`ReadingIsOfOneMoment`), and a path found to name the file named it all along. The
condition is carried from the moment of the second read to the verdict: at `stat`
it still depends on the path, then on the first block, and after the second
reading on nothing that can change. `Edited` is all that a step of the client
leaves of the file, so that one lemma covers its five actions. The invariant of
`AuthRefresh` says which process the caller minds at each step, and that a PID is
bound only while it does (`ProcessIsKnown`); what the protocol's state means is what
it was told (`StateIsTold`).

Three things carry the session. What has been attested grows with the state, and the
state says which requests may be outstanding, so that only one handler can be the one
that starts the turn. Sizes are numbers of units again, and each delta raises one
summand, of the item under way, until its completion appends it (`TotalRises`,
`TotalAppends`); what the program counts is then what it keeps. And the text of the
one final message is the join of the parts streamed so far at every step up to its
completion.

`AuthProofs` holds these three proofs: `AuthRefresh` is the instance `Server` there,
`AppServerSession` the instance `Session`. `SignalRelayProofs` holds three, too:
`ProcessOwnership` is the instance `Helper` there, `NoChildLaunch` the instance
`Reviewer`.

For the refresh lock there is no single step at which a directory becomes the
helper's own, since mkdir and adoption are two, and an interrupt may fall between
them. The invariant therefore says of every directory the helper made that it is
either the one its lease names as pending or the one it has adopted (`Known`), and
that a pending one outside acquisition prohibits deletion (`MarksAgree`). That is
why what is removed is the helper's and what is left is reported. Somebody else's
directory can go only under a name at which the helper lost its own while it
inspected or was about to remove it (`Excepted`, over the history `lapsed`); without
Claude nobody loses one there. `MarksAgree` also
ties every other mark of the lease to the place of the main thread, since a mark set
by an earlier, interrupted call is what the next one goes by. Of descriptors it
says that a heartbeat that may still renew has both, and that the main thread is
then at no step that closes them (`DescriptorsAreNamed`); once an abandonment began,
each open descriptor is named as closing, unsure or residue, so that a later call
finds it. A step of one helper leaves another's part as it was up to directories
taken over by age (`Spared`, `OthersKeepInv`). `OneHolder` needs `~Foreign`: with a
client that takes a lock over when it is old (`stale_seconds`,
`claude_refresh_lock.py` 94) a helper that was stopped for long learns of the loss
only at its next renewal; TLC, too, checks `OneHolder` with helpers alone.

The three components of `EvidenceStaysKept` fail at any step, and what their errors
say must still be true. For the two stages the invariant follows the evidence: who
holds the copy of the executable (`Holder`), what is known of the launched process
(`Followed`) and where one that may still run is told (`Alive`, `Helping`), which error
is under way and what it names (`Told`, `ReviewNames`), when the runtime directory is
kept (`Leased`), where a launch may be open in the record (`Recorded`), and at each
step on the way to a result all it rests on (`Earned`). Two reports can be lost, and
`blind` marks them: the gate, or the refresh, takes a launch that returned no process
for one that made none, and an error that says a helper may still run is superseded
when the process cannot be stopped either. For the snapshot, `Where` says at each step
where its directory is and what the recorded state says of that, and a removal is
clean only after the fsync (`synced`). For the schema command, `Charge` says for each step of
the launch whose the program is, `Transferred` that one which may still run is the error's from
`final` on, and `Folder` that the directory is removed only by its name and only
after that. All three are proved for any number of failing steps; the suite bounds
them.

The range of a review is decided from the commits that are there, and the proof says
why that suffices. A walk is the least set that holds its start and is closed under
the edges it follows (`WalkIsClosed`, `WalkIsLeast`), so what it reaches is compared
by showing other sets closed. Of a range that is frozen, a commit is outside base's
true history: either nothing of head's side is missing, and then the known history
is the whole one (`NothingMissing`), or it has a present path down to base, and no
ancestor of base is younger than base (`RangeIsOutside`; this is the one use of the
numbering, and the reason why the code asks for proven descendants,
`review_workspace.py` 3398-3406). And what head
truly reaches without its being known lies in base's history: a path to it leaves
the known commits at one that is missing, and what is missing for head is missing
for base, too (`MissingIsInside`). Validation sees the same range because an edge
that is cut leads from base's history to a missing commit and to nothing else
(`ImportAgrees`), and a private repository that was changed is accepted only if it
still shows that range with its edges (`AgreedIsWhole`).

`RunCustodyProofs` holds three proofs: `RefreshLock` is the instance `Lock` there,
`CommitScope` the instance `Scope`. `RecordFileProofs` holds four: besides its own, `AuthenticatedReview` is the
instance `Review` there, `SnapshotStaging` the instance `Staging`, `PreflightCommand`
the instance `Preflight`.

`SupervisorProofs` carries twelve components over to `SupervisorComponents`:

| theorem | statement |
|---|---|
| `ChildrenStayAccounted` | `SupervisorSpec => []ChildrenAreAccountedFor`, for at most one interrupt of a helper |
| `RecordStaysExact` | `SupervisorSpec => []RecordIsExact` |
| `SignalsArrive` | `SupervisorSpec => []SignalsArriveOnce` |
| `SessionStaysAgreed` | `SupervisorSpec => []SessionIsAgreed` |
| `EvidenceStaysKept` | `SupervisorSpec => []EvidenceOutlivesReview` |
| `AccountStaysCurrent` | `SupervisorSpec => []AccountIsCurrent` |
| `RunStaysKept` | `SupervisorSpec => []RunIsKept` |
| `LocksStayOwned` | `SupervisorSpec => []LocksAreOwned` |
| `StepsStayInBounds` | `SupervisorSpec => SupervisorSteps` |

Each instance of a component there is shown to say the same as the instance of its
proof module (`FileSame`, `RelaySame`, ...), whose lemmas then apply; no step changes
which component runs (`OneRuns`). `RuntimeProofs` does the same for the scopes and
imports of `RuntimeComponents` (`ScopeSame`, `ImportSame`, `OneRuntime`):

| theorem | statement |
|---|---|
| `ScopesStayTrue` | `RuntimeSpec => []ScopeIsTrue` |

Model-checked only: everything temporal under fairness and ENABLED, which are
beyond the proof system (every other property of `AttemptSafety` is a theorem);
of `RuntimeComponents` all but `ScopeIsTrue`, and with it every component but `RecordFile`,
`SignalRelay`, `ProcessOwnership`, `NoChildLaunch`, `AppServerSession`,
`AuthenticatedReview`, `SnapshotStaging`, `PreflightCommand`, `RunCustody`,
`AuthCarrier`, `AuthRefresh`, `RefreshLock` and `CommitScope`. Every invariant of
`SupervisorComponents`, and its action property, is a theorem.

## 6. Where the program disagrees with its own documents and tests

Four are runs whose single property TLC violates; the trace is the scenario.

* `AttemptPrelaunch`: `prelaunch-aborted` can be recorded after the reviewer
  process was started, though the journal reserves it for proven no-launch paths.
* `LedgerReclaim`: an interrupted cleanup is not resumable, though three tests
  say so; the tests' records carry no release rewrite, real ones do.
* `LedgerTombstone`: `recover` on a tombstone whose last rewrite was a runtime
  cleanup charges it again, after which reconciliation refuses the whole root.
* `LedgerVerdict`: a release that dies inside its first write leaves a temporary
  that makes the accounting inexact; release refuses, and recover after a restart
  demotes an authorized verdict to inconclusive. `DeliveredIsFinal` holds in
  AttemptLifecycle because release is not part of that model; this run is the
  exception to it that release introduces.

Others were met while modelling and are part of the models (the properties make
the exception explicit), without a run of their own:

* The journal says that an uncertain closure of a direct helper is latched and
  prevents later helpers. `_spawn_internal` (`runtime.py` 1103-1119) latches only
  what `fork_exec` raises; an interrupt after its return makes the result owner's
  exit raise outside of it, and nothing is latched (`ProcessOwnership`:
  `SpawnIsFenced` therefore speaks of the spawns that consult the latch).
* A test of `no_child_profile.py` expects of a failed fork that the failure is
  proven and the pipe closed; it patches `os.fork`. The real one runs the parent's
  after-fork hook also when fork fails, so line 4139 takes it for a call that
  completed and the launch raises that its closure is unproven (`NoChildLaunch`).
* `state.py` loads the marker before it probes the runner's lock (2691, 2959); a
  run that seals its receipt and ends in between is answered as unsealed, though
  the tests have it answered by its evidence (`RunCustody`: `saw`).
* `direct_gate.py` 461-463 takes a launch that returned no process for one that
  made none; if the launch failed after its fork, the finalizer may delete the
  executable's copy under a process that still runs (`AuthenticatedReview`:
  `blind`).
* Two orders of "newer" for a login exist in `providers.py` (8536, and 9257 with
  12985); the model has the one each place uses.
* A kill between the unlink of a private file and its receipt makes cleanup of
  that run fail closed for ever (`RunCustody`); a kill that leaves a control torn
  or armed does the same for a workspace (`review_workspace.py` 10798).

## 7. Exceptions, abstractions, and what is not modelled

What each component's model assumes or leaves out, beyond names, digests, sizes
and formats:

* `ProcessOwnership`, `NoChildLaunch`: enumerations of process tables are one
  step; the executable is not swapped between the child's own check and exec; two
  interrupts during the join of the pipe worker can leak the pipe (`escaped`).
* `AuthCarrier`: clocks move only where a credential is used; inode numbers are
  not reused. `AuthRefresh`: the digests of the server's executable are left to
  its launch.
* `AuthenticatedReview`, `SnapshotStaging`, `PreflightCommand`: an interrupt
  between a call's return and its assignment is excluded; moves by other processes
  are outside the threat boundary the code states (`codex_executable.py` 5697);
  closing descriptors in the last finally clause does not fail.
* `CleanupCustody`: one interrupt; an empty directory swapped in just before its
  rmdir is the stated exception (`lost`); a deadline is an ordinary fault.
* `RefreshLock`: a lock may age and be taken over by Claude at any step, also
  between the check and the rmdir by name of `_remove_owned_lock`
  (`claude_refresh_lock.py` 1690-1693) and while a new directory is inspected
  (1125-1201). In these two windows the code may remove a directory of Claude's;
  `lapsed` records that one was met, and `RemovesOnlyOwn` excepts it, with Claude
  there and nowhere else.
* `StagedCredential`: the branch without a refresh-lock protocol is left out, since
  `providers.py` requires one; a login without a lock may be overwritten in the
  window between check and rename only. `HostLockCleanup`: the chronology of
  errors is not modelled.
* `KeychainRefresh`: control-flow errors inside handlers, byte quotas and a host
  login that changes by itself (other than as a failing read or write) are left
  out. `RecoveryCarrier`: a check and the call it guards are not straddled by
  others, so `RemovedIsExpected` claims nothing of the moment between the last check
  of the carrier and its unlink (`providers.py` 6719-6744): the carrier is private,
  the helper holds its lock, and no cooperating process writes it. Entry-name
  collisions are left out.
* `KeychainBroker`: the start of a thread may fail with the thread running or not;
  a failed start of a handler leaves it counted, so quiescence is then never
  proven though no thread exists. Signals are noticed inside calls only. What a
  handler writes is `KeychainRefresh`'s; a peer's code identity is its membership
  in the session.
* `HostWriteback`: only the coordinated way of writing, the one in use; a login
  that ignores the locks, or takes one over after the last assertion, may be
  overwritten only between last look and write (`late`); a failed write whose
  temporary cannot be removed either answers "not proven" without naming the file.
* `RunCustody`: the container's directory lock and `cleanup.lock`, taken in one
  order, are one; version 1 states are left out. `WorkspaceRecovery`: one
  workspace; scan and unlink by a closing process are one step.
* `ObjectVerifier`: process and group numbers are not reused; Git answers in
  order; an object is good or bad. `CommitScope`: limits on counts and bytes are
  left out.
* `SupervisedProcess`: callers that ask for a quiescence report; signals are
  handled on the main thread; a descendant that leaves the group is noticed only
  through the output streams.
* `LaneRun`, `LanePublication`, `LegacyPrefix`, `WorktreeMaterializer`: a signal in
  the windows between a restored mask and the next protected statement is the
  stated exception (`torn`): `named_lane.py` 10871-10879, 10968-11104, 8265-8269,
  8289-8298; the gaps between mkdir and open and between stat and rmdir are
  outside the trust boundary (`references/claude-runtime-trust.md` 166-210); what
  others change is never changed back; Git's reading of objects is trusted by
  hash. `WorktreeMaterializer` is called by tests only at this commit.

Noticed and asserted nowhere: the gate can return a result though the prompt was
never written; a receipt may be emitted and the outputs rolled back afterwards
(`named_lane.py` 11210-11214), the outcome then being a signal or an error.

Not modelled: file-descriptor and metadata checks (data), formatting and
command-line parsing, object reading in `gitraw.py`, the attestation of path
components and the rule parser of profiles, the log sinks (a sequential sink with
two limits), the one-way conversion of legacy records, the adapters of providers
other than Claude and their sandbox profiles, the terminal hand-off of signals in
`providers.py` (10777 ff.), launchers in C, wrapper scripts, prose.

Next, in this order:

1. More proofs about the attempt and the components: the other components of the review runtime, and `RuntimeSteps`.
2. The terminal hand-off of `providers.py` and the signal scopes of `common.py`.
3. Recovery of a staged lock directory at the start of `claude_refresh_lock.py`.
4. Legacy retention, refining the ledger's record.
5. Pure algorithms against reference definitions: `aggregate_unique_parents`, the
   log sink's limits.
