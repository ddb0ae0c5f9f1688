--------------------------- MODULE StagedCredential ---------------------------
(***************************************************************************)
(* The private copy of the Claude login that a sandboxed run refreshes     *)
(* (stage_claude_credentials of claude_linux.py).  The owner holds the     *)
(* host's refresh lock, copies the login into a carrier, starts a watcher  *)
(* thread that writes every refresh of the copy back to the login, and     *)
(* settles all of it when the body ends.  The run (writer) refreshes the   *)
(* copy under a staged lock of its own and may die half way; Claude        *)
(* refreshes the login itself when the host lock is free; a new login may  *)
(* replace it at any time.  The handling of the host lock by its cleanup   *)
(* coordinator is HostLockCleanup; here a lock is removed or kept at once. *)
(***************************************************************************)
EXTENDS Naturals

CONSTANTS
  MaxVersions,  \* bound on the versions of the credential
  MaxLogins,    \* bound on logins that take no lock
  MaxFaults     \* bound on failing system calls

VARIABLES
  source,   \* version of the login
  fresh,    \* versions made so far
  staged,   \* the copy: [body, rev, whole]
  slock,    \* the staged refresh lock: free, writer (live holder) or stale
  writer,   \* the run: none, running, writing, dead
  proof,    \* writer_quiescent()
  base,     \* baseline of the watcher: the version it last saw in the login
  seen,     \* _observed_identity
  watch,    \* the watcher thread
  ctl,      \* [stop, admit, busy, busyAtStop, failure] of the watcher
  drain,    \* _drain: [at, who, body, rev]
  anchor,   \* descriptors of the login's directory: [open, detached, residue], and
            \* reached: the worker passed _close_source_anchor_after_worker
  carrier,  \* none, partial, staged, removed, residue or kept
  lock,     \* the host lock: free, held, kept (abandoned) or removed
  owner,    \* the owner's program counter
  told,     \* what the raised error says: error, carrier, inflight
  retain,   \* retain_for_recovery
  logins, faults,
  saved,    \* history: versions the login has held
  harm      \* history: late (closed descriptor used), over (a login overwritten), window

vars == <<source, fresh, staged, slock, writer, proof, base, seen, watch, ctl, drain, anchor,
          carrier, lock, owner, told, retain, logins, faults, saved, harm>>

Copy == <<staged, slock, writer, proof>>
Watched == <<base, seen, watch, ctl>>
Login == <<source, fresh, saved, logins>>
Outcome == <<carrier, lock, told, retain>>

NoDrain == [at |-> "idle", who |-> "none", body |-> 0, rev |-> 0]

Init ==
  /\ source = 1 /\ fresh = 1 /\ saved = {1} /\ logins = 0 /\ faults = 0
  /\ staged = [body |-> 0, rev |-> 0, whole |-> FALSE] /\ slock = "free" /\ writer = "none"
  /\ proof = FALSE /\ base = 0 /\ seen = <<0, 0>> /\ watch = "none"
  /\ ctl = [stop |-> FALSE, admit |-> TRUE, busy |-> FALSE, busyAtStop |-> FALSE, failure |-> "none"]
  /\ drain = NoDrain /\ anchor = [open |-> TRUE, detached |-> FALSE, residue |-> FALSE, reached |-> FALSE]
  /\ carrier = "none" /\ lock = "free" /\ owner = "acquire" /\ told = {} /\ retain = FALSE
  /\ harm = {}

Fault == faults < MaxFaults /\ faults' = faults + 1
DirectoryMoved == Fault      \* assert_stable: an ancestor is not what it was
ParentFails == Fault         \* _lock_credential_parent
CandidateFails == Fault      \* _create_private_credential_update
RemoveFails == Fault         \* _discard_private_file, rmdir
Identity == <<staged.body, staged.rev>>
Changed(id) == id # seen
Goto(l) == owner' = l

-----------------------------------------------------------------------------
(* The other clients of the two files. *)

\* Claude refreshes the login itself, under the host lock.
ClaudeRefreshes ==
  /\ lock \in {"free", "removed"} /\ fresh < MaxVersions
  /\ source' = fresh + 1 /\ fresh' = fresh + 1 /\ saved' = saved \cup {fresh + 1}
  /\ UNCHANGED <<Copy, Watched, Outcome, drain, anchor, owner, logins, faults, harm>>

\* A login replaces the file and takes no lock.
LoginAgain ==
  /\ logins < MaxLogins /\ fresh < MaxVersions
  /\ source' = fresh + 1 /\ fresh' = fresh + 1 /\ saved' = saved \cup {fresh + 1}
  /\ logins' = logins + 1
  /\ harm' = IF drain.at = "swap" THEN harm \cup {"window"} ELSE harm
  /\ UNCHANGED <<Copy, Watched, Outcome, drain, anchor, owner, faults>>

\* The run refreshes its copy: takes the staged lock and writes in place.
RunStarts ==
  /\ writer = "running" /\ slock = "free" /\ fresh < MaxVersions
  /\ writer' = "writing" /\ slock' = "writer" /\ staged' = [staged EXCEPT !.whole = FALSE, !.rev = 1 - @]
  /\ UNCHANGED <<proof, Login, Watched, Outcome, drain, anchor, owner, faults, harm>>

\* What a write leaves: the old body again or a fresh one.
Written(new) == [body |-> IF new THEN fresh + 1 ELSE staged.body, rev |-> staged.rev, whole |-> TRUE]

RunFinishes ==
  /\ writer = "writing"
  /\ \E new \in BOOLEAN :
       /\ staged' = Written(new) /\ fresh' = IF new THEN fresh + 1 ELSE fresh
       /\ new => fresh < MaxVersions
  /\ writer' = "running" /\ slock' = "free"
  /\ UNCHANGED <<proof, source, saved, logins, Watched, Outcome, drain, anchor, owner, faults, harm>>

-----------------------------------------------------------------------------
(* Descriptors of the login's directory. *)

\* _close_once: only the side that owns the descriptors closes them.
Closed(a, detached) == IF a.detached = detached THEN [a EXCEPT !.open = FALSE] ELSE a

\* retain_source_anchor_after_timeout: whoever comes second closes.
HandOver(a) == IF a.reached THEN Closed([a EXCEPT !.detached = TRUE], TRUE)
                            ELSE [a EXCEPT !.detached = TRUE]
\* _close_source_anchor_after_worker
WorkerLeaves(a) == IF a.detached THEN Closed([a EXCEPT !.reached = TRUE], TRUE)
                                 ELSE [a EXCEPT !.reached = TRUE]

-----------------------------------------------------------------------------
(* The owner up to the body. *)

Fails == told' = told \cup {"error"} /\ Goto("mask")

Acquire ==
  /\ owner = "acquire"
  /\ \/ lock' = "held" /\ Goto("read") /\ UNCHANGED <<told, faults>>
     \/ Fault /\ Fails /\ UNCHANGED lock
  /\ UNCHANGED <<Copy, Login, Watched, drain, anchor, carrier, retain, harm>>

ReadLogin ==
  /\ owner = "read"
  /\ \/ base' = source /\ Goto("stage") /\ UNCHANGED <<told, faults>>
     \/ Fault /\ Fails /\ UNCHANGED base
  /\ UNCHANGED <<Copy, Login, seen, watch, ctl, drain, anchor, carrier, lock, retain, harm>>

\* A copy that fails is discarded; the directories made for it are left to the cleanup.
Leftovers == {"none", "partial"}
Stage ==
  /\ owner = "stage"
  /\ \/ /\ staged' = [body |-> base, rev |-> 0, whole |-> TRUE] /\ carrier' = "staged"
        /\ Goto("watch") /\ UNCHANGED <<told, faults>>
     \/ Fault /\ carrier' \in Leftovers /\ Fails /\ UNCHANGED staged
  /\ UNCHANGED <<slock, writer, proof, Login, Watched, drain, anchor, lock, retain, harm>>

\* The watcher is made, published to the coordinator and started; Thread.start may raise
\* although the thread runs (start state UNKNOWN).
FailedStarts == {"none", "unstarted", "poll"}
StartWatcher ==
  /\ owner = "watch"
  /\ seen' = Identity
  /\ \/ watch' = "poll" /\ Goto("body") /\ UNCHANGED <<told, faults>>
     \/ Fault /\ watch' \in FailedStarts /\ Fails
  /\ UNCHANGED <<Copy, Login, base, ctl, drain, anchor, carrier, lock, retain, harm>>

Launch ==
  /\ owner = "body" /\ writer = "none" /\ writer' = "running"
  /\ UNCHANGED <<staged, slock, proof, Login, Watched, Outcome, drain, anchor, owner, faults, harm>>

\* The body ends, by return or error.  A run that is dead may have died with the staged lock
\* in its hands; quiescence is attested only of a dead run.
BodyEnds ==
  /\ owner = "body"
  /\ \E alive \in BOOLEAN, new \in BOOLEAN :
       /\ writer = "none" => ~alive
       /\ new => writer = "writing" /\ fresh < MaxVersions /\ ~alive
       /\ writer' = IF writer = "none" \/ alive THEN writer ELSE "dead"
       /\ proof' \in {FALSE, ~alive}
       /\ slock' = IF ~alive /\ slock = "writer" THEN "stale" ELSE slock
       /\ \/ staged' = staged /\ ~new
          \/ new /\ staged' = Written(TRUE)
       /\ fresh' = IF new THEN fresh + 1 ELSE fresh
  /\ told' \in {told, told \cup {"error"}} /\ Goto("mask")
  /\ UNCHANGED <<source, saved, logins, Watched, drain, anchor, carrier, lock, retain, faults, harm>>

-----------------------------------------------------------------------------
(* The drain: read the copy, write it back.  Drain lock: one at a time. *)

DrainTo(l) == drain' = [drain EXCEPT !.at = l]

\* Where a drain ends: well, or with an error (kind).
Returns == /\ drain' = NoDrain
           /\ IF drain.who = "owner" THEN Goto("settle") /\ UNCHANGED watch
                                     ELSE watch' = "poll" /\ UNCHANGED owner
\* The worker records its first failure, stops, and ends.
Raises(kind) ==
  /\ drain' = NoDrain
  /\ IF drain.who = "owner"
     THEN /\ UNCHANGED <<watch, ctl>> /\ told' = told \cup {"error"}
          /\ Goto(IF kind = "blocked" THEN "reclaim" ELSE "failed")
     ELSE /\ watch' = "ending" /\ UNCHANGED <<owner, told>>
          /\ ctl' = [ctl EXCEPT !.stop = TRUE, !.busy = FALSE, !.failure = "error"]

\* The poll wakes, unless the stop is requested.
WatcherWakes ==
  /\ watch = "poll"
  /\ IF ctl.stop THEN watch' = "ending" /\ UNCHANGED drain
     ELSE /\ Changed(Identity)                        \* else the drain returns at once
          /\ watch' = "drain" /\ drain' = [NoDrain EXCEPT !.at = "read", !.who = "watcher"]
  /\ UNCHANGED <<Copy, Login, Outcome, base, seen, ctl, anchor, owner, faults, harm>>

WatcherEnds ==
  /\ watch = "ending" /\ watch' = "ended"
  /\ anchor' = WorkerLeaves(anchor)
  /\ UNCHANGED <<Copy, Login, Outcome, base, seen, ctl, drain, owner, faults, harm>>

\* _read_staged_credential_under_lock: another holder, live or not.
Locked == slock # "free"

\* The copy cannot be had: a later poll may, the last drain waits until its deadline.
DrainBlocked ==
  /\ drain.at = "read" /\ Locked
  /\ \/ drain.who = "watcher" /\ Returns /\ UNCHANGED <<ctl, told>>
     \/ (drain.who = "owner" \/ slock = "stale") /\ Raises("blocked")
  /\ UNCHANGED <<Copy, Login, base, seen, anchor, carrier, lock, retain, faults, harm>>

\* A copy that is not a credential: the same, until STAGED_CREDENTIAL_RETRY_SECONDS are over.
DrainTorn ==
  /\ drain.at = "read" /\ ~Locked /\ ~staged.whole
  /\ \/ drain.who = "watcher" /\ Returns /\ UNCHANGED <<ctl, told>>
     \/ Raises("unstable")
  /\ UNCHANGED <<Copy, Login, base, seen, anchor, carrier, lock, retain, faults, harm>>

DrainRead ==
  /\ drain.at = "read" /\ ~Locked /\ staged.whole
  /\ drain' = [drain EXCEPT !.at = "admit", !.body = staged.body, !.rev = staged.rev]
  /\ UNCHANGED <<Copy, Login, Watched, Outcome, anchor, owner, faults, harm>>

\* A copy rewritten with the version the login has is only noted.  A background writeback must
\* be admitted, so that none begins after the stop.
Admit ==
  /\ drain.at = "admit"
  /\ IF drain.who = "watcher" /\ drain.body = base
     THEN seen' = <<drain.body, drain.rev>> /\ Returns /\ UNCHANGED ctl
     ELSE IF drain.who = "watcher" /\ ~ctl.admit
     THEN Returns /\ UNCHANGED <<seen, ctl>>
     ELSE /\ DrainTo("open") /\ UNCHANGED <<seen, watch, owner>>
          /\ ctl' = [ctl EXCEPT !.busy = drain.who = "watcher"]
  /\ UNCHANGED <<Copy, Login, base, Outcome, anchor, faults, harm>>

\* Using a descriptor that was closed meanwhile.
Used(h) == IF anchor.open THEN h ELSE h \cup {"late"}

WritebackDone(id) == /\ seen' = id /\ base' = drain.body
WritebackEnds ==
  /\ WritebackDone(<<drain.body, drain.rev>>) /\ Returns
  /\ ctl' = [ctl EXCEPT !.busy = FALSE]

\* _writeback_refreshed_credential_impl: the login must still be the baseline.
OpenLogin ==
  /\ drain.at = "open"
  /\ \/ ParentFails /\ Raises("io") /\ UNCHANGED <<seen, base>>
     \/ /\ UNCHANGED faults
        /\ IF source # base \/ ~anchor.open THEN Raises("changed") /\ UNCHANGED <<seen, base>>
           ELSE IF drain.body = base THEN WritebackEnds /\ UNCHANGED told
           ELSE DrainTo("check") /\ UNCHANGED <<seen, base, watch, ctl, told, owner>>
  /\ harm' = harm
  /\ UNCHANGED <<Copy, Login, anchor, carrier, lock, retain>>

\* The candidate is written; identity of the login, the directory and the lock are looked at
\* once more.
CheckAgain == source = base /\ lock = "held"

CheckLogin ==
  /\ drain.at = "check"
  /\ \/ (CandidateFails \/ DirectoryMoved) /\ Raises("io")
     \/ /\ UNCHANGED faults
        /\ IF CheckAgain THEN DrainTo("swap") /\ UNCHANGED <<watch, ctl, told, owner>>
           ELSE Raises("changed")
  /\ harm' = Used(harm)
  /\ UNCHANGED <<Copy, Login, seen, base, anchor, carrier, lock, retain>>

\* os.replace, or it fails
ReplaceLogin ==
  /\ drain.at = "swap"
  /\ \/ Fault /\ Raises("io") /\ harm' = Used(harm) /\ UNCHANGED <<source, saved>>
     \/ /\ source' = drain.body /\ saved' = saved \cup {drain.body}
        /\ DrainTo("sync") /\ harm' = Used(IF source = base THEN harm ELSE harm \cup {"over"})
        /\ UNCHANGED <<faults, watch, ctl, told, owner>>
  /\ UNCHANGED <<Copy, fresh, logins, seen, base, anchor, carrier, lock, retain>>

\* The committed file is identified and its directory synced; only then does the watcher
\* take it for its baseline.
SyncLogin ==
  /\ drain.at = "sync"
  /\ \/ Fault /\ Raises("io") /\ UNCHANGED <<seen, base>>
     \/ /\ UNCHANGED faults
        /\ IF source = drain.body THEN WritebackEnds /\ UNCHANGED told
           ELSE Raises("changed") /\ UNCHANGED <<seen, base>>
  /\ harm' = Used(harm)
  /\ UNCHANGED <<Copy, Login, anchor, carrier, lock, retain>>

Drain == \/ DrainBlocked \/ DrainTorn \/ DrainRead \/ Admit \/ OpenLogin \/ CheckLogin
         \/ ReplaceLogin \/ SyncLogin

-----------------------------------------------------------------------------
(* The owner after the body. *)

\* Forwarded signals are blocked for the cleanup; if they cannot be, nothing is removed.
Mask ==
  /\ owner = "mask"
  /\ \/ Goto("stop") /\ UNCHANGED faults
     \/ Fault /\ Goto("unmasked")
  /\ UNCHANGED <<Copy, Login, Watched, Outcome, drain, anchor, harm>>

\* request_stop: no background writeback is admitted any more.
Stopped(c) == [c EXCEPT !.stop = TRUE, !.admit = FALSE, !.busyAtStop = @ \/ c.busy]
WatcherStarted == watch # "none"        \* may_have_started: a start that failed is UNKNOWN

\* The coordinator keeps the lock: it stops the watcher, waits for it (a bounded time), hands
\* the directory over and abandons the lease.
Keep == /\ lock' = IF lock = "held" THEN "kept" ELSE lock
        /\ ctl' = IF WatcherStarted THEN Stopped(ctl) ELSE ctl
        /\ anchor' = IF lock # "held" THEN anchor
                     ELSE IF WatcherStarted THEN HandOver(anchor)
                     ELSE Closed([anchor EXCEPT !.detached = TRUE], TRUE)

RetainUnmasked ==
  /\ owner = "unmasked" /\ Keep
  /\ carrier' = IF carrier = "none" THEN "none" ELSE "kept"
  /\ told' = told \cup {"error"} \cup (IF carrier = "none" THEN {} ELSE {"carrier"})
  /\ Goto("close")
  /\ UNCHANGED <<Copy, Login, base, seen, watch, drain, retain, faults, harm>>

RequestStop ==
  /\ owner = "stop"
  /\ IF WatcherStarted THEN ctl' = Stopped(ctl) /\ Goto("join")
     ELSE ctl' = ctl /\ Goto(IF carrier = "staged" THEN "direct" ELSE "carrier")
  /\ UNCHANGED <<Copy, Login, base, seen, watch, Outcome, drain, anchor, faults, harm>>

\* The carrier is kept for a recovery and the error says where it is.
Retains(more) == retain' = TRUE /\ told' = told \cup {"error", "carrier"} \cup more /\ Goto("carrier")

\* wait_until_stopped is bounded; what the watcher has in flight goes on without the owner.
Stops == watch = "ended"
Join ==
  /\ owner = "join"
  /\ \/ Stops /\ Goto("check") /\ UNCHANGED <<retain, told, anchor>>
     \/ /\ ~Stops /\ Retains(IF ctl.busyAtStop THEN {"inflight"} ELSE {})
        /\ anchor' = HandOver(anchor)
  /\ UNCHANGED <<Copy, Login, Watched, carrier, lock, drain, faults, harm>>

\* The run was launched and nobody attests that it is gone.
WriterUnquiescent == writer # "none" /\ ~proof

CheckWriter ==
  /\ owner = "check"
  /\ IF WriterUnquiescent THEN Retains({}) /\ UNCHANGED drain
     ELSE /\ Goto("draining") /\ UNCHANGED <<retain, told>>
          /\ drain' = [NoDrain EXCEPT !.at = "read", !.who = "owner"]
  /\ UNCHANGED <<Copy, Login, Watched, carrier, lock, anchor, faults, harm>>

\* The staged lock blocks the last drain: its dead holder's lock may be reclaimed, once the
\* run is attested to be gone, and the copy is drained again.
Reclaim ==
  /\ owner = "reclaim"
  /\ \/ /\ proof /\ slock' = "free" /\ Goto("draining")
        /\ drain' = [NoDrain EXCEPT !.at = "read", !.who = "owner"]
        /\ UNCHANGED <<retain, told, faults>>
     \/ ~proof /\ Retains({}) /\ UNCHANGED <<slock, drain, faults>>
     \/ proof /\ Fault /\ Retains({}) /\ UNCHANGED <<slock, drain>>
  /\ UNCHANGED <<staged, writer, proof, Login, Watched, carrier, lock, anchor, harm>>

\* Variant: a failed drain never keeps the carrier.
UnpersistedNever == FALSE
\* has_unpersisted_update
Unpersisted == Changed(Identity)

DrainFailed ==
  /\ owner = "failed"
  /\ IF Unpersisted THEN Retains({}) ELSE Goto("carrier") /\ UNCHANGED <<retain, told>>
  /\ UNCHANGED <<Copy, Login, Watched, carrier, lock, drain, anchor, faults, harm>>

Settle ==
  /\ owner = "settle" /\ Goto("carrier")
  /\ UNCHANGED <<Copy, Login, Watched, Outcome, drain, anchor, faults, harm>>

\* No watcher was made: the copy, never shown to a run, is compared with the login directly.
Direct ==
  /\ owner = "direct" /\ Goto("carrier")
  /\ told' \in IF source # base THEN {told \cup {"error"}} ELSE {told, told \cup {"error"}}
  /\ UNCHANGED <<Copy, Login, Watched, carrier, lock, retain, drain, anchor, faults, harm>>

\* _cleanup_staged_credential, or the removal of a carrier that was never finished.
RemoveCarrier ==
  /\ owner = "carrier" /\ Goto("unlock")
  /\ \/ retain /\ carrier' = "kept" /\ UNCHANGED <<told, faults>>
     \/ ~retain /\ carrier' = (IF carrier = "none" THEN "none" ELSE "removed") /\ UNCHANGED <<told, faults>>
     \/ ~retain /\ carrier # "none" /\ RemoveFails /\ carrier' = "residue" /\ told' = told \cup {"error"}
  /\ UNCHANGED <<Copy, Login, Watched, lock, retain, drain, anchor, harm>>

MayRelease == ~retain /\ carrier \in {"none", "removed"}

\* cancel_without_lease, release_after_proven_cleanup or retain
Unlock ==
  /\ owner = "unlock" /\ Goto("close")
  /\ \/ lock # "held" /\ UNCHANGED <<lock, ctl, anchor, told, faults>>
     \/ /\ lock = "held" /\ MayRelease /\ lock' = "removed"
        /\ UNCHANGED <<ctl, anchor, told, faults>>
     \/ /\ lock = "held" /\ Keep /\ told' = told \cup {"error"}
        /\ IF MayRelease THEN Fault ELSE UNCHANGED faults        \* the release failed
  /\ UNCHANGED <<Copy, Login, base, seen, watch, carrier, retain, drain, harm>>

\* stage_claude_credentials closes the directory unless it was handed over.  A close that
\* fails leaves a residue that is never closed again.
CloseAnchor ==
  /\ owner = "close" /\ Goto("done")
  /\ \/ anchor' = Closed(anchor, FALSE) /\ UNCHANGED <<told, faults>>
     \/ /\ ~anchor.detached /\ DirectoryMoved /\ anchor' = Closed(anchor, FALSE)
        /\ told' = told \cup {"error"}
     \/ /\ ~anchor.detached /\ Fault /\ anchor' = [Closed(anchor, FALSE) EXCEPT !.residue = TRUE]
        /\ told' = told \cup {"error"}
  /\ UNCHANGED <<Copy, Login, Watched, carrier, lock, retain, drain, harm>>

Done == owner = "done" /\ UNCHANGED vars

Owner == \/ Acquire \/ ReadLogin \/ Stage \/ StartWatcher \/ Mask \/ RetainUnmasked \/ RequestStop
         \/ Join \/ CheckWriter \/ Reclaim \/ DrainFailed \/ Settle \/ Direct \/ RemoveCarrier
         \/ Unlock \/ CloseAnchor \/ (drain.who = "owner" /\ Drain)
Watcher == WatcherWakes \/ WatcherEnds \/ (drain.who = "watcher" /\ Drain)
Others == ClaudeRefreshes \/ LoginAgain \/ RunStarts \/ RunFinishes
Next == Owner \/ Watcher \/ Others \/ Launch \/ BodyEnds \/ Done
Spec == Init /\ [][Next]_vars /\ WF_vars(Owner) /\ WF_vars(Watcher)

-----------------------------------------------------------------------------
TypeOK ==
  /\ source \in 1 .. MaxVersions /\ fresh \in 1 .. MaxVersions /\ saved \subseteq 1 .. MaxVersions
  /\ staged \in [body : 0 .. MaxVersions, rev : 0 .. 1, whole : BOOLEAN]
  /\ slock \in {"free", "writer", "stale"} /\ writer \in {"none", "running", "writing", "dead"}
  /\ drain.at \in {"idle", "read", "admit", "open", "check", "swap", "sync"}
  /\ (drain.who = "owner") = (owner = "draining") /\ (drain.who = "watcher") = (watch = "drain")
  /\ carrier \in {"none", "partial", "staged", "removed", "residue", "kept"}
  /\ lock \in {"free", "held", "kept", "removed"} /\ harm \subseteq {"late", "over", "window"}
  /\ told \subseteq {"error", "carrier", "inflight"}

\* No refresh is lost: when the carrier is gone, what the run made of its copy has been the
\* login; otherwise the carrier is still there and the error says so.
RefreshSurvives ==
  /\ carrier = "removed" => staged.body \in saved \cup {0}
  /\ carrier = "kept" /\ owner = "done" => "carrier" \in told

\* A version the watcher never read is overwritten only if a login that takes no lock fell
\* between the last look at the file and the rename.
OnlyBaselineIsReplaced == "over" \in harm => "window" \in harm

\* The directory's descriptors are not used after they were closed, though a watcher that
\* could not be stopped goes on with its write.
AnchorOutlivesUse == "late" \notin harm

\* The host lock is given back only when no one is left who may write: the watcher ended, the
\* run is gone or never was, and no copy of the login remains.
ReleasedIsQuiet ==
  lock = "removed" => /\ watch \in {"none", "ended"} /\ writer \in {"none", "dead"}
                      /\ carrier \in {"none", "removed"}

\* Whatever is kept is told, and a write in flight at the stop is told apart.
KeptIsTold ==
  owner = "done" => /\ lock = "kept" \/ carrier = "residue" \/ anchor.residue => "error" \in told
                    /\ ctl.busyAtStop /\ watch = "drain" => "carrier" \in told

\* After the stop the watcher begins no new write to the login.
StopIsKept == ~ctl.admit /\ drain.at = "admit" /\ drain.who = "watcher" => drain'.at # "open"
NoWriteAfterStop ==
  [][StopIsKept]_vars

\* The cleanup ends, and the directory is closed once by whoever is last, unless the thread
\* never ran.
Begun == owner = "mask"
Ended == owner = "done"
AnchorClosed == ~anchor.open \/ watch = "unstarted"
CleanupEnds == Begun ~> Ended
AnchorIsClosed == Begun ~> AnchorClosed
=============================================================================
