----------------------------- MODULE RefreshLock -----------------------------
(***************************************************************************)
(* The lease on Claude's two refresh locks (claude_refresh_lock.py).  A    *)
(* lock is a directory: who makes it holds it, and a heartbeat thread      *)
(* keeps it fresh.  The helper shares the locks with other helpers and     *)
(* with Claude itself, which replaces a lock it finds stale; the helper    *)
(* never does.  A lease ends by release, which removes the directories, or *)
(* by abandonment, which leaves them as a fence.  The main thread runs     *)
(* acquire_claude_refresh_lock, the body of the context and the cleanup;   *)
(* a forwarded signal may interrupt it at any step.                        *)
(***************************************************************************)
EXTENDS Naturals, Sequences, FiniteSets

CONSTANTS
  Helpers,        \* processes that take the lease
  None,
  Claude,         \* the other client of the locks
  Foreign,        \* whether it is there
  OnSuccess,      \* claude_refresh_lock_release_on_success, or the plain context
  MaxInterrupts,  \* bound on the signals of each helper
  MaxInodes       \* bound on the directories made

VARIABLES
  dir,      \* the two directories: None, or who made it, its inode, its age
  inodes,   \* inodes used so far
  pc,       \* the main thread
  todo,     \* cleanup calls that are still to come
  lease,    \* ClaudeRefreshLockLease
  locks,    \* adopted locks, by the inode they are anchored to (0: none)
  fds,      \* open descriptors
  beat,     \* the heartbeat thread
  op,       \* owner of _operation_lock: None, "main" or "beat"
  handoff,  \* _pending_operation_handoff
  removed,  \* inodes the helper removed
  faults,   \* history, for the properties: what went wrong at each helper
  signals   \* interrupts so far

vars == <<dir, inodes, pc, todo, lease, locks, fds, beat, op, handoff, removed, faults, signals>>

Names == {"primary", "legacy"}
Descriptors == {"primary", "legacy", "anchors"}
Free == [owner |-> None, inode |-> 0, fresh |-> FALSE]

(* late: used a closed descriptor; wrong: the names at which it removed a  *)
(* directory it did not make; lapsed: the names whose directory it lost    *)
(* while it inspected it or was about to remove it.                        *)
NoFault == [late |-> FALSE, wrong |-> {}, lapsed |-> {}]

NewLease == [started |-> FALSE, cleanup |-> FALSE, released |-> FALSE, prohibited |-> FALSE,
             life |-> "not-started", pending |-> None, error |-> FALSE, stop |-> FALSE,
             diag |-> FALSE, completed |-> FALSE, attempt |-> 1, failed |-> FALSE,
             closing |-> {}, unsure |-> {}, residue |-> {}]

Init ==
  /\ dir = [n \in Names |-> Free] /\ inodes = 0
  /\ pc = [h \in Helpers |-> "mk-primary"] /\ todo = [h \in Helpers |-> <<>>]
  /\ lease = [h \in Helpers |-> NewLease]
  /\ locks = [h \in Helpers |-> [n \in Names |-> 0]]
  /\ fds = [h \in Helpers |-> {"anchors"}]
  /\ beat = [h \in Helpers |-> "none"] /\ op = [h \in Helpers |-> None]
  /\ handoff = [h \in Helpers |-> "none"] /\ removed = [h \in Helpers |-> {}]
  /\ faults = [h \in Helpers |-> NoFault] /\ signals = [h \in Helpers |-> 0]

Mk(n) == IF n = "primary" THEN "mk-primary" ELSE "mk-legacy"
Adopting(n) == IF n = "primary" THEN "adopt-primary" ELSE "adopt-legacy"
Checking(n) == IF n = "primary" THEN "check-primary" ELSE "check-legacy"
Removing(n) == IF n = "primary" THEN "rm-primary" ELSE "rm-legacy"
Goto(h, label) == pc' = [pc EXCEPT ![h] = label]
Lease(h, l) == lease' = [lease EXCEPT ![h] = l]
Disk == <<dir, inodes, removed>>
Guard == <<op, handoff>>
Owns(h, n) == locks[h][n] # 0 /\ dir[n].inode = locks[h][n]     \* _assert_lock

-----------------------------------------------------------------------------
(* acquire_claude_refresh_lock *)

(* The failing acquisition cleans up, and so does the context around it.   *)
(* While a directory may have been made that was not adopted, nothing may  *)
(* be deleted any more.                                                    *)
AcquireFails(h, l) ==
  /\ Goto(h, "entry")
  /\ todo' = [todo EXCEPT ![h] =
       IF l.pending # None THEN <<"abandon", "release">> ELSE <<"release", "release">>]
  /\ Lease(h, IF l.pending # None THEN [l EXCEPT !.prohibited = TRUE, !.stop = TRUE]
                                  ELSE [l EXCEPT !.stop = TRUE])

(* The directory of a helper is replaced or removed by somebody else.      *)
Lapsed(h, n) ==
  IF dir[n].owner = h /\ pc[h] \in {Adopting(n), Removing(n)}
  THEN [faults[h] EXCEPT !.lapsed = @ \cup {n}] ELSE faults[h]

Make(h, n) == dir' = [dir EXCEPT ![n] = [owner |-> h, inode |-> inodes + 1, fresh |-> TRUE]]
              /\ inodes' = inodes + 1

(* rmdir goes by name: what stands there goes, whoever made it.            *)
RemoveDirectory(h, n) ==
  /\ dir[n] # Free /\ dir' = [dir EXCEPT ![n] = Free]
  /\ removed' = [removed EXCEPT ![h] = @ \cup {dir[n].inode}]
  /\ faults' = [k \in Helpers |->
       IF k # h THEN Lapsed(k, n)
       ELSE IF dir[n].owner = h THEN faults[h] ELSE [faults[h] EXCEPT !.wrong = @ \cup {n}]]

(* _acquire_one: wait for a live lock until the deadline, give up on a     *)
(* stale one, make a missing one.                                          *)
MakeLock(h, n) ==
  /\ pc[h] = Mk(n)
  /\ \/ /\ dir[n] = Free /\ inodes < MaxInodes
        /\ Make(h, n) /\ Goto(h, Adopting(n))
        /\ Lease(h, [lease[h] EXCEPT !.pending = n])
        /\ UNCHANGED todo
     \/ dir[n] # Free /\ AcquireFails(h, lease[h]) /\ UNCHANGED <<dir, inodes>>
     \/ AcquireFails(h, [lease[h] EXCEPT !.pending = n]) /\ UNCHANGED <<dir, inodes>>   \* mkdir fails
  /\ UNCHANGED <<locks, fds, beat, Guard, removed, faults, signals>>

(* _inspect_new_lock.  It opens the name, so what it adopts, or removes    *)
(* when it cannot adopt it, is what stands there now.  Unless the removal  *)
(* is complete the acquisition stays pending.                              *)
Adopt(h, n, next) ==
  /\ pc[h] = Adopting(n)
  /\ \/ /\ dir[n].owner # None
        /\ locks' = [locks EXCEPT ![h][n] = dir[n].inode]
        /\ fds' = [fds EXCEPT ![h] = @ \cup {n}]
        /\ Lease(h, [lease[h] EXCEPT !.pending = None]) /\ Goto(h, next)
        /\ UNCHANGED <<todo, Disk, faults>>
     \/ /\ RemoveDirectory(h, n)
        /\ \E left \in {None, n} : AcquireFails(h, [lease[h] EXCEPT !.pending = left])
        /\ UNCHANGED <<inodes, locks, fds>>
     \/ AcquireFails(h, lease[h]) /\ UNCHANGED <<Disk, locks, fds, faults>>
  /\ UNCHANGED <<beat, Guard, signals>>

StartHeartbeat(h) ==
  /\ pc[h] = "start"
  /\ \/ Goto(h, "held") /\ beat' = [beat EXCEPT ![h] = "wait"] /\ UNCHANGED <<todo, lease>>
     \/ AcquireFails(h, [lease[h] EXCEPT !.error = TRUE]) /\ UNCHANGED beat
  /\ UNCHANGED <<Disk, locks, fds, Guard, faults, signals>>

-----------------------------------------------------------------------------
(* Renewal *)

Renewed(h) == [n \in Names |-> IF Owns(h, n) THEN [dir[n] EXCEPT !.fresh = TRUE] ELSE dir[n]]
Late(h) == IF Names \subseteq fds[h] THEN faults ELSE [faults EXCEPT ![h].late = TRUE]

(* _renew_and_assert touches the anchored inodes and then requires both    *)
(* names to lead to them; the first failure is kept.                       *)
Renew(h) ==
  /\ dir' = Renewed(h) /\ faults' = Late(h)
  /\ Lease(h, IF \A n \in Names : Owns(h, n) THEN lease[h]
              ELSE [lease[h] EXCEPT !.error = TRUE, !.stop = TRUE])

(* assert_held, and the end of the body: it returns, raises or abandons. *)
AssertHeld(h) ==
  /\ pc[h] = "held" /\ op[h] = None /\ ~lease[h].error
  /\ Renew(h)
  /\ UNCHANGED <<inodes, pc, todo, locks, fds, beat, Guard, removed, signals>>

BodyEnds(h) ==
  /\ pc[h] = "held" /\ Goto(h, "entry")
  /\ \/ /\ ~lease[h].error
        /\ todo' = [todo EXCEPT ![h] = IF OnSuccess THEN <<"release", "abandon">> ELSE <<"release">>]
        /\ UNCHANGED lease
     \/ /\ todo' = [todo EXCEPT ![h] = IF OnSuccess THEN <<"abandon">> ELSE <<"release">>]
        /\ Lease(h, IF OnSuccess THEN [lease[h] EXCEPT !.prohibited = TRUE, !.stop = TRUE]
                                 ELSE lease[h])
     \/ todo' = [todo EXCEPT ![h] = <<"abandon", "release">>] /\ UNCHANGED lease
  /\ UNCHANGED <<Disk, locks, fds, beat, Guard, faults, signals>>

(* _heartbeat_loop *)
BeatWakes(h) ==
  /\ beat[h] = "wait"
  /\ beat' = [beat EXCEPT ![h] = IF lease[h].stop \/ lease[h].started THEN "dead" ELSE "lock"]
  /\ UNCHANGED <<Disk, pc, todo, lease, locks, fds, Guard, faults, signals>>

BeatLocks(h) ==
  /\ beat[h] = "lock" /\ op[h] = None
  /\ \/ /\ lease[h].started /\ beat' = [beat EXCEPT ![h] = "dead"] /\ UNCHANGED op
     \/ /\ ~lease[h].started
        /\ op' = [op EXCEPT ![h] = "beat"] /\ beat' = [beat EXCEPT ![h] = "renew"]
  /\ UNCHANGED <<Disk, pc, todo, lease, locks, fds, handoff, faults, signals>>

BeatRenews(h) ==
  /\ beat[h] = "renew" /\ op' = [op EXCEPT ![h] = None]
  /\ Renew(h)
  /\ beat' = [beat EXCEPT ![h] = IF lease'[h].error THEN "dead" ELSE "wait"]
  /\ UNCHANGED <<inodes, pc, todo, locks, fds, handoff, removed, signals>>

-----------------------------------------------------------------------------
(* release *)

Resumes(l) == /\ ~l.released
              /\ \/ l.life = "resumable"
                 \/ l.life = "not-started" /\ l.prohibited /\ ~l.cleanup

(* _release and _abandon on the way in.  A lease that may not delete takes *)
(* the way of the abandonment.                                             *)
Entry(h) ==
  LET l == lease[h] IN
  /\ pc[h] = "entry"
  /\ \/ /\ todo[h] = <<>> /\ Goto(h, "done") /\ UNCHANGED <<todo, lease>>
     \/ /\ todo[h] # <<>> /\ todo' = [todo EXCEPT ![h] = Tail(@)]
        /\ \/ /\ Head(todo[h]) = "release" /\ Resumes(l)
              /\ Goto(h, "ab") /\ Lease(h, [l EXCEPT !.life = "resumable"])
           \/ /\ Head(todo[h]) = "release" /\ ~Resumes(l) /\ (l.diag \/ l.prohibited)
              /\ Goto(h, "entry") /\ Lease(h, [l EXCEPT !.diag = TRUE])
           \/ /\ Head(todo[h]) = "release" /\ ~Resumes(l) /\ ~l.diag /\ ~l.prohibited
              /\ Goto(h, "rel") /\ Lease(h, [l EXCEPT !.attempt = 1])
           \/ /\ Head(todo[h]) = "abandon" /\ (l.released \/ l.life = "settled" \/
                                               (l.life = "not-started" /\ l.cleanup))
              /\ Goto(h, "entry") /\ UNCHANGED lease
           \/ /\ Head(todo[h]) = "abandon" /\ ~l.released /\ l.life # "settled"
              /\ (l.life = "not-started" => ~l.cleanup)
              /\ Goto(h, "ab") /\ UNCHANGED lease
  /\ UNCHANGED <<Disk, locks, fds, beat, Guard, faults, signals>>

(* An operation lock that is still owned from an earlier attempt is given  *)
(* back first (_reconcile_pending_operation_handoff).                      *)
Reconcile(h) ==
  /\ op' = [op EXCEPT ![h] = IF @ = "main" THEN None ELSE @]
  /\ handoff' = [handoff EXCEPT ![h] = "none"]

ReleaseStart(h) ==
  LET l == lease[h] IN
  /\ pc[h] = "rel" /\ Reconcile(h)
  /\ \/ l.released /\ Goto(h, "entry") /\ UNCHANGED lease
     \/ ~l.released /\ l.cleanup /\ Goto(h, "entry") /\ Lease(h, [l EXCEPT !.diag = TRUE])
     \/ /\ ~l.released /\ ~l.cleanup /\ Goto(h, "join")
        /\ Lease(h, [l EXCEPT !.started = TRUE, !.stop = TRUE])
  /\ UNCHANGED <<Disk, todo, locks, fds, beat, faults, signals>>

(* One bounded retry, then the lease is reported as inconclusive. *)
Retry(h, l) ==
  IF l.attempt = 1 THEN Goto(h, "rel") /\ Lease(h, [l EXCEPT !.attempt = 2])
  ELSE Goto(h, "entry") /\ Lease(h, [l EXCEPT !.diag = TRUE])

(* Join the heartbeat with a timeout. *)
Join(h) ==
  /\ pc[h] = "join"
  /\ \/ beat[h] \in {"none", "dead"} /\ Goto(h, "op") /\ UNCHANGED lease
     \/ beat[h] \notin {"none", "dead"} /\ Retry(h, lease[h])
  /\ UNCHANGED <<Disk, todo, locks, fds, beat, Guard, faults, signals>>

(* _OperationLockHandoff.acquire, with a timeout. *)
Acquire(h, from, to) ==
  /\ pc[h] = from
  /\ \/ /\ op[h] = None /\ op' = [op EXCEPT ![h] = "main"]
        /\ handoff' = [handoff EXCEPT ![h] = "acquired"] /\ Goto(h, to) /\ UNCHANGED lease
     \/ /\ op[h] # None /\ UNCHANGED Guard
        /\ IF from = "op" THEN Retry(h, lease[h]) ELSE Goto(h, "entry") /\ UNCHANGED lease
  /\ UNCHANGED <<Disk, todo, locks, fds, beat, faults, signals>>

(* What _release makes of an exception after the operation lock was taken: *)
(* a retry while nothing was destroyed, else the diagnostic.               *)
FreeAfterFailure(h) ==
  LET l == lease[h] IN
  /\ pc[h] = "free-failed" /\ Reconcile(h)
  /\ \/ ~l.released /\ ~l.cleanup /\ ~l.diag /\ Retry(h, l)
     \/ /\ l.released \/ l.cleanup \/ l.diag
        /\ Goto(h, "entry") /\ Lease(h, [l EXCEPT !.diag = @ \/ ~l.released])
  /\ UNCHANGED <<Disk, todo, locks, fds, beat, faults, signals>>

(* Evidence first: from here on an interruption leaves the diagnostic. *)
Mark(h) ==
  /\ pc[h] = "mark" /\ Goto(h, "check-legacy")
  /\ Lease(h, [lease[h] EXCEPT !.diag = TRUE, !.cleanup = TRUE, !.failed = FALSE])
  /\ UNCHANGED <<Disk, todo, locks, fds, beat, Guard, faults, signals>>

After(n) == IF n = "legacy" THEN "check-primary" ELSE "close"

(* Variant: the name is trusted. *)
CheckLockBlind(h, n) ==
  /\ pc[h] = Checking(n) /\ Goto(h, IF locks[h][n] # 0 THEN Removing(n) ELSE After(n))
  /\ UNCHANGED <<Disk, todo, lease, locks, fds, beat, Guard, faults, signals>>

(* _remove_owned_lock: assert, then rmdir by name. *)
CheckLock(h, n) ==
  /\ pc[h] = Checking(n)
  /\ Goto(h, IF Owns(h, n) THEN Removing(n) ELSE After(n))
  /\ Lease(h, IF locks[h][n] # 0 /\ ~Owns(h, n) THEN [lease[h] EXCEPT !.failed = TRUE] ELSE lease[h])
  /\ UNCHANGED <<Disk, todo, locks, fds, beat, Guard, faults, signals>>

RemoveLock(h, n) ==
  /\ pc[h] = Removing(n) /\ Goto(h, After(n))
  /\ \/ RemoveDirectory(h, n) /\ UNCHANGED lease
     \/ Lease(h, [lease[h] EXCEPT !.failed = TRUE]) /\ UNCHANGED <<dir, removed, faults>>
  /\ UNCHANGED <<inodes, todo, locks, fds, beat, Guard, signals>>

Close(h) ==
  /\ pc[h] = "close" /\ Goto(h, "free") /\ fds' = [fds EXCEPT ![h] = {}]
  /\ \E failed \in {lease[h].failed, TRUE} :
       Lease(h, [lease[h] EXCEPT !.released = ~failed, !.diag = failed, !.failed = failed])
  /\ UNCHANGED <<Disk, todo, locks, beat, Guard, faults, signals>>

FreeOperation(h) ==
  /\ pc[h] \in {"free", "free-again", "ab-free"} /\ Reconcile(h) /\ Goto(h, "entry")
  /\ UNCHANGED <<Disk, todo, lease, locks, fds, beat, faults, signals>>

-----------------------------------------------------------------------------
(* abandon *)

Abandon(h) ==
  /\ pc[h] = "ab" /\ Goto(h, "ab-join") /\ Reconcile(h)
  /\ Lease(h, [lease[h] EXCEPT !.prohibited = TRUE, !.life = "resumable", !.started = TRUE,
                               !.cleanup = TRUE, !.stop = TRUE, !.diag = TRUE])
  /\ UNCHANGED <<Disk, todo, locks, fds, beat, faults, signals>>

(* A heartbeat that does not end leaves everything open for a later call. *)
AbandonJoin(h) ==
  /\ pc[h] = "ab-join"
  /\ Goto(h, IF beat[h] \in {"none", "dead"} THEN "ab-op" ELSE "entry")
  /\ UNCHANGED <<Disk, todo, lease, locks, fds, beat, Guard, faults, signals>>

(* What an interrupted close left open or not is told by fstat: EBADF is a *)
(* proof, anything else is residue.                                        *)
AbandonOpen(h) ==
  LET l == lease[h] IN
  /\ pc[h] = "ab-resume" /\ Goto(h, "ab-close")
  /\ Lease(h, [l EXCEPT !.closing = IF @ = {} /\ l.unsure = {} /\ l.residue = {} THEN fds[h] ELSE @ \ l.unsure,
                        !.residue = @ \cup (l.unsure \cap fds[h]), !.unsure = {}])
  /\ UNCHANGED <<Disk, todo, locks, fds, beat, Guard, faults, signals>>

AbandonClose(h) ==
  LET l == lease[h] IN
  /\ pc[h] = "ab-close"
  /\ \/ \E d \in l.closing :
          /\ \/ fds' = [fds EXCEPT ![h] = @ \ {d}] /\ Lease(h, [l EXCEPT !.closing = @ \ {d}])
             \/ /\ signals[h] < MaxInterrupts
                /\ fds' \in {fds, [fds EXCEPT ![h] = @ \ {d}]}
                /\ Lease(h, [l EXCEPT !.closing = @ \ {d}, !.unsure = @ \cup {d}])
          /\ signals' = [signals EXCEPT ![h] = IF d \in lease'[h].unsure THEN @ + 1 ELSE @]
          /\ UNCHANGED pc
     \/ /\ l.closing = {} /\ Goto(h, "ab-free") /\ UNCHANGED <<fds, signals>>
        /\ Lease(h, IF l.unsure = {} THEN [l EXCEPT !.life = "settled", !.completed = (l.residue = {})]
                                     ELSE l)
  /\ UNCHANGED <<Disk, todo, locks, beat, Guard, faults>>

-----------------------------------------------------------------------------
(* Signals, other clients, time *)

Interrupt(h) ==
  LET l == lease[h]
      mk == pc[h] \in {"mk-primary", "mk-legacy"}
      n == IF pc[h] = "mk-primary" THEN "primary" ELSE "legacy" IN
  /\ signals[h] < MaxInterrupts /\ signals' = [signals EXCEPT ![h] = @ + 1]
  /\ \/ /\ mk /\ AcquireFails(h, [l EXCEPT !.pending = n]) /\ UNCHANGED Guard
        /\ \/ dir[n] = Free /\ inodes < MaxInodes /\ Make(h, n)
           \/ UNCHANGED <<dir, inodes>>
     \/ /\ pc[h] \in {"adopt-primary", "adopt-legacy", "start"} /\ AcquireFails(h, l)
        /\ UNCHANGED <<dir, inodes, Guard>>
     \/ /\ pc[h] \in {"rel", "join", "op"} /\ Retry(h, l)         \* acquire gives back what it got
        /\ UNCHANGED <<dir, inodes, todo, Guard>>
     \/ /\ pc[h] \in {"mark", "check-legacy", "check-primary", "rm-legacy", "rm-primary", "close"}
        /\ Goto(h, "free-failed") /\ UNCHANGED <<dir, inodes, todo, Guard>>
        /\ \/ UNCHANGED lease
           \/ pc[h] = "mark" /\ Lease(h, [l EXCEPT !.diag = TRUE])
     \/ /\ pc[h] = "free" /\ Goto(h, "free-again") /\ UNCHANGED <<dir, inodes, todo, lease>>
        /\ op' \in {op, [op EXCEPT ![h] = None]}
        /\ handoff' = [handoff EXCEPT ![h] = "release-unknown"]
     \/ /\ pc[h] = "free-again" /\ UNCHANGED <<dir, inodes, todo, Guard>>
        /\ IF l.attempt = 1 THEN Retry(h, l) ELSE Goto(h, "entry") /\ UNCHANGED lease
     \/ /\ pc[h] \in {"ab-op", "ab-resume"} /\ Goto(h, "ab-free")
        /\ UNCHANGED <<dir, inodes, todo, lease, Guard>>
  /\ UNCHANGED <<locks, fds, beat, removed, faults>>

Crash(h) ==
  /\ pc[h] \notin {"done", "crashed"} /\ signals[h] < MaxInterrupts
  /\ signals' = [signals EXCEPT ![h] = @ + 1]
  /\ Goto(h, "crashed") /\ beat' = [beat EXCEPT ![h] = "dead"] /\ fds' = [fds EXCEPT ![h] = {}]
  /\ UNCHANGED <<Disk, todo, lease, locks, Guard, faults>>

(* stale_seconds without renewal: a process may be suspended at any step.  *)
Age(n) ==
  /\ dir[n] # Free /\ dir[n].fresh /\ Foreign
  /\ dir' = [dir EXCEPT ![n].fresh = FALSE]
  /\ UNCHANGED <<inodes, pc, todo, lease, locks, fds, beat, Guard, removed, faults, signals>>

(* Claude makes the lock, in place of one it finds stale: also of one that *)
(* a helper inspects or has just asserted and is about to remove.          *)
ClaudeTakes(n) ==
  /\ Foreign /\ (dir[n] = Free \/ ~dir[n].fresh) /\ inodes < MaxInodes /\ Make(Claude, n)
  /\ faults' = [h \in Helpers |-> Lapsed(h, n)]
  /\ UNCHANGED <<pc, todo, lease, locks, fds, beat, Guard, removed, signals>>

ClaudeLeaves(n) ==
  /\ dir[n].owner = Claude /\ dir' = [dir EXCEPT ![n] = Free]
  /\ UNCHANGED <<inodes, pc, todo, lease, locks, fds, beat, Guard, removed, faults, signals>>

Main(h) ==
  \/ MakeLock(h, "primary") \/ Adopt(h, "primary", "mk-legacy")
  \/ MakeLock(h, "legacy") \/ Adopt(h, "legacy", "start") \/ StartHeartbeat(h)
  \/ BodyEnds(h) \/ Entry(h) \/ ReleaseStart(h) \/ Join(h) \/ Acquire(h, "op", "mark") \/ Mark(h)
  \/ \E n \in Names : CheckLock(h, n) \/ RemoveLock(h, n)
  \/ Close(h) \/ FreeOperation(h) \/ FreeAfterFailure(h)
  \/ Abandon(h) \/ AbandonJoin(h) \/ Acquire(h, "ab-op", "ab-resume") \/ AbandonOpen(h) \/ AbandonClose(h)

Next ==
  \/ \E h \in Helpers :
       \/ Main(h) \/ AssertHeld(h) \/ BeatWakes(h) \/ BeatLocks(h) \/ BeatRenews(h)
       \/ Interrupt(h) \/ Crash(h)
  \/ \E n \in Names : Age(n) \/ ClaudeTakes(n) \/ ClaudeLeaves(n)

(* The main thread is scheduled; the heartbeat may hang. *)
Spec == Init /\ [][Next]_vars /\ \A h \in Helpers : WF_vars(Main(h))

-----------------------------------------------------------------------------
(* Properties *)

Labels == {"mk-primary", "mk-legacy", "adopt-primary", "adopt-legacy", "start", "held", "entry",
           "rel", "join", "op", "mark", "check-legacy", "check-primary", "rm-legacy", "rm-primary",
           "close", "free", "free-failed", "free-again", "ab", "ab-join", "ab-op", "ab-resume", "ab-close",
           "ab-free", "done", "crashed"}

(* Every variable has its type; until the cleanup an adopted lock is       *)
(* anchored by an open descriptor.                                         *)
TypeOK ==
  /\ pc \in [Helpers -> Labels] /\ inodes \in 0..MaxInodes
  /\ \A n \in Names : dir[n] \in [owner : Helpers \cup {Claude, None}, inode : 0..inodes, fresh : BOOLEAN]
  /\ fds \in [Helpers -> SUBSET Descriptors]
  /\ op \in [Helpers -> {None, "main", "beat"}]
  /\ beat \in [Helpers -> {"none", "wait", "lock", "renew", "dead"}]
  /\ \A h \in Helpers, n \in Names :
       ~lease[h].cleanup /\ pc[h] # "crashed" => (locks[h][n] # 0 <=> n \in fds[h])
  /\ \A h \in Helpers : lease[h].life \in {"not-started", "resumable", "settled"}
  /\ faults \in [Helpers -> [late : BOOLEAN, wrong : SUBSET Names, lapsed : SUBSET Names]]

(* A helper removes only a directory it made, whoever replaced it before   *)
(* the lease asserted it.  The exception is where the code goes by name: a *)
(* directory that was lost by age (stale_seconds, line 94) between mkdir   *)
(* and the end of its inspection (1125-1201), or between _assert_lock and  *)
(* rmdir (1690-1693).  Among helpers alone there is no exception.          *)
RemovesOnlyOwn ==
  \A h \in Helpers : faults[h].wrong \subseteq faults[h].lapsed /\ (~Foreign => faults[h].wrong = {})

(* No thread touches a descriptor after the cleanup closed it: its number  *)
(* may be another file's.                                                  *)
NoLateUse == \A h \in Helpers : ~faults[h].late

(* What stands on disk is accounted for: when the calls are over, either   *)
(* none of the helper's directories is left or the caller got evidence.    *)
ResidueIsReported ==
  \A h \in Helpers : pc[h] = "done" /\ (\E n \in Names : dir[n].owner = h) => lease[h].diag

(* A released lease left none of its locks, closed its descriptors and     *)
(* stopped its heartbeat; a lock it did not remove itself was lost in the  *)
(* exception above.                                                        *)
ReleasedIsClean ==
  \A h \in Helpers : lease[h].released =>
    /\ \A n \in Names : locks[h][n] # 0 =>
         dir[n].inode # locks[h][n] /\ (locks[h][n] \in removed[h] \/ n \in faults[h].lapsed)
    /\ fds[h] = {} /\ beat[h] \in {"none", "dead"} /\ ~lease[h].prohibited

(* retention_snapshot: verified_closed means that nothing of the lease is  *)
(* in use any more.                                                        *)
VerifiedClosed(h) ==
  /\ handoff[h] = "none"
  /\ lease[h].released \/ (lease[h].life = "settled" /\ lease[h].completed /\ lease[h].pending = None)
VerifiedMeansClosed ==
  \A h \in Helpers : VerifiedClosed(h) => fds[h] = {} /\ op[h] # "main" /\ beat[h] \in {"none", "dead"}

(* Once deletion is prohibited the fence stays: the helper removes nothing.*)
FencedStay == \A h \in Helpers : lease[h].prohibited => removed'[h] = removed[h]
FenceStays ==
  [][FencedStay]_vars

(* Two helpers never hold the lease at once, though one of them crashed,   *)
(* was interrupted or gave up with its directories in place.               *)
Holds(h) == pc[h] = "held"
OneHolder == \A h, k \in Helpers : h # k => ~(Holds(h) /\ Holds(k))

(* Every call comes to its end, even if the heartbeat thread hangs. *)
Begun(h) == pc[h] # "held"
Ended(h) == pc[h] \in {"held", "done", "crashed"}
CallsEnd == \A h \in Helpers : Begun(h) ~> Ended(h)
=============================================================================
