-------------------------- MODULE ProcessOwnership --------------------------
(***************************************************************************)
(* The helper processes of the supervisor: process.py forks one, learns    *)
(* its identity through a receipt the child writes into the                *)
(* acknowledgement pipe, hands it to its caller, and whatever happens in   *)
(* between terminates and reaps it.  An exception may be raised between    *)
(* any two steps of the parent: a failing call, a deadline, or an          *)
(* interrupt delivered asynchronously by a signal handler.                 *)
(*                                                                         *)
(* `pc` is where the parent is; "exit" is ForkExecResultOwner.__exit__,    *)
(* "idle" the caller between two helpers.                                  *)
(***************************************************************************)
EXTENDS Naturals, FiniteSets

CONSTANTS
  Callers,        \* of "internal-helper" (runtime.py), "custody-helper" (supervisor.py)
  MaxSpawns,      \* bound on helpers started by the parent
  MaxInterrupts   \* bound on asynchronous interrupts of the parent

VARIABLES
  pc,         \* the parent's next step
  caller,     \* who is starting this helper
  group,      \* own_process_group
  receipt,    \* ForkExecReceipt
  owner,      \* ForkExecResultOwner
  err,        \* the exception under way
  attempt,    \* which of the two bounded cleanups is running
  after,      \* where the settlement returns to
  end,        \* the recorded close outcome of both pipe ends
  fd,         \* what the two integers really refer to
  child, kin, \* the helper, and a process it left in its group
  wrote,      \* the helper's receipt is in the pipe
  reported,   \* an unproven closure or ownership has been raised
  latched,    \* _DIRECT_PROCESS_CLOSURE_UNPROVEN
  spawns, interrupts

vars == <<pc, caller, group, receipt, owner, err, attempt, after, end, fd,
          child, kin, wrote, reported, latched, spawns, interrupts>>
family == <<caller, group, wrote, latched, reported, spawns>>
raised == <<err, attempt, after>>
pipes == <<end, fd>>

Ends == {"read", "write"}
Outcomes == {"none", "owned", "close-outcome-unproven", "closed"}
Errors == {"none", "fault", "interrupt", "closure-unproven", "ownership-unproven"}
Labels == {"idle", "pipe", "publish", "call", "fork", "bind", "close-write",
           "read-receipt", "identity", "transfer", "settle", "identify",
           "identify-read", "settle-close-write", "settle-close-read", "close-unused-write",
           "close-unused-read", "kill", "wait", "group", "reap", "prove", "exit",
           "out", "await", "use", "term", "term-wait", "term-reap", "end"}

NoReceipt == [published |-> FALSE, called |-> FALSE, completed |-> FALSE,
              failed |-> FALSE, returned |-> FALSE, received |-> FALSE]
NoOwner == [process |-> FALSE, transferred |-> FALSE, proven |-> FALSE]

Alive == {"born", "running"}

TypeOK ==
  /\ pc \in Labels /\ caller \in Callers /\ group \in BOOLEAN
  /\ receipt \in [DOMAIN NoReceipt -> BOOLEAN]
  /\ owner \in [DOMAIN NoOwner -> BOOLEAN]
  /\ err \in Errors /\ attempt \in 0..2 /\ after \in {"fork-exec", "exit"}
  /\ end \in [Ends -> Outcomes]
  /\ fd \in [Ends -> {"none", "open", "closed", "reused", "stolen"}]
  /\ child \in Alive \cup {"none", "zombie", "gone"} /\ kin \in BOOLEAN
  /\ wrote \in BOOLEAN /\ reported \in BOOLEAN
  /\ latched \in BOOLEAN /\ spawns \in 0..MaxSpawns /\ interrupts \in 0..MaxInterrupts

Init ==
  /\ pc = "idle" /\ caller \in Callers /\ group \in BOOLEAN
  /\ receipt = NoReceipt /\ owner = NoOwner /\ err = "none"
  /\ attempt = 0 /\ after = "fork-exec"
  /\ end = [e \in Ends |-> "none"] /\ fd = [e \in Ends |-> "none"]
  /\ child = "none" /\ kin = FALSE /\ wrote = FALSE
  /\ latched = FALSE /\ reported = FALSE
  /\ spawns = 0 /\ interrupts = 0

-----------------------------------------------------------------------------
(* Raising *)

(* Which steps lie inside a try of process.py.  fork_exec settles what it  *)
(* started; the settlement itself is left to its caller; the cleanup       *)
(* attempts catch every exception.                                         *)
InForkExec == {"call", "fork", "bind", "close-write", "read-receipt", "identity"}
InSettle == {"settle", "identify", "identify-read", "settle-close-write", "settle-close-read",
             "close-unused-write", "close-unused-read"}
InAttempt == {"kill", "wait", "group", "reap", "prove"}
InDirect == {"term", "term-wait", "term-reap"}

NextAttempt ==
  IF pc \in InAttempt \cup InDirect /\ attempt = 1 THEN 2
  ELSE IF pc \in {"await", "use"} THEN 1 ELSE attempt

(* The receipt owner could not say which child it has: any failure to read *)
(* the receipt is turned into ForkedProcessOwnershipUnproven.              *)
Raise(e) ==
  /\ err' = IF pc = "identify-read" THEN "ownership-unproven"
            ELSE IF pc \in InAttempt /\ attempt = 2 THEN "closure-unproven"
            ELSE IF pc \in InAttempt \cup InDirect THEN err ELSE e
  /\ pc' = CASE pc \in InForkExec -> "settle"
             [] pc \in InAttempt /\ attempt = 1 -> "kill"
             [] pc \in InSettle \/ (pc \in InAttempt /\ attempt # 1) ->
                  IF after = "exit" THEN "out" ELSE "exit"
             [] pc \in {"pipe", "publish", "transfer"} -> "exit"
             [] pc = "exit" -> "out"
             [] pc \in {"await", "use"} -> "term"
             [] pc \in InDirect -> IF attempt = 1 THEN "term" ELSE "end"
             [] OTHER -> pc
  /\ attempt' = NextAttempt
  /\ after' = IF pc \in InForkExec THEN "fork-exec" ELSE after
  /\ latched' = (latched \/ (pc \in InDirect /\ attempt = 2))
  /\ reported' = (reported \/ err' \in {"closure-unproven", "ownership-unproven"})

Interruptible ==
  InForkExec \cup InSettle \cup InAttempt \cup InDirect
  \cup {"pipe", "publish", "transfer", "exit", "use"}

(* Where settle_untransferred_fork_exec returns or raises to *)
Returned == IF after = "exit" THEN "out" ELSE "exit"

(* The boundaries of an attempt, its proof included, are outside its try. *)
Interrupt ==
  /\ pc \in Interruptible /\ interrupts < MaxInterrupts
  /\ interrupts' = interrupts + 1
  /\ \/ Raise("interrupt")
     \/ /\ pc \in {"kill", "prove"}
        /\ err' = "interrupt" /\ pc' = Returned
        /\ UNCHANGED <<attempt, after, latched, reported>>
  /\ UNCHANGED <<caller, group, receipt, owner, pipes, child, kin, wrote, spawns>>

Fault ==
  /\ Raise("fault")
  /\ UNCHANGED <<caller, group, receipt, owner, pipes, child, kin, wrote, spawns, interrupts>>

Goto(l) == pc' = l

-----------------------------------------------------------------------------
(* ForkExecReceipt._close_descriptor: uncertainty is recorded before the   *)
(* call.  `listed` closures append a failure to a list instead of raising  *)
(* it.  Whether a failing close released the integer is not known.         *)
Released(e) == IF fd[e] = "reused" THEN "stolen" ELSE "closed"

CloseTrying(tried, e, listed, next) ==
  \/ /\ end[e] \notin tried /\ Goto(next)
     /\ UNCHANGED <<raised, latched, reported, pipes, interrupts>>
  \/ /\ end[e] \in tried /\ Goto(next)
     /\ end' = [end EXCEPT ![e] = "closed"]
     /\ fd' = [fd EXCEPT ![e] = Released(e)]
     /\ UNCHANGED <<raised, latched, reported, interrupts>>
  \/ /\ end[e] \in tried                            \* the call fails, or is interrupted
     /\ interrupts' \in interrupts..(interrupts + 1) /\ interrupts' <= MaxInterrupts
     /\ end' = [end EXCEPT ![e] = "close-outcome-unproven"]
     /\ \E f \in {fd[e], Released(e)} : fd' = [fd EXCEPT ![e] = f]
     /\ IF listed THEN Goto(next) /\ UNCHANGED <<raised, latched, reported>>
        ELSE Raise(IF interrupts' = interrupts THEN "fault" ELSE "interrupt")

CloseEnd(e, listed, next) == CloseTrying({"owned"}, e, listed, next)

CloseStep(at, e, listed, next) ==
  /\ pc = at /\ CloseEnd(e, listed, next)
  /\ UNCHANGED <<caller, group, receipt, owner, child, kin, wrote, spawns>>

(* Another thread of the parent opens a file and is given a free integer. *)
ReuseInteger ==
  \E e \in Ends :
    /\ fd[e] = "closed" /\ end[e] = "close-outcome-unproven"
    /\ fd' = [fd EXCEPT ![e] = "reused"]
    /\ UNCHANGED <<family, pc, receipt, owner, raised, end, child, kin, interrupts>>

-----------------------------------------------------------------------------
(* fork_exec in the parent *)

(* Variant: the latch is not consulted. *)
SpawnUnfenced ==
  /\ pc = "idle" /\ spawns < MaxSpawns
  /\ spawns' = spawns + 1 /\ Goto("pipe")
  /\ caller' \in Callers /\ group' \in BOOLEAN
  /\ receipt' = NoReceipt /\ owner' = NoOwner /\ err' = "none" /\ attempt' = 0
  /\ end' = [e \in Ends |-> "none"] /\ fd' = [e \in Ends |-> "none"]
  /\ child' = "none" /\ kin' = FALSE /\ wrote' = FALSE /\ reported' = FALSE
  /\ UNCHANGED <<after, latched, interrupts>>

(* _spawn_internal and the supervisor's launchers refuse to start once an  *)
(* unproven closure has been latched.                                      *)
Spawn ==
  /\ pc = "idle" /\ ~latched /\ spawns < MaxSpawns
  /\ spawns' = spawns + 1 /\ Goto("pipe")
  /\ caller' \in Callers /\ group' \in BOOLEAN
  /\ receipt' = NoReceipt /\ owner' = NoOwner /\ err' = "none" /\ attempt' = 0
  /\ end' = [e \in Ends |-> "none"] /\ fd' = [e \in Ends |-> "none"]
  /\ child' = "none" /\ kin' = FALSE /\ wrote' = FALSE /\ reported' = FALSE
  /\ UNCHANGED <<after, latched, interrupts>>

OpenPipe ==
  /\ pc = "pipe"
  /\ \/ /\ Goto("publish")
        /\ end' = [e \in Ends |-> "owned"] /\ fd' = [e \in Ends |-> "open"]
        /\ UNCHANGED <<family, receipt, owner, raised, child, kin, interrupts>>
     \/ Fault

PublishReceipt ==
  /\ pc = "publish" /\ Goto("call")
  /\ receipt' = [receipt EXCEPT !.published = TRUE]
  /\ UNCHANGED <<family, owner, raised, pipes, child, kin, interrupts>>

StartForkCall ==
  /\ pc = "call" /\ Goto("fork")
  /\ receipt' = [receipt EXCEPT !.called = TRUE]
  /\ UNCHANGED <<family, owner, raised, pipes, child, kin, interrupts>>

(* CPython runs the parent's after-fork hook also when the system call     *)
(* failed: then fork_call_completed is set before the OSError is raised.   *)
ForkCall ==
  /\ pc = "fork"
  /\ \/ /\ child' = "born" /\ Goto("bind")
        /\ receipt' = [receipt EXCEPT !.completed = TRUE]
        /\ UNCHANGED <<raised, latched, reported>>
     \/ \E hookRan \in BOOLEAN :
          /\ receipt' = [receipt EXCEPT !.completed = hookRan, !.failed = ~hookRan]
          /\ Raise("fault") /\ UNCHANGED child
  /\ UNCHANGED <<caller, group, owner, pipes, kin, wrote, spawns, interrupts>>

(* The interrupt that arrives between os.fork and its result's assignment  *)
(* is Interrupt at "bind": a child exists and returned_pid is unset.       *)
BindReturnedPid ==
  /\ pc = "bind" /\ Goto("close-write")
  /\ receipt' = [receipt EXCEPT !.returned = TRUE]
  /\ UNCHANGED <<family, owner, raised, pipes, child, kin, interrupts>>

CloseWrite == CloseStep("close-write", "write", FALSE, "read-receipt")

(* The receipt stays in the pipe when its writer dies. *)
ReadReceipt ==
  /\ pc = "read-receipt"
  /\ \/ /\ wrote /\ Goto("identity")
        /\ receipt' = [receipt EXCEPT !.received = TRUE]
        /\ UNCHANGED <<family, owner, raised, pipes, child, kin, interrupts>>
     \/ Fault                      \* deadline, or closed early

StartIdentity ==
  /\ pc = "identity"
  /\ \/ /\ Goto("transfer") /\ owner' = [owner EXCEPT !.process = TRUE]
        /\ UNCHANGED <<family, receipt, raised, pipes, child, kin, interrupts>>
     \/ Fault

Transfer ==
  /\ pc = "transfer" /\ Goto("exit")
  /\ owner' = [owner EXCEPT !.transferred = TRUE]
  /\ UNCHANGED <<family, receipt, raised, pipes, child, kin, interrupts>>

-----------------------------------------------------------------------------
(* Settling an untransferred child *)

(* settle_untransferred_fork_exec *)
MayHaveChild == receipt.called /\ ~receipt.failed
Settled == owner.transferred \/ owner.proven \/ ~receipt.published

Settle ==
  /\ pc = "settle" /\ attempt' = 1
  /\ Goto(IF Settled THEN Returned
          ELSE IF MayHaveChild THEN "identify" ELSE "close-unused-write")
  /\ UNCHANGED <<family, receipt, owner, err, after, pipes, child, kin, interrupts>>

CloseUnusedWrite == CloseStep("close-unused-write", "write", TRUE, "close-unused-read")

CloseUnusedRead ==
  /\ pc = "close-unused-read" /\ CloseEnd("read", TRUE, Returned)
  /\ owner' = [owner EXCEPT !.proven = TRUE]
  /\ UNCHANGED <<caller, group, receipt, child, kin, wrote, spawns>>

(* _receipt_process: the owner's process, the PID fork returned, or else   *)
(* the PID in the child's receipt, read once no writer but the child is    *)
(* left.                                                                   *)
Identify ==
  /\ pc = "identify"
  /\ IF owner.process \/ receipt.returned
     THEN /\ owner' = [owner EXCEPT !.process = TRUE]
          /\ Goto("settle-close-write")
          /\ UNCHANGED <<raised, latched, reported, pipes, interrupts>>
     ELSE CloseEnd("write", TRUE, "identify-read") /\ UNCHANGED owner
  /\ UNCHANGED <<caller, group, receipt, child, kin, wrote, spawns>>

IdentifyRead ==
  /\ pc = "identify-read"
  /\ \/ /\ receipt.received \/ (wrote /\ end["read"] = "owned")
        /\ receipt' = [receipt EXCEPT !.received = TRUE]
        /\ owner' = [owner EXCEPT !.process = TRUE]
        /\ Goto("settle-close-write")
        /\ UNCHANGED <<family, raised, pipes, child, kin, interrupts>>
     \/ Fault

SettleCloseWrite == CloseStep("settle-close-write", "write", TRUE, "settle-close-read")

SettleCloseRead == CloseStep("settle-close-read", "read", TRUE, "kill")

-----------------------------------------------------------------------------
(* _settle_unidentified_fork: kill the leader, wait until it is terminal,  *)
(* kill its group until only the leader is left, and only then reap the    *)
(* leader, whose PID keeps the group's number from being used again.       *)
Killed(c) == IF c \in Alive THEN "zombie" ELSE c

Kill ==
  /\ pc = "kill"
  /\ \/ child' = Killed(child)
     \/ child' = child                      \* in the kernel, dies when it can
  /\ Goto("wait")
  /\ UNCHANGED <<family, receipt, owner, raised, pipes, kin, interrupts>>

Wait ==
  /\ pc = "wait"
  /\ \/ /\ child = "zombie" /\ Goto(IF group THEN "group" ELSE "reap")
        /\ UNCHANGED <<family, receipt, owner, raised, pipes, child, kin, interrupts>>
     \/ child \in Alive \cup {"gone"} /\ Fault     \* deadline, or ECHILD

EmptyGroup ==
  /\ pc = "group"
  /\ \/ /\ kin /\ kin' = FALSE /\ UNCHANGED pc
        /\ UNCHANGED <<family, receipt, owner, raised, pipes, child, interrupts>>
     \/ /\ ~kin /\ Goto("reap")
        /\ UNCHANGED <<family, receipt, owner, raised, pipes, child, kin, interrupts>>
     \/ Fault                      \* deadline, or no process table

Reap ==
  /\ pc = "reap" /\ child' = "gone" /\ Goto("prove")
  /\ UNCHANGED <<family, receipt, owner, raised, pipes, kin, interrupts>>

(* mark_termination_proven; an interrupt that the first attempt swallowed  *)
(* is raised again, the trigger stays under way.                           *)
Prove ==
  /\ pc = "prove" /\ Goto(Returned)
  /\ owner' = [owner EXCEPT !.proven = TRUE]
  /\ UNCHANGED <<family, receipt, raised, pipes, child, kin, interrupts>>

-----------------------------------------------------------------------------
(* Leaving the owner's scope *)

CarriesOwner == err \in {"closure-unproven", "ownership-unproven"}

(* Variant: the scope is left without settling what was not transferred. *)
ExitWithoutSettling ==
  /\ pc = "exit"
  /\ Goto(IF owner.transferred /\ err = "none" THEN "await" ELSE "out")
  /\ UNCHANGED <<family, receipt, owner, raised, pipes, child, kin, interrupts>>

Exit ==
  /\ pc = "exit"
  /\ IF owner.transferred \/ owner.proven \/ CarriesOwner
     THEN Goto(IF owner.transferred /\ err = "none" THEN "await" ELSE "out")
          /\ UNCHANGED <<after, err>>
     ELSE /\ Goto("settle") /\ after' = "exit"
          /\ err' = IF err = "none" THEN "fault" ELSE err
  /\ UNCHANGED <<family, receipt, owner, attempt, pipes, child, kin, interrupts>>

(* The exception leaves the caller's `with`.  The launchers of             *)
(* supervisor.py latch an unproven closure around the `with`,              *)
(* _spawn_internal only around fork_exec inside it.                        *)
LeaveScope ==
  /\ pc = "out"
  /\ latched' = (latched \/ (CarriesOwner /\ (caller = "custody-helper" \/ after = "fork-exec")))
  /\ IF owner.transferred THEN Goto("term") /\ attempt' = 1 ELSE Goto("end") /\ UNCHANGED attempt
  /\ UNCHANGED <<caller, group, wrote, reported, spawns, receipt, owner, err, after, pipes, child, kin, interrupts>>

(* await_exec: end of file without payload from a child that is still      *)
(* there and still itself; the read end is closed either way.              *)
AwaitExec ==
  /\ pc = "await"
  /\ \/ child = "running" /\ CloseEnd("read", FALSE, "use")
     \/ /\ interrupts' \in {interrupts, interrupts + 1} /\ interrupts' <= MaxInterrupts
        /\ Raise(IF interrupts' = interrupts THEN "fault" ELSE "interrupt")
        /\ end' = [end EXCEPT !["read"] = "closed"]
        /\ fd' = [fd EXCEPT !["read"] = Released("read")]
  /\ UNCHANGED <<caller, group, receipt, owner, child, kin, wrote, spawns>>

(* The caller waits for the helper's result and reaps it, or gives up. *)
Use ==
  /\ pc = "use"
  /\ \/ /\ child = "zombie" /\ child' = "gone" /\ Goto("end")
        /\ UNCHANGED <<family, receipt, owner, raised, pipes, kin, interrupts>>
     \/ Fault

(* _kill_direct: terminate_direct_process, twice; an absent child ends it. *)
Term ==
  /\ pc = "term"
  /\ \/ /\ child # "gone" /\ Goto("term-wait")
        /\ child' \in {child, Killed(child)}
     \/ child = "gone" /\ Goto("end") /\ UNCHANGED child
  /\ UNCHANGED <<family, receipt, owner, raised, pipes, kin, interrupts>>

TermWait ==
  /\ pc = "term-wait"
  /\ \/ /\ child = "zombie" /\ Goto("term-reap")
        /\ UNCHANGED <<family, receipt, owner, raised, pipes, child, kin, interrupts>>
     \/ child # "zombie" /\ Fault

TermReap ==
  /\ pc = "term-reap" /\ child' = "gone" /\ Goto("end")
  /\ UNCHANGED <<family, receipt, owner, raised, pipes, kin, interrupts>>

Return ==
  /\ pc = "end" /\ Goto("idle")
  /\ UNCHANGED <<family, receipt, owner, raised, pipes, child, kin, interrupts>>

-----------------------------------------------------------------------------
(* The child *)

(* The after-fork hook, before anything else the child does; it may fail. *)
ChildReceipt ==
  /\ child = "born" /\ ~wrote /\ wrote' = TRUE
  /\ UNCHANGED <<pc, caller, group, latched, reported, spawns, receipt, owner, err,
                 attempt, after, pipes, child, kin, interrupts>>

ChildExec ==
  /\ child = "born" /\ wrote /\ child' = "running"
  /\ UNCHANGED <<family, pc, receipt, owner, raised, pipes, kin, interrupts>>

ChildForks ==
  /\ child = "running" /\ ~kin /\ kin' = TRUE
  /\ UNCHANGED <<family, pc, receipt, owner, raised, pipes, child, interrupts>>

(* A failure before exec, the program's own end, or a signal sent earlier *)
ChildEnds ==
  /\ child \in Alive /\ child' = "zombie"
  /\ UNCHANGED <<family, pc, receipt, owner, raised, pipes, kin, interrupts>>

Parent ==
  \/ Spawn \/ OpenPipe \/ PublishReceipt \/ StartForkCall \/ ForkCall
  \/ BindReturnedPid \/ CloseWrite \/ ReadReceipt \/ StartIdentity \/ Transfer
  \/ Settle \/ CloseUnusedWrite \/ CloseUnusedRead \/ Identify \/ IdentifyRead
  \/ SettleCloseWrite \/ SettleCloseRead \/ Kill \/ Wait \/ EmptyGroup \/ Reap
  \/ Prove \/ Exit \/ LeaveScope \/ AwaitExec \/ Use \/ Term \/ TermWait
  \/ TermReap \/ Return

Child == ChildReceipt \/ ChildExec \/ ChildForks \/ ChildEnds

Next == Parent \/ Interrupt \/ Child \/ ReuseInteger

Spec == Init /\ [][Next]_vars /\ WF_vars(Parent)

-----------------------------------------------------------------------------
(* Properties *)

(* A child is never let go in silence: when the exception or the result    *)
(* leaves the owner's scope, there is no child any more, or it was handed  *)
(* over, or an unproven closure or ownership was raised for it             *)
(* (ForkExecResultOwner.__exit__).                                         *)
NoSilentChild ==
  pc = "out" => owner.transferred \/ reported \/ child \in {"none", "gone"}

(* What the owner calls proven is proven: the child was reaped, and no     *)
(* process of its own group is left (_settle_unidentified_fork).           *)
ProvenMeansGone ==
  owner.proven => child \in {"none", "gone"} /\ (group => ~kin)

(* An integer whose close may have taken effect is never closed again:     *)
(* another thread may own it by then (_close_descriptor).                  *)
NeverClosesForeign == \A e \in Ends : fd[e] # "stolen"

(* A helper is started only when the one before it is known to be gone:    *)
(* unproven closures are latched (require_direct_process_closure_proven).  *)
SpawnIsFenced == pc = "idle" /\ pc' = "pipe" => child \in {"none", "gone"}
FencedSpawn == [][SpawnIsFenced]_vars

(* Every path is bounded by deadlines and by two cleanup attempts: the     *)
(* parent returns to its caller whatever the child does.                   *)
Begun == pc # "idle"
Ended == pc = "idle"
ScopeIsLeft == Begun ~> Ended
=============================================================================
