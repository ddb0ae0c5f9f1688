-------------------------- MODULE SignalRelayProofs --------------------------
(***************************************************************************)
(* How the supervisor keeps its children, in three proofs.  SignalRelay,   *)
(* for any number of signals: the child is told, the caller is told,       *)
(* nobody is told who should not be, and the reap on record has happened.  *)
(* ProcessOwnership, under the name Helper, and NoChildLaunch, under the   *)
(* name Reviewer: whatever fails or is interrupted between a fork and its  *)
(* publication, the child is owned, gone, or its custody is raised.        *)
(***************************************************************************)
EXTENDS SignalRelay, TLAPS

CONSTANTS Callers, MaxSpawns, MaxBreaks, MaxShocks, MaxSwaps, Faults

VARIABLES at, starter, ownGroup, slip, keeper, failure, attempt, after, closes, slots, helper, kin,
  wrote, reported, latched, spawns, breaks    \* those of ProcessOwnership
VARIABLES step, error, worker, escaped, note, outcome, handles, reviewer, told, complaint, leader,
  acked, inner, outer, unproven, file, ran, shocks    \* those of NoChildLaunch

Helper == INSTANCE ProcessOwnership WITH
  pc <- at, caller <- starter, group <- ownGroup, receipt <- slip, owner <- keeper, err <- failure,
  end <- closes, fd <- slots, child <- helper, interrupts <- breaks,
  MaxInterrupts <- MaxBreaks

Reviewer == INSTANCE NoChildLaunch WITH
  pc <- step, err <- error, receipt <- note, fd <- handles, child <- reviewer, interrupts <- shocks,
  MaxInterrupts <- MaxShocks

-----------------------------------------------------------------------------
(* The inductive invariant *)

Starting == {"block", "install", "unblock", "admit", "launch"}
Ending == {"restore-block", "restore-handlers", "restore-mask", "redeliver", "done"}
Held == {"install", "unblock", "restore-handlers", "restore-mask"}

Shape ==
  /\ pc \in Labels
  /\ relay \in [handlers : BOOLEAN, blocked : BOOLEAN, received : Signals \cup {None}, bound : BOOLEAN]
  /\ child \in {"none", "alive", "zombie", "gone"}
  /\ pending \subseteq Signals /\ hits \subseteq Signals \ {"SIGQUIT"}
  /\ stray \in BOOLEAN /\ interrupt \in BOOLEAN
  /\ caller \in [Signals -> Nat] /\ sent \in [Signals -> 0..MaxSignals]
  /\ state \in {"open", "reaped", "unproven"}

(* Signals wait only while they are blocked. *)
Mask ==
  /\ relay.blocked <=> pc \in Held
  /\ pending # {} => relay.blocked

(* The PID is bound while the process is there, and unbound before waitpid *)
(* gives it up; nothing is settled before the process was launched.        *)
Custody ==
  /\ pc \in Starting => ~relay.bound /\ child = "none" /\ state = "open"
  /\ pc = "bind" => ~relay.bound /\ child \in {"alive", "zombie"}
  /\ pc \in {"waitpid", "record"} \cup Ending => ~relay.bound
  /\ pc = "record" => child = "gone"
  /\ child = "gone" => ~relay.bound

(* How many signals are held back, and whether one is kept to be given back *)
Waiting ==
  (IF "SIGHUP" \in pending THEN 1 ELSE 0) + (IF "SIGTERM" \in pending THEN 1 ELSE 0)
    + (IF "SIGQUIT" \in pending THEN 1 ELSE 0)
Owed == IF relay.received # None /\ pc # "done" THEN 1 ELSE 0

(* No signal is lost, and none is given to the caller that was not sent. *)
Balance ==
  /\ Deliveries(caller) + Waiting + Owed <= Deliveries(sent)
  /\ Deliveries(sent) > 0 => Deliveries(caller) + Waiting + Owed > 0

IInv == Shape /\ Mask /\ Custody /\ Balance /\ ChildIsTold /\ NoStraySignal /\ ReapedIsGone

(* What the constants are *)
Bounds == MaxSignals \in Nat /\ None \notin Signals

-----------------------------------------------------------------------------
(* The invariant is inductive *)

LEMMA InitHolds ==
  ASSUME Bounds, Init
  PROVE  IInv
<1>1. Shape
  <2>1. relay \in [handlers : BOOLEAN, blocked : BOOLEAN, received : Signals \cup {None}, bound : BOOLEAN]
    BY DEF Init
  <2>2. caller \in [Signals -> Nat] /\ sent \in [Signals -> 0..MaxSignals]
    BY DEF Init, Bounds
  <2> QED
    BY <2>1, <2>2 DEF Init, Shape, Labels
<1>2. Mask /\ Custody
  BY DEF Init, Mask, Held, Custody, Starting, Ending
<1>3. Deliveries(caller) = 0 /\ Deliveries(sent) = 0 /\ Waiting = 0 /\ Owed = 0
  BY DEF Init, Deliveries, Waiting, Owed, Signals
<1>4. ChildIsTold /\ NoStraySignal /\ ReapedIsGone
  BY DEF Init, ChildIsTold, NoStraySignal, ReapedIsGone
<1> QED
  BY <1>1, <1>2, <1>3, <1>4 DEF IInv, Balance

(* The steps that receive nothing, hold nothing back and deliver nothing. *)
LEMMA BalanceStays ==
  ASSUME Balance, UNCHANGED <<pending, caller, sent>>, relay'.received = relay.received,
         pc # "done", pc' # "done"
  PROVE  Balance'
BY DEF Balance, Waiting, Owed, Deliveries

LEMMA BlockKeeps ==
  ASSUME Bounds, IInv, Block
  PROVE  IInv'
<1> USE DEF IInv
<1>1. pc = "block" /\ pc' = "install" /\ relay' = [relay EXCEPT !.blocked = TRUE]
      /\ UNCHANGED <<pending, caller, sent, interrupt, hits, stray, child, state>>
  BY DEF Block, Quiet
<1>2. Shape'
  BY <1>1 DEF Shape, Labels, Signals, Bounds
<1>3. Mask'
  BY <1>1 DEF Mask, Held, Shape
<1>4. Custody'
  BY <1>1 DEF Custody, Starting, Ending, Shape
<1>5. Balance'
  BY <1>1, BalanceStays DEF Shape
<1>6. ChildIsTold' /\ NoStraySignal' /\ ReapedIsGone'
  BY <1>1 DEF ChildIsTold, NoStraySignal, ReapedIsGone, Custody, Starting, Ending, Shape
<1> QED
  BY <1>2, <1>3, <1>4, <1>5, <1>6

LEMMA InstallKeeps ==
  ASSUME Bounds, IInv, Install
  PROVE  IInv'
<1> USE DEF IInv
<1>1. pc = "install" /\ pc' = "unblock" /\ relay' = [relay EXCEPT !.handlers = TRUE]
      /\ UNCHANGED <<pending, caller, sent, interrupt, hits, stray, child, state>>
  BY DEF Install, Quiet
<1>2. Shape'
  BY <1>1 DEF Shape, Labels, Signals, Bounds
<1>3. Mask'
  BY <1>1 DEF Mask, Held, Shape
<1>4. Custody'
  BY <1>1 DEF Custody, Starting, Ending, Shape
<1>5. Balance'
  BY <1>1, BalanceStays DEF Shape
<1>6. ChildIsTold' /\ NoStraySignal' /\ ReapedIsGone'
  BY <1>1 DEF ChildIsTold, NoStraySignal, ReapedIsGone, Custody, Starting, Ending, Shape
<1> QED
  BY <1>2, <1>3, <1>4, <1>5, <1>6

LEMMA UnbindKeeps ==
  ASSUME Bounds, IInv, Unbind
  PROVE  IInv'
<1> USE DEF IInv
<1>1. pc = "unbind" /\ pc' = "waitpid" /\ relay' = [relay EXCEPT !.bound = FALSE]
      /\ UNCHANGED <<pending, caller, sent, interrupt, hits, stray, child, state>>
  BY DEF Unbind, Step, Same, Quiet
<1>2. Shape'
  BY <1>1 DEF Shape, Labels, Signals, Bounds
<1>3. Mask'
  BY <1>1 DEF Mask, Held, Shape
<1>4. Custody'
  BY <1>1 DEF Custody, Starting, Ending, Shape
<1>5. Balance'
  BY <1>1, BalanceStays DEF Shape
<1>6. ChildIsTold' /\ NoStraySignal' /\ ReapedIsGone'
  BY <1>1 DEF ChildIsTold, NoStraySignal, ReapedIsGone, Custody, Starting, Ending, Shape
<1> QED
  BY <1>2, <1>3, <1>4, <1>5, <1>6

LEMMA WaitPidKeeps ==
  ASSUME Bounds, IInv, WaitPid
  PROVE  IInv'
<1> USE DEF IInv
<1>1. pc = "waitpid" /\ pc' = "record" /\ child' = "gone"
      /\ UNCHANGED <<pending, caller, sent, interrupt, hits, stray, relay, state>>
  BY DEF WaitPid, Step, Same, Quiet
<1>2. Shape'
  BY <1>1 DEF Shape, Labels, Signals, Bounds
<1>3. Mask'
  BY <1>1 DEF Mask, Held, Shape
<1>4. Custody'
  BY <1>1 DEF Custody, Starting, Ending, Shape
<1>5. Balance'
  BY <1>1, BalanceStays DEF Shape
<1>6. ChildIsTold' /\ NoStraySignal' /\ ReapedIsGone'
  BY <1>1 DEF ChildIsTold, NoStraySignal, ReapedIsGone, Custody, Starting, Ending, Shape
<1> QED
  BY <1>2, <1>3, <1>4, <1>5, <1>6

LEMMA RecordKeeps ==
  ASSUME Bounds, IInv, Record
  PROVE  IInv'
<1> USE DEF IInv
<1>1. pc = "record" /\ pc' = "release" /\ state' = "reaped"
      /\ UNCHANGED <<pending, caller, sent, interrupt, hits, stray, relay, child>>
  BY DEF Record, Step, Same, Quiet
<1>2. Shape'
  BY <1>1 DEF Shape, Labels, Signals, Bounds
<1>3. Mask'
  BY <1>1 DEF Mask, Held, Shape
<1>4. Custody'
  BY <1>1 DEF Custody, Starting, Ending, Shape
<1>5. Balance'
  BY <1>1, BalanceStays DEF Shape
<1>6. ChildIsTold' /\ NoStraySignal' /\ ReapedIsGone'
  BY <1>1 DEF ChildIsTold, NoStraySignal, ReapedIsGone, Custody, Starting, Ending, Shape
<1> QED
  BY <1>2, <1>3, <1>4, <1>5, <1>6

LEMMA ReleaseKeeps ==
  ASSUME Bounds, IInv, Release
  PROVE  IInv'
<1> USE DEF IInv
<1>1. pc = "release" /\ pc' = "restore-block" /\ relay' = [relay EXCEPT !.bound = FALSE]
      /\ UNCHANGED <<pending, caller, sent, interrupt, hits, stray, child, state>>
  BY DEF Release, Step, Same, Quiet
<1>2. Shape'
  BY <1>1 DEF Shape, Labels, Signals, Bounds
<1>3. Mask'
  BY <1>1 DEF Mask, Held, Shape
<1>4. Custody'
  BY <1>1 DEF Custody, Starting, Ending, Shape
<1>5. Balance'
  BY <1>1, BalanceStays DEF Shape
<1>6. ChildIsTold' /\ NoStraySignal' /\ ReapedIsGone'
  BY <1>1 DEF ChildIsTold, NoStraySignal, ReapedIsGone, Custody, Starting, Ending, Shape
<1> QED
  BY <1>2, <1>3, <1>4, <1>5, <1>6

LEMMA RestoreBlockKeeps ==
  ASSUME Bounds, IInv, RestoreBlock
  PROVE  IInv'
<1> USE DEF IInv
<1>1. pc = "restore-block" /\ pc' = "restore-handlers" /\ relay' = [relay EXCEPT !.blocked = TRUE]
      /\ UNCHANGED <<pending, caller, sent, interrupt, hits, stray, child, state>>
  BY DEF RestoreBlock, Step, Same, Quiet
<1>2. Shape'
  BY <1>1 DEF Shape, Labels, Signals, Bounds
<1>3. Mask'
  BY <1>1 DEF Mask, Held, Shape
<1>4. Custody'
  BY <1>1 DEF Custody, Starting, Ending, Shape
<1>5. Balance'
  BY <1>1, BalanceStays DEF Shape
<1>6. ChildIsTold' /\ NoStraySignal' /\ ReapedIsGone'
  BY <1>1 DEF ChildIsTold, NoStraySignal, ReapedIsGone, Custody, Starting, Ending, Shape
<1> QED
  BY <1>2, <1>3, <1>4, <1>5, <1>6

LEMMA RestoreHandlersKeeps ==
  ASSUME Bounds, IInv, RestoreHandlers
  PROVE  IInv'
<1> USE DEF IInv
<1>1. pc = "restore-handlers" /\ pc' = "restore-mask" /\ relay' = [relay EXCEPT !.handlers = FALSE]
      /\ UNCHANGED <<pending, caller, sent, interrupt, hits, stray, child, state>>
  BY DEF RestoreHandlers, Step, Same, Quiet
<1>2. Shape'
  BY <1>1 DEF Shape, Labels, Signals, Bounds
<1>3. Mask'
  BY <1>1 DEF Mask, Held, Shape
<1>4. Custody'
  BY <1>1 DEF Custody, Starting, Ending, Shape
<1>5. Balance'
  BY <1>1, BalanceStays DEF Shape
<1>6. ChildIsTold' /\ NoStraySignal' /\ ReapedIsGone'
  BY <1>1 DEF ChildIsTold, NoStraySignal, ReapedIsGone, Custody, Starting, Ending, Shape
<1> QED
  BY <1>2, <1>3, <1>4, <1>5, <1>6

(* A checkpoint passes the signal on and goes to the cleanup. *)
LEMMA RaisesKeeps ==
  ASSUME Bounds, IInv, NEW from \in {"admit", "check", "loop"}, Raises(from)
  PROVE  IInv'
<1> USE DEF IInv
<1>1. pc \in {"admit", "check", "loop"} /\ pc' = "cleanup"
      /\ UNCHANGED <<relay, child, state, pending, caller, sent, interrupt>>
      /\ \/ relay.received # None /\ Forward(relay.received, relay.bound)
         \/ UNCHANGED <<hits, stray>>
  BY DEF Raises, Step, Same, Quiet
<1>2. Shape'
  BY <1>1 DEF Shape, Labels, Signals, Bounds, Forward, TargetSignal
<1>3. Mask'
  BY <1>1 DEF Mask, Held, Shape
<1>4. Custody'
  BY <1>1 DEF Custody, Starting, Ending, Shape
<1>5. Balance'
  BY <1>1, BalanceStays DEF Shape
<1>6. ChildIsTold' /\ NoStraySignal' /\ ReapedIsGone'
  BY <1>1 DEF ChildIsTold, NoStraySignal, ReapedIsGone, Custody, Starting, Ending, Shape, Forward, TargetSignal, Signals
<1> QED
  BY <1>2, <1>3, <1>4, <1>5, <1>6

LEMMA LaunchKeeps ==
  ASSUME Bounds, IInv, Launch
  PROVE  IInv'
<1> USE DEF IInv
<1>1. pc = "launch" /\ UNCHANGED <<relay, state, pending, caller, sent, interrupt, hits, stray>>
      /\ \/ pc' = "bind" /\ child' = "alive"
         \/ pc' = "cleanup" /\ child' = child
  BY DEF Launch, Step, Same, Quiet
<1>2. Shape'
  BY <1>1 DEF Shape, Labels, Signals, Bounds
<1>3. Mask'
  BY <1>1 DEF Mask, Held, Shape
<1>4. Custody'
  BY <1>1 DEF Custody, Starting, Ending, Shape
<1>5. Balance'
  BY <1>1, BalanceStays DEF Shape
<1>6. ChildIsTold' /\ NoStraySignal' /\ ReapedIsGone'
  BY <1>1 DEF ChildIsTold, NoStraySignal, ReapedIsGone, Custody, Starting, Ending, Shape
<1> QED
  BY <1>2, <1>3, <1>4, <1>5, <1>6

(* bind passes on what arrived before the PID was known. *)
LEMMA BindKeeps ==
  ASSUME Bounds, IInv, Bind
  PROVE  IInv'
<1> USE DEF IInv
<1>1. pc = "bind" /\ pc' = "check" /\ relay' = [relay EXCEPT !.bound = TRUE]
      /\ UNCHANGED <<child, state, pending, caller, sent, interrupt>>
      /\ (IF relay.received # None THEN Forward(relay.received, TRUE) ELSE UNCHANGED <<hits, stray>>)
  BY DEF Bind, Step, Same, Quiet
<1>2. Shape'
  BY <1>1 DEF Shape, Labels, Signals, Bounds, Forward, TargetSignal, Custody
<1>3. Mask'
  BY <1>1 DEF Mask, Held, Shape
<1>4. Custody'
  BY <1>1 DEF Custody, Starting, Ending, Shape
<1>5. Balance'
  BY <1>1, BalanceStays DEF Shape
<1>6. ChildIsTold' /\ NoStraySignal' /\ ReapedIsGone'
  BY <1>1 DEF ChildIsTold, NoStraySignal, ReapedIsGone, Custody, Starting, Ending, Shape, Forward, TargetSignal, Signals
<1> QED
  BY <1>2, <1>3, <1>4, <1>5, <1>6

LEMMA CleanupKeeps ==
  ASSUME Bounds, IInv, Cleanup
  PROVE  IInv'
<1> USE DEF IInv
<1>1. pc = "cleanup" /\ UNCHANGED <<relay, child, pending, caller, sent, interrupt, hits, stray>>
      /\ \/ child = "none" /\ pc' = "release" /\ state' = "reaped"
         \/ child = "zombie" /\ pc' = "unbind" /\ state' = state
         \/ child = "alive" /\ pc' = "term" /\ state' = state
         \/ child = "gone" /\ pc' = "release" /\ state' = "unproven"
  BY DEF Cleanup, Same, Quiet
<1>2. Shape'
  BY <1>1 DEF Shape, Labels, Signals, Bounds
<1>3. Mask'
  BY <1>1 DEF Mask, Held, Shape
<1>4. Custody'
  BY <1>1 DEF Custody, Starting, Ending, Shape
<1>5. Balance'
  BY <1>1, BalanceStays DEF Shape
<1>6. ChildIsTold' /\ NoStraySignal' /\ ReapedIsGone'
  BY <1>1 DEF ChildIsTold, NoStraySignal, ReapedIsGone, Custody, Starting, Ending, Shape
<1> QED
  BY <1>2, <1>3, <1>4, <1>5, <1>6

LEMMA TermKeeps ==
  ASSUME Bounds, IInv, Term
  PROVE  IInv'
<1> USE DEF IInv
<1>1. pc = "term" /\ UNCHANGED <<relay, pending, caller, sent, interrupt, hits, stray>>
      /\ \/ child = "alive" /\ child' = "zombie" /\ UNCHANGED <<pc, state>>
         \/ child = "alive" /\ pc' = "release" /\ state' = "unproven" /\ child' = child
         \/ child = "zombie" /\ pc' = "unbind" /\ UNCHANGED <<child, state>>
  BY DEF Term, Same, Quiet
<1>2. Shape'
  BY <1>1 DEF Shape, Labels, Signals, Bounds
<1>3. Mask'
  BY <1>1 DEF Mask, Held, Shape
<1>4. Custody'
  BY <1>1 DEF Custody, Starting, Ending, Shape
<1>5. Balance'
  BY <1>1, BalanceStays DEF Shape
<1>6. ChildIsTold' /\ NoStraySignal' /\ ReapedIsGone'
  BY <1>1 DEF ChildIsTold, NoStraySignal, ReapedIsGone, Custody, Starting, Ending, Shape
<1> QED
  BY <1>2, <1>3, <1>4, <1>5, <1>6

LEMMA InterruptKeeps ==
  ASSUME Bounds, IInv, Interrupt
  PROVE  IInv'
<1> USE DEF IInv
<1>1. UNCHANGED <<relay, child, pending, caller, sent, hits, stray>> /\ interrupt' = FALSE
      /\ \/ pc \in {"check", "loop", "unbind", "waitpid", "record"} /\ pc' = "cleanup" /\ state' = state
         \/ pc \in {"cleanup", "term"} /\ pc' = "release" /\ state' = "unproven"
  BY DEF Interrupt, Quiet
<1>2. Shape'
  BY <1>1 DEF Shape, Labels, Signals, Bounds
<1>3. Mask'
  BY <1>1 DEF Mask, Held, Shape
<1>4. Custody'
  BY <1>1 DEF Custody, Starting, Ending, Shape
<1>5. Balance'
  BY <1>1, BalanceStays DEF Shape
<1>6. ChildIsTold' /\ NoStraySignal' /\ ReapedIsGone'
  BY <1>1 DEF ChildIsTold, NoStraySignal, ReapedIsGone, Custody, Starting, Ending, Shape
<1> QED
  BY <1>2, <1>3, <1>4, <1>5, <1>6

LEMMA ChildExitsKeeps ==
  ASSUME Bounds, IInv, ChildExits
  PROVE  IInv'
<1> USE DEF IInv
<1>1. child = "alive" /\ child' = "zombie"
      /\ UNCHANGED <<pc, relay, state, pending, caller, sent, interrupt, hits, stray>>
  BY DEF ChildExits, Same, Quiet
<1>2. Shape' /\ Mask' /\ Custody'
  BY <1>1 DEF Shape, Mask, Custody, Starting
<1>3. Balance'
  BY <1>1 DEF Balance, Waiting, Owed, Deliveries
<1>4. ChildIsTold' /\ NoStraySignal' /\ ReapedIsGone'
  BY <1>1 DEF ChildIsTold, NoStraySignal, ReapedIsGone
<1> QED
  BY <1>2, <1>3, <1>4

(* What was held back becomes the signal received, one of several. *)
LEMMA UnblockKeeps ==
  ASSUME Bounds, IInv, Unblock
  PROVE  IInv'
<1> USE DEF IInv
<1>1. PICK first \in IF pending = {} THEN {None} ELSE pending :
        relay' = [relay EXCEPT !.blocked = FALSE, !.received = IF @ = None THEN first ELSE @]
  BY DEF Unblock
<1>2. pc = "unblock" /\ pc' = "admit" /\ pending' = {}
      /\ UNCHANGED <<child, caller, sent, interrupt, state, hits, stray>>
  BY DEF Unblock, Quiet
<1>3. first \in Signals \cup {None} /\ (first = None => pending = {})
  BY <1>1 DEF Shape, Bounds
<1>4. Shape' /\ Mask'
  BY <1>1, <1>2, <1>3 DEF Shape, Mask, Held, Labels
<1>5. Custody'
  BY <1>1, <1>2 DEF Custody, Starting, Ending, Shape
<1>6. Balance'
  <2>1. Waiting \in Nat /\ (pending # {} => Waiting >= 1) /\ Waiting' = 0
    <3>1. pending # {} => "SIGHUP" \in pending \/ "SIGTERM" \in pending \/ "SIGQUIT" \in pending
      BY DEF Shape, Signals
    <3> QED
      BY <1>2, <3>1 DEF Waiting
  <2>2. Owed \in 0..1 /\ Owed' \in 0..1 /\ (Owed = 1 => Owed' = 1)
        /\ (Owed' = 1 <=> Owed = 1 \/ pending # {})
    BY <1>1, <1>2, <1>3 DEF Owed, Shape, Bounds
  <2>3. (pending = {} => Waiting = 0) /\ Deliveries(caller)' = Deliveries(caller)
        /\ Deliveries(sent)' = Deliveries(sent)
    BY <1>2 DEF Waiting, Deliveries
  <2>4. Deliveries(caller) \in Nat /\ Deliveries(sent) \in Nat
    BY DEF Shape, Deliveries, Signals, Bounds
  <2> QED
    BY <2>1, <2>2, <2>3, <2>4 DEF Balance
<1>7. ChildIsTold' /\ NoStraySignal' /\ ReapedIsGone'
  BY <1>1, <1>2 DEF ChildIsTold, NoStraySignal, ReapedIsGone, Custody, Starting, Shape
<1> QED
  BY <1>4, <1>5, <1>6, <1>7

LEMMA SendKeeps ==
  ASSUME Bounds, IInv, NEW s \in Signals, Send(s)
  PROVE  IInv'
<1> USE DEF IInv
<1>1. UNCHANGED <<pc, child, interrupt, state>> /\ pc # "done" /\ sent[s] < MaxSignals
      /\ sent' = [sent EXCEPT ![s] = @ + 1]
  BY DEF Send
<1>2. sent' \in [Signals -> 0..MaxSignals] /\ Deliveries(sent)' = Deliveries(sent) + 1
      /\ Deliveries(sent) \in Nat /\ Deliveries(caller) \in Nat /\ Waiting \in Nat /\ Owed \in 0..1
  BY <1>1 DEF Shape, Deliveries, Signals, Bounds, Waiting, Owed
<1>3. CASE relay.blocked /\ pending' = pending \cup {s} /\ UNCHANGED <<relay, caller, hits, stray>>
  <2>1. Shape' /\ Mask' /\ Custody'
    BY <1>1, <1>2, <1>3 DEF Shape, Mask, Custody
  <2>2. Waiting' \in {Waiting, Waiting + 1} /\ Waiting' > 0
    BY <1>3 DEF Waiting, Signals
  <2>3. Owed' = Owed /\ Deliveries(caller)' = Deliveries(caller)
    BY <1>1, <1>3 DEF Owed, Deliveries
  <2>4. Balance'
    BY <1>2, <2>2, <2>3 DEF Balance
  <2> QED
    BY <1>1, <1>3, <2>1, <2>4 DEF ChildIsTold, NoStraySignal, ReapedIsGone
<1>4. CASE ~relay.blocked /\ relay.handlers /\ Handle(s) /\ UNCHANGED <<caller, pending>>
  <2>1. relay' = [relay EXCEPT !.received = IF @ = None THEN s ELSE @] /\ Forward(s, relay.bound)
    BY <1>4 DEF Handle
  <2>2. relay'.received \in Signals /\ relay'.bound = relay.bound /\ relay'.blocked = relay.blocked
        /\ relay' \in [handlers : BOOLEAN, blocked : BOOLEAN, received : Signals \cup {None}, bound : BOOLEAN]
    BY <2>1 DEF Shape
  <2>3. hits' \subseteq Signals \ {"SIGQUIT"} /\ stray' \in BOOLEAN
    BY <2>1 DEF Forward, TargetSignal, Shape, Signals
  <2>4. Shape' /\ Mask' /\ Custody'
    BY <1>1, <1>2, <1>4, <2>2, <2>3 DEF Shape, Mask, Custody
  <2>5. Owed' = 1 /\ Waiting' = Waiting /\ Deliveries(caller)' = Deliveries(caller)
    BY <1>1, <1>4, <2>2 DEF Owed, Waiting, Deliveries, Bounds
  <2>6. Balance'
    BY <1>2, <2>5 DEF Balance
  <2>7. ChildIsTold' /\ NoStraySignal'
    BY <1>1, <2>1, <2>2 DEF ChildIsTold, NoStraySignal, Forward, Custody, Shape
  <2> QED
    BY <1>1, <2>4, <2>6, <2>7 DEF ReapedIsGone
<1>5. CASE /\ ~relay.blocked /\ caller' = [caller EXCEPT ![s] = @ + 1]
           /\ UNCHANGED <<relay, pending, hits, stray>>
  <2>1. Shape' /\ Mask' /\ Custody'
    BY <1>1, <1>2, <1>5 DEF Shape, Mask, Custody
  <2>2. Deliveries(caller)' = Deliveries(caller) + 1
    BY <1>5 DEF Deliveries, Shape, Signals
  <2>3. Owed' = Owed /\ Waiting' = Waiting
    BY <1>1, <1>5 DEF Owed, Waiting
  <2>4. Balance'
    BY <1>2, <2>2, <2>3 DEF Balance
  <2> QED
    BY <1>1, <1>5, <2>1, <2>4 DEF ChildIsTold, NoStraySignal, ReapedIsGone
<1> QED
  BY <1>3, <1>4, <1>5 DEF Send, Quiet

(* What was held back while the handlers were restored goes to the caller. *)
LEMMA RestoreMaskKeeps ==
  ASSUME Bounds, IInv, RestoreMask
  PROVE  IInv'
<1> USE DEF IInv
<1>1. pc = "restore-mask" /\ pc' = "redeliver" /\ relay' = [relay EXCEPT !.blocked = FALSE]
      /\ pending' = {} /\ caller' = [s \in Signals |-> caller[s] + IF s \in pending THEN 1 ELSE 0]
      /\ UNCHANGED <<child, state, sent, interrupt, hits, stray>>
  BY DEF RestoreMask, Step, Quiet
<1>2. caller' \in [Signals -> Nat]
  <2>1. \A s \in Signals : caller[s] + (IF s \in pending THEN 1 ELSE 0) \in Nat
    BY DEF Shape
  <2> QED
    BY <1>1, <2>1
<1>3. Shape' /\ Mask'
  BY <1>1, <1>2 DEF Shape, Labels, Mask, Held
<1>4. Custody'
  BY <1>1 DEF Custody, Starting, Ending, Shape
<1>5. Balance'
  <2>1. Deliveries(caller)' = Deliveries(caller) + Waiting /\ Waiting' = 0
    BY <1>1 DEF Deliveries, Waiting, Signals, Shape
  <2>2. Owed' = Owed /\ Deliveries(sent)' = Deliveries(sent) /\ Owed \in 0..1
    BY <1>1 DEF Owed, Deliveries, Shape
  <2>3. Deliveries(caller) \in Nat /\ Deliveries(sent) \in Nat /\ Waiting \in Nat
    BY DEF Shape, Deliveries, Signals, Bounds, Waiting
  <2> QED
    BY <2>1, <2>2, <2>3 DEF Balance
<1>6. ChildIsTold' /\ NoStraySignal' /\ ReapedIsGone'
  BY <1>1 DEF ChildIsTold, NoStraySignal, ReapedIsGone, Shape
<1> QED
  BY <1>3, <1>4, <1>5, <1>6

(* The first signal received is given back to the caller, once. *)
LEMMA RedeliverKeeps ==
  ASSUME Bounds, IInv, Redeliver
  PROVE  IInv'
<1> USE DEF IInv
<1>1. pc = "redeliver" /\ pc' = "done"
      /\ UNCHANGED <<relay, child, state, pending, sent, interrupt, hits, stray>>
  BY DEF Redeliver, Step, Quiet
<1>2. \/ relay.received = None /\ caller' = caller
      \/ /\ relay.received # None
         /\ \E s \in Signals : caller' = [caller EXCEPT ![s] = @ + 1]
  BY DEF Redeliver, TargetSignal, Shape, Signals
<1>3. caller' \in [Signals -> Nat] /\ Deliveries(caller)' = Deliveries(caller) + Owed
  <2>1. CASE relay.received = None /\ caller' = caller
    BY <1>1, <2>1 DEF Deliveries, Owed, Shape, Signals
  <2>2. ASSUME relay.received # None, NEW s \in Signals, caller' = [caller EXCEPT ![s] = @ + 1]
        PROVE  caller' \in [Signals -> Nat] /\ Deliveries(caller)' = Deliveries(caller) + Owed
    BY <1>1, <2>2 DEF Deliveries, Owed, Shape, Signals
  <2> QED
    BY <1>2, <2>1, <2>2
<1>4. Shape' /\ Mask'
  BY <1>1, <1>3 DEF Shape, Labels, Mask, Held
<1>5. Custody'
  BY <1>1 DEF Custody, Starting, Ending
<1>6. Balance'
  <2>1. Owed' = 0 /\ Waiting' = Waiting /\ Deliveries(sent)' = Deliveries(sent) /\ Owed \in 0..1
    BY <1>1 DEF Owed, Waiting, Deliveries
  <2>2. Deliveries(caller) \in Nat /\ Deliveries(sent) \in Nat /\ Waiting \in Nat
    BY DEF Shape, Deliveries, Signals, Bounds, Waiting
  <2> QED
    BY <1>3, <2>1, <2>2 DEF Balance
<1>7. ChildIsTold' /\ NoStraySignal' /\ ReapedIsGone'
  BY <1>1 DEF ChildIsTold, NoStraySignal, ReapedIsGone
<1> QED
  BY <1>4, <1>5, <1>6, <1>7

LEMMA StepKeeps ==
  ASSUME Bounds, IInv, [Next]_vars
  PROVE  IInv'
<1>1. CASE Admit \/ Check \/ Loop
  <2>1. CASE \E from \in {"admit", "check", "loop"} : Raises(from)
    BY <2>1, RaisesKeeps
  <2>2. CASE \/ Step("admit", "launch") \/ Step("check", "loop") \/ Step("loop", "unbind")
    <3> SUFFICES ASSUME UNCHANGED <<relay, child, state, pending, caller, sent, interrupt, hits, stray>>
                 PROVE  IInv'
      BY <1>1, <2>1, RaisesKeeps DEF Admit, Check, Loop, Same, Quiet
    <3> USE DEF IInv
    <3>1. Shape' /\ Mask' /\ Custody'
      BY <2>2 DEF Shape, Labels, Mask, Held, Custody, Starting, Ending, Step
    <3>2. Balance'
      BY <2>2, BalanceStays DEF Step
    <3> QED
      BY <3>1, <3>2 DEF ChildIsTold, NoStraySignal, ReapedIsGone
  <2> QED
    BY <1>1, <2>1, <2>2 DEF Admit, Check, Loop
<1>2. CASE \/ Block \/ Install \/ Unblock \/ Launch \/ Bind \/ Unbind \/ WaitPid \/ Record \/ Cleanup
           \/ Term \/ Release \/ RestoreBlock \/ RestoreHandlers \/ RestoreMask \/ Redeliver
  BY <1>2, BlockKeeps, InstallKeeps, UnblockKeeps, LaunchKeeps, BindKeeps, UnbindKeeps, WaitPidKeeps,
     RecordKeeps, CleanupKeeps, TermKeeps, ReleaseKeeps, RestoreBlockKeeps, RestoreHandlersKeeps,
     RestoreMaskKeeps, RedeliverKeeps
<1>3. CASE Interrupt \/ ChildExits \/ \E s \in Signals : Send(s)
  BY <1>3, InterruptKeeps, ChildExitsKeeps, SendKeeps
<1>4. CASE UNCHANGED vars
  <2> USE DEF vars, IInv
  <2>1. Shape' /\ Mask' /\ Custody'
    BY <1>4 DEF Shape, Mask, Custody
  <2>2. Balance'
    BY <1>4 DEF Balance, Waiting, Owed, Deliveries
  <2> QED
    BY <1>4, <2>1, <2>2 DEF ChildIsTold, NoStraySignal, ReapedIsGone
<1> QED
  BY <1>1, <1>2, <1>3, <1>4 DEF Next, Gate

LEMMA InvariantHolds ==
  ASSUME Bounds
  PROVE  Spec => []IInv
<1>1. Init => IInv
  BY InitHolds
<1>2. IInv /\ [Next]_vars => IInv'
  BY StepKeeps
<1> QED
  BY <1>1, <1>2, PTL DEF Spec

-----------------------------------------------------------------------------
(* What the relay promises *)

LEMMA InvariantTells ==
  ASSUME Bounds, IInv
  PROVE  TypeOK /\ CallerIsTold
<1> USE DEF IInv
<1>1. Deliveries(sent) \in 0..(3 * MaxSignals) /\ Waiting \in Nat /\ Owed \in 0..1
      /\ \A s \in Signals : caller[s] \in Nat /\ caller[s] <= Deliveries(caller)
  BY DEF Shape, Deliveries, Signals, Bounds, Waiting, Owed
<1>2. Deliveries(caller) \in Nat
  BY DEF Shape, Deliveries, Signals
<1>3. Deliveries(caller) <= Deliveries(sent)
  BY <1>1, <1>2 DEF Balance
<1>4. \A s \in Signals : caller[s] \in 0..(3 * MaxSignals)
  BY <1>1, <1>2, <1>3 DEF Bounds
<1>5. TypeOK
  BY <1>4 DEF TypeOK, Shape
<1>6. pc = "done" => Waiting = 0 /\ Owed = 0
  BY DEF Mask, Held, Waiting, Owed
<1>7. CallerIsTold
  BY <1>1, <1>2, <1>3, <1>6 DEF Balance, CallerIsTold
<1> QED
  BY <1>5, <1>7

(* A termination signal to the supervisor reaches the live child and, in   *)
(* the end, the caller; never a process that was reaped, and a reap on     *)
(* record has happened (signal_relay.py:139, direct_gate.py:606).          *)
THEOREM SignalsReachTheirGoal ==
  ASSUME Bounds
  PROVE  Spec => [](TypeOK /\ CallerIsTold /\ ChildIsTold /\ NoStraySignal /\ ReapedIsGone)
<1>1. IInv => TypeOK /\ CallerIsTold /\ ChildIsTold /\ NoStraySignal /\ ReapedIsGone
  BY InvariantTells DEF IInv
<1> QED
  BY <1>1, InvariantHolds, PTL

-----------------------------------------------------------------------------
(* The helpers *)

Straight == {"pipe", "publish", "transfer"} \cup Helper!InForkExec
Settling == Helper!InSettle \cup Helper!InAttempt
Away == {"none", "gone"}

(* TypeOK in two parts, of the two provers. *)
HelperCounted == attempt \in 0..2 /\ spawns \in 0..MaxSpawns /\ breaks \in 0..MaxBreaks
HelperTyped ==
  /\ at \in Helper!Labels /\ starter \in Callers /\ ownGroup \in BOOLEAN
  /\ slip \in [DOMAIN Helper!NoReceipt -> BOOLEAN] /\ keeper \in [DOMAIN Helper!NoOwner -> BOOLEAN]
  /\ failure \in Helper!Errors /\ after \in {"fork-exec", "exit"}
  /\ closes \in [Helper!Ends -> Helper!Outcomes]
       /\ slots \in [Helper!Ends -> {"none", "open", "closed", "reused", "stolen"}]
  /\ helper \in Helper!Alive \cup {"none", "zombie", "gone"} /\ kin \in BOOLEAN
  /\ wrote \in BOOLEAN /\ reported \in BOOLEAN /\ latched \in BOOLEAN

(* A child exists only once fork was called, and the receipt says so. *)
Receipts ==
  /\ slip.called => slip.published
  /\ at \in {"pipe", "publish"} => ~slip.published
  /\ at = "call" => slip.published /\ ~slip.called
  /\ at = "fork" => slip.called
  /\ at \in {"pipe", "publish", "call", "fork"} => helper = "none" /\ ~slip.failed
  /\ at \in {"close-unused-write", "close-unused-read"} => ~Helper!MayHaveChild
  /\ helper # "none" => Helper!MayHaveChild

(* Whose the child is at each step, and what is known of it. *)
HelperCustody ==
  /\ at \in Straight => ~keeper.proven /\ failure = "none"
  /\ at \in Straight \cup Settling => ~keeper.transferred
  /\ at \in (Settling \ {"settle"}) \cup Helper!InDirect => attempt \in 1..2
  /\ at \in {"group", "reap", "term-reap"} => helper = "zombie"
  /\ at = "prove" => helper = "gone"
  /\ at \in {"reap", "prove"} => (ownGroup => ~kin)
  /\ helper \in {"none", "born"} => ~kin
  /\ Helper!ProvenMeansGone
  /\ Helper!CarriesOwner => reported

(* An integer another thread may own is one whose close is not proven. *)
Descriptors ==
  /\ \A e \in Helper!Ends : slots[e] # "stolen" /\ (slots[e] = "reused" => closes[e]
       = "close-outcome-unproven")
  /\ at \in (Straight \ {"pipe"}) \cup {"await"} => closes["read"] = "owned"
  /\ at = "exit" /\ keeper.transferred => closes["read"] = "owned"

(* Where a child may still be there, and what has been said of it.  Only   *)
(* an interrupt brings one that nobody reported to the exit of its owner,  *)
(* and only a second one past it.                                          *)
Silence ==
  /\ at = "exit" /\ ~keeper.transferred /\ ~keeper.proven /\ ~Helper!CarriesOwner
       => helper \in Away \/ breaks > 0
  /\ at = "exit" /\ Helper!CarriesOwner => after = "fork-exec"
  /\ at \in Settling /\ after = "exit" => helper \in Away \/ breaks > 0
  /\ at = "out" /\ ~keeper.transferred =>
       /\ helper \in Away \/ reported \/ breaks > 1
       /\ helper \in Away \/ (Helper!CarriesOwner /\ after = "fork-exec") \/ breaks > 0
  /\ at \in {"end", "idle"} /\ ~latched => helper \in Away \/ breaks > 0

HelperInv == Helper!TypeOK /\ Receipts /\ HelperCustody /\ Descriptors /\ Silence

(* What the constants are *)
HelperBounds == MaxSpawns \in Nat /\ MaxBreaks \in Nat

(* The two records of the result owner, as functions of their fields.      *)
(* The helpers of its actions; the actions are cited where they are taken. *)
USE DEF Helper!pipes, Helper!InAttempt, Helper!InDirect, Helper!InForkExec, Helper!InSettle,
  Helper!raised, Helper!Goto, Helper!family

LEMMA HelperFields ==
  /\ DOMAIN Helper!NoReceipt = {"published", "called", "completed", "failed", "returned", "received"}
  /\ DOMAIN Helper!NoOwner = {"process", "transferred", "proven"}
  /\ Helper!NoReceipt \in [DOMAIN Helper!NoReceipt -> BOOLEAN]
       /\ Helper!NoOwner \in [DOMAIN Helper!NoOwner -> BOOLEAN]
  /\ ~Helper!NoReceipt.published /\ ~Helper!NoReceipt.called /\ ~Helper!NoReceipt.failed
       /\ ~Helper!NoReceipt.returned
  /\ ~Helper!NoOwner.process /\ ~Helper!NoOwner.transferred /\ ~Helper!NoOwner.proven
<1>1. /\ DOMAIN Helper!NoReceipt
           = {"published", "called", "completed", "failed", "returned", "received"}
      /\ \A x \in {"published", "called", "completed", "failed", "returned", "received"} : Helper!NoReceipt[x] = FALSE
      /\ Helper!NoReceipt = [x \in DOMAIN Helper!NoReceipt |-> Helper!NoReceipt[x]]
  BY DEF Helper!NoReceipt
<1>2. /\ DOMAIN Helper!NoOwner = {"process", "transferred", "proven"}
      /\ \A x \in {"process", "transferred", "proven"} : Helper!NoOwner[x] = FALSE
      /\ Helper!NoOwner = [x \in DOMAIN Helper!NoOwner |-> Helper!NoOwner[x]]
  BY DEF Helper!NoOwner
<1>3. Helper!NoReceipt \in [DOMAIN Helper!NoReceipt -> BOOLEAN]
  BY <1>1
<1>4. Helper!NoOwner \in [DOMAIN Helper!NoOwner -> BOOLEAN]
  BY <1>2
<1> QED
  BY <1>1, <1>2, <1>3, <1>4

LEMMA HelperTypeParts == Helper!TypeOK <=> HelperTyped /\ HelperCounted
BY DEF Helper!TypeOK, HelperTyped, HelperCounted

LEMMA HelperInitHolds ==
  ASSUME HelperBounds, Helper!Init
  PROVE  HelperInv
<1>1. HelperTyped
  BY HelperFields DEF Helper!Init, HelperTyped, Helper!Labels, Helper!Errors, Helper!Outcomes
<1>3. HelperCounted
  BY DEF HelperBounds, Helper!Init, HelperCounted
<1>2. Receipts /\ HelperCustody /\ Descriptors /\ Silence
  BY HelperFields DEF Helper!Init, Receipts, HelperCustody, Descriptors, Silence,
     Helper!MayHaveChild, Helper!ProvenMeansGone, Helper!CarriesOwner, Straight, Settling,
     Helper!Ends, Away
<1> QED
  BY <1>1, <1>2, <1>3, HelperTypeParts DEF HelperInv

(* Where an exception takes the parent, and what it carries. *)
LEMMA RaiseTyped ==
  ASSUME HelperTyped, HelperCounted, HelperCustody, NEW e \in {"fault", "interrupt"}, Helper!Raise(e)
  PROVE  /\ at' \in Helper!Labels /\ failure' \in Helper!Errors /\ after' \in {"fork-exec", "exit"}
         /\ latched' \in BOOLEAN /\ reported' \in BOOLEAN
         /\ (reported => reported') /\ (Helper!CarriesOwner' => reported')
<1>1. {"exit", "out", "settle", "kill", "term", "end"} \subseteq Helper!Labels
  BY DEF Helper!Labels
<1>2. at' \in Helper!Labels
  BY <1>1 DEF Helper!Raise, HelperTyped
<1>3. failure' \in Helper!Errors
  BY DEF Helper!Raise, HelperTyped, Helper!Errors
<1>4. after' \in {"fork-exec", "exit"}
  BY DEF Helper!Raise, HelperTyped
<1>5. latched' \in BOOLEAN /\ reported' \in BOOLEAN
  BY DEF Helper!Raise, HelperTyped
<1>6. (reported => reported') /\ (Helper!CarriesOwner' => reported')
  BY DEF Helper!Raise, Helper!CarriesOwner, HelperTyped
<1> QED
  BY <1>2, <1>3, <1>4, <1>5, <1>6

LEMMA RaiseGoes ==
  ASSUME HelperTyped, HelperCounted, HelperCustody, NEW e \in {"fault", "interrupt"}, Helper!Raise(e)
  PROVE  /\ at \in Helper!InForkExec => at' = "settle" /\ failure' = e /\ after' = "fork-exec"
         /\ at \notin Helper!InForkExec => after' = after
         /\ at \in Helper!InSettle => at' = Helper!Returned /\ (at # "identify-read" => failure' = e)
         /\ at = "identify-read" => failure' = "ownership-unproven"
         /\ at \in Helper!InAttempt =>
              \/ at' = "kill" /\ attempt' = 2 /\ failure' = failure
              \/ at' = Helper!Returned /\ failure' = "closure-unproven"
         /\ at \in {"pipe", "publish", "transfer"} => at' = "exit" /\ failure' = e
         /\ at = "exit" => at' = "out" /\ failure' = e
         /\ at \in {"await", "use"} => at' = "term" /\ attempt' = 1 /\ failure' = e
         /\ at \in Helper!InDirect => failure' = failure /\ ((at' = "term" /\ attempt' = 2)
              \/ (at' = "end" /\ latched'))
         /\ attempt' \in 0..2
<1>1. at \in Helper!InForkExec => at' = "settle" /\ failure' = e /\ after' = "fork-exec"
  BY DEF Helper!Raise
<1>2. at \notin Helper!InForkExec => after' = after
  BY DEF Helper!Raise
<1>3. at \in Helper!InSettle => at' = Helper!Returned /\ (at # "identify-read" => failure' = e)
  BY DEF Helper!Raise, Helper!Returned
<1>4. at = "identify-read" => failure' = "ownership-unproven"
  BY DEF Helper!Raise
<1>5. at \in Helper!InAttempt \cup Helper!InDirect => attempt \in 1..2
  BY DEF HelperCustody, Settling
<1>6. ASSUME at \in Helper!InAttempt
      PROVE  \/ at' = "kill" /\ attempt' = 2 /\ failure' = failure
             \/ at' = Helper!Returned /\ failure' = "closure-unproven"
  <2>1. /\ at \notin Helper!InForkExec \cup Helper!InSettle \cup Helper!InDirect
             \cup {"pipe", "publish", "transfer", "exit", "await", "use"}
        /\ at # "identify-read"
    BY <1>6
  <2>2. CASE attempt = 1
    BY <1>6, <2>1, <2>2 DEF Helper!Raise, Helper!NextAttempt
  <2>3. CASE attempt = 2
    BY <1>6, <2>1, <2>3 DEF Helper!Raise, Helper!Returned
  <2> QED
    BY <1>5, <1>6, <2>2, <2>3
<1>7. at \in {"pipe", "publish", "transfer"} => at' = "exit" /\ failure' = e
  BY DEF Helper!Raise
<1>8. at = "exit" => at' = "out" /\ failure' = e
  BY DEF Helper!Raise
<1>9. at \in {"await", "use"} => at' = "term" /\ attempt' = 1 /\ failure' = e
  BY DEF Helper!Raise, Helper!NextAttempt
<1>10. ASSUME at \in Helper!InDirect
       PROVE  failure' = failure /\ ((at' = "term" /\ attempt' = 2) \/ (at' = "end" /\ latched'))
  <2>1. /\ at \notin Helper!InForkExec \cup Helper!InSettle \cup Helper!InAttempt
             \cup {"pipe", "publish", "transfer", "exit", "await", "use"}
        /\ at # "identify-read"
    BY <1>10
  <2>2. failure' = failure
    BY <1>10, <2>1 DEF Helper!Raise
  <2>3. CASE attempt = 1
    BY <1>10, <2>1, <2>2, <2>3 DEF Helper!Raise, Helper!NextAttempt
  <2>4. CASE attempt = 2
    <3>1. at' = "end"
      BY <1>10, <2>1, <2>4 DEF Helper!Raise
    <3>2. latched'
      BY <1>10, <2>4 DEF Helper!Raise
    <3> QED
      BY <2>2, <3>1, <3>2
  <2> QED
    BY <1>5, <1>10, <2>3, <2>4
<1>11. attempt' \in 0..2
  BY DEF Helper!Raise, Helper!NextAttempt, HelperCounted
<1> QED
  BY <1>1, <1>2, <1>3, <1>4, <1>6, <1>7, <1>8, <1>9, <1>10, <1>11

(* Types. *)
LEMMA TypedKept ==
  ASSUME HelperBounds, HelperTyped, HelperCounted, HelperCustody, Helper!Next
  PROVE  HelperTyped'
<1>1. slip' \in [DOMAIN Helper!NoReceipt -> BOOLEAN] /\ keeper' \in [DOMAIN Helper!NoOwner -> BOOLEAN]
  BY HelperFields DEF HelperTyped, Helper!Spawn, Helper!OpenPipe, Helper!PublishReceipt,
     Helper!StartForkCall, Helper!ForkCall, Helper!ReadReceipt, Helper!StartIdentity,
     Helper!BindReturnedPid, Helper!Transfer, Helper!CloseWrite, Helper!CloseUnusedWrite,
     Helper!CloseUnusedRead, Helper!Identify, Helper!SettleCloseWrite, Helper!SettleCloseRead,
     Helper!Settle, Helper!IdentifyRead, Helper!Kill, Helper!Wait, Helper!EmptyGroup, Helper!Reap,
     Helper!Prove, Helper!Exit, Helper!LeaveScope, Helper!AwaitExec, Helper!Use, Helper!Term,
     Helper!TermWait, Helper!TermReap, Helper!Return, Helper!Interrupt, Helper!Child,
     Helper!ReuseInteger, Helper!ChildEnds, Helper!ChildExec, Helper!ChildForks,
     Helper!ChildReceipt, Helper!CloseEnd, Helper!CloseStep, Helper!CloseTrying, Helper!Fault,
     Helper!Interruptible, Helper!Killed, Helper!Released, Helper!Returned, Helper!Settled,
     Helper!Next, Helper!Parent
<1>2. ownGroup' \in BOOLEAN /\ kin' \in BOOLEAN /\ wrote' \in BOOLEAN /\ reported' \in BOOLEAN
           /\ latched' \in BOOLEAN
  BY RaiseTyped DEF HelperTyped, Helper!Spawn, Helper!OpenPipe, Helper!PublishReceipt,
     Helper!StartForkCall, Helper!ForkCall, Helper!ReadReceipt, Helper!StartIdentity,
     Helper!BindReturnedPid, Helper!Transfer, Helper!CloseWrite, Helper!CloseUnusedWrite,
     Helper!CloseUnusedRead, Helper!Identify, Helper!SettleCloseWrite, Helper!SettleCloseRead,
     Helper!Settle, Helper!IdentifyRead, Helper!Kill, Helper!Wait, Helper!EmptyGroup, Helper!Reap,
     Helper!Prove, Helper!Exit, Helper!LeaveScope, Helper!AwaitExec, Helper!Use, Helper!Term,
     Helper!TermWait, Helper!TermReap, Helper!Return, Helper!Interrupt, Helper!Child,
     Helper!ReuseInteger, Helper!ChildEnds, Helper!ChildExec, Helper!ChildForks,
     Helper!ChildReceipt, Helper!CloseEnd, Helper!CloseStep, Helper!CloseTrying, Helper!Fault,
     Helper!Interruptible, Helper!Killed, Helper!Released, Helper!Returned, Helper!Settled,
     Helper!Next, Helper!Parent
<1>3. starter' \in Callers /\ failure' \in Helper!Errors /\ after' \in {"fork-exec", "exit"}
  BY RaiseTyped DEF HelperTyped, Helper!Errors, Helper!Spawn, Helper!OpenPipe,
     Helper!PublishReceipt, Helper!StartForkCall, Helper!ForkCall, Helper!ReadReceipt,
     Helper!StartIdentity, Helper!BindReturnedPid, Helper!Transfer, Helper!CloseWrite,
     Helper!CloseUnusedWrite, Helper!CloseUnusedRead, Helper!Identify, Helper!SettleCloseWrite,
     Helper!SettleCloseRead, Helper!Settle, Helper!IdentifyRead, Helper!Kill, Helper!Wait,
     Helper!EmptyGroup, Helper!Reap, Helper!Prove, Helper!Exit, Helper!LeaveScope,
     Helper!AwaitExec, Helper!Use, Helper!Term, Helper!TermWait, Helper!TermReap, Helper!Return,
     Helper!Interrupt, Helper!Child, Helper!ReuseInteger, Helper!ChildEnds, Helper!ChildExec,
     Helper!ChildForks, Helper!ChildReceipt, Helper!CloseEnd, Helper!CloseStep,
     Helper!CloseTrying, Helper!Fault, Helper!Interruptible, Helper!Killed, Helper!Released,
     Helper!Returned, Helper!Settled, Helper!Next, Helper!Parent
<1>4. closes' \in [Helper!Ends -> Helper!Outcomes]
           /\ slots' \in [Helper!Ends -> {"none", "open", "closed", "reused", "stolen"}]
  <2>1. CASE Helper!Spawn \/ Helper!OpenPipe
    BY <2>1 DEF Helper!Spawn, Helper!OpenPipe, Helper!Fault, HelperTyped, Helper!Outcomes
  <2>2. CASE Helper!CloseWrite \/ Helper!CloseUnusedWrite \/ Helper!CloseUnusedRead
                  \/ Helper!Identify \/ Helper!SettleCloseWrite \/ Helper!SettleCloseRead
    BY <2>2 DEF Helper!CloseWrite, Helper!CloseUnusedWrite, Helper!CloseUnusedRead,
       Helper!Identify, Helper!SettleCloseWrite, Helper!SettleCloseRead, Helper!CloseStep,
       Helper!CloseEnd, Helper!CloseTrying, Helper!Released, HelperTyped, Helper!Outcomes,
       Helper!Ends
  <2>3. CASE Helper!AwaitExec
    BY <2>3 DEF Helper!AwaitExec, Helper!CloseEnd, Helper!CloseTrying, Helper!Released,
       HelperTyped, Helper!Outcomes, Helper!Ends
  <2>4. CASE Helper!ReuseInteger
    BY <2>4 DEF Helper!ReuseInteger, HelperTyped
  <2>5. CASE UNCHANGED Helper!pipes
    BY <2>5 DEF HelperTyped
  <2>6. \/ Helper!Spawn \/ Helper!OpenPipe \/ Helper!CloseWrite \/ Helper!CloseUnusedWrite
             \/ Helper!CloseUnusedRead \/ Helper!Identify
        \/ Helper!SettleCloseWrite \/ Helper!SettleCloseRead \/ Helper!AwaitExec
             \/ Helper!ReuseInteger \/ UNCHANGED Helper!pipes
    BY DEF Helper!Spawn, Helper!OpenPipe, Helper!PublishReceipt, Helper!StartForkCall,
       Helper!ForkCall, Helper!ReadReceipt, Helper!StartIdentity, Helper!BindReturnedPid,
       Helper!Transfer, Helper!CloseWrite, Helper!CloseUnusedWrite, Helper!CloseUnusedRead,
       Helper!Identify, Helper!SettleCloseWrite, Helper!SettleCloseRead, Helper!Settle,
       Helper!IdentifyRead, Helper!Kill, Helper!Wait, Helper!EmptyGroup, Helper!Reap,
       Helper!Prove, Helper!Exit, Helper!LeaveScope, Helper!AwaitExec, Helper!Use, Helper!Term,
       Helper!TermWait, Helper!TermReap, Helper!Return, Helper!Interrupt, Helper!Child,
       Helper!ReuseInteger, Helper!ChildEnds, Helper!ChildExec, Helper!ChildForks,
       Helper!ChildReceipt, Helper!CloseEnd, Helper!CloseStep, Helper!CloseTrying, Helper!Fault,
       Helper!Interruptible, Helper!Killed, Helper!Released, Helper!Returned, Helper!Settled,
       Helper!Next, Helper!Parent
  <2> QED
    BY <2>1, <2>2, <2>3, <2>4, <2>5, <2>6
<1>5. CASE Helper!Spawn \/ Helper!OpenPipe \/ Helper!PublishReceipt \/ Helper!StartForkCall
  BY <1>5, <1>1, <1>2, <1>3, <1>4, RaiseTyped DEF Helper!Spawn, Helper!OpenPipe,
     Helper!PublishReceipt, Helper!StartForkCall, Helper!Fault, HelperTyped, Helper!Labels,
     Helper!Errors, Helper!Alive
<1>6. CASE Helper!ForkCall
  BY <1>6, <1>1, <1>2, <1>3, <1>4, RaiseTyped DEF Helper!ForkCall, Helper!Fault, HelperTyped,
     Helper!Labels, Helper!Errors, Helper!Alive
<1>7. CASE Helper!ReadReceipt \/ Helper!StartIdentity
  BY <1>7, <1>1, <1>2, <1>3, <1>4, RaiseTyped DEF Helper!ReadReceipt, Helper!StartIdentity,
     Helper!Fault, HelperTyped, Helper!Labels, Helper!Errors, Helper!Alive
<1>8. CASE Helper!BindReturnedPid \/ Helper!Transfer
  BY <1>8, <1>1, <1>2, <1>3, <1>4, RaiseTyped DEF Helper!BindReturnedPid, Helper!Transfer,
     HelperTyped, Helper!Labels, Helper!Errors, Helper!Alive
<1>9. CASE Helper!CloseWrite \/ Helper!CloseUnusedWrite \/ Helper!CloseUnusedRead
                \/ Helper!Identify \/ Helper!SettleCloseWrite \/ Helper!SettleCloseRead
  BY <1>9, <1>1, <1>2, <1>3, <1>4, RaiseTyped DEF Helper!CloseWrite, Helper!CloseUnusedWrite,
     Helper!CloseUnusedRead, Helper!Identify, Helper!SettleCloseWrite, Helper!SettleCloseRead,
     Helper!CloseStep, Helper!CloseEnd, Helper!CloseTrying, Helper!Released, Helper!Returned,
     HelperTyped, Helper!Labels, Helper!Errors, Helper!Alive
<1>10. CASE Helper!Settle \/ Helper!IdentifyRead \/ Helper!Kill \/ Helper!Wait
                 \/ Helper!EmptyGroup \/ Helper!Reap \/ Helper!Prove
  BY <1>10, <1>1, <1>2, <1>3, <1>4, RaiseTyped DEF Helper!Settle, Helper!IdentifyRead,
     Helper!Kill, Helper!Wait, Helper!EmptyGroup, Helper!Reap, Helper!Prove, Helper!Settled,
     Helper!Returned, Helper!Fault, Helper!Killed, HelperTyped, Helper!Labels, Helper!Errors,
     Helper!Alive
<1>11. CASE Helper!Exit \/ Helper!LeaveScope \/ Helper!AwaitExec \/ Helper!Use
  BY <1>11, <1>1, <1>2, <1>3, <1>4, RaiseTyped DEF Helper!Exit, Helper!LeaveScope,
     Helper!AwaitExec, Helper!Use, Helper!CloseEnd, Helper!CloseTrying, Helper!Released,
     Helper!Fault, HelperTyped, Helper!Labels, Helper!Errors, Helper!Alive
<1>12. CASE Helper!Term \/ Helper!TermWait \/ Helper!TermReap \/ Helper!Return
  BY <1>12, <1>1, <1>2, <1>3, <1>4, RaiseTyped DEF Helper!Term, Helper!TermWait, Helper!TermReap,
     Helper!Return, Helper!Fault, Helper!Killed, HelperTyped, Helper!Labels, Helper!Errors,
     Helper!Alive
<1>13. CASE Helper!Interrupt
  BY <1>13, <1>1, <1>2, <1>3, <1>4, RaiseTyped DEF Helper!Interrupt, Helper!Interruptible,
     Helper!Returned, HelperTyped, Helper!Labels, Helper!Errors, Helper!Alive
<1>14. CASE Helper!Child \/ Helper!ReuseInteger
  BY <1>14, <1>1, <1>2, <1>3, <1>4, RaiseTyped DEF Helper!Child, Helper!ReuseInteger,
     Helper!ChildReceipt, Helper!ChildExec, Helper!ChildForks, Helper!ChildEnds, HelperTyped,
     Helper!Labels, Helper!Errors, Helper!Alive
<1> QED
  BY <1>5, <1>6, <1>7, <1>8, <1>9, <1>10, <1>11, <1>12, <1>13, <1>14 DEF Helper!Next, Helper!Parent

(* Bounds. *)
LEMMA CountedKept ==
  ASSUME HelperBounds, HelperTyped, HelperCounted, Receipts, HelperCustody, Descriptors, Silence, Helper!Next
  PROVE  HelperCounted'
<1>1. CASE Helper!Spawn \/ Helper!OpenPipe \/ Helper!PublishReceipt \/ Helper!StartForkCall
  BY <1>1, RaiseGoes DEF Helper!Spawn, Helper!OpenPipe, Helper!PublishReceipt,
     Helper!StartForkCall, Helper!Fault, HelperCounted, HelperBounds, Helper!NextAttempt
<1>2. CASE Helper!ForkCall
  BY <1>2, RaiseGoes DEF Helper!ForkCall, Helper!Fault, HelperCounted, HelperBounds,
     Helper!NextAttempt
<1>3. CASE Helper!ReadReceipt \/ Helper!StartIdentity
  BY <1>3, RaiseGoes DEF Helper!ReadReceipt, Helper!StartIdentity, Helper!Fault, HelperCounted,
     HelperBounds, Helper!NextAttempt
<1>4. CASE Helper!BindReturnedPid \/ Helper!Transfer
  BY <1>4, RaiseGoes DEF Helper!BindReturnedPid, Helper!Transfer, HelperCounted, HelperBounds,
     Helper!NextAttempt
<1>5. CASE Helper!CloseWrite \/ Helper!CloseUnusedWrite \/ Helper!CloseUnusedRead
                \/ Helper!Identify \/ Helper!SettleCloseWrite \/ Helper!SettleCloseRead
  BY <1>5, RaiseGoes DEF Helper!CloseWrite, Helper!CloseUnusedWrite, Helper!CloseUnusedRead,
     Helper!Identify, Helper!SettleCloseWrite, Helper!SettleCloseRead, Helper!CloseStep,
     Helper!CloseEnd, Helper!CloseTrying, Helper!Released, Helper!Returned, HelperCounted,
     HelperBounds, Helper!NextAttempt
<1>6. CASE Helper!Settle \/ Helper!IdentifyRead \/ Helper!Kill \/ Helper!Wait
                \/ Helper!EmptyGroup \/ Helper!Reap \/ Helper!Prove
  BY <1>6, RaiseGoes DEF Helper!Settle, Helper!IdentifyRead, Helper!Kill, Helper!Wait,
     Helper!EmptyGroup, Helper!Reap, Helper!Prove, Helper!Settled, Helper!Returned, Helper!Fault,
     Helper!Killed, HelperCounted, HelperBounds, Helper!NextAttempt
<1>7. CASE Helper!Exit \/ Helper!LeaveScope \/ Helper!AwaitExec \/ Helper!Use
  BY <1>7, RaiseGoes DEF Helper!Exit, Helper!LeaveScope, Helper!AwaitExec, Helper!Use,
     Helper!CloseEnd, Helper!CloseTrying, Helper!Released, Helper!Fault, HelperCounted,
     HelperBounds, Helper!NextAttempt
<1>8. CASE Helper!Term \/ Helper!TermWait \/ Helper!TermReap \/ Helper!Return
  BY <1>8, RaiseGoes DEF Helper!Term, Helper!TermWait, Helper!TermReap, Helper!Return,
     Helper!Fault, Helper!Killed, HelperCounted, HelperBounds, Helper!NextAttempt
<1>9. CASE Helper!Interrupt
  BY <1>9, RaiseGoes DEF Helper!Interrupt, Helper!Interruptible, Helper!Returned, HelperCounted,
     HelperBounds, Helper!NextAttempt
<1>10. CASE Helper!Child \/ Helper!ReuseInteger
  BY <1>10, RaiseGoes DEF Helper!Child, Helper!ReuseInteger, Helper!ChildReceipt,
     Helper!ChildExec, Helper!ChildForks, Helper!ChildEnds, HelperCounted, HelperBounds,
     Helper!NextAttempt
<1> QED
  BY <1>1, <1>2, <1>3, <1>4, <1>5, <1>6, <1>7, <1>8, <1>9, <1>10 DEF Helper!Next, Helper!Parent

(* The receipt. *)
LEMMA ReceiptsKept ==
  ASSUME HelperBounds, HelperTyped, HelperCounted, Receipts, HelperCustody, Descriptors, Silence, Helper!Next
  PROVE  Receipts'
<1>1. CASE Helper!Spawn \/ Helper!OpenPipe \/ Helper!PublishReceipt \/ Helper!StartForkCall
  BY <1>1, HelperFields, RaiseTyped, RaiseGoes DEF Helper!Spawn, Helper!OpenPipe,
     Helper!PublishReceipt, Helper!StartForkCall, Helper!Fault, Receipts, HelperCustody,
     HelperTyped, Helper!MayHaveChild, Helper!Alive
<1>2. CASE Helper!ForkCall
  BY <1>2, HelperFields, RaiseTyped, RaiseGoes DEF Helper!ForkCall, Helper!Fault, Receipts,
     HelperCustody, HelperTyped, Helper!MayHaveChild, Helper!Alive
<1>3. CASE Helper!ReadReceipt \/ Helper!StartIdentity
  BY <1>3, HelperFields, RaiseTyped, RaiseGoes DEF Helper!ReadReceipt, Helper!StartIdentity,
     Helper!Fault, Receipts, HelperCustody, HelperTyped, Helper!MayHaveChild, Helper!Alive
<1>4. CASE Helper!BindReturnedPid \/ Helper!Transfer
  BY <1>4, HelperFields, RaiseTyped, RaiseGoes DEF Helper!BindReturnedPid, Helper!Transfer,
     Receipts, HelperCustody, HelperTyped, Helper!MayHaveChild, Helper!Alive
<1>5. CASE Helper!CloseWrite \/ Helper!CloseUnusedWrite \/ Helper!CloseUnusedRead
                \/ Helper!Identify \/ Helper!SettleCloseWrite \/ Helper!SettleCloseRead
  BY <1>5, HelperFields, RaiseTyped, RaiseGoes DEF Helper!CloseWrite, Helper!CloseUnusedWrite,
     Helper!CloseUnusedRead, Helper!Identify, Helper!SettleCloseWrite, Helper!SettleCloseRead,
     Helper!CloseStep, Helper!CloseEnd, Helper!CloseTrying, Helper!Released, Helper!Returned,
     Receipts, HelperCustody, HelperTyped, Helper!MayHaveChild, Helper!Alive
<1>6. CASE Helper!Settle \/ Helper!IdentifyRead \/ Helper!Kill \/ Helper!Wait
                \/ Helper!EmptyGroup \/ Helper!Reap \/ Helper!Prove
  BY <1>6, HelperFields, RaiseTyped, RaiseGoes DEF Helper!Settle, Helper!IdentifyRead,
     Helper!Kill, Helper!Wait, Helper!EmptyGroup, Helper!Reap, Helper!Prove, Helper!Settled,
     Helper!Returned, Helper!Fault, Helper!Killed, Receipts, HelperCustody, HelperTyped,
     Helper!MayHaveChild, Helper!Alive
<1>7. CASE Helper!Exit \/ Helper!LeaveScope \/ Helper!AwaitExec \/ Helper!Use
  BY <1>7, HelperFields, RaiseTyped, RaiseGoes DEF Helper!Exit, Helper!LeaveScope,
     Helper!AwaitExec, Helper!Use, Helper!CloseEnd, Helper!CloseTrying, Helper!Released,
     Helper!Fault, Receipts, HelperCustody, HelperTyped, Helper!MayHaveChild, Helper!Alive
<1>8. CASE Helper!Term \/ Helper!TermWait \/ Helper!TermReap \/ Helper!Return
  BY <1>8, HelperFields, RaiseTyped, RaiseGoes DEF Helper!Term, Helper!TermWait, Helper!TermReap,
     Helper!Return, Helper!Fault, Helper!Killed, Receipts, HelperCustody, HelperTyped,
     Helper!MayHaveChild, Helper!Alive
<1>9. CASE Helper!Interrupt
  BY <1>9, HelperFields, RaiseTyped, RaiseGoes DEF Helper!Interrupt, Helper!Interruptible,
     Helper!Returned, Receipts, HelperCustody, HelperTyped, Helper!MayHaveChild, Helper!Alive
<1>10. CASE Helper!Child \/ Helper!ReuseInteger
  BY <1>10, HelperFields, RaiseTyped, RaiseGoes DEF Helper!Child, Helper!ReuseInteger,
     Helper!ChildReceipt, Helper!ChildExec, Helper!ChildForks, Helper!ChildEnds, Receipts,
     HelperCustody, HelperTyped, Helper!MayHaveChild, Helper!Alive
<1> QED
  BY <1>1, <1>2, <1>3, <1>4, <1>5, <1>6, <1>7, <1>8, <1>9, <1>10 DEF Helper!Next, Helper!Parent

(* The child. *)
LEMMA CustodyKept ==
  ASSUME HelperBounds, HelperTyped, HelperCounted, Receipts, HelperCustody, Descriptors, Silence, Helper!Next
  PROVE  HelperCustody'
<1>1. CASE Helper!Spawn \/ Helper!OpenPipe \/ Helper!PublishReceipt \/ Helper!StartForkCall
  BY <1>1, HelperFields, RaiseTyped, RaiseGoes DEF Helper!Spawn, Helper!OpenPipe,
     Helper!PublishReceipt, Helper!StartForkCall, Helper!Fault, Receipts, HelperCustody,
     HelperTyped, Helper!ProvenMeansGone, Helper!CarriesOwner, Helper!MayHaveChild, Straight,
     Settling, Helper!Alive, Helper!Errors
<1>2. CASE Helper!ForkCall
  BY <1>2, HelperFields, RaiseTyped, RaiseGoes DEF Helper!ForkCall, Helper!Fault, Receipts,
     HelperCustody, HelperTyped, Helper!ProvenMeansGone, Helper!CarriesOwner, Helper!MayHaveChild,
     Straight, Settling, Helper!Alive, Helper!Errors
<1>3. CASE Helper!ReadReceipt \/ Helper!StartIdentity
  BY <1>3, HelperFields, RaiseTyped, RaiseGoes DEF Helper!ReadReceipt, Helper!StartIdentity,
     Helper!Fault, Receipts, HelperCustody, HelperTyped, Helper!ProvenMeansGone,
     Helper!CarriesOwner, Helper!MayHaveChild, Straight, Settling, Helper!Alive, Helper!Errors
<1>4. CASE Helper!BindReturnedPid \/ Helper!Transfer
  BY <1>4, HelperFields, RaiseTyped, RaiseGoes DEF Helper!BindReturnedPid, Helper!Transfer,
     Receipts, HelperCustody, HelperTyped, Helper!ProvenMeansGone, Helper!CarriesOwner,
     Helper!MayHaveChild, Straight, Settling, Helper!Alive, Helper!Errors
<1>5. CASE Helper!CloseWrite \/ Helper!CloseUnusedWrite \/ Helper!CloseUnusedRead
                \/ Helper!Identify \/ Helper!SettleCloseWrite \/ Helper!SettleCloseRead
  BY <1>5, HelperFields, RaiseTyped, RaiseGoes DEF Helper!CloseWrite, Helper!CloseUnusedWrite,
     Helper!CloseUnusedRead, Helper!Identify, Helper!SettleCloseWrite, Helper!SettleCloseRead,
     Helper!CloseStep, Helper!CloseEnd, Helper!CloseTrying, Helper!Released, Helper!Returned,
     Receipts, HelperCustody, HelperTyped, Helper!ProvenMeansGone, Helper!CarriesOwner,
     Helper!MayHaveChild, Straight, Settling, Helper!Alive, Helper!Errors
<1>6. CASE Helper!Settle \/ Helper!IdentifyRead \/ Helper!Kill \/ Helper!Wait
                \/ Helper!EmptyGroup \/ Helper!Reap \/ Helper!Prove
  BY <1>6, HelperFields, RaiseTyped, RaiseGoes DEF Helper!Settle, Helper!IdentifyRead,
     Helper!Kill, Helper!Wait, Helper!EmptyGroup, Helper!Reap, Helper!Prove, Helper!Settled,
     Helper!Returned, Helper!Fault, Helper!Killed, Receipts, HelperCustody, HelperTyped,
     Helper!ProvenMeansGone, Helper!CarriesOwner, Helper!MayHaveChild, Straight, Settling,
     Helper!Alive, Helper!Errors
<1>7. CASE Helper!Exit \/ Helper!LeaveScope \/ Helper!AwaitExec \/ Helper!Use
  BY <1>7, HelperFields, RaiseTyped, RaiseGoes DEF Helper!Exit, Helper!LeaveScope,
     Helper!AwaitExec, Helper!Use, Helper!CloseEnd, Helper!CloseTrying, Helper!Released,
     Helper!Fault, Receipts, HelperCustody, HelperTyped, Helper!ProvenMeansGone,
     Helper!CarriesOwner, Helper!MayHaveChild, Straight, Settling, Helper!Alive, Helper!Errors
<1>8. CASE Helper!Term \/ Helper!TermWait \/ Helper!TermReap \/ Helper!Return
  BY <1>8, HelperFields, RaiseTyped, RaiseGoes DEF Helper!Term, Helper!TermWait, Helper!TermReap,
     Helper!Return, Helper!Fault, Helper!Killed, Receipts, HelperCustody, HelperTyped,
     Helper!ProvenMeansGone, Helper!CarriesOwner, Helper!MayHaveChild, Straight, Settling,
     Helper!Alive, Helper!Errors
<1>9. CASE Helper!Interrupt
  BY <1>9, HelperFields, RaiseTyped, RaiseGoes DEF Helper!Interrupt, Helper!Interruptible,
     Helper!Returned, Receipts, HelperCustody, HelperTyped, Helper!ProvenMeansGone,
     Helper!CarriesOwner, Helper!MayHaveChild, Straight, Settling, Helper!Alive, Helper!Errors
<1>10. CASE Helper!Child \/ Helper!ReuseInteger
  BY <1>10, HelperFields, RaiseTyped, RaiseGoes DEF Helper!Child, Helper!ReuseInteger,
     Helper!ChildReceipt, Helper!ChildExec, Helper!ChildForks, Helper!ChildEnds, Receipts,
     HelperCustody, HelperTyped, Helper!ProvenMeansGone, Helper!CarriesOwner, Helper!MayHaveChild,
     Straight, Settling, Helper!Alive, Helper!Errors
<1> QED
  BY <1>1, <1>2, <1>3, <1>4, <1>5, <1>6, <1>7, <1>8, <1>9, <1>10 DEF Helper!Next, Helper!Parent

(* The pipe. *)
LEMMA DescriptorsKept ==
  ASSUME HelperBounds, HelperTyped, HelperCounted, Receipts, HelperCustody, Descriptors, Silence, Helper!Next
  PROVE  Descriptors'
<1>1. CASE Helper!Spawn \/ Helper!OpenPipe \/ Helper!PublishReceipt \/ Helper!StartForkCall
  BY <1>1, HelperFields, RaiseTyped, RaiseGoes DEF Helper!Spawn, Helper!OpenPipe,
     Helper!PublishReceipt, Helper!StartForkCall, Helper!Fault, HelperCustody, Descriptors,
     HelperTyped, Straight, Settling, Helper!Ends, Helper!Outcomes
<1>2. CASE Helper!ForkCall
  BY <1>2, HelperFields, RaiseTyped, RaiseGoes DEF Helper!ForkCall, Helper!Fault, HelperCustody,
     Descriptors, HelperTyped, Straight, Settling, Helper!Ends, Helper!Outcomes
<1>3. CASE Helper!ReadReceipt \/ Helper!StartIdentity
  BY <1>3, HelperFields, RaiseTyped, RaiseGoes DEF Helper!ReadReceipt, Helper!StartIdentity,
     Helper!Fault, HelperCustody, Descriptors, HelperTyped, Straight, Settling, Helper!Ends,
     Helper!Outcomes
<1>4. CASE Helper!BindReturnedPid \/ Helper!Transfer
  BY <1>4, HelperFields, RaiseTyped, RaiseGoes DEF Helper!BindReturnedPid, Helper!Transfer,
     HelperCustody, Descriptors, HelperTyped, Straight, Settling, Helper!Ends, Helper!Outcomes
<1>5. CASE Helper!CloseWrite \/ Helper!CloseUnusedWrite \/ Helper!CloseUnusedRead
                \/ Helper!Identify \/ Helper!SettleCloseWrite \/ Helper!SettleCloseRead
  BY <1>5, HelperFields, RaiseTyped, RaiseGoes DEF Helper!CloseWrite, Helper!CloseUnusedWrite,
     Helper!CloseUnusedRead, Helper!Identify, Helper!SettleCloseWrite, Helper!SettleCloseRead,
     Helper!CloseStep, Helper!CloseEnd, Helper!CloseTrying, Helper!Released, Helper!Returned,
     HelperCustody, Descriptors, HelperTyped, Straight, Settling, Helper!Ends, Helper!Outcomes
<1>6. CASE Helper!Settle \/ Helper!IdentifyRead \/ Helper!Kill \/ Helper!Wait
                \/ Helper!EmptyGroup \/ Helper!Reap \/ Helper!Prove
  BY <1>6, HelperFields, RaiseTyped, RaiseGoes DEF Helper!Settle, Helper!IdentifyRead,
     Helper!Kill, Helper!Wait, Helper!EmptyGroup, Helper!Reap, Helper!Prove, Helper!Settled,
     Helper!Returned, Helper!Fault, Helper!Killed, HelperCustody, Descriptors, HelperTyped,
     Straight, Settling, Helper!Ends, Helper!Outcomes
<1>7. CASE Helper!Exit \/ Helper!LeaveScope \/ Helper!AwaitExec \/ Helper!Use
  BY <1>7, HelperFields, RaiseTyped, RaiseGoes DEF Helper!Exit, Helper!LeaveScope,
     Helper!AwaitExec, Helper!Use, Helper!CloseEnd, Helper!CloseTrying, Helper!Released,
     Helper!Fault, HelperCustody, Descriptors, HelperTyped, Straight, Settling, Helper!Ends,
     Helper!Outcomes
<1>8. CASE Helper!Term \/ Helper!TermWait \/ Helper!TermReap \/ Helper!Return
  BY <1>8, HelperFields, RaiseTyped, RaiseGoes DEF Helper!Term, Helper!TermWait, Helper!TermReap,
     Helper!Return, Helper!Fault, Helper!Killed, HelperCustody, Descriptors, HelperTyped,
     Straight, Settling, Helper!Ends, Helper!Outcomes
<1>9. CASE Helper!Interrupt
  BY <1>9, HelperFields, RaiseTyped, RaiseGoes DEF Helper!Interrupt, Helper!Interruptible,
     Helper!Returned, HelperCustody, Descriptors, HelperTyped, Straight, Settling, Helper!Ends,
     Helper!Outcomes
<1>10. CASE Helper!Child \/ Helper!ReuseInteger
  BY <1>10, HelperFields, RaiseTyped, RaiseGoes DEF Helper!Child, Helper!ReuseInteger,
     Helper!ChildReceipt, Helper!ChildExec, Helper!ChildForks, Helper!ChildEnds, HelperCustody,
     Descriptors, HelperTyped, Straight, Settling, Helper!Ends, Helper!Outcomes
<1> QED
  BY <1>1, <1>2, <1>3, <1>4, <1>5, <1>6, <1>7, <1>8, <1>9, <1>10 DEF Helper!Next, Helper!Parent

(* What has been said. *)
LEMMA SilenceKept ==
  ASSUME HelperBounds, HelperTyped, HelperCounted, Receipts, HelperCustody, Descriptors, Silence, Helper!Next
  PROVE  Silence'
<1>1. CASE Helper!Spawn \/ Helper!OpenPipe \/ Helper!PublishReceipt \/ Helper!StartForkCall
  BY <1>1, HelperFields, RaiseTyped, RaiseGoes DEF Helper!Spawn, Helper!OpenPipe,
     Helper!PublishReceipt, Helper!StartForkCall, Helper!Fault, Silence, HelperCustody, Receipts,
     Helper!ProvenMeansGone, HelperTyped, HelperCounted, Helper!CarriesOwner, Helper!MayHaveChild,
     Straight, Settling, Away, Helper!Alive, Helper!Errors
<1>2. CASE Helper!ForkCall
  BY <1>2, HelperFields, RaiseTyped, RaiseGoes DEF Helper!ForkCall, Helper!Fault, Silence,
     HelperCustody, Receipts, Helper!ProvenMeansGone, HelperTyped, HelperCounted,
     Helper!CarriesOwner, Helper!MayHaveChild, Straight, Settling, Away, Helper!Alive,
     Helper!Errors
<1>3. CASE Helper!ReadReceipt \/ Helper!StartIdentity
  BY <1>3, HelperFields, RaiseTyped, RaiseGoes DEF Helper!ReadReceipt, Helper!StartIdentity,
     Helper!Fault, Silence, HelperCustody, Receipts, Helper!ProvenMeansGone, HelperTyped,
     HelperCounted, Helper!CarriesOwner, Helper!MayHaveChild, Straight, Settling, Away,
     Helper!Alive, Helper!Errors
<1>4. CASE Helper!BindReturnedPid \/ Helper!Transfer
  BY <1>4, HelperFields, RaiseTyped, RaiseGoes DEF Helper!BindReturnedPid, Helper!Transfer,
     Silence, HelperCustody, Receipts, Helper!ProvenMeansGone, HelperTyped, HelperCounted,
     Helper!CarriesOwner, Helper!MayHaveChild, Straight, Settling, Away, Helper!Alive,
     Helper!Errors
<1>5. CASE Helper!CloseWrite \/ Helper!CloseUnusedWrite \/ Helper!CloseUnusedRead
                \/ Helper!Identify \/ Helper!SettleCloseWrite \/ Helper!SettleCloseRead
  BY <1>5, HelperFields, RaiseTyped, RaiseGoes DEF Helper!CloseWrite, Helper!CloseUnusedWrite,
     Helper!CloseUnusedRead, Helper!Identify, Helper!SettleCloseWrite, Helper!SettleCloseRead,
     Helper!CloseStep, Helper!CloseEnd, Helper!CloseTrying, Helper!Released, Helper!Returned,
     Silence, HelperCustody, Receipts, Helper!ProvenMeansGone, HelperTyped, HelperCounted,
     Helper!CarriesOwner, Helper!MayHaveChild, Straight, Settling, Away, Helper!Alive,
     Helper!Errors
<1>6. CASE Helper!Settle \/ Helper!IdentifyRead \/ Helper!Kill \/ Helper!Wait
                \/ Helper!EmptyGroup \/ Helper!Reap \/ Helper!Prove
  BY <1>6, HelperFields, RaiseTyped, RaiseGoes DEF Helper!Settle, Helper!IdentifyRead,
     Helper!Kill, Helper!Wait, Helper!EmptyGroup, Helper!Reap, Helper!Prove, Helper!Settled,
     Helper!Returned, Helper!Fault, Helper!Killed, Silence, HelperCustody, Receipts,
     Helper!ProvenMeansGone, HelperTyped, HelperCounted, Helper!CarriesOwner, Helper!MayHaveChild,
     Straight, Settling, Away, Helper!Alive, Helper!Errors
<1>7. CASE Helper!Exit \/ Helper!LeaveScope \/ Helper!AwaitExec \/ Helper!Use
  BY <1>7, HelperFields, RaiseTyped, RaiseGoes DEF Helper!Exit, Helper!LeaveScope,
     Helper!AwaitExec, Helper!Use, Helper!CloseEnd, Helper!CloseTrying, Helper!Released,
     Helper!Fault, Silence, HelperCustody, Receipts, Helper!ProvenMeansGone, HelperTyped,
     HelperCounted, Helper!CarriesOwner, Helper!MayHaveChild, Straight, Settling, Away,
     Helper!Alive, Helper!Errors
<1>8. CASE Helper!Term \/ Helper!TermWait \/ Helper!TermReap \/ Helper!Return
  BY <1>8, HelperFields, RaiseTyped, RaiseGoes DEF Helper!Term, Helper!TermWait, Helper!TermReap,
     Helper!Return, Helper!Fault, Helper!Killed, Silence, HelperCustody, Receipts,
     Helper!ProvenMeansGone, HelperTyped, HelperCounted, Helper!CarriesOwner, Helper!MayHaveChild,
     Straight, Settling, Away, Helper!Alive, Helper!Errors
<1>9. CASE Helper!Interrupt
  BY <1>9, HelperFields, RaiseTyped, RaiseGoes DEF Helper!Interrupt, Helper!Interruptible,
     Helper!Returned, Silence, HelperCustody, Receipts, Helper!ProvenMeansGone, HelperTyped,
     HelperCounted, Helper!CarriesOwner, Helper!MayHaveChild, Straight, Settling, Away,
     Helper!Alive, Helper!Errors
<1>10. CASE Helper!Child \/ Helper!ReuseInteger
  BY <1>10, HelperFields, RaiseTyped, RaiseGoes DEF Helper!Child, Helper!ReuseInteger,
     Helper!ChildReceipt, Helper!ChildExec, Helper!ChildForks, Helper!ChildEnds, Silence,
     HelperCustody, Receipts, Helper!ProvenMeansGone, HelperTyped, HelperCounted,
     Helper!CarriesOwner, Helper!MayHaveChild, Straight, Settling, Away, Helper!Alive,
     Helper!Errors
<1> QED
  BY <1>1, <1>2, <1>3, <1>4, <1>5, <1>6, <1>7, <1>8, <1>9, <1>10 DEF Helper!Next, Helper!Parent

LEMMA HelperStepKeeps ==
  ASSUME HelperBounds, HelperInv, [Helper!Next]_(Helper!vars)
  PROVE  HelperInv'
<1>1. HelperTyped /\ HelperCounted /\ Receipts /\ HelperCustody /\ Descriptors /\ Silence
  BY HelperTypeParts DEF HelperInv
<1>2. CASE Helper!Next
  <2>1. HelperTyped' /\ HelperCounted' /\ Receipts' /\ HelperCustody' /\ Descriptors' /\ Silence'
    BY <1>1, <1>2, TypedKept, CountedKept, ReceiptsKept, CustodyKept, DescriptorsKept, SilenceKept
  <2>2. Helper!TypeOK'
    BY <2>1 DEF Helper!TypeOK, HelperTyped, HelperCounted
  <2> QED
    BY <2>1, <2>2 DEF HelperInv
<1>3. CASE UNCHANGED Helper!vars
  <2>1. HelperTyped' /\ HelperCounted' /\ Receipts' /\ Descriptors'
    BY <1>1, <1>3 DEF Helper!vars, HelperTyped, HelperCounted, Receipts, Descriptors,
       Helper!MayHaveChild
  <2>2. HelperCustody' /\ Silence'
    BY <1>1, <1>3 DEF Helper!vars, HelperCustody, Silence, Helper!ProvenMeansGone,
       Helper!CarriesOwner
  <2>3. Helper!TypeOK'
    BY <2>1 DEF Helper!TypeOK, HelperTyped, HelperCounted
  <2> QED
    BY <2>1, <2>2, <2>3 DEF HelperInv
<1> QED
  BY <1>2, <1>3

(* What the invariant says of the properties.  With two interrupts, the     *)
(* second may hit the settlement of what the first one left.               *)
LEMMA HelperInvariantTells ==
  ASSUME HelperBounds, HelperInv
  PROVE  /\ Helper!TypeOK /\ Helper!ProvenMeansGone /\ Helper!NeverClosesForeign
         /\ breaks <= 1 => Helper!NoSilentChild
<1>1. Helper!TypeOK /\ Helper!ProvenMeansGone /\ Helper!NeverClosesForeign
  BY DEF HelperInv, HelperCustody, Descriptors, Helper!NeverClosesForeign
<1>2. ASSUME breaks <= 1 PROVE Helper!NoSilentChild
  <2>1. ~(breaks > 1)
    BY <1>2 DEF HelperInv, Helper!TypeOK, HelperBounds
  <2> QED
    BY <2>1 DEF HelperInv, Silence, Helper!NoSilentChild, Away
<1> QED
  BY <1>1, <1>2

LEMMA HelperFewInterrupts ==
  ASSUME HelperBounds, HelperInv, MaxBreaks <= 1
  PROVE  Helper!TypeOK /\ Helper!NoSilentChild /\ Helper!ProvenMeansGone /\ Helper!NeverClosesForeign
<1>1. breaks <= 1
  BY DEF HelperInv, Helper!TypeOK, HelperBounds
<1> QED
  BY <1>1, HelperInvariantTells

(* The latch is what keeps a new helper from being started beside one that  *)
(* may be alive.                                                           *)
LEMMA SpawnWaits ==
  ASSUME HelperBounds, HelperInv, MaxBreaks = 0, [Helper!Next]_(Helper!vars)
  PROVE  Helper!SpawnIsFenced
<1>1. breaks = 0
  BY DEF HelperInv, Helper!TypeOK
<1>2. at = "idle" /\ ~latched => helper \in {"none", "gone"}
  BY <1>1 DEF HelperInv, Silence, Away
<1>3. at = "idle" /\ at' = "pipe" => ~latched
  <2>1. CASE Helper!Spawn
    BY <2>1 DEF Helper!Spawn
  <2>2. CASE ~Helper!Spawn /\ at = "idle"
    BY <2>2 DEF Helper!vars, Helper!Spawn, Helper!OpenPipe, Helper!PublishReceipt,
       Helper!StartForkCall, Helper!ForkCall, Helper!ReadReceipt, Helper!StartIdentity,
       Helper!BindReturnedPid, Helper!Transfer, Helper!CloseWrite, Helper!CloseUnusedWrite,
       Helper!CloseUnusedRead, Helper!Identify, Helper!SettleCloseWrite, Helper!SettleCloseRead,
       Helper!Settle, Helper!IdentifyRead, Helper!Kill, Helper!Wait, Helper!EmptyGroup,
       Helper!Reap, Helper!Prove, Helper!Exit, Helper!LeaveScope, Helper!AwaitExec, Helper!Use,
       Helper!Term, Helper!TermWait, Helper!TermReap, Helper!Return, Helper!Interrupt,
       Helper!Child, Helper!ReuseInteger, Helper!ChildEnds, Helper!ChildExec, Helper!ChildForks,
       Helper!ChildReceipt, Helper!CloseEnd, Helper!CloseStep, Helper!CloseTrying, Helper!Fault,
       Helper!Interruptible, Helper!Killed, Helper!Released, Helper!Returned, Helper!Settled,
       Helper!Next, Helper!Parent
  <2> QED
    BY <2>1, <2>2
<1> QED
  BY <1>2, <1>3 DEF Helper!SpawnIsFenced

(* Whatever fails between fork and the end of a helper, and with at most   *)
(* one interrupt, at any step: no child is let go in silence, one that is   *)
(* called proven was reaped with its group, and no integer is closed that   *)
(* may be another's (process.py:231, 480).                                 *)
THEOREM ChildrenAreSettled ==
  ASSUME HelperBounds, MaxBreaks <= 1
  PROVE  Helper!Spec => [](Helper!TypeOK /\ Helper!NoSilentChild /\ Helper!ProvenMeansGone
              /\ Helper!NeverClosesForeign)
<1>1. Helper!Init => HelperInv
  BY HelperInitHolds
<1>2. HelperInv /\ [Helper!Next]_(Helper!vars) => HelperInv'
  BY HelperStepKeeps
<1>3. HelperInv => Helper!TypeOK /\ Helper!NoSilentChild /\ Helper!ProvenMeansGone
           /\ Helper!NeverClosesForeign
  BY HelperFewInterrupts
<1> QED
  BY <1>1, <1>2, <1>3, PTL DEF Helper!Spec

(* Without interrupts, a helper is started only when the one before it is   *)
(* known to be gone (runtime.py:1052).                                      *)
THEOREM SpawnsWait ==
  ASSUME HelperBounds, MaxBreaks = 0
  PROVE  Helper!Spec => Helper!FencedSpawn
<1>1. Helper!Init => HelperInv
  BY HelperInitHolds
<1>2. HelperInv /\ [Helper!Next]_(Helper!vars) => HelperInv'
  BY HelperStepKeeps
<1>3. HelperInv /\ [Helper!Next]_(Helper!vars) => [Helper!SpawnIsFenced]_(Helper!vars)
  BY SpawnWaits
<1> QED
  BY <1>1, <1>2, <1>3, PTL DEF Helper!Spec, Helper!FencedSpawn

HIDE DEF Helper!pipes, Helper!InAttempt, Helper!InDirect, Helper!InForkExec, Helper!InSettle,
  Helper!raised, Helper!Goto, Helper!family

-----------------------------------------------------------------------------
(* The reviewer *)

Binding == {"bind", "publish", "publish-outer"}
Underway == {"fork", "returned", "leader", "close-write", "ack", "close-read"} \cup Binding

(* An integer another thread may own is one whose close is not proven; the *)
(* pipe is there from the worker's return on, and is closed end by end.    *)
PipeIsOwn ==
  /\ \A e \in Reviewer!Ends :
       /\ handles[e] # "stolen" /\ (handles[e] = "reused" => outcome[e] = "close-outcome-unproven")
       /\ handles[e] = "open" => outcome[e] \in {"owned", "close-outcome-unproven"}
       /\ worker = "none" => handles[e] = "none" /\ outcome[e] = "not-created"
       /\ step \in Binding \/ inner => outcome[e] = "closed"
  /\ step \in {"check", "pipe"} => worker = "none"
  /\ step \in Underway \/ inner => worker = "done"
  /\ worker \in {"started", "calling"} => step = "pipe-wait" \/ escaped
  /\ step \in {"ack", "close-read"} => outcome["write"] = "closed"

(* A child is one that was forked, and runs what it was to run. *)
ChildIsKnown ==
  /\ reviewer # "none" => note.forking
  /\ ~note.failed
  /\ step \in {"check", "pipe", "pipe-wait", "fork"} => reviewer = "none"
  /\ reviewer = "checked" => file = 0
  /\ ran = 0
  /\ acked => reviewer \in {"running", "zombie", "gone"}
  /\ step \in Binding \cup {"close-read"} \/ inner => acked
  /\ outer \/ step = "publish-outer" => inner

(* What is said at the end of the settlement, and at the gate. *)
EndIsTold ==
  /\ step = "raised" /\ ~escaped => reviewer \in {"none", "gone"} \/ inner \/ unproven
  /\ step = "raised" => escaped \/ unproven \/ \A e \in Reviewer!Ends : handles[e] # "open"
  /\ Reviewer!NoSilentChild /\ Reviewer!NoLeakedPipe

ReviewerInv == Reviewer!TypeOK /\ PipeIsOwn /\ ChildIsKnown /\ EndIsTold

(* What the constants are *)
ReviewerBounds == MaxShocks \in Nat /\ MaxSwaps \in Nat

(* The parts of TypeOK *)
NoteTyped == note \in [DOMAIN Reviewer!NoReceipt -> BOOLEAN]
PipeTyped ==
  /\ outcome \in [Reviewer!Ends -> {"not-created", "owned", "closed", "close-outcome-unproven"}]
  /\ handles \in [Reviewer!Ends -> {"none", "open", "closed", "reused", "stolen"}]
StepTyped ==
  /\ step \in Reviewer!Labels /\ error \in {"none", "fault", "interrupt"}
  /\ worker \in {"none", "started", "calling", "done"}
  /\ reviewer \in Reviewer!Living \cup {"none", "zombie", "gone"}
ShocksCounted == file \in 0..MaxSwaps /\ shocks \in 0..MaxShocks

(* The helpers of its actions; the actions are cited where they are taken. *)
USE DEF Reviewer!Goto, Reviewer!kid, Reviewer!Fail, Reviewer!pipe, Reviewer!result, Reviewer!world

LEMMA ReviewerFields ==
  /\ DOMAIN Reviewer!NoReceipt
       = {"opening", "opened", "refused", "forking", "forked", "failed", "returned"}
  /\ Reviewer!NoReceipt \in [DOMAIN Reviewer!NoReceipt -> BOOLEAN]
  /\ ~Reviewer!NoReceipt.forking /\ ~Reviewer!NoReceipt.failed
<1>1. /\ DOMAIN Reviewer!NoReceipt
           = {"opening", "opened", "refused", "forking", "forked", "failed", "returned"}
      /\ \A x \in {"opening", "opened", "refused", "forking", "forked", "failed", "returned"} : Reviewer!NoReceipt[x] = FALSE
      /\ Reviewer!NoReceipt = [x \in DOMAIN Reviewer!NoReceipt |-> Reviewer!NoReceipt[x]]
  BY DEF Reviewer!NoReceipt
<1>2. Reviewer!NoReceipt \in [DOMAIN Reviewer!NoReceipt -> BOOLEAN]
  BY <1>1
<1> QED
  BY <1>1, <1>2

LEMMA ReviewerInitHolds ==
  ASSUME ReviewerBounds, Reviewer!Init
  PROVE  ReviewerInv
<1>1. note \in [DOMAIN Reviewer!NoReceipt -> BOOLEAN]
  BY ReviewerFields DEF Reviewer!Init
<1>2. /\ outcome \in [Reviewer!Ends -> {"not-created", "owned", "closed", "close-outcome-unproven"}]
      /\ handles \in [Reviewer!Ends -> {"none", "open", "closed", "reused", "stolen"}]
  BY DEF Reviewer!Init
<1>3. Reviewer!TypeOK
  BY <1>1, <1>2 DEF ReviewerBounds, Reviewer!Init, Reviewer!TypeOK, Reviewer!Labels
<1>4. PipeIsOwn
  BY DEF Reviewer!Init, PipeIsOwn, Underway, Binding
<1>5. ChildIsKnown
  BY ReviewerFields DEF Reviewer!Init, ChildIsKnown, Binding
<1>6. EndIsTold
  BY DEF Reviewer!Init, EndIsTold, Reviewer!NoSilentChild, Reviewer!NoLeakedPipe
<1> QED
  BY <1>3, <1>4, <1>5, <1>6 DEF ReviewerInv

(* What closing some ends does to each. *)
LEMMA ClosingTells ==
  ASSUME Reviewer!TypeOK, PipeIsOwn, NEW ends \in SUBSET Reviewer!Ends, Reviewer!Closing(ends)
  PROVE  /\ outcome' \in [Reviewer!Ends -> {"not-created", "owned", "closed", "close-outcome-unproven"}]
         /\ handles' \in [Reviewer!Ends -> {"none", "open", "closed", "reused", "stolen"}]
         /\ \A e \in Reviewer!Ends :
              /\ outcome[e] # "owned" => outcome'[e] = outcome[e] /\ handles'[e] = handles[e]
              /\ outcome'[e] # outcome[e] => outcome'[e] \in {"closed", "close-outcome-unproven"}
              /\ handles'[e] \in {handles[e], "closed"}
              /\ outcome'[e] \in {"closed", "not-created"} => handles'[e] # "open"
<1>1. PICK o \in [Reviewer!Ends -> Reviewer!Tried], f \in [Reviewer!Ends -> BOOLEAN] :
        (\A e \in Reviewer!Ends : o[e] = "closed" => f[e]) /\ Reviewer!CloseBoth(ends, o, f)
  BY DEF Reviewer!Closing
<1>2. /\ outcome' = [e \in Reviewer!Ends |-> IF e \in ends
           /\ outcome[e] \in Reviewer!Closable THEN o[e] ELSE outcome[e]]
      /\ handles' = [e \in Reviewer!Ends |-> IF e \in ends /\ outcome[e] \in Reviewer!Closable /\ f[e]
                               THEN (IF handles[e]
                                    = "reused" THEN "stolen" ELSE "closed") ELSE handles[e]]
  BY <1>1 DEF Reviewer!CloseBoth
<1>3. \A e \in Reviewer!Ends : o[e] \in {"closed", "close-outcome-unproven"}
  BY <1>1 DEF Reviewer!Tried
<1>4. ASSUME NEW e \in Reviewer!Ends
      PROVE  /\ outcome[e] # "owned" => outcome'[e] = outcome[e] /\ handles'[e] = handles[e]
             /\ outcome'[e] # outcome[e] => outcome'[e] \in {"closed", "close-outcome-unproven"}
             /\ outcome'[e] \in {"not-created", "owned", "closed", "close-outcome-unproven"}
             /\ handles'[e] \in {handles[e], "closed"}
             /\ outcome'[e] \in {"closed", "not-created"} => handles'[e] # "open"
  BY <1>1, <1>2, <1>3 DEF Reviewer!Closable, Reviewer!TypeOK, PipeIsOwn
<1>5. /\ outcome' \in [Reviewer!Ends -> {"not-created", "owned", "closed", "close-outcome-unproven"}]
      /\ handles' \in [Reviewer!Ends -> {"none", "open", "closed", "reused", "stolen"}]
  BY <1>2, <1>4 DEF Reviewer!TypeOK
<1> QED
  BY <1>4, <1>5

LEMMA NoteTypedKept ==
  ASSUME NoteTyped, Reviewer!Next
  PROVE  NoteTyped'
<1>1. CASE Reviewer!Check \/ Reviewer!StartWorker \/ Reviewer!JoinWorker
  BY <1>1, ReviewerFields DEF Reviewer!Check, Reviewer!StartWorker, Reviewer!JoinWorker, NoteTyped
<1>2. CASE Reviewer!WorkerCalls
  BY <1>2, ReviewerFields DEF Reviewer!WorkerCalls, NoteTyped
<1>3. CASE Reviewer!WorkerReturns
  BY <1>3, ReviewerFields DEF Reviewer!WorkerReturns, NoteTyped
<1>4. CASE Reviewer!ForkRefused
  BY <1>4, ReviewerFields DEF Reviewer!ForkRefused, NoteTyped
<1>5. CASE Reviewer!Fork
  BY <1>5, ReviewerFields DEF Reviewer!Fork, NoteTyped
<1>6. CASE Reviewer!ForkReturned
  BY <1>6, ReviewerFields DEF Reviewer!ForkReturned, NoteTyped
<1>7. CASE Reviewer!ReadLeader
  BY <1>7, ReviewerFields DEF Reviewer!ReadLeader, NoteTyped
<1>8. CASE Reviewer!CloseEnd("write", "close-write", "ack")
                \/ Reviewer!CloseEnd("read", "close-read", "bind") \/
   Reviewer!Acknowledge \/ Reviewer!CloseReadFailed \/ Reviewer!BindLeader
  BY <1>8, ReviewerFields DEF Reviewer!CloseEnd, Reviewer!Acknowledge, Reviewer!CloseReadFailed,
     Reviewer!BindLeader, NoteTyped
<1>9. CASE Reviewer!PublishInner \/ Reviewer!PublishOuter \/ Reviewer!FinishPublication
  BY <1>9, ReviewerFields DEF Reviewer!PublishInner, Reviewer!PublishOuter,
     Reviewer!FinishPublication, NoteTyped
<1>10. CASE Reviewer!Settle \/ Reviewer!Identify \/ Reviewer!Kill \/ Reviewer!Reap
  BY <1>10, ReviewerFields DEF Reviewer!Settle, Reviewer!Identify, Reviewer!Kill, Reviewer!Reap,
     NoteTyped
<1>11. CASE Reviewer!Prove
  BY <1>11, ReviewerFields DEF Reviewer!Prove, NoteTyped
<1>12. CASE Reviewer!Interrupt
  BY <1>12, ReviewerFields DEF Reviewer!Interrupt, NoteTyped
<1>13. CASE Reviewer!Swap \/ Reviewer!ChildTells \/ Reviewer!ChildChecks \/ Reviewer!ChildExecs
                 \/ Reviewer!ChildDies
  BY <1>13, ReviewerFields DEF Reviewer!Swap, Reviewer!ChildTells, Reviewer!ChildChecks,
     Reviewer!ChildExecs, Reviewer!ChildDies, NoteTyped
<1>14. CASE \E e \in Reviewer!Ends : Reviewer!ReuseInteger(e)
  BY <1>14, ReviewerFields DEF Reviewer!ReuseInteger, NoteTyped
<1> QED
  BY <1>1, <1>2, <1>3, <1>4, <1>5, <1>6, <1>7, <1>8, <1>9, <1>10, <1>11, <1>12, <1>13, <1>14 DEF
     Reviewer!Next, Reviewer!Launch, Reviewer!Worker

LEMMA PipeTypedKept ==
  ASSUME Reviewer!TypeOK, PipeIsOwn, Reviewer!Next
  PROVE  PipeTyped'
<1>1. CASE Reviewer!Check \/ Reviewer!StartWorker \/ Reviewer!JoinWorker
  BY <1>1, ClosingTells DEF Reviewer!Check, Reviewer!StartWorker, Reviewer!JoinWorker, PipeTyped,
     Reviewer!TypeOK, Reviewer!Ends, PipeIsOwn
<1>2. CASE Reviewer!WorkerCalls \/ Reviewer!WorkerReturns
  BY <1>2, ClosingTells DEF Reviewer!WorkerCalls, Reviewer!WorkerReturns, PipeTyped,
     Reviewer!TypeOK, Reviewer!Ends, PipeIsOwn
<1>3. CASE Reviewer!ForkRefused \/ Reviewer!Fork \/ Reviewer!ForkReturned \/ Reviewer!ReadLeader
  BY <1>3, ClosingTells DEF Reviewer!ForkRefused, Reviewer!Fork, Reviewer!ForkReturned,
     Reviewer!ReadLeader, PipeTyped, Reviewer!TypeOK, Reviewer!Ends, PipeIsOwn
<1>4. CASE Reviewer!CloseEnd("write", "close-write", "ack")
                \/ Reviewer!CloseEnd("read", "close-read", "bind") \/
   Reviewer!Acknowledge \/ Reviewer!CloseReadFailed \/ Reviewer!BindLeader
  BY <1>4, ClosingTells DEF Reviewer!CloseEnd, Reviewer!Acknowledge, Reviewer!CloseReadFailed,
     Reviewer!BindLeader, PipeTyped, Reviewer!TypeOK, Reviewer!Ends, PipeIsOwn
<1>5. CASE Reviewer!PublishInner \/ Reviewer!PublishOuter \/ Reviewer!FinishPublication
  BY <1>5, ClosingTells DEF Reviewer!PublishInner, Reviewer!PublishOuter,
     Reviewer!FinishPublication, PipeTyped, Reviewer!TypeOK, Reviewer!Ends, PipeIsOwn
<1>6. CASE Reviewer!Settle \/ Reviewer!Identify \/ Reviewer!Kill \/ Reviewer!Reap
  BY <1>6, ClosingTells DEF Reviewer!Settle, Reviewer!Identify, Reviewer!Kill, Reviewer!Reap,
     PipeTyped, Reviewer!TypeOK, Reviewer!Ends, PipeIsOwn
<1>7. CASE Reviewer!Prove
  BY <1>7, ClosingTells DEF Reviewer!Prove, PipeTyped, Reviewer!TypeOK, Reviewer!Ends, PipeIsOwn
<1>8. CASE Reviewer!Interrupt
  BY <1>8, ClosingTells DEF Reviewer!Interrupt, PipeTyped, Reviewer!TypeOK, Reviewer!Ends,
     PipeIsOwn
<1>9. CASE Reviewer!Swap \/ Reviewer!ChildTells \/ Reviewer!ChildChecks \/ Reviewer!ChildExecs
                \/ Reviewer!ChildDies
  BY <1>9, ClosingTells DEF Reviewer!Swap, Reviewer!ChildTells, Reviewer!ChildChecks,
     Reviewer!ChildExecs, Reviewer!ChildDies, PipeTyped, Reviewer!TypeOK, Reviewer!Ends, PipeIsOwn
<1>10. CASE \E e \in Reviewer!Ends : Reviewer!ReuseInteger(e)
  BY <1>10, ClosingTells DEF Reviewer!ReuseInteger, PipeTyped, Reviewer!TypeOK, Reviewer!Ends,
     PipeIsOwn
<1> QED
  BY <1>1, <1>2, <1>3, <1>4, <1>5, <1>6, <1>7, <1>8, <1>9, <1>10 DEF Reviewer!Next, Reviewer!Launch,
     Reviewer!Worker

LEMMA StepTypedKept ==
  ASSUME StepTyped, Reviewer!Next
  PROVE  StepTyped'
<1>1. CASE Reviewer!Check \/ Reviewer!StartWorker \/ Reviewer!JoinWorker
  BY <1>1 DEF Reviewer!Check, Reviewer!StartWorker, Reviewer!JoinWorker, StepTyped,
     Reviewer!Labels, Reviewer!Living
<1>2. CASE Reviewer!WorkerCalls \/ Reviewer!WorkerReturns
  BY <1>2 DEF Reviewer!WorkerCalls, Reviewer!WorkerReturns, StepTyped, Reviewer!Labels,
     Reviewer!Living
<1>3. CASE Reviewer!ForkRefused \/ Reviewer!Fork \/ Reviewer!ForkReturned \/ Reviewer!ReadLeader
  BY <1>3 DEF Reviewer!ForkRefused, Reviewer!Fork, Reviewer!ForkReturned, Reviewer!ReadLeader,
     StepTyped, Reviewer!Labels, Reviewer!Living
<1>4. CASE Reviewer!CloseEnd("write", "close-write", "ack")
                \/ Reviewer!CloseEnd("read", "close-read", "bind") \/
   Reviewer!Acknowledge \/ Reviewer!CloseReadFailed \/ Reviewer!BindLeader
  BY <1>4 DEF Reviewer!CloseEnd, Reviewer!Acknowledge, Reviewer!CloseReadFailed,
     Reviewer!BindLeader, StepTyped, Reviewer!Labels, Reviewer!Living
<1>5. CASE Reviewer!PublishInner \/ Reviewer!PublishOuter \/ Reviewer!FinishPublication
  BY <1>5 DEF Reviewer!PublishInner, Reviewer!PublishOuter, Reviewer!FinishPublication, StepTyped,
     Reviewer!Labels, Reviewer!Living
<1>6. CASE Reviewer!Settle \/ Reviewer!Identify \/ Reviewer!Kill \/ Reviewer!Reap
  BY <1>6 DEF Reviewer!Settle, Reviewer!Identify, Reviewer!Kill, Reviewer!Reap, StepTyped,
     Reviewer!Labels, Reviewer!Living
<1>7. CASE Reviewer!Prove
  BY <1>7 DEF Reviewer!Prove, StepTyped, Reviewer!Labels, Reviewer!Living
<1>8. CASE Reviewer!Interrupt
  BY <1>8 DEF Reviewer!Interrupt, StepTyped, Reviewer!Labels, Reviewer!Living
<1>9. CASE Reviewer!Swap \/ Reviewer!ChildTells \/ Reviewer!ChildChecks \/ Reviewer!ChildExecs
                \/ Reviewer!ChildDies
  BY <1>9 DEF Reviewer!Swap, Reviewer!ChildTells, Reviewer!ChildChecks, Reviewer!ChildExecs,
     Reviewer!ChildDies, StepTyped, Reviewer!Labels, Reviewer!Living
<1>10. CASE \E e \in Reviewer!Ends : Reviewer!ReuseInteger(e)
  BY <1>10 DEF Reviewer!ReuseInteger, StepTyped, Reviewer!Labels, Reviewer!Living
<1> QED
  BY <1>1, <1>2, <1>3, <1>4, <1>5, <1>6, <1>7, <1>8, <1>9, <1>10 DEF Reviewer!Next, Reviewer!Launch,
     Reviewer!Worker

LEMMA ShocksCountedKept ==
  ASSUME ReviewerBounds, ShocksCounted, Reviewer!Next
  PROVE  ShocksCounted'
<1>1. CASE Reviewer!Check \/ Reviewer!StartWorker \/ Reviewer!JoinWorker
  BY <1>1 DEF Reviewer!Check, Reviewer!StartWorker, Reviewer!JoinWorker, ShocksCounted,
     ReviewerBounds
<1>2. CASE Reviewer!WorkerCalls \/ Reviewer!WorkerReturns
  BY <1>2 DEF Reviewer!WorkerCalls, Reviewer!WorkerReturns, ShocksCounted, ReviewerBounds
<1>3. CASE Reviewer!ForkRefused \/ Reviewer!Fork \/ Reviewer!ForkReturned \/ Reviewer!ReadLeader
  BY <1>3 DEF Reviewer!ForkRefused, Reviewer!Fork, Reviewer!ForkReturned, Reviewer!ReadLeader,
     ShocksCounted, ReviewerBounds
<1>4. CASE Reviewer!CloseEnd("write", "close-write", "ack")
                \/ Reviewer!CloseEnd("read", "close-read", "bind") \/
   Reviewer!Acknowledge \/ Reviewer!CloseReadFailed \/ Reviewer!BindLeader
  BY <1>4 DEF Reviewer!CloseEnd, Reviewer!Acknowledge, Reviewer!CloseReadFailed,
     Reviewer!BindLeader, ShocksCounted, ReviewerBounds
<1>5. CASE Reviewer!PublishInner \/ Reviewer!PublishOuter \/ Reviewer!FinishPublication
  BY <1>5 DEF Reviewer!PublishInner, Reviewer!PublishOuter, Reviewer!FinishPublication,
     ShocksCounted, ReviewerBounds
<1>6. CASE Reviewer!Settle \/ Reviewer!Identify \/ Reviewer!Kill \/ Reviewer!Reap
  BY <1>6 DEF Reviewer!Settle, Reviewer!Identify, Reviewer!Kill, Reviewer!Reap, ShocksCounted,
     ReviewerBounds
<1>7. CASE Reviewer!Prove
  BY <1>7 DEF Reviewer!Prove, ShocksCounted, ReviewerBounds
<1>8. CASE Reviewer!Interrupt
  BY <1>8 DEF Reviewer!Interrupt, ShocksCounted, ReviewerBounds
<1>9. CASE Reviewer!Swap \/ Reviewer!ChildTells \/ Reviewer!ChildChecks \/ Reviewer!ChildExecs
                \/ Reviewer!ChildDies
  BY <1>9 DEF Reviewer!Swap, Reviewer!ChildTells, Reviewer!ChildChecks, Reviewer!ChildExecs,
     Reviewer!ChildDies, ShocksCounted, ReviewerBounds
<1>10. CASE \E e \in Reviewer!Ends : Reviewer!ReuseInteger(e)
  BY <1>10 DEF Reviewer!ReuseInteger, ShocksCounted, ReviewerBounds
<1> QED
  BY <1>1, <1>2, <1>3, <1>4, <1>5, <1>6, <1>7, <1>8, <1>9, <1>10 DEF Reviewer!Next, Reviewer!Launch,
     Reviewer!Worker

LEMMA PipeIsOwnKept ==
  ASSUME ReviewerBounds, Reviewer!TypeOK, PipeIsOwn, ChildIsKnown, EndIsTold, Reviewer!Next
  PROVE  PipeIsOwn'
<1>1. CASE Reviewer!Check \/ Reviewer!StartWorker \/ Reviewer!JoinWorker
  BY <1>1, ReviewerFields, ClosingTells DEF Reviewer!Check, Reviewer!StartWorker,
     Reviewer!JoinWorker, PipeIsOwn, ChildIsKnown, Reviewer!TypeOK, Underway, Binding,
     Reviewer!Ends
<1>2. CASE Reviewer!WorkerCalls \/ Reviewer!WorkerReturns
  BY <1>2, ReviewerFields, ClosingTells DEF Reviewer!WorkerCalls, Reviewer!WorkerReturns,
     PipeIsOwn, ChildIsKnown, Reviewer!TypeOK, Underway, Binding, Reviewer!Ends
<1>3. CASE Reviewer!ForkRefused \/ Reviewer!Fork \/ Reviewer!ForkReturned \/ Reviewer!ReadLeader
  BY <1>3, ReviewerFields, ClosingTells DEF Reviewer!ForkRefused, Reviewer!Fork,
     Reviewer!ForkReturned, Reviewer!ReadLeader, PipeIsOwn, ChildIsKnown, Reviewer!TypeOK,
     Underway, Binding, Reviewer!Ends
<1>4. CASE Reviewer!CloseEnd("write", "close-write", "ack")
                \/ Reviewer!CloseEnd("read", "close-read", "bind") \/
   Reviewer!Acknowledge \/ Reviewer!CloseReadFailed \/ Reviewer!BindLeader
  BY <1>4, ReviewerFields, ClosingTells DEF Reviewer!CloseEnd, Reviewer!Acknowledge,
     Reviewer!CloseReadFailed, Reviewer!BindLeader, PipeIsOwn, ChildIsKnown, Reviewer!TypeOK,
     Underway, Binding, Reviewer!Ends
<1>5. CASE Reviewer!PublishInner \/ Reviewer!PublishOuter \/ Reviewer!FinishPublication
  BY <1>5, ReviewerFields, ClosingTells DEF Reviewer!PublishInner, Reviewer!PublishOuter,
     Reviewer!FinishPublication, PipeIsOwn, ChildIsKnown, Reviewer!TypeOK, Underway, Binding,
     Reviewer!Ends
<1>6. CASE Reviewer!Settle \/ Reviewer!Identify \/ Reviewer!Kill \/ Reviewer!Reap
  BY <1>6, ReviewerFields, ClosingTells DEF Reviewer!Settle, Reviewer!Identify, Reviewer!Kill,
     Reviewer!Reap, PipeIsOwn, ChildIsKnown, Reviewer!TypeOK, Underway, Binding, Reviewer!Ends
<1>7. CASE Reviewer!Prove
  BY <1>7, ReviewerFields, ClosingTells DEF Reviewer!Prove, PipeIsOwn, ChildIsKnown,
     Reviewer!TypeOK, Underway, Binding, Reviewer!Ends
<1>8. CASE Reviewer!Interrupt
  BY <1>8, ReviewerFields, ClosingTells DEF Reviewer!Interrupt, PipeIsOwn, ChildIsKnown,
     Reviewer!TypeOK, Underway, Binding, Reviewer!Ends
<1>9. CASE Reviewer!Swap \/ Reviewer!ChildTells \/ Reviewer!ChildChecks \/ Reviewer!ChildExecs
                \/ Reviewer!ChildDies
  BY <1>9, ReviewerFields, ClosingTells DEF Reviewer!Swap, Reviewer!ChildTells,
     Reviewer!ChildChecks, Reviewer!ChildExecs, Reviewer!ChildDies, PipeIsOwn, ChildIsKnown,
     Reviewer!TypeOK, Underway, Binding, Reviewer!Ends
<1>10. CASE \E e \in Reviewer!Ends : Reviewer!ReuseInteger(e)
  BY <1>10, ReviewerFields, ClosingTells DEF Reviewer!ReuseInteger, PipeIsOwn, ChildIsKnown,
     Reviewer!TypeOK, Underway, Binding, Reviewer!Ends
<1> QED
  BY <1>1, <1>2, <1>3, <1>4, <1>5, <1>6, <1>7, <1>8, <1>9, <1>10 DEF Reviewer!Next, Reviewer!Launch,
     Reviewer!Worker

LEMMA ChildIsKnownKept ==
  ASSUME ReviewerBounds, Reviewer!TypeOK, PipeIsOwn, ChildIsKnown, EndIsTold, Reviewer!Next
  PROVE  ChildIsKnown'
<1>1. CASE Reviewer!Check \/ Reviewer!StartWorker \/ Reviewer!JoinWorker
  BY <1>1, ReviewerFields, ClosingTells DEF Reviewer!Check, Reviewer!StartWorker,
     Reviewer!JoinWorker, PipeIsOwn, ChildIsKnown, Reviewer!TypeOK, Binding, Reviewer!Living
<1>2. CASE Reviewer!WorkerCalls \/ Reviewer!WorkerReturns
  BY <1>2, ReviewerFields, ClosingTells DEF Reviewer!WorkerCalls, Reviewer!WorkerReturns,
     PipeIsOwn, ChildIsKnown, Reviewer!TypeOK, Binding, Reviewer!Living
<1>3. CASE Reviewer!ForkRefused
  BY <1>3, ReviewerFields, ClosingTells DEF Reviewer!ForkRefused, PipeIsOwn, ChildIsKnown,
     Reviewer!TypeOK, Binding, Reviewer!Living
<1>4. CASE Reviewer!Fork
  BY <1>4, ReviewerFields, ClosingTells DEF Reviewer!Fork, PipeIsOwn, ChildIsKnown,
     Reviewer!TypeOK, Binding, Reviewer!Living
<1>5. CASE Reviewer!ForkReturned
  BY <1>5, ReviewerFields, ClosingTells DEF Reviewer!ForkReturned, PipeIsOwn, ChildIsKnown,
     Reviewer!TypeOK, Binding, Reviewer!Living
<1>6. CASE Reviewer!ReadLeader
  BY <1>6, ReviewerFields, ClosingTells DEF Reviewer!ReadLeader, PipeIsOwn, ChildIsKnown,
     Reviewer!TypeOK, Binding, Reviewer!Living
<1>7. CASE Reviewer!CloseEnd("write", "close-write", "ack")
                \/ Reviewer!CloseEnd("read", "close-read", "bind") \/
   Reviewer!Acknowledge \/ Reviewer!CloseReadFailed \/ Reviewer!BindLeader
  BY <1>7, ReviewerFields, ClosingTells DEF Reviewer!CloseEnd, Reviewer!Acknowledge,
     Reviewer!CloseReadFailed, Reviewer!BindLeader, PipeIsOwn, ChildIsKnown, Reviewer!TypeOK,
     Binding, Reviewer!Living
<1>8. CASE Reviewer!PublishInner
  BY <1>8, ReviewerFields, ClosingTells DEF Reviewer!PublishInner, PipeIsOwn, ChildIsKnown,
     Reviewer!TypeOK, Binding, Reviewer!Living
<1>9. CASE Reviewer!PublishOuter
  BY <1>9, ReviewerFields, ClosingTells DEF Reviewer!PublishOuter, PipeIsOwn, ChildIsKnown,
     Reviewer!TypeOK, Binding, Reviewer!Living
<1>10. CASE Reviewer!FinishPublication
  BY <1>10, ReviewerFields, ClosingTells DEF Reviewer!FinishPublication, PipeIsOwn, ChildIsKnown,
     Reviewer!TypeOK, Binding, Reviewer!Living
<1>11. CASE Reviewer!Settle \/ Reviewer!Identify \/ Reviewer!Kill \/ Reviewer!Reap
  BY <1>11, ReviewerFields, ClosingTells DEF Reviewer!Settle, Reviewer!Identify, Reviewer!Kill,
     Reviewer!Reap, PipeIsOwn, ChildIsKnown, Reviewer!TypeOK, Binding, Reviewer!Living
<1>12. CASE Reviewer!Prove
  BY <1>12, ReviewerFields, ClosingTells DEF Reviewer!Prove, PipeIsOwn, ChildIsKnown,
     Reviewer!TypeOK, Binding, Reviewer!Living
<1>13. CASE Reviewer!Interrupt
  BY <1>13, ReviewerFields, ClosingTells DEF Reviewer!Interrupt, PipeIsOwn, ChildIsKnown,
     Reviewer!TypeOK, Binding, Reviewer!Living
<1>14. CASE Reviewer!Swap \/ Reviewer!ChildTells \/ Reviewer!ChildChecks \/ Reviewer!ChildExecs
                 \/ Reviewer!ChildDies
  BY <1>14, ReviewerFields, ClosingTells DEF Reviewer!Swap, Reviewer!ChildTells,
     Reviewer!ChildChecks, Reviewer!ChildExecs, Reviewer!ChildDies, PipeIsOwn, ChildIsKnown,
     Reviewer!TypeOK, Binding, Reviewer!Living
<1>15. CASE \E e \in Reviewer!Ends : Reviewer!ReuseInteger(e)
  BY <1>15, ReviewerFields, ClosingTells DEF Reviewer!ReuseInteger, PipeIsOwn, ChildIsKnown,
     Reviewer!TypeOK, Binding, Reviewer!Living
<1> QED
  BY <1>1, <1>2, <1>3, <1>4, <1>5, <1>6, <1>7, <1>8, <1>9, <1>10, <1>11, <1>12, <1>13, <1>14, <1>15
     DEF Reviewer!Next, Reviewer!Launch, Reviewer!Worker

LEMMA EndIsToldKept ==
  ASSUME ReviewerBounds, Reviewer!TypeOK, PipeIsOwn, ChildIsKnown, EndIsTold, Reviewer!Next
  PROVE  EndIsTold'
<1>1. CASE Reviewer!Check \/ Reviewer!StartWorker \/ Reviewer!JoinWorker
  BY <1>1, ReviewerFields, ClosingTells DEF Reviewer!Check, Reviewer!StartWorker,
     Reviewer!JoinWorker, PipeIsOwn, ChildIsKnown, EndIsTold, Reviewer!TypeOK, Binding,
     Reviewer!NoSilentChild, Reviewer!NoLeakedPipe, Reviewer!MayHaveChild, Reviewer!PipesClosed,
     Reviewer!Living
<1>2. CASE Reviewer!WorkerCalls \/ Reviewer!WorkerReturns
  BY <1>2, ReviewerFields, ClosingTells DEF Reviewer!WorkerCalls, Reviewer!WorkerReturns,
     PipeIsOwn, ChildIsKnown, EndIsTold, Reviewer!TypeOK, Binding, Reviewer!NoSilentChild,
     Reviewer!NoLeakedPipe, Reviewer!MayHaveChild, Reviewer!PipesClosed, Reviewer!Living
<1>3. CASE Reviewer!ForkRefused \/ Reviewer!Fork \/ Reviewer!ForkReturned \/ Reviewer!ReadLeader
  BY <1>3, ReviewerFields, ClosingTells DEF Reviewer!ForkRefused, Reviewer!Fork,
     Reviewer!ForkReturned, Reviewer!ReadLeader, PipeIsOwn, ChildIsKnown, EndIsTold,
     Reviewer!TypeOK, Binding, Reviewer!NoSilentChild, Reviewer!NoLeakedPipe,
     Reviewer!MayHaveChild, Reviewer!PipesClosed, Reviewer!Living
<1>4. CASE Reviewer!CloseEnd("write", "close-write", "ack")
                \/ Reviewer!CloseEnd("read", "close-read", "bind") \/
   Reviewer!Acknowledge \/ Reviewer!CloseReadFailed \/ Reviewer!BindLeader
  BY <1>4, ReviewerFields, ClosingTells DEF Reviewer!CloseEnd, Reviewer!Acknowledge,
     Reviewer!CloseReadFailed, Reviewer!BindLeader, PipeIsOwn, ChildIsKnown, EndIsTold,
     Reviewer!TypeOK, Binding, Reviewer!NoSilentChild, Reviewer!NoLeakedPipe,
     Reviewer!MayHaveChild, Reviewer!PipesClosed, Reviewer!Living
<1>5. CASE Reviewer!PublishInner \/ Reviewer!PublishOuter \/ Reviewer!FinishPublication
  BY <1>5, ReviewerFields, ClosingTells DEF Reviewer!PublishInner, Reviewer!PublishOuter,
     Reviewer!FinishPublication, PipeIsOwn, ChildIsKnown, EndIsTold, Reviewer!TypeOK, Binding,
     Reviewer!NoSilentChild, Reviewer!NoLeakedPipe, Reviewer!MayHaveChild, Reviewer!PipesClosed,
     Reviewer!Living
<1>6. CASE Reviewer!Settle \/ Reviewer!Identify \/ Reviewer!Kill \/ Reviewer!Reap
  BY <1>6, ReviewerFields, ClosingTells DEF Reviewer!Settle, Reviewer!Identify, Reviewer!Kill,
     Reviewer!Reap, PipeIsOwn, ChildIsKnown, EndIsTold, Reviewer!TypeOK, Binding,
     Reviewer!NoSilentChild, Reviewer!NoLeakedPipe, Reviewer!MayHaveChild, Reviewer!PipesClosed,
     Reviewer!Living
<1>7. CASE Reviewer!Prove
  <2>1. \A e \in Reviewer!Ends :
          /\ outcome'[e] \in {"closed", "not-created"} => handles'[e] # "open"
          /\ outcome[e] = "closed" => outcome'[e] = "closed"
    <3>1. CASE ~Reviewer!MayHaveChild \/ leader
      BY <1>7, <3>1, ClosingTells DEF Reviewer!Prove, Reviewer!Ends
    <3>2. CASE ~(~Reviewer!MayHaveChild \/ leader)
      BY <1>7, <3>2 DEF Reviewer!Prove, PipeIsOwn, Reviewer!TypeOK
    <3> QED
      BY <3>1, <3>2
  <2>2. step' = "raised" /\ UNCHANGED <<escaped, reviewer, inner, outer, error, note>>
    BY <1>7 DEF Reviewer!Prove
  <2>3. unproven' \/ \A e \in Reviewer!Ends : handles'[e] # "open"
    BY <1>7, <2>1 DEF Reviewer!Prove, Reviewer!PipesClosed
  <2>4. unproven' \/ reviewer \in {"none", "gone"}
    BY <1>7 DEF Reviewer!Prove, Reviewer!MayHaveChild, ChildIsKnown
  <2> QED
    BY <2>2, <2>3, <2>4 DEF EndIsTold, Reviewer!NoSilentChild, Reviewer!NoLeakedPipe
<1>8. CASE Reviewer!Interrupt
  BY <1>8, ReviewerFields, ClosingTells DEF Reviewer!Interrupt, PipeIsOwn, ChildIsKnown,
     EndIsTold, Reviewer!TypeOK, Binding, Reviewer!NoSilentChild, Reviewer!NoLeakedPipe,
     Reviewer!MayHaveChild, Reviewer!PipesClosed, Reviewer!Living
<1>9. CASE Reviewer!Swap \/ Reviewer!ChildTells \/ Reviewer!ChildChecks \/ Reviewer!ChildExecs
                \/ Reviewer!ChildDies
  BY <1>9, ReviewerFields, ClosingTells DEF Reviewer!Swap, Reviewer!ChildTells,
     Reviewer!ChildChecks, Reviewer!ChildExecs, Reviewer!ChildDies, PipeIsOwn, ChildIsKnown,
     EndIsTold, Reviewer!TypeOK, Binding, Reviewer!NoSilentChild, Reviewer!NoLeakedPipe,
     Reviewer!MayHaveChild, Reviewer!PipesClosed, Reviewer!Living
<1>10. CASE \E e \in Reviewer!Ends : Reviewer!ReuseInteger(e)
  BY <1>10, ReviewerFields, ClosingTells DEF Reviewer!ReuseInteger, PipeIsOwn, ChildIsKnown,
     EndIsTold, Reviewer!TypeOK, Binding, Reviewer!NoSilentChild, Reviewer!NoLeakedPipe,
     Reviewer!MayHaveChild, Reviewer!PipesClosed, Reviewer!Living
<1> QED
  BY <1>1, <1>2, <1>3, <1>4, <1>5, <1>6, <1>7, <1>8, <1>9, <1>10 DEF Reviewer!Next, Reviewer!Launch,
     Reviewer!Worker

LEMMA ReviewerStepKeeps ==
  ASSUME ReviewerBounds, ReviewerInv, [Reviewer!Next]_(Reviewer!vars)
  PROVE  ReviewerInv'
<1>1. CASE Reviewer!Next
  <2>1. NoteTyped' /\ PipeTyped' /\ StepTyped' /\ ShocksCounted'
    BY <1>1, NoteTypedKept, PipeTypedKept, StepTypedKept, ShocksCountedKept DEF ReviewerInv,
       Reviewer!TypeOK, NoteTyped, PipeTyped, StepTyped, ShocksCounted
  <2>2. PipeIsOwn' /\ ChildIsKnown' /\ EndIsTold'
    BY <1>1, PipeIsOwnKept, ChildIsKnownKept, EndIsToldKept DEF ReviewerInv
  <2>3. Reviewer!TypeOK'
    BY <2>1, <2>2 DEF Reviewer!TypeOK, NoteTyped, PipeTyped, StepTyped, ShocksCounted, ChildIsKnown
  <2> QED
    BY <2>2, <2>3 DEF ReviewerInv
<1>2. CASE UNCHANGED Reviewer!vars
  BY <1>2 DEF ReviewerInv, Reviewer!TypeOK, PipeIsOwn, ChildIsKnown, EndIsTold, Reviewer!NoSilentChild,
     Reviewer!NoLeakedPipe, Reviewer!vars
<1> QED
  BY <1>1, <1>2

LEMMA ReviewerInvariantTells ==
  ASSUME ReviewerInv
  PROVE  Reviewer!TypeOK /\ Reviewer!NoSilentChild /\ Reviewer!ResultRuns
              /\ Reviewer!NoLeakedPipe /\ Reviewer!NeverClosesForeign
<1>1. Reviewer!ResultRuns
  BY DEF ReviewerInv, ChildIsKnown, Reviewer!ResultRuns
<1> QED
  BY <1>1 DEF ReviewerInv, PipeIsOwn, EndIsTold, Reviewer!NeverClosesForeign

(* However often the launch is interrupted and whatever calls fail, it     *)
(* does not let a child go in silence, returns none that did not run the   *)
(* attested program, leaks no pipe end, and closes no integer twice        *)
(* (no_child_profile.py:4200, 4483).                                            *)
THEOREM LaunchesAreSettled ==
  ASSUME ReviewerBounds
  PROVE  Reviewer!Spec => [](Reviewer!NoSilentChild /\ Reviewer!ResultRuns
              /\ Reviewer!NoLeakedPipe /\ Reviewer!NeverClosesForeign)
<1>1. Reviewer!Init => ReviewerInv
  BY ReviewerInitHolds
<1>2. ReviewerInv /\ [Reviewer!Next]_(Reviewer!vars) => ReviewerInv'
  BY ReviewerStepKeeps
<1>3. ReviewerInv => Reviewer!NoSilentChild /\ Reviewer!ResultRuns /\ Reviewer!NoLeakedPipe
           /\ Reviewer!NeverClosesForeign
  BY ReviewerInvariantTells
<1> QED
  BY <1>1, <1>2, <1>3, PTL DEF Reviewer!Spec

HIDE DEF Reviewer!Goto, Reviewer!kid, Reviewer!Fail, Reviewer!pipe, Reviewer!result,
  Reviewer!world
=============================================================================
