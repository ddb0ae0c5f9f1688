---------------------------- MODULE ObjectVerifier ----------------------------
(* _verify_range_object_contents of review_workspace.py: every object of the    *)
(* reviewed range is read back from the private store by one git cat-file and   *)
(* hashed.  The child belongs to a lease (OwnedProcess) and is named in an      *)
(* external recovery control, so that a workspace with a child that could not   *)
(* be proven gone is kept, and its receipt says how to recover it.  Signals are *)
(* masked over the whole call and looked for at checkpoints.                    *)
EXTENDS OwnedProcess

CONSTANT Objects      \* how many objects the range has

VARIABLES at,         \* the step of the call
          store,      \* [1..Objects -> good, bad (absent or altered)]: the store
          asked, given, verified,   \* objects requested, answered, hashed
          status,     \* how the child ended: good, torn (within an answer), bad
          signal,     \* none, pending, taken
          known,      \* process_binding is set
          active,     \* the control in memory names the process
          published,  \* control_binding_published
          control,    \* the control file: none, armed, bound, sealed, torn, removed
          primary,    \* the error of the operation
          quiet,      \* settle proved that nothing is left
          leaked,     \* process_leak, or a settlement that is unproven
          receipt,    \* none, control (a sealed one is named), unavailable
          second,     \* failures of the finally clause: interrupt, release, drift, close
          outcome

own == <<at, store, asked, given, verified, status, signal, known, active, published, control, primary,
         quiet, leaked, receipt, second, outcome>>
stream == <<asked, given, verified, status>>
verdict == <<quiet, leaked, receipt, second, outcome>>
vars == <<lease, faults, own>>

Steps == {"begin", "create", "start", "request", "await", "bind", "stream", "reap", "settle", "settling",
          "late", "seal", "release", "check", "close", "unmask", "over"}
Outcomes == {"running", "verified", "drift", "leak", "interrupt", "signal", "deadline", "invalid", "error",
             "release", "close", "mask"}

TypeOK ==
    /\ LeaseTypeOK /\ at \in Steps
    /\ store \in [1..Objects -> {"good", "bad"}]
    /\ asked \in 0..Objects /\ given \in 0..Objects /\ verified \in 0..Objects
    /\ status \in {"good", "torn", "bad"} /\ signal \in {"none", "pending", "taken"}
    /\ known \in BOOLEAN /\ active \in BOOLEAN /\ published \in BOOLEAN
    /\ control \in {"none", "armed", "bound", "sealed", "torn", "removed"}
    /\ primary \in {"none", "signal", "deadline", "invalid", "error"}
    /\ quiet \in BOOLEAN /\ leaked \in BOOLEAN
    /\ receipt \in {"none", "control", "unavailable"}
    /\ second \subseteq {"release", "drift", "close", "interrupt"}
    /\ outcome \in Outcomes

Init ==
    /\ LeaseInit /\ at = "begin"
    /\ store \in [1..Objects -> {"good", "bad"}]
    /\ asked = 0 /\ given = 0 /\ verified = 0 /\ status = "good" /\ signal = "none"
    /\ known = FALSE /\ active = FALSE /\ published = FALSE /\ control = "none" /\ primary = "none"
    /\ quiet = FALSE /\ leaked = FALSE /\ receipt = "none" /\ second = {}
    /\ outcome = "running"

Go(a) == at' = a
(* an error within the try clause leads to its finally clause *)
Raise(kind) == primary' = kind /\ Go("settle")

--------------------------------------------------------------------------------
(* Signals and time.  A signal is delivered to the mask and found by            *)
(* check_forwarded_signal; the deadline is looked at in the same places.        *)

Arrive == at # "over" /\ signal = "none" /\ signal' = "pending"
          /\ UNCHANGED <<lease, faults, at, store, stream, known, active, published, control, primary, verdict>>

SignalFound ==
    /\ signal = "pending" /\ at \in {"begin", "start", "request", "await", "bind", "stream"}
    /\ signal' = "taken"
    /\ IF at = "begin" THEN primary' = "signal" /\ Go("unmask") ELSE Raise("signal")
    /\ UNCHANGED <<lease, faults, store, stream, known, active, published, control, verdict>>

DeadlineFound ==
    /\ signal # "pending" /\ at \in {"begin", "start", "request", "await", "stream", "reap"}
    /\ IF at = "begin" THEN primary' = "deadline" /\ Go("unmask") ELSE Raise("deadline")
    /\ UNCHANGED <<lease, faults, store, stream, signal, known, active, published, control, verdict>>

--------------------------------------------------------------------------------
(* The operation *)

(* the first revalidation and the control of the session *)
CreateControl ==
    /\ at = "begin"
    /\ \/ control' = "armed" /\ Go("start") /\ UNCHANGED <<primary, faults>>
       \/ Fault /\ primary' = "error" /\ Go("unmask") /\ UNCHANGED control
    /\ UNCHANGED <<lease, store, stream, signal, known, active, published, verdict>>

Start ==
    /\ at = "start"
    /\ \/ StartWorker /\ Go("request") /\ UNCHANGED <<primary, faults>>
       \/ StartWorker /\ Fault /\ Raise("error")
       \/ Fault /\ Raise("error") /\ UNCHANGED lease
    /\ UNCHANGED <<store, stream, signal, known, active, published, control, verdict>>

Ask ==
    /\ at = "request" /\ Request /\ Go("await")
    /\ UNCHANGED <<faults, store, stream, signal, known, active, published, control, primary, verdict>>

Receive ==
    /\ at = "await" /\ worker \notin {"ready", "spawning"}
    /\ IF refused THEN Raise("error") ELSE Go("bind") /\ UNCHANGED primary
    /\ UNCHANGED <<lease, faults, store, stream, signal, known, active, published, control, verdict>>

(* _bind_recovery_process, then bind_process, whose record may fail unwritten,  *)
(* half written, or written                                                     *)
Written(state) == control' \in {control, "torn", state}
Bind ==
    /\ at = "bind"
    /\ \/ /\ known' = TRUE /\ active' = TRUE /\ published' = TRUE /\ control' = "bound" /\ Go("stream")
          /\ UNCHANGED <<primary, faults>>
       \/ Fault /\ Raise("error") /\ UNCHANGED <<known, active, published, control>>
       \/ Fault /\ Raise("error") /\ known' = TRUE /\ active' = TRUE /\ Written("bound") /\ UNCHANGED published
    /\ UNCHANGED <<lease, store, stream, signal, verdict>>

WriteQuery ==
    /\ at = "stream" /\ asked < Objects /\ child = "alive"
    /\ asked' = asked + 1
    /\ UNCHANGED <<lease, faults, at, store, given, verified, status, signal, known, active, published, control,
                   primary, verdict>>

(* one answer of the child: consume_stdout and complete_object *)
ReadAnswer ==
    /\ at = "stream" /\ verified < given
    /\ IF store[verified + 1] = "good"
       THEN verified' = verified + 1 /\ UNCHANGED <<at, primary>>
       ELSE Raise("invalid") /\ UNCHANGED verified
    /\ UNCHANGED <<lease, faults, store, asked, given, status, signal, known, active, published, control, verdict>>

(* a malformed or oversized stream, more errors than allowed, a failing call *)
StreamFails ==
    /\ at = "stream" /\ Fault /\ \E kind \in {"invalid", "error"} : Raise(kind)
    /\ UNCHANGED <<lease, store, stream, signal, known, active, published, control, verdict>>

StreamEnds ==
    /\ at = "stream" /\ child \in {"orphaned", "gone"} /\ verified = given
    /\ signal # "pending"
    /\ Go("reap")
    /\ UNCHANGED <<lease, faults, store, stream, signal, known, active, published, control, primary, verdict>>

Complete == status = "good" /\ asked = Objects /\ verified = Objects
Judge ==
    /\ at = "reap"
    /\ IF signal = "pending" THEN signal' = "taken" /\ Raise("signal")
       ELSE IF Complete THEN Go("settle") /\ UNCHANGED <<signal, primary>>
       ELSE Raise("invalid") /\ UNCHANGED signal
    /\ UNCHANGED <<lease, faults, store, stream, known, active, published, control, verdict>>

(* The child: git cat-file --batch answers what it was asked, in order *)
Answer ==
    /\ child = "alive" /\ given < asked /\ given' = given + 1
    /\ UNCHANGED <<lease, faults, at, store, asked, verified, status, signal, known, active, published, control,
                   primary, verdict>>
ChildEnds ==
    /\ Exit
    /\ \/ child = "alive" /\ status' \in {"good", "bad"} \cup {x \in {"torn"} : given < asked}
       \/ child = "orphaned" /\ UNCHANGED status
    /\ UNCHANGED <<at, store, asked, given, verified, signal, known, active, published, control, primary, verdict>>

LeaseWorks == Worker /\ UNCHANGED own

--------------------------------------------------------------------------------
(* The finally clause *)

(* the selector is closed, and the lease told to settle *)
Settle ==
    /\ at = "settle" /\ AskToSettle /\ Go("settling")
    /\ \/ UNCHANGED <<primary, faults>>
       \/ Fault /\ primary' = (IF primary = "none" THEN "error" ELSE primary)
    /\ UNCHANGED <<store, stream, signal, known, active, published, control, verdict>>

(* settle waits until its own deadline, through any interrupt; only an          *)
(* interrupt, or a process without a proof, is raised by it                     *)
Settled ==
    /\ at = "settling"
    /\ \/ WorkerOver /\ quiet' = Proven
       \/ ~WorkerOver /\ quiet' = FALSE
    /\ leaked' = ~quiet'
    /\ \/ UNCHANGED <<second, faults>>
       \/ Fault /\ second' = (IF primary = "none" THEN {"interrupt"} ELSE {})
    /\ Go(IF quiet' THEN "release" ELSE IF published THEN "seal" ELSE "late")
    /\ UNCHANGED <<lease, store, stream, signal, known, active, published, control, primary, receipt, outcome>>

(* a process whose record was not completed is bound now, if the lease knows it *)
BindLate ==
    /\ at = "late" /\ Go("seal")
    /\ \/ /\ known \/ child # "none"
          /\ known' = TRUE /\ active' = TRUE
          /\ \/ active /\ published' = TRUE /\ UNCHANGED <<control, faults>>
             \/ ~active /\ published' = TRUE /\ control' = "bound" /\ UNCHANGED faults
             \/ ~active /\ Fault /\ Written("bound") /\ UNCHANGED published
       \/ ~known /\ (Fault \/ (child = "none" /\ UNCHANGED faults)) /\ UNCHANGED <<known, active, published, control>>
    /\ UNCHANGED <<lease, store, stream, signal, primary, verdict>>

(* _retain_unquiesced_workspace: a control is named as a way to recover only    *)
(* when its record is sealed                                                    *)
Seal ==
    /\ at = "seal" /\ Go("check")
    /\ \/ active /\ control' = "sealed" /\ receipt' = "control" /\ UNCHANGED faults
       \/ active /\ Fault /\ Written("sealed") /\ receipt' = (IF control' = "sealed" THEN "control" ELSE "unavailable")
       \/ ~active /\ receipt' = "unavailable" /\ UNCHANGED <<control, faults>>
    /\ UNCHANGED <<lease, store, stream, signal, known, active, published, primary, quiet, leaked, second,
                   outcome>>

Release ==
    /\ at = "release" /\ Go("check")
    /\ IF known /\ published
       THEN /\ active' = FALSE
            /\ \/ control' = "armed" /\ UNCHANGED <<second, faults>>
               \/ Fault /\ Written("armed") /\ second' = second \cup {"release"}
       ELSE UNCHANGED <<active, control, second, faults>>
    /\ UNCHANGED <<lease, store, stream, signal, known, published, primary, quiet, leaked, receipt,
                   outcome>>

CheckAgain ==
    /\ at = "check" /\ Go("close")
    /\ \/ UNCHANGED <<second, faults>>
       \/ Fault /\ second' = second \cup {"drift"}
    /\ UNCHANGED <<lease, store, stream, signal, known, active, published, control, primary, quiet, leaked,
                   receipt, outcome>>

(* partial_control.close(retain=process_leak is not None) *)
Close ==
    /\ at = "close" /\ Go("unmask")
    /\ \/ leaked /\ UNCHANGED <<control, second, faults>>
       \/ ~leaked /\ control' = "removed" /\ UNCHANGED <<second, faults>>
       \/ Fault /\ second' = second \cup {"close"} /\ control' \in {control, IF leaked THEN control ELSE "removed"}
    /\ UNCHANGED <<lease, store, stream, signal, known, active, published, primary, quiet, leaked,
                   receipt, outcome>>

(* which of the errors is raised, before the mask is lifted *)
Selected ==
    IF "drift" \in second THEN "drift"
    ELSE IF leaked THEN "leak"
    ELSE IF "interrupt" \in second THEN "interrupt"
    ELSE IF primary # "none" THEN primary
    ELSE IF "release" \in second THEN "release"
    ELSE IF "close" \in second THEN "close" ELSE "verified"

(* _finish_forwarded_signal_mask: a signal that nobody took is raised unless an *)
(* error is, and a mask that cannot be restored replaces either                 *)
Unmask ==
    /\ at = "unmask" /\ Go("over")
    /\ signal' = (IF signal = "pending" THEN "taken" ELSE signal)
    /\ \/ outcome' = (IF Selected = "verified" /\ signal = "pending" THEN "signal" ELSE Selected) /\ UNCHANGED faults
       \/ Fault /\ outcome' = "mask"
    /\ UNCHANGED <<lease, store, stream, known, active, published, control, primary, quiet, leaked, receipt,
                   second>>

Call == SignalFound \/ DeadlineFound \/ CreateControl \/ Start \/ Ask \/ Receive \/ Bind \/ WriteQuery \/ ReadAnswer
        \/ StreamFails \/ StreamEnds \/ Judge \/ Settle \/ Settled \/ BindLate \/ Seal \/ Release \/ CheckAgain
        \/ Close \/ Unmask
Next == Arrive \/ Call \/ LeaseWorks \/ Answer \/ ChildEnds

(* The deadline and settle's own deadline make the call go on whatever the      *)
(* worker and the child do.                                                     *)
Spec == Init /\ [][Next]_vars /\ WF_vars(Call)

--------------------------------------------------------------------------------
(* What it promises *)

(* A range is reported verified only if every object of the store hashes to its *)
(* name, the child is gone, its control was removed and no signal was lost.     *)
VerifiedIsWhole ==
    outcome = "verified" =>
        /\ \A i \in 1..Objects : store[i] = "good"
        /\ WorkerOver /\ ~Lives /\ control = "removed" /\ signal = "none"

(* The control beside the workspace is taken away only when no child is left    *)
(* and none can still be spawned by a worker that was late.                     *)
ControlOutlivesProcess == control = "removed" => WorkerOver /\ ~Lives

(* A call that ends over a child it could not end, or over a worker that may    *)
(* still spawn one, keeps the control and says so.                              *)
SurvivorIsReported ==
    at = "over" /\ (Lives \/ ~WorkerOver) /\ control # "none" =>
        receipt # "none" /\ outcome \in {"leak", "drift", "mask"}

(* A receipt that offers a control for recovery offers a sealed one that names  *)
(* the process.                                                                 *)
ReceiptIsTrue == receipt = "control" => control = "sealed" /\ known

(* Seen from outside the call is a BoundedCall: nothing of the command appears  *)
(* after its caller was told that it is gone, and a result is given only then.  *)
Promise == INSTANCE BoundedCall WITH
    call <- CASE outcome = "running" -> "running" [] outcome = "verified" -> "returned" [] OTHER -> "failed",
    alive <- Lives
KeepsPromise == Promise!Next \/ UNCHANGED Promise!vars

(* The call ends, even with a worker that hangs in its factory. *)
Begun == at = "start"
Ended == at = "over"
================================================================================
