----------------------------- MODULE KeychainBroker -----------------------------
(* The broker that hands a Claude login on macOS to the review's own security   *)
(* client (providers.py): two servers, each with a thread, one thread for every *)
(* connection, and a context that starts them, lends them to the review and     *)
(* stops them.  Starting a thread may be interrupted or fail with the thread    *)
(* running; every wait has a deadline and may end without what it waits for.    *)
EXTENDS Naturals, FiniteSets

CONSTANTS Clients,                 \* connections, one handler thread each
          Strangers,               \* those of processes outside the runtime's session
          MaxFaults, MaxSignals    \* bounds: failing calls, signals

Servers == {"identity", "serve"}
Helpers == {"stopIdentity", "stopServe", "abandon", "again"}
Owned == Servers \cup Helpers
Threads == Owned \cup Clients

VARIABLES at, who, err,       \* the context's step; the thread it starts, and that start's error
          snap, live,         \* thread_start_owner.snapshot.state; what the thread really does
          loop, request,      \* of a server: its loop, and that it was told to stop
          closed,             \* the listening sockets closed
          gate, cancelled,    \* serve_gate, serve_cancelled
          admitted, exposed, leaving,
          srv,                \* _closing, _abandoned, credential, _handler_threads, the one being started
          errors,             \* _handler_errors, serve errors
          h, cap, copy, got,  \* of a client: its handler's step, capability, credential at hand, received
          bound,              \* _runtime_session_id
          mask, stuck, pending,    \* blocked now; a mask that could not be restored
          told, quiet, latched, out,
          faults, signals

start == <<who, err>>
threads == <<snap, live>>
loops == <<loop, request, closed>>
gates == <<gate, cancelled, admitted, exposed, leaving>>
broker == <<srv, errors, bound>>
clients == <<h, cap, copy, got>>
signal == <<mask, stuck, pending, signals>>
verdict == <<told, quiet, latched, out>>
vars == <<at, start, threads, loops, gates, broker, clients, signal, verdict, faults>>

Steps == {"bind", "mask", "spawn", "restore", "identityStarted", "identityWait", "failed", "serveStarted",
          "admit", "serveWait", "body", "out", "identityJoin", "serveCheck", "close", "joinStop", "joinServe",
          "joinHandlers", "closePublication", "abandonWait", "detach", "scrub", "failClosed", "againWait", "recover", "over"}

TypeOK ==
    /\ at \in Steps /\ who \in Owned /\ err \in BOOLEAN
    /\ snap \in [Threads -> {"no", "unknown", "yes"}] /\ live \in [Threads -> {"none", "made", "run", "over"}]
    /\ loop \in [Servers -> {"out", "serving", "stopped"}] /\ request \subseteq Servers /\ closed \subseteq Servers
    /\ gate \in BOOLEAN /\ cancelled \in BOOLEAN /\ admitted \in BOOLEAN /\ exposed \in BOOLEAN /\ leaving \in BOOLEAN
    /\ srv \in [closing : BOOLEAN, abandoned : BOOLEAN, full : BOOLEAN, handlers : SUBSET Clients, starting : SUBSET Clients]
    /\ errors \in BOOLEAN
    /\ h \in [Clients -> {"none", "operation", "send", "write", "leave", "done"}]
    /\ cap \subseteq Clients /\ copy \subseteq Clients /\ got \subseteq Clients /\ bound \in BOOLEAN
    /\ mask \in BOOLEAN /\ stuck \in BOOLEAN /\ pending \in BOOLEAN
    /\ told \in BOOLEAN /\ quiet \in BOOLEAN /\ latched \in BOOLEAN
    /\ out \in {"running", "ok", "raised", "unproven"}
    /\ faults \in 0..MaxFaults /\ signals \in 0..MaxSignals

Init ==
    /\ at = "bind" /\ who = "identity" /\ err = FALSE
    /\ snap = [t \in Threads |-> "no"] /\ live = [t \in Threads |-> "none"]
    /\ loop = [s \in Servers |-> "out"] /\ request = {} /\ closed = {}
    /\ gate = FALSE /\ cancelled = TRUE /\ admitted = FALSE /\ exposed = FALSE /\ leaving = FALSE
    /\ srv = [closing |-> FALSE, abandoned |-> FALSE, full |-> TRUE, handlers |-> {}, starting |-> {}]
    /\ errors = FALSE /\ h = [c \in Clients |-> "none"] /\ cap = {} /\ copy = {} /\ got = {} /\ bound = FALSE
    /\ mask = FALSE /\ stuck = FALSE /\ pending = FALSE
    /\ told = FALSE /\ quiet = TRUE /\ latched = FALSE /\ out = "running"
    /\ faults = 0 /\ signals = 0

Go(a) == at' = a
(* where a signal that waits is noticed first *)
Strikes == {"mask", "restore", "identityWait", "admit", "serveWait", "body", "identityJoin", "serveCheck", "joinStop", "joinServe",
            "joinHandlers", "abandonWait", "againWait", "detach"}
Fault == faults < MaxFaults /\ faults' = faults + 1
Struck == pending /\ ~mask
MayRun(t) == snap[t] # "no"

--------------------------------------------------------------------------------
(* Starting a thread: _start_claude_thread_inheriting_forwarded_signal_mask *)

Start(t) == at' = "mask" /\ who' = t /\ err' = FALSE
Started(t) == CASE t = "identity" -> "identityStarted"
                [] t = "serve" -> "serveStarted"
                [] t = "stopIdentity" -> "identityJoin"
                [] t = "stopServe" -> "joinStop"
                [] t = "abandon" -> "abandonWait"
                [] t = "again" -> "againWait"

(* _acquire_claude_forwarded_signal_mask: until it has the mask nothing starts *)
Acquire ==
    /\ at = "mask"
    /\ \/ /\ ~Struck /\ mask' = TRUE /\ snap' = [snap EXCEPT ![who] = "unknown"] /\ Go("spawn")
          /\ UNCHANGED <<err, pending, faults>>
       \/ Struck /\ pending' = FALSE /\ err' = TRUE /\ Go(Started(who)) /\ UNCHANGED <<mask, snap, faults>>
       \/ ~Struck /\ Fault /\ err' = TRUE /\ Go(Started(who)) /\ UNCHANGED <<mask, pending, snap>>
    /\ UNCHANGED <<who, live, loops, gates, broker, clients, stuck, signals, verdict>>
(* thread.start() waits for the thread to run; it fails without a thread, or with one that runs later *)
Spawn ==
    /\ at = "spawn" /\ Go("restore")
    /\ \/ live' = [live EXCEPT ![who] = "run"] /\ snap' = [snap EXCEPT ![who] = "yes"] /\ UNCHANGED <<err, faults>>
       \/ Fault /\ err' = TRUE /\ live' \in {live, [live EXCEPT ![who] = "made"]} /\ UNCHANGED snap
    /\ UNCHANGED <<who, loops, gates, broker, clients, signal, verdict>>
(* _restore_claude_signal_mask_owner_bounded tries twice; a signal strikes here *)
Restore ==
    /\ at = "restore" /\ Go(Started(who))
    /\ \/ (~pending \/ stuck) /\ UNCHANGED <<snap, err, stuck, pending, faults>>
       \/ /\ err' = TRUE /\ snap' = [snap EXCEPT ![who] = "unknown"]
          /\ \/ pending /\ ~stuck /\ pending' = FALSE /\ UNCHANGED <<stuck, faults>>
             \/ Fault /\ pending' = (pending /\ stuck) /\ UNCHANGED stuck
             \/ Fault /\ stuck' = TRUE /\ UNCHANGED pending
    /\ mask' = stuck'
    /\ UNCHANGED <<who, live, loops, gates, broker, clients, signals, verdict>>

--------------------------------------------------------------------------------
(* The threads *)

Begin(t) ==
    /\ live[t] = "made" /\ live' = [live EXCEPT ![t] = "run"]
    /\ UNCHANGED <<at, start, snap, loops, gates, broker, clients, signal, verdict, faults>>
Over(t) == live' = [live EXCEPT ![t] = "over"]

(* serve: a thread that is let go because its start failed does not serve *)
Enter(s) ==
    /\ live[s] = "run" /\ loop[s] = "out" /\ (s = "serve" => gate)
    /\ IF s = "serve" /\ cancelled THEN loop' = [loop EXCEPT ![s] = "stopped"] /\ Over(s)
                                   ELSE loop' = [loop EXCEPT ![s] = "serving"] /\ UNCHANGED live
    /\ UNCHANGED <<at, start, snap, request, closed, gates, broker, clients, signal, verdict, faults>>
(* record_serve_stopped: it was told to, or it failed *)
Stopped(s) ==
    /\ loop[s] = "serving" /\ (s = "serve" => srv.starting = {})
    /\ loop' = [loop EXCEPT ![s] = "stopped"] /\ Over(s)
    /\ \/ s \in request /\ UNCHANGED <<errors, faults>>
       \/ Fault /\ errors' = TRUE
    /\ UNCHANGED <<at, start, snap, request, closed, gates, srv, bound, clients, signal, verdict>>
(* request_shutdown: server.shutdown() returns when the loop has stopped *)
Target(t) == IF t = "stopIdentity" THEN "identity" ELSE "serve"
Shutdown(t) ==
    /\ t \in {"stopIdentity", "stopServe"} /\ live[t] = "run"
    /\ IF loop[Target(t)] = "stopped" THEN Over(t) /\ UNCHANGED request
       ELSE Target(t) \notin request /\ request' = request \cup {Target(t)} /\ UNCHANGED live
    /\ UNCHANGED <<at, start, snap, loop, closed, gates, broker, clients, signal, verdict, faults>>
(* the review's own abandonment: it may fail, and it may never return *)
Abandoned(t) ==
    /\ t \in {"abandon", "again"} /\ live[t] = "run" /\ Over(t)
    /\ UNCHANGED <<at, start, snap, loops, gates, broker, clients, signal, verdict, faults>>

(* _ClaudeKeychainIdentityHandler: only for the runtime's session, once bound *)
Identify(c) ==
    /\ loop["identity"] = "serving" /\ "identity" \notin closed /\ c \notin cap
    /\ \/ bound /\ c \notin Strangers /\ cap' = cap \cup {c} /\ UNCHANGED <<errors, faults>>
       \/ Fault /\ errors' = TRUE /\ UNCHANGED cap
    /\ UNCHANGED <<at, start, threads, loops, gates, srv, bound, h, copy, got, signal, verdict>>
(* process_request, under the handlers' condition *)
Accept(c) ==
    /\ loop["serve"] = "serving" /\ "serve" \notin closed /\ srv.starting = {} /\ h[c] = "none"
    /\ snap[c] = "no" /\ c \notin srv.handlers
    /\ IF srv.closing THEN h' = [h EXCEPT ![c] = "done"] /\ UNCHANGED srv
       ELSE srv' = [srv EXCEPT !.handlers = @ \cup {c}, !.starting = {c}] /\ UNCHANGED h
    /\ UNCHANGED <<at, start, threads, loops, gates, errors, bound, cap, copy, got, signal, verdict, faults>>

(* its thread, which is forgotten only when it cannot run *)
Hand(c) ==
    /\ srv.starting = {c}
    /\ \/ live' = [live EXCEPT ![c] = "run"] /\ snap' = [snap EXCEPT ![c] = "yes"]
          /\ srv' = [srv EXCEPT !.starting = {}] /\ UNCHANGED <<errors, faults>>
       \/ Fault /\ errors' = TRUE
          /\ \/ srv' = [srv EXCEPT !.starting = {}, !.handlers = @ \ {c}] /\ UNCHANGED threads
             \/ /\ srv' = [srv EXCEPT !.starting = {}] /\ snap' = [snap EXCEPT ![c] = "unknown"]
                /\ live' \in {live, [live EXCEPT ![c] = "made"]}
    /\ UNCHANGED <<at, start, loops, gates, bound, clients, signal, verdict>>

--------------------------------------------------------------------------------
(* A handler: _ClaudeKeychainCredentialHandler.handle *)

(* its socket was shut, by begin_closing or because its start had failed *)
Shut(c) == srv.closing \/ snap[c] # "yes"
Do(c, from, to) == h[c] = from /\ h' = [h EXCEPT ![c] = to]
Open(c) ==
    /\ live[c] = "run" /\ Do(c, "none", IF Shut(c) \/ c \notin cap THEN "leave" ELSE "operation")
    /\ UNCHANGED <<at, start, threads, loops, gates, broker, cap, copy, got, signal, verdict, faults>>
(* take_initial_credential *)
Take(c) ==
    /\ Do(c, "operation", "send")
    /\ IF srv.full /\ ~srv.abandoned THEN copy' = copy \cup {c} /\ srv' = [srv EXCEPT !.full = FALSE]
                                     ELSE UNCHANGED <<copy, srv>>
    /\ UNCHANGED <<at, start, threads, loops, gates, errors, bound, cap, got, signal, verdict, faults>>
Send(c) ==
    /\ Do(c, "send", "leave") /\ copy' = copy \ {c} /\ got' = (IF c \in copy /\ ~Shut(c) THEN got \cup {c} ELSE got)
    /\ UNCHANGED <<at, start, threads, loops, gates, broker, cap, signal, verdict, faults>>
(* a refreshed credential: the callback may be slow, fail or never return *)
Write(c) ==
    /\ Do(c, "operation", IF Shut(c) \/ srv.abandoned THEN "leave" ELSE "write")
    /\ UNCHANGED <<at, start, threads, loops, gates, broker, cap, copy, got, signal, verdict, faults>>
Wrote(c) ==
    /\ Do(c, "write", "leave")
    /\ \/ UNCHANGED <<errors, faults>>
       \/ Fault /\ errors' = TRUE
    /\ UNCHANGED <<at, start, threads, loops, gates, srv, bound, cap, copy, got, signal, verdict>>
(* process_request_thread *)
Leave(c) ==
    /\ Do(c, "leave", "done") /\ srv' = [srv EXCEPT !.handlers = @ \ {c}] /\ Over(c)
    /\ UNCHANGED <<at, start, snap, loops, gates, errors, bound, cap, copy, got, signal, verdict, faults>>

--------------------------------------------------------------------------------
(* The context: its way in *)

Tell == told' = TRUE
Held == UNCHANGED <<snap, live, loop, request, bound, clients, mask, stuck, signals>>
\* what the steps of the context other than the starts leave alone

Ends(o) == out' = o /\ Go("over")
(* the identity endpoint is bound; nothing runs before it is *)
Bind ==
    /\ at = "bind" /\ UNCHANGED <<closed, gates, srv, errors, pending, told, quiet, latched, out>>
    /\ \/ Start("identity") /\ UNCHANGED faults
       \/ Fault /\ Go("failed") /\ UNCHANGED start
    /\ Held
(* a thread that may run is stopped, one that cannot is not waited for *)
IdentityStarted ==
    /\ at = "identityStarted"
    /\ IF ~err THEN Go("identityWait") /\ UNCHANGED start
       ELSE IF MayRun("identity") THEN Start("stopIdentity") ELSE Go("failed") /\ UNCHANGED start
    /\ UNCHANGED <<closed, gates, srv, errors, pending, verdict, faults>> /\ Held
(* wait_until_serving, or its deadline passes, or a signal strikes *)
IdentityWait ==
    /\ at = "identityWait"
    /\ \/ ~Struck /\ loop["identity"] = "serving" /\ Start("serve") /\ UNCHANGED pending
       \/ Start("stopIdentity") /\ pending' = (pending /\ ~Struck)
    /\ UNCHANGED <<closed, gates, srv, errors, verdict, faults>> /\ Held
(* nothing was lent: scrub_initial_credential, and the error *)
Fails ==
    /\ at = "failed" /\ closed' = Servers /\ srv' = [srv EXCEPT !.full = FALSE] /\ Ends("raised")
    /\ UNCHANGED <<start, gates, errors, pending, told, quiet, latched, faults>> /\ Held
Leaves == Go("out") /\ Tell
ServeStarted ==
    /\ at = "serveStarted"
    /\ IF err THEN Leaves /\ UNCHANGED cancelled ELSE Go("admit") /\ cancelled' = FALSE /\ UNCHANGED told
    /\ UNCHANGED <<start, closed, gate, admitted, exposed, leaving, srv, errors, pending, quiet, latched, out, faults>> /\ Held
(* serve_admitted, serve_gate; a signal may come between the two lines *)
Admit ==
    /\ at = "admit"
    /\ \/ ~Struck /\ admitted' = TRUE /\ gate' = TRUE /\ Go("serveWait") /\ UNCHANGED <<pending, told>>
       \/ Struck /\ pending' = FALSE /\ Leaves /\ UNCHANGED <<admitted, gate>>
    /\ UNCHANGED <<start, closed, cancelled, exposed, leaving, srv, errors, quiet, latched, out, faults>> /\ Held
ServeWait ==
    /\ at = "serveWait"
    /\ \/ ~Struck /\ loop["serve"] = "serving" /\ exposed' = TRUE /\ Go("body") /\ UNCHANGED <<pending, told>>
       \/ Leaves /\ pending' = (pending /\ ~Struck) /\ UNCHANGED exposed
    /\ UNCHANGED <<start, closed, gate, cancelled, admitted, leaving, srv, errors, quiet, latched, out, faults>> /\ Held

--------------------------------------------------------------------------------
(* The review uses it, and the way out *)

(* bind_runtime_process: once *)
BindRuntime ==
    /\ at = "body" /\ ~bound /\ bound' = TRUE
    /\ UNCHANGED <<at, start, threads, loops, gates, srv, errors, clients, signal, verdict, faults>>
Body ==
    /\ at = "body"
    /\ \/ ~Struck /\ Go("out") /\ UNCHANGED <<pending, told>>
       \/ Leaves /\ pending' = (pending /\ ~Struck)
    /\ UNCHANGED <<start, closed, gates, srv, errors, quiet, latched, out, faults>> /\ Held
(* a thread that was not admitted is let go, told not to serve *)
LetGo ==
    /\ at = "out" /\ leaving' = TRUE /\ gate' = TRUE /\ cancelled' = (cancelled \/ ~admitted) /\ Start("stopIdentity")
    /\ UNCHANGED <<closed, admitted, exposed, srv, errors, pending, verdict, faults>> /\ Held

(* _bounded_claude_thread_quiescence: whether the thread is known to be over; the deadline may pass before it is, *)
(* an error of the wait counts like it, and of a thread that never began nothing is known                        *)
Known(t) == IF MayRun(t) THEN {FALSE} \cup (IF live[t] = "over" THEN {TRUE} ELSE {}) ELSE {TRUE}
Interruptible == pending' = (pending /\ ~Struck)
(* _stop_claude_keychain_identity_server *)
IdentityJoin ==
    /\ at = "identityJoin" /\ Interruptible /\ closed' = closed \cup {"identity"}
    /\ \E done \in Known("stopIdentity") :
         told' = (told \/ err \/ Struck \/ ~done \/ ~MayRun("stopIdentity") \/ live["identity"] # "over")
    /\ Go(IF leaving THEN "serveCheck" ELSE "failed")
    /\ UNCHANGED <<start, gates, srv, errors, quiet, latched, out, faults>> /\ Held
(* one that was not admitted must be seen to stop *)
ServeCheck ==
    /\ at = "serveCheck" /\ closed' = (IF admitted THEN closed ELSE Servers)
    /\ \/ (admitted \/ ~MayRun("serve")) /\ Go(IF admitted THEN "close" ELSE "scrub") /\ UNCHANGED <<quiet, told, pending>>
       \/ /\ ~admitted /\ MayRun("serve") /\ Interruptible
          /\ quiet' \in (IF Struck THEN {FALSE} ELSE Known("serve")) /\ told' = (told \/ ~quiet')
          /\ Go(IF quiet' THEN "scrub" ELSE "recover")
    /\ UNCHANGED <<start, gates, srv, errors, latched, out, faults>> /\ Held

(* _bounded_claude_keychain_server_shutdown *)
Close ==
    /\ at = "close" /\ srv' = [srv EXCEPT !.closing = TRUE] /\ Start("stopServe")
    /\ UNCHANGED <<closed, gates, errors, pending, verdict, faults>> /\ Held
Join(step, done, next) ==
    /\ at = step /\ Interruptible /\ quiet' \in {quiet /\ d : d \in done} /\ (Struck => ~quiet')
    /\ told' = (told \/ err \/ ~quiet') /\ Go(next)
JoinStop ==
    /\ Join("joinStop", IF MayRun("stopServe") THEN Known("stopServe") ELSE {FALSE}, "joinServe") /\ closed' = Servers
    /\ UNCHANGED <<start, gates, srv, errors, latched, out, faults>> /\ Held
JoinServe ==
    /\ Join("joinServe", Known("serve"), "joinHandlers")
    /\ UNCHANGED <<start, closed, gates, srv, errors, latched, out, faults>> /\ Held
(* wait_for_handlers, and what they reported *)
JoinHandlers ==
    /\ at = "joinHandlers" /\ Interruptible
    /\ \E done \in {FALSE} \cup (IF srv.handlers = {} THEN {TRUE} ELSE {}) : quiet' = (quiet /\ done /\ ~Struck)
    /\ told' = (told \/ ~quiet' \/ errors) /\ Go(IF quiet' THEN "scrub" ELSE "closePublication")
    /\ UNCHANGED <<start, closed, gates, srv, errors, latched, out, faults>> /\ Held
(* close_pending_update_publication: nothing is given or taken from here on *)
ClosePublication ==
    /\ at = "closePublication" /\ srv' = [srv EXCEPT !.abandoned = TRUE]
    /\ IF exposed THEN Start("abandon") ELSE Go("detach") /\ UNCHANGED start
    /\ UNCHANGED <<closed, gates, errors, pending, verdict, faults>> /\ Held
(* _bounded_claude_keychain_abandonment *)
AbandonWait(t) ==
    /\ Interruptible
    /\ \/ live[t] = "over" /\ ~err /\ ~Struck /\ latched' = TRUE /\ UNCHANGED told
       \/ Tell /\ UNCHANGED latched
AbandonEnds ==
    /\ at = "abandonWait" /\ AbandonWait("abandon") /\ Go(IF latched' THEN "detach" ELSE "failClosed")
    /\ UNCHANGED <<start, closed, gates, srv, errors, quiet, out, faults>> /\ Held
(* try_abandon_and_detach_pending_update: the copy it holds is zeroed *)
Detach ==
    /\ at = "detach" /\ Interruptible /\ srv' = [srv EXCEPT !.abandoned = TRUE, !.full = FALSE]
    /\ told' = (told \/ Struck) /\ Go("recover")
    /\ UNCHANGED <<start, closed, gates, errors, quiet, latched, out, faults>> /\ Held
(* the review is told to fail closed, and abandoned again *)
FailClosed ==
    /\ at = "failClosed" /\ Start("again")
    /\ UNCHANGED <<closed, gates, srv, errors, pending, verdict, faults>> /\ Held
AgainEnds ==
    /\ at = "againWait" /\ AbandonWait("again") /\ Go(IF latched' THEN "detach" ELSE "recover")
    /\ UNCHANGED <<start, closed, gates, srv, errors, quiet, out, faults>> /\ Held
(* scrub_initial_credential, and the errors *)
Scrub ==
    /\ at = "scrub" /\ srv' = [srv EXCEPT !.full = FALSE] /\ Ends(IF told THEN "raised" ELSE "ok")
    /\ UNCHANGED <<start, closed, gates, errors, pending, told, quiet, latched, faults>> /\ Held
(* the error is marked, whatever the recovery answers *)
Recover ==
    /\ at = "recover" /\ Ends("unproven")
    /\ UNCHANGED <<start, closed, gates, srv, errors, pending, told, quiet, latched, faults>> /\ Held

Arrive ==
    /\ at \in Strikes /\ ~pending /\ signals < MaxSignals /\ signals' = signals + 1 /\ pending' = TRUE
    /\ UNCHANGED <<at, start, threads, loops, gates, broker, clients, mask, stuck, verdict, faults>>

Context ==
    \/ Acquire \/ Spawn \/ Restore \/ Bind \/ IdentityStarted \/ IdentityWait \/ Fails \/ ServeStarted
    \/ Admit \/ ServeWait \/ Body \/ LetGo \/ IdentityJoin \/ ServeCheck \/ Close \/ JoinStop \/ JoinServe
    \/ JoinHandlers \/ ClosePublication \/ AbandonEnds \/ Detach \/ FailClosed \/ AgainEnds \/ Scrub \/ Recover
Begins == \E t \in Threads : Begin(t)
Others ==
    \/ BindRuntime \/ Arrive
    \/ \E s \in Servers : Enter(s) \/ Stopped(s)
    \/ \E t \in Helpers : Shutdown(t) \/ Abandoned(t)
    \/ \E c \in Clients : \/ Identify(c) \/ Accept(c) \/ Hand(c) \/ Open(c) \/ Take(c) \/ Send(c) \/ Write(c)
                          \/ Wrote(c) \/ Leave(c)
Next == Context \/ Begins \/ Others
Spec == Init /\ [][Next]_vars
FairSpec == Spec /\ WF_vars(Context)

--------------------------------------------------------------------------------
(* A thread of which it is said that it did not start never runs. *)
NotStartedIsTrue == \A t \in Threads : snap[t] = "no" /\ ~(t = who /\ at \in {"mask", "spawn"}) => live[t] = "none"

(* Connections are served only by a thread whose start is known to have worked  *)
(* and that was admitted; any other is let go without serving.                  *)
OnlyAdmittedServe == loop["serve"] = "serving" => admitted /\ snap["serve"] = "yes"

(* A context that calls itself quiet has left no handler, no serving thread and *)
(* no copy of the credential behind, and none appears later.                    *)
QuietMeansGone ==
    at = "over" /\ out # "unproven" =>
        /\ \A c \in Clients : h[c] \in {"none", "done"} /\ live[c] \in {"none", "over"} /\ c \notin copy
        /\ live["serve"] \in {"none", "over"} /\ ~srv.full

(* What failed in a thread or a loop, and a mask that stayed, the context tells. *)
ErrorsAreTold ==
    out = "ok" => ~errors /\ ~stuck /\ live["identity"] = "over" /\ loop["identity"] = "stopped"

(* The login the review began with goes to one process at most, of the runtime's *)
(* session; when it cannot be known that the handlers stopped, they get nothing  *)
(* more once the context is over.                                               *)
OneReader ==
    /\ Cardinality(got \cup copy) <= 1 /\ (got \cup copy) \cap Strangers = {}
    /\ at = "over" /\ out = "unproven" /\ admitted => srv.abandoned

(* The context ends, whatever the servers, the handlers and the callbacks do. *)
Begun == at = "bind"
Ended == at = "over"
================================================================================
