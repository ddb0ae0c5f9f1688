---------------------------- MODULE KeychainRefresh ----------------------------
(* The refresh of a Claude local login on macOS.  The runtime writes each       *)
(* refreshed credential to the broker; the handler of the write stages it in a  *)
(* durable recovery carrier and answers, and only when the runtime has ended is *)
(* the last staged credential written to the host's own carriers.  A refresh    *)
(* invalidates the credential before it, so a staged one must never be lost.    *)
(* When a handler does not stop in time, the runtime is abandoned and a         *)
(* recovery thread saves what the handlers left behind, both of which may still *)
(* run when the caller has gone on.  A credential is the handler that received  *)
(* it; a carrier is the set of credentials that its directory holds.            *)
EXTENDS Naturals, Sequences, FiniteSets, SequencesExt

CONSTANTS Handlers,     \* the writes of the runtime, one handler each
          Malformed,    \* those whose bytes are not a credential
          Old,          \* the credential the review began with
          None,
          MaxStages,    \* CLAUDE_MACOS_DURABLE_STAGE_MAX_GENERATIONS
          MaxFaults     \* bound on failing calls

VARIABLES at,       \* handler: what it does next
          gen,      \* handler: the generation it was observed as, 0 before
          answer,   \* handler: its update was published
          stage,    \* handler: its durable stage
          srv,      \* the broker: closing, abandoned, closed, the pending update, the update lock
          tx,       \* the refresh transaction: generations observed, committed and verified
          run,      \* what runtime_state_lock guards
          disk,     \* carrier: the credentials it holds
          host,     \* the credential in the host's carriers
          main, out, lock, fin,   \* the caller: its step, its error, the refresh lock, its finalization
          rec,      \* the recovery thread and its local state
          root,     \* the failure published when recovery timed out
          acked,    \* the writes answered as persisted
          stuck,    \* the carriers a removal failed on
          faults

vars == <<at, gen, answer, stage, srv, tx, run, disk, host, main, out, lock, fin, rec, root,
          acked, stuck, faults>>
broker == <<srv, tx>>
client == <<gen, acked, stuck>>
ends == <<main, out, lock, fin>>

--------------------------------------------------------------------------------
(* Carriers, errors and the calls on carriers *)

Pending(h) == <<"pending", h>>
Stage(h) == <<"stage", h>>
New(who) == <<"new", who>>
Root == <<"root">>
Carriers == {Pending(h) : h \in Handlers} \cup {Stage(h) : h \in Handlers}
                \cup {New("accept"), New("recovery")}
Values == Handlers \cup {Old}
Junk == <<"junk">>           \* a directory without a verified credential

(* an error: the carrier it says the credential is retained in, the credential  *)
(* it has proved to be there, and the path it leaves for cleanup                *)
Error(c, v, rest) == [at |-> c, val |-> v, rest |-> rest]
Proof(c, v, d) == IF v \in d[c] THEN v ELSE None
Claim(c, v, d) == Error(c, Proof(c, v, d), None)
Age(v) == IF v \in Handlers THEN gen[v] ELSE 0

(* what a call on carriers may leave: the carriers, its error, and whether it failed *)
Out(d, e, bad) == [disk |-> d, error |-> e, bad |-> bad]
Take(o) == /\ disk' = o.disk
           /\ o.bad => faults < MaxFaults
           /\ faults' = IF o.bad THEN faults + 1 ELSE faults
Fails == faults < MaxFaults /\ faults' = faults + 1
Nothing == Error(None, None, None)
Fine == Error(<<"fine">>, None, None)             \* no error
Published == Error(<<"published">>, None, None)   \* the error is the published failure

(* _retain_claude_macos_refreshed_credential: a failure leaves no directory, or *)
(* one for cleanup, or one whose credential was verified                        *)
Retained(c, v) ==
    IF disk[c] # {} THEN {Out(disk, Error(None, None, c), FALSE)}
    ELSE LET d == [disk EXCEPT ![c] = {v}] IN
         {Out(d, None, FALSE), Out(disk, Nothing, TRUE), Out(d, Claim(c, v, d), TRUE),
          Out([disk EXCEPT ![c] = {Junk}], Error(None, None, c), TRUE)}

(* _replace_claude_macos_recovery_credential: a failure leaves the carrier as   *)
(* it was, or with the new credential beside the old one, or with the new one   *)
Replaced(c, v) ==
    IF disk[c] = {} THEN {Out(disk, Nothing, FALSE)}
    ELSE LET d == [disk EXCEPT ![c] = {v}]
             both == [disk EXCEPT ![c] = @ \cup {v}]
         IN {Out(d, None, FALSE), Out(disk, Error(c, None, None), TRUE),
             Out(both, Claim(c, v, both), TRUE), Out(d, Claim(c, v, d), TRUE)}

(* _commit_claude_macos_durable_stage: the error names the directory by the     *)
(* name it has                                                                  *)
Committed(h) ==
    LET moved == [disk EXCEPT ![Pending(h)] = {}, ![Stage(h)] = {h}] IN
    {Out(moved, None, FALSE), Out(disk, Error(None, None, Pending(h)), TRUE),
     Out(disk, Claim(Pending(h), h, disk), TRUE), Out(moved, Claim(Stage(h), h, moved), TRUE)}

(* _remove_claude_macos_recovery_carrier: it removes only the credential it was *)
(* told; a failure keeps it, or leaves its empty directories                    *)
Removed(c, v) ==
    IF disk[c] # {v} THEN {Out(disk, Error(None, None, IF disk[c] = {} THEN Root ELSE c), FALSE)}
    ELSE {Out([disk EXCEPT ![c] = {}], None, FALSE), Out(disk, Error(c, v, c), TRUE),
          Out([disk EXCEPT ![c] = {Junk}], Error(None, None, c), TRUE)}
Marked(c, e) == IF e = None THEN stuck ELSE stuck \cup {c}

Latest(carriers) == carriers[Len(carriers)]
LastKept(carriers, d) == IF carriers = <<>> THEN Nothing
                     ELSE Claim(Latest(carriers).at, Latest(carriers).val, d)
Without(carriers, c) == SelectSeq(carriers, LAMBDA x : x.at # c)
(* _failed_claude_macos_recovery_error: the newer claim, else the older one *)
Failed(old, new) == [at |-> IF new.at # None \/ new.val # None THEN new.at ELSE old.at,
                     val |-> IF new.val # None THEN new.val
                             ELSE IF new.at = None THEN old.val ELSE None,
                     rest |-> IF new.rest # None THEN new.rest ELSE old.rest]

--------------------------------------------------------------------------------
(* A handler of one write *)

(* server.write_observed_callback: the write counts before its bytes are read *)
Observe(h) ==
    /\ at[h] = "idle" /\ ~srv.closing
    /\ at' = [at EXCEPT ![h] = "read"]
    /\ tx' = [tx EXCEPT !.observed = @ + 1]
    /\ gen' = [gen EXCEPT ![h] = tx.observed + 1]
    /\ UNCHANGED <<answer, stage, srv, run, disk, host, ends, rec, root, acked, stuck, faults>>

(* the client goes away, or the broker has closed its socket *)
Drop(h) ==
    /\ at[h] = "read"
    /\ at' = [at EXCEPT ![h] = "done"]
    /\ UNCHANGED <<gen, answer, stage, broker, run, disk, host, ends, rec, root, acked, stuck, faults>>

(* server.stage_pending_update *)
Receive(h) ==
    /\ at[h] = "read"
    /\ IF srv.abandoned \/ srv.closed
       THEN at' = [at EXCEPT ![h] = "done"] /\ UNCHANGED <<srv, stage>>
       ELSE /\ at' = [at EXCEPT ![h] = "queued"]
            /\ srv' = [srv EXCEPT !.pending = h, !.turn = @ + 1]
            /\ stage' = [stage EXCEPT ![h].turn = srv.turn + 1]
    /\ UNCHANGED <<gen, answer, tx, run, disk, host, ends, rec, root, acked, stuck, faults>>

(* update_lock; a later write has replaced this one if it is not pending *)
Enter(h) ==
    /\ at[h] = "queued" /\ srv.busy = None
    /\ srv' = [srv EXCEPT !.busy = h]
    /\ at' = [at EXCEPT ![h] = IF srv.abandoned \/ srv.pending # h THEN "answer" ELSE "admit"]
    /\ UNCHANGED <<gen, answer, stage, tx, run, disk, host, ends, rec, root, acked, stuck, faults>>

Refuse(h) == at' = [at EXCEPT ![h] = "answer"]
Blame(e) == [run EXCEPT !.errors = Append(@, e)]

(* stage_refreshed_credential: the newest write retires the staged credential   *)
(* and takes a place in the journal; the last place is for a terminal one       *)
Admit(h) ==
    /\ at[h] = "admit"
    /\ IF gen[h] # tx.observed \/ run.abandoned THEN Refuse(h) /\ UNCHANGED run
       ELSE LET clear == [run EXCEPT !.staged = None] IN
            CASE h \in Malformed ->
                    /\ Refuse(h)
                    /\ run' = [clear EXCEPT !.errors = Append(@, LastKept(run.carriers, disk))]
              [] h \notin Malformed /\ run.quota -> Refuse(h) /\ run' = clear
              [] h \notin Malformed /\ ~run.quota /\ run.used + 1 >= MaxStages ->
                    at' = [at EXCEPT ![h] = "claim"] /\ run' = clear
              [] OTHER -> at' = [at EXCEPT ![h] = "register"] /\ run' = [clear EXCEPT !.used = @ + 1]
    /\ UNCHANGED <<gen, answer, stage, broker, disk, host, ends, rec, root, acked, stuck, faults>>

(* claim_terminal_pending_update closes the broker to later writes *)
ClaimTerminal(h) ==
    /\ at[h] = "claim"
    /\ IF srv.abandoned \/ srv.closed \/ srv.pending # h
       THEN Refuse(h) /\ UNCHANGED <<srv, run, stage>>
       ELSE /\ srv' = [srv EXCEPT !.closed = TRUE]
            /\ IF run.abandoned \/ run.quota THEN Refuse(h) /\ UNCHANGED <<run, stage>>
               ELSE IF run.used < MaxStages
               THEN /\ at' = [at EXCEPT ![h] = "register"]
                    /\ stage' = [stage EXCEPT ![h].terminal = TRUE]
                    /\ run' = [run EXCEPT !.quota = TRUE, !.used = @ + 1]
               ELSE /\ Refuse(h) /\ UNCHANGED stage
                    /\ run' = [Blame(LastKept(run.carriers, disk)) EXCEPT !.quota = TRUE]
    /\ UNCHANGED <<gen, answer, tx, disk, host, ends, rec, root, acked, stuck, faults>>

(* the stage is in flight; naming it may fail *)
Register(h) ==
    /\ at[h] = "register"
    /\ \/ /\ UNCHANGED faults
          /\ IF run.abandoned THEN Refuse(h) /\ UNCHANGED run
             ELSE at' = [at EXCEPT ![h] = "write"] /\ run' = [run EXCEPT !.inflight = h]
       \/ Fails /\ Refuse(h) /\ run' = Blame(LastKept(run.carriers, disk))
    /\ UNCHANGED <<gen, answer, stage, broker, disk, host, ends, rec, root, acked, stuck>>

Write(h) ==
    /\ at[h] = "write"
    /\ \E o \in Retained(Pending(h), h) :
         /\ Take(o)
         /\ at' = [at EXCEPT ![h] = IF o.error = None THEN "commit" ELSE "failed"]
         /\ stage' = [stage EXCEPT ![h].error = o.error]
    /\ UNCHANGED <<gen, answer, broker, run, host, ends, rec, root, acked, stuck>>

Commit(h) ==
    /\ at[h] = "commit"
    /\ \E o \in Committed(h) :
         /\ Take(o)
         /\ at' = [at EXCEPT ![h] = IF o.error = None THEN "settle" ELSE "failed"]
         /\ stage' = [stage EXCEPT ![h].error = o.error]
    /\ UNCHANGED <<gen, answer, broker, run, host, ends, rec, root, acked, stuck>>

(* transfer_abandoned_stage_locked, or the stage is no longer in flight *)
Handed(h, r) == IF r.inflight # h THEN r
                ELSE IF r.abandoned THEN [r EXCEPT !.inflight = None, !.left = h]
                ELSE [r EXCEPT !.inflight = None]

(* the carrier is committed: an abandoned stage goes to the recovery, and a     *)
(* recovery that has its own copy by now says whether this one is kept          *)
Settle(h) ==
    /\ at[h] = "settle"
    /\ stage' = [stage EXCEPT ![h].done = TRUE, ![h].committed = TRUE]
    /\ LET kept == [run EXCEPT !.carriers = Append(@, [at |-> Stage(h), val |-> h])] IN
       run' = IF run.abandoned THEN Handed(h, kept) ELSE kept
    /\ at' = [at EXCEPT ![h] = CASE run.abandoned /\ stage[h].late -> "late"
                                 [] run.abandoned /\ ~stage[h].late -> "answer"
                                 [] ~run.abandoned /\ stage[h].terminal -> "terminal"
                                 [] OTHER -> "publish"]
    /\ UNCHANGED <<gen, answer, broker, disk, host, ends, rec, root, acked, stuck, faults>>

(* a failed stage is over, and the recovery may use what its error proves *)
StageFails(h) ==
    /\ at[h] = "failed"
    /\ stage' = [stage EXCEPT ![h].done = TRUE]
    /\ run' = Handed(h, run)
    /\ at' = [at EXCEPT ![h] = IF stage[h].error.at = None THEN "clean" ELSE "blame"]
    /\ UNCHANGED <<gen, answer, broker, disk, host, ends, rec, root, acked, stuck, faults>>

(* what a failed stage left without a claim is removed if anything is there *)
Clean(h) ==
    /\ at[h] = "clean"
    /\ at' = [at EXCEPT ![h] = "blame"]
    /\ LET left == {c \in {Stage(h), Pending(h)} : disk[c] # {}} IN
       IF left = {} THEN UNCHANGED <<disk, stuck, stage, faults>>
       ELSE \E c \in left : \E o \in Removed(c, h) :
              /\ Take(o)
              /\ stuck' = Marked(c, o.error)
              /\ stage' = [stage EXCEPT ![h].error.rest = IF o.error = None THEN None ELSE o.error.rest]
    /\ UNCHANGED <<gen, answer, broker, run, host, ends, rec, root, acked>>

(* the error names what it retained, else the last durable carrier *)
Report(h) ==
    /\ at[h] = "blame"
    /\ LET own == stage[h].error
           kept == IF own.at # None /\ disk[own.at] # {} /\ (\A i \in DOMAIN run.carriers : run.carriers[i].at # own.at)
                   THEN Append(run.carriers, [at |-> own.at, val |-> h]) ELSE run.carriers
           named == IF own.at # None THEN own
                    ELSE [LastKept(run.carriers, disk) EXCEPT !.rest = own.rest]
       IN /\ run' = [run EXCEPT !.carriers = kept,
                                !.errors = IF run.abandoned THEN @ ELSE Append(@, named)]
          /\ stage' = [stage EXCEPT ![h].error = named]
    /\ Refuse(h)
    /\ UNCHANGED <<gen, answer, broker, disk, host, ends, rec, root, acked, stuck, faults>>

(* the last place of the journal is kept for recovery and never published *)
Terminal(h) ==
    /\ at[h] = "terminal"
    /\ run' = LET r == Handed(h, run) IN
              IF run.abandoned THEN r
              ELSE [r EXCEPT !.errors = Append(@, Claim(Stage(h), h, disk))]
    /\ Refuse(h)
    /\ UNCHANGED <<gen, answer, stage, broker, disk, host, ends, rec, root, acked, stuck, faults>>

(* commit_pending_update, publish_if_latest_observed and publish_latest: three  *)
(* locks are held while the credential becomes the staged one                   *)
Publish(h) ==
    /\ at[h] = "publish"
    /\ IF ~srv.abandoned /\ srv.pending = h /\ gen[h] = tx.observed /\ ~run.abandoned
       THEN /\ run' = [run EXCEPT !.staged = h, !.cand = Stage(h), !.replaces = TRUE, !.expect = h,
                                  !.inflight = None]
            /\ answer' = [answer EXCEPT ![h] = TRUE]
       ELSE run' = Handed(h, run) /\ UNCHANGED answer
    /\ Refuse(h)
    /\ UNCHANGED <<gen, stage, broker, disk, host, ends, rec, root, acked, stuck, faults>>

(* a late stage waits for the recovery, which may have a copy of its credential *)
Late(h) ==
    /\ at[h] = "late"
    /\ \/ /\ stage[h].decided /\ stage[h].fallback
          /\ \E o \in Removed(Stage(h), h) :
               /\ Take(o)
               /\ stuck' = Marked(Stage(h), o.error)
               /\ run' = IF o.error = None THEN [run EXCEPT !.carriers = Without(@, Stage(h))] ELSE Blame(o.error)
          /\ UNCHANGED stage
       \/ /\ stage[h].decided /\ ~stage[h].fallback
          /\ run' = Blame(Claim(Stage(h), h, disk))
          /\ UNCHANGED <<disk, stuck, stage, faults>>
       \/ /\ ~stage[h].decided             \* its wait expires
          /\ stage' = [stage EXCEPT ![h].expired = TRUE]
          /\ UNCHANGED <<run, disk, stuck, faults>>
    /\ Refuse(h)
    /\ UNCHANGED <<gen, answer, broker, host, ends, rec, root, acked>>

(* the lock is released and the runtime told, unless its socket is closed *)
Answer(h) ==
    /\ at[h] = "answer"
    /\ srv' = [srv EXCEPT !.busy = IF @ = h THEN None ELSE @]
    /\ acked' = IF answer[h] /\ ~srv.closing THEN acked \cup {h} ELSE acked
    /\ at' = [at EXCEPT ![h] = "clear"]
    /\ UNCHANGED <<gen, answer, stage, tx, run, disk, host, ends, rec, root, stuck, faults>>

(* server.clear_pending_update *)
Clear(h) ==
    /\ at[h] = "clear"
    /\ srv' = [srv EXCEPT !.pending = IF @ = h THEN None ELSE @]
    /\ at' = [at EXCEPT ![h] = "done"]
    /\ UNCHANGED <<gen, answer, stage, tx, run, disk, host, ends, rec, root, acked, stuck, faults>>

Handler(h) == \/ Observe(h) \/ Drop(h) \/ Receive(h) \/ Enter(h) \/ Admit(h) \/ ClaimTerminal(h)
              \/ Register(h) \/ Write(h) \/ Commit(h) \/ Settle(h) \/ StageFails(h) \/ Clean(h)
              \/ Report(h) \/ Terminal(h) \/ Publish(h) \/ Late(h) \/ Answer(h) \/ Clear(h)

--------------------------------------------------------------------------------
(* The caller: shutdown of the broker *)

Done(h) == at[h] \in {"idle", "done"}
Go(m) == main' = m

(* the runtime has ended: no new handler, and the sockets of the others close *)
BeginClosing ==
    /\ main = "run"
    /\ srv' = [srv EXCEPT !.closing = TRUE]
    /\ Go("wait")
    /\ UNCHANGED <<at, gen, answer, stage, tx, run, disk, host, out, lock, fin, rec, root, acked, stuck, faults>>

(* server.wait_for_handlers *)
Quiescent ==
    /\ main = "wait"
    /\ \A h \in Handlers : Done(h)
    /\ Go("pick")
    /\ UNCHANGED <<at, client, answer, stage, broker, run, disk, host, out, lock, fin, rec, root, faults>>

(* the deadline passes: publication is closed before anything is decided *)
NotQuiescent ==
    /\ main = "wait"
    /\ srv' = [srv EXCEPT !.abandoned = TRUE]
    /\ Go("abandon")
    /\ UNCHANGED <<at, client, answer, stage, tx, run, disk, host, out, lock, fin, rec, root, faults>>

(* abandon_unquiescent_handler in a thread of its own; when that failed, the    *)
(* error for it is made, which abandons too, and it is tried once more          *)
Abandon ==
    /\ main \in {"abandon", "again"}
    /\ \/ UNCHANGED faults /\ run' = [run EXCEPT !.abandoned = TRUE] /\ Go("detach") /\ UNCHANGED out
       \/ /\ Fails
          /\ \/ run' = [run EXCEPT !.abandoned = TRUE] \/ UNCHANGED run
          /\ IF main = "abandon" THEN Go("again") /\ UNCHANGED out
             ELSE Go("settle") /\ out' = Error(None, None, Root)
    /\ srv' = IF main' = "settle" THEN [srv EXCEPT !.pending = None] ELSE srv
    /\ UNCHANGED <<at, client, answer, stage, tx, disk, host, lock, fin, rec, root>>

(* try_abandon_and_detach_pending_update, and the recovery thread starts; the   *)
(* update may not be had in time, or the thread may not start                   *)
Detach ==
    /\ main = "detach"
    /\ \/ /\ srv' = [srv EXCEPT !.pending = None]
          /\ \/ rec' = [rec EXCEPT !.at = "look", !.payload = srv.pending] /\ UNCHANGED faults
             \/ Fails /\ UNCHANGED rec
       \/ Fails /\ UNCHANGED srv /\ rec' = [rec EXCEPT !.at = "look"]
    /\ Go("recovering")
    /\ UNCHANGED <<at, client, answer, stage, tx, run, disk, host, out, lock, fin, root>>

Recovered ==
    /\ main = "recovering" /\ rec.at = "done"
    /\ out' = IF rec.error = None THEN Nothing ELSE rec.error
    /\ Go("settle")
    /\ UNCHANGED <<at, client, answer, stage, broker, run, disk, host, lock, fin, rec, root, faults>>

(* unquiescent_recovery_timeout_error: the failure is published first, so that  *)
(* a recovery still running sees that it is late                                *)
TimeOut ==
    /\ main = "recovering"
    /\ root' = [root EXCEPT !.on = TRUE, !.error = Error(None, None, Root)]
    /\ Go("inspect")
    /\ UNCHANGED <<at, client, answer, stage, broker, run, disk, host, out, lock, fin, rec, faults>>

InFlight == IF run.left # None THEN run.left ELSE run.inflight
Unresolved == InFlight # None /\ ~stage[InFlight].decided

(* then the state is read without waiting for its lock *)
Inspect ==
    /\ main = "inspect"
    /\ \/ root' = [root EXCEPT !.cand = None, !.expect = None, !.wide = TRUE]
       \/ LET hidden == Unresolved /\ stage[InFlight].terminal IN
          root' = [root EXCEPT !.cand = IF hidden THEN None ELSE run.cand,
                               !.expect = IF hidden THEN None ELSE run.expect,
                               !.wide = run.carriers # <<>> \/ Unresolved]
    /\ Go("seal")
    /\ UNCHANGED <<at, client, answer, stage, broker, run, disk, host, out, lock, fin, rec, faults>>

(* mark_quiescence_timeout_recovery_artifact and seal_quiescence_timeout_       *)
(* failure: a claim stays if it is proved, else the whole recovery root is named *)
Seal ==
    /\ main = "seal"
    /\ LET proved == /\ root.cand # None /\ root.expect # None
                     /\ root.expect \in disk[root.cand]
       IN root' = [root EXCEPT !.sealed = TRUE,
                     !.error = IF proved
                               THEN Error(root.cand, root.expect, IF root.wide THEN Root ELSE None)
                               ELSE Error(None, None, Root)]
    /\ Go("settle")
    /\ out' = Published
    /\ UNCHANGED <<at, client, answer, stage, broker, run, disk, host, lock, fin, rec, faults>>

--------------------------------------------------------------------------------
(* The recovery thread: recover_unquiescent_handler *)

Note(cand, replaces, expect) == [run EXCEPT !.cand = cand, !.replaces = replaces, !.expect = expect]
RUnchanged == UNCHANGED <<at, gen, answer, broker, host, ends, acked>>

Look ==
    /\ rec.at = "look"
    /\ LET left == IF run.left # None THEN run.left ELSE run.inflight IN
       /\ run' = [run EXCEPT !.left = left, !.inflight = IF run.left = None THEN None ELSE @, !.staged = None]
       /\ rec' = [rec EXCEPT !.at = "stage", !.cand = run.cand, !.replaces = run.replaces,
                             !.expect = run.expect, !.stage = left,
                             !.payload = IF @ # None THEN @ ELSE run.staged,
                             !.wide = run.carriers # <<>> \/ left # None]
    /\ RUnchanged /\ UNCHANGED <<stage, disk, root, stuck, faults>>

(* the committed stage is the candidate; one still being written is told to     *)
(* wait, and is waited for when nothing else holds its credential               *)
Use(h, r) == [r EXCEPT !.cand = Stage(h), !.replaces = TRUE, !.expect = h]
Inflight ==
    /\ rec.at = "stage"
    /\ LET h == rec.stage
           next == IF rec.payload = None THEN "none" ELSE "save"
       IN IF h # None /\ stage[h].done /\ stage[h].committed
          THEN /\ rec' = [Use(h, rec) EXCEPT !.at = next]
               /\ run' = Note(Stage(h), TRUE, h) /\ UNCHANGED stage
          ELSE IF h # None /\ ~stage[h].done
          THEN /\ stage' = [stage EXCEPT ![h].late = TRUE]
               /\ rec' = [rec EXCEPT !.late = TRUE, !.at = IF rec.payload = None THEN "await" ELSE "save"]
               /\ UNCHANGED run
          ELSE rec' = [rec EXCEPT !.at = next] /\ UNCHANGED <<run, stage>>
    /\ RUnchanged /\ UNCHANGED <<disk, root, stuck, faults>>

Decide(kept) == stage' = IF rec.late THEN [stage EXCEPT ![rec.stage].fallback = kept,
                                                         ![rec.stage].decided = TRUE] ELSE stage
(* merge_late_quiescence_timeout_transform when the failure is sealed, else the *)
(* claim of the error is added to it                                            *)
Merged(e) ==
    IF ~root.on THEN root
    ELSE IF root.sealed
    THEN LET v == IF e.val # None THEN e.val ELSE root.error.val
             c == IF e.val # None THEN e.at ELSE root.error.at
         IN [root EXCEPT !.error = Error(c, v, Root)]
    ELSE [root EXCEPT !.error = IF e.val # None THEN Error(e.at, e.val, @.rest) ELSE @]
(* ensure_recovery_scope *)
Scoped(e) ==
    LET current == e.at # None /\ e.val # None /\ e.val \in disk[e.at]
        told == e.at # None \/ e.val # None
    IN IF told /\ ~current THEN Error(None, None, Root)
       ELSE IF rec.wide THEN [e EXCEPT !.rest = Root] ELSE e
Ends(e) == [rec EXCEPT !.at = "done", !.error = IF root.on THEN None ELSE Scoped(e)]

Await ==
    /\ rec.at = "await"
    /\ \/ /\ stage[rec.stage].done
          /\ IF stage[rec.stage].committed
             THEN rec' = [Use(rec.stage, rec) EXCEPT !.at = "none"] /\ run' = Note(Stage(rec.stage), TRUE, rec.stage)
             ELSE rec' = [rec EXCEPT !.at = "none"] /\ UNCHANGED run
          /\ UNCHANGED <<stage, root>>
       \/ /\ ~stage[rec.stage].done               \* the wait expires
          /\ Decide(FALSE) /\ root' = Merged(Nothing) /\ rec' = Ends(Nothing) /\ UNCHANGED run
    /\ RUnchanged /\ UNCHANGED <<disk, stuck, faults>>

(* nothing to write: the error names what holds the newest credential, which is *)
(* what the stage's error proved, or else the candidate                         *)
NoPayload ==
    /\ rec.at = "none"
    /\ LET h == rec.stage
           e == IF h = None THEN None ELSE stage[h].error
           own == e # None /\ e.val = h /\ e.at \in {Pending(h), Stage(h)}
           named == IF own THEN Error(e.at, h, e.rest)
                    ELSE IF rec.cand # None /\ rec.expect # None THEN Claim(rec.cand, rec.expect, disk)
                    ELSE IF e # None THEN e ELSE Nothing
       IN /\ run' = IF own THEN Note(e.at, TRUE, h) ELSE run
          /\ Decide(FALSE)
          /\ root' = Merged(named)
          /\ rec' = IF ~own /\ (rec.cand = None \/ rec.expect = None) /\ h = None /\ ~rec.wide
                    THEN [rec EXCEPT !.at = "done", !.error = None]
                    ELSE Ends(named)
    /\ RUnchanged /\ UNCHANGED <<disk, stuck, faults>>

(* the payload goes into the proven candidate, or into a new carrier *)
Save ==
    /\ rec.at = "save"
    /\ LET fresh == rec.cand = None
           c == IF ~fresh THEN rec.cand ELSE IF run.cand # None THEN run.cand ELSE New("recovery")
       IN \E o \in (IF rec.replaces /\ rec.expect # None THEN Replaced(c, rec.payload) ELSE Retained(c, rec.payload)) :
            /\ Take(o)
            /\ rec' = [rec EXCEPT !.at = "saved", !.cand = c, !.error = o.error]
            /\ run' = IF fresh /\ run.cand = None THEN Note(c, FALSE, None) ELSE run
    /\ RUnchanged /\ UNCHANGED <<stage, root, stuck>>

(* a carrier made after the caller has gone on is removed again: nobody knows   *)
(* its name                                                                     *)
Saved ==
    /\ rec.at = "saved"
    /\ LET old == rec.replaces /\ rec.expect # None
           e == rec.error
           shown == IF old /\ e # None /\ e.at = None
                    THEN [Claim(rec.cand, rec.expect, disk) EXCEPT !.rest = e.rest] ELSE e
           v == IF e = None THEN None ELSE shown.val
       IN IF e = None
          THEN /\ run' = IF ~root.on \/ old THEN Note(rec.cand, TRUE, rec.payload) ELSE run
               /\ rec' = [rec EXCEPT !.at = IF root.on /\ ~old THEN "undo" ELSE "decide",
                                     !.kept = ~root.on \/ old,
                                     !.error = Claim(rec.cand, rec.payload, disk)]
               /\ root' = IF root.on /\ old
                          THEN [root EXCEPT !.error = Error(rec.cand, Proof(rec.cand, rec.payload, disk),
                                                            IF rec.payload \in disk[rec.cand] THEN @.rest ELSE Root)]
                          ELSE root
          ELSE /\ run' = IF v # None THEN Note(rec.cand, TRUE, v)
                         ELSE IF run.cand = rec.cand THEN [run EXCEPT !.expect = None] ELSE run
               /\ root' = Merged(shown)
               /\ rec' = [rec EXCEPT !.at = "decide", !.kept = v = rec.payload, !.error = shown]
    /\ RUnchanged /\ UNCHANGED <<stage, disk, stuck, faults>>

Undo ==
    /\ rec.at = "undo"
    /\ \E o \in Removed(rec.cand, rec.payload) :
         /\ Take(o)
         /\ stuck' = Marked(rec.cand, o.error)
         /\ root' = IF o.error = None THEN root ELSE Merged(o.error)
    /\ rec' = [rec EXCEPT !.at = "decide", !.error = Nothing]
    /\ RUnchanged /\ UNCHANGED <<run, stage>>

(* the late handler removes its carrier if the payload is safe; if its wait has *)
(* expired the recovery does it                                                 *)
Settled ==
    /\ rec.at = "decide"
    /\ Decide(rec.kept)
    /\ rec' = IF rec.late /\ rec.kept /\ stage[rec.stage].expired THEN [rec EXCEPT !.at = "clean"] ELSE Ends(rec.error)
    /\ RUnchanged /\ UNCHANGED <<run, disk, root, stuck, faults>>

CleanLate ==
    /\ rec.at = "clean"
    /\ \E o \in Removed(Stage(rec.stage), rec.stage) :
         /\ Take(o)
         /\ stuck' = Marked(Stage(rec.stage), o.error)
         /\ run' = IF o.error = None THEN [run EXCEPT !.carriers = Without(@, Stage(rec.stage))] ELSE Blame(o.error)
    /\ rec' = Ends(rec.error)
    /\ RUnchanged /\ UNCHANGED <<stage, root>>

Recovery == Look \/ Inflight \/ Await \/ NoPayload \/ Save \/ Saved \/ Undo \/ Settled \/ CleanLate

--------------------------------------------------------------------------------
(* The caller: finalization when every handler has ended *)

FUnchanged == UNCHANGED <<at, gen, answer, stage, srv, acked, rec, root>>

(* the errors that do not prove the latest durable carrier are made to *)
Pick ==
    /\ main = "pick"
    /\ fin' = [fin EXCEPT !.val = run.staged, !.carriers = run.carriers, !.bad = {},
                          !.todo = IF run.carriers = <<>> THEN <<>> ELSE Front(run.carriers)]
    /\ run' = [run EXCEPT !.staged = None,
                  !.errors = IF run.carriers = <<>> THEN @
                             ELSE [i \in DOMAIN @ |-> [LastKept(run.carriers, disk) EXCEPT !.rest = run.errors[i].rest]]]
    /\ Go(CASE run.staged # None -> "verify"
            [] run.staged = None /\ run.carriers # <<>> -> "tidy"
            [] OTHER -> "check")
    /\ FUnchanged /\ UNCHANGED <<tx, disk, host, out, lock, stuck, faults>>

(* nothing to commit: the latest durable carrier stays, named by the first      *)
(* error, and the others go if it is proved                                     *)
Primary == IF run.errors = <<>> THEN LastKept(fin.carriers, disk) ELSE run.errors[1]
First(e) == [run EXCEPT !.errors = IF @ = <<>> THEN <<e>> ELSE [@ EXCEPT ![1] = e]]
Tidy ==
    /\ main = "tidy"
    /\ IF Primary.val # None /\ fin.todo # <<>>
       THEN LET c == fin.todo[1] IN \E o \in Removed(c.at, c.val) :
              /\ Take(o)
              /\ stuck' = Marked(c.at, o.error)
              /\ fin' = [fin EXCEPT !.todo = Tail(@), !.bad = IF o.error = None THEN @ ELSE @ \cup {o.error.rest}]
              /\ run' = First(Primary)
              /\ UNCHANGED main
       ELSE /\ run' = First([Primary EXCEPT !.rest =
                          IF Primary.val = None \/ Cardinality(fin.bad) > 1 THEN Root
                          ELSE IF fin.bad = {} THEN @ ELSE CHOOSE c \in fin.bad : TRUE])
            /\ Go("check") /\ UNCHANGED <<disk, fin, stuck, faults>>
    /\ FUnchanged /\ UNCHANGED <<tx, host, out, lock>>

(* the latest carrier must hold what will be committed, else nothing is written *)
Verify ==
    /\ main = "verify"
    /\ \/ /\ fin.carriers # <<>> /\ disk[Latest(fin.carriers).at] = {fin.val}
          /\ Go("stale") /\ UNCHANGED <<run, faults>>
       \/ /\ IF fin.carriers # <<>> /\ disk[Latest(fin.carriers).at] = {fin.val} THEN Fails ELSE UNCHANGED faults
          /\ run' = [run EXCEPT !.errors = <<Error(None, None, Root)>> \o
                                           [i \in DOMAIN @ |-> Error(None, None, Root)]]
          /\ Go("check")
    /\ FUnchanged /\ UNCHANGED <<tx, disk, host, out, lock, fin, stuck>>

Stale ==
    /\ main = "stale"
    /\ IF fin.todo # <<>>
       THEN LET c == fin.todo[1] IN \E o \in Removed(c.at, c.val) :
              /\ Take(o)
              /\ stuck' = Marked(c.at, o.error)
              /\ fin' = [fin EXCEPT !.todo = Tail(@), !.bad = IF o.error = None THEN @ ELSE @ \cup {o.error.rest}]
              /\ UNCHANGED main
       ELSE Go("accept") /\ UNCHANGED <<disk, fin, stuck, faults>>
    /\ FUnchanged /\ UNCHANGED <<tx, run, host, out, lock>>

Newer(v) == [tx EXCEPT !.committed = IF gen[v] > @ THEN gen[v] ELSE @]

(* accept_refreshed_credential: after an earlier error the credential is only   *)
(* kept; a write of the host that is not proved leaves it kept as well          *)
Accept ==
    /\ main = "accept"
    /\ \/ /\ run.errors = <<>>
          /\ host' = fin.val /\ tx' = Newer(fin.val) /\ Go("remove")
          /\ UNCHANGED faults
       \/ /\ run.errors = <<>> /\ Fails
          /\ host' \in {host, fin.val}
          /\ Go("keep") /\ UNCHANGED tx
       \/ run.errors # <<>> /\ Go("keep") /\ UNCHANGED <<host, tx, faults>>
    /\ FUnchanged /\ UNCHANGED <<disk, run, out, lock, fin, stuck>>

Keep ==
    /\ main = "keep"
    /\ LET prior == run.errors # <<>>
           c == IF prior THEN (IF run.errors[1].at # None THEN run.errors[1].at ELSE New("accept"))
                ELSE IF run.cand # None THEN run.cand ELSE New("accept")
           held == IF prior THEN run.errors[1].at # None ELSE run.cand # None /\ run.replaces
       IN \E o \in (IF held THEN Replaced(c, fin.val) ELSE Retained(c, fin.val)) :
            /\ Take(o)
            /\ LET e == IF o.error = None THEN Claim(c, fin.val, o.disk)
                        ELSE IF prior THEN Failed(run.errors[1], o.error) ELSE o.error
                   rest == IF prior /\ e.rest = None THEN run.errors[1].rest ELSE e.rest
               IN run' = [First([e EXCEPT !.rest = rest]) EXCEPT !.cand = c, !.replaces = TRUE, !.expect = e.val]
    /\ Go("gather")
    /\ FUnchanged /\ UNCHANGED <<tx, host, out, lock, fin, stuck>>

(* the host holds it: the latest carrier is not needed any more *)
RemoveLatest ==
    /\ main = "remove"
    /\ LET c == Latest(fin.carriers) IN \E o \in Removed(c.at, c.val) :
         /\ Take(o)
         /\ stuck' = Marked(c.at, o.error)
         /\ run' = IF o.error = None THEN run ELSE Blame(Error(None, None, o.error.rest))
    /\ Go("gather")
    /\ FUnchanged /\ UNCHANGED <<tx, host, out, lock, fin>>

Gather ==
    /\ main = "gather"
    /\ run' = [run EXCEPT !.errors = @ \o SetToSeq({Error(None, None, c) : c \in fin.bad})]
    /\ Go("check")
    /\ FUnchanged /\ UNCHANGED <<tx, disk, host, out, lock, fin, stuck, faults>>

(* the first error names what is left, by its path or by the recovery root; the *)
(* carriers of the host are looked at once more when there is no error          *)
Check ==
    /\ main = "check"
    /\ IF run.errors # <<>>
       THEN LET paths == {c \in {run.errors[i].rest : i \in DOMAIN run.errors} \ {None} :
                            c = Root \/ disk[c] # {}}
                e == run.errors[1]
            IN /\ out' = [e EXCEPT !.rest = IF Cardinality(paths) > 1 THEN Root
                                            ELSE IF paths = {} THEN None ELSE CHOOSE c \in paths : TRUE]
               /\ UNCHANGED <<tx, faults>>
       ELSE \/ out' = Fine /\ tx' = [tx EXCEPT !.snap = tx.observed] /\ UNCHANGED faults
            \/ out' = Nothing /\ Fails /\ UNCHANGED tx
    /\ Go("settle")
    /\ FUnchanged /\ UNCHANGED <<run, disk, host, lock, fin, stuck>>

(* _claude_macos_refresh_transaction_abandonment_reason: the refresh lock stays *)
(* unless the newest write observed is in the host and its carriers were read   *)
(* again                                                                        *)
SettleLock ==
    /\ main = "settle"
    /\ lock' = IF out = Fine /\ tx.observed = tx.committed /\ tx.snap = tx.observed THEN "free" ELSE "kept"
    /\ out' = IF out = Fine /\ lock' = "kept" THEN Nothing ELSE out
    /\ Go("done")
    /\ FUnchanged /\ UNCHANGED <<tx, run, disk, host, fin, stuck, faults>>

Main == \/ BeginClosing \/ Quiescent \/ NotQuiescent \/ Abandon \/ Detach \/ Recovered \/ TimeOut \/ Inspect
        \/ Seal \/ Pick \/ Tidy \/ Verify \/ Stale \/ Accept \/ Keep \/ RemoveLatest \/ Gather \/ Check
        \/ SettleLock

--------------------------------------------------------------------------------
Init ==
    /\ at = [h \in Handlers |-> "idle"]
    /\ gen = [h \in Handlers |-> 0]
    /\ answer = [h \in Handlers |-> FALSE]
    /\ stage = [h \in Handlers |-> [done |-> FALSE, committed |-> FALSE, late |-> FALSE, decided |-> FALSE,
                                    fallback |-> FALSE, expired |-> FALSE, terminal |-> FALSE, turn |-> 0,
                                    error |-> None]]
    /\ srv = [closing |-> FALSE, abandoned |-> FALSE, closed |-> FALSE, pending |-> None, busy |-> None,
              turn |-> 0]
    /\ tx = [observed |-> 0, committed |-> 0, snap |-> None]
    /\ run = [abandoned |-> FALSE, staged |-> None, used |-> 0, quota |-> FALSE, inflight |-> None,
              left |-> None, carriers |-> <<>>, errors |-> <<>>, cand |-> None, replaces |-> FALSE,
              expect |-> None]
    /\ disk = [c \in Carriers |-> {}]
    /\ host = Old
    /\ main = "run" /\ out = None /\ lock = "held"
    /\ fin = [val |-> None, carriers |-> <<>>, todo |-> <<>>, bad |-> {}]
    /\ rec = [at |-> "idle", payload |-> None, cand |-> None, replaces |-> FALSE, expect |-> None,
              stage |-> None, late |-> FALSE, wide |-> FALSE, kept |-> FALSE, error |-> None]
    /\ root = [on |-> FALSE, sealed |-> FALSE, error |-> None, cand |-> None, expect |-> None, wide |-> FALSE]
    /\ acked = {} /\ stuck = {} /\ faults = 0

Next == Main \/ Recovery \/ \E h \in Handlers : Handler(h)
Spec == Init /\ [][Next]_vars

(* every wait of the caller has a deadline; handlers and the recovery may hang *)
FairSpec == Spec /\ WF_vars(Main)

--------------------------------------------------------------------------------
(* Properties *)

Errors == [at : Carriers \cup {None}, val : Values \cup {None}, rest : Carriers \cup {None, Root}]
Outcome == IF out = Published THEN root.error ELSE out
(* v was written after h, by when it was observed or by when it was received *)
AsNew(v, h) == Age(v) >= gen[h] \/ (v \in Handlers /\ stage[v].turn > stage[h].turn)
Held == UNION {disk[c] : c \in Carriers} \cup {host}

(* The state is of its type: one write holds the update lock, and the staged    *)
(* credential and the candidate are known (runtime_state_lock's variables).     *)
TypeOK ==
    /\ \A h \in Handlers : at[h] \notin {"idle", "read", "queued", "clear", "done"} => srv.busy = h
    /\ srv.pending \in Handlers \cup {None}
    /\ tx.observed \in 0..Cardinality(Handlers) /\ tx.committed \in 0..tx.observed
    /\ run.staged \in Handlers \cup {None} /\ run.cand \in Carriers \cup {None}
    /\ run.used \in 0..MaxStages /\ run.expect \in Handlers \cup {None}
    /\ \A i \in DOMAIN run.errors : run.errors[i] \in Errors
    /\ \A c \in Carriers : disk[c] \subseteq Handlers \cup {Junk}
    /\ host \in Values
    /\ main = "done" => Outcome \in Errors \cup {Fine}

(* A credential that was staged durably or answered as persisted is held        *)
(* somewhere, or a newer one is, whatever fails and however late a handler or   *)
(* the recovery runs: each refresh revokes the credential before it             *)
(* (stage_refreshed_credential, recover_unquiescent_handler).                   *)
StagedSurvives ==
    \A h \in Handlers : stage[h].committed \/ h \in acked =>
        \E v \in Held : AsNew(v, h)

(* When the caller ends, the newest credential staged durably is in the host or *)
(* its error says where it is: a carrier proved to hold it, a path left for     *)
(* cleanup, or the recovery root.                                               *)
OutcomeNames ==
    main = "done" =>
        \A h \in Handlers : stage[h].committed =>
            \/ AsNew(host, h)
            \/ Outcome # Fine /\ \/ Outcome.rest = Root
                                 \/ Outcome.at # None /\ \E v \in disk[Outcome.at] : AsNew(v, h)
                                 \/ Outcome.rest # None /\ \E v \in disk[Outcome.rest] : AsNew(v, h)

(* What the caller's error claims of a carrier stays true                       *)
(* when a late recovery or a late handler still changes carriers: the carrier   *)
(* holds that credential or a newer one (seal_quiescence_timeout_failure).      *)
ClaimStaysTrue ==
    (main = "done" /\ Outcome # Fine) =>
        (Outcome.val # None =>
            \E v \in disk[Outcome.at] : AsNew(v, Outcome.val))

(* Nothing is published after the recovery has taken what was staged: the two   *)
(* abandonment flags are set one after the other while handlers run             *)
(* (commit_pending_update, publish_latest).                                     *)
NothingMissed == rec.at \notin {"idle", "look"} => run.staged = None

(* The refresh lock is released only when no handler runs, the host holds the   *)
(* newest credential the runtime wrote and no recovery carrier is left          *)
(* (_claude_macos_refresh_transaction_abandonment_reason).                      *)
FreeMeansSettled ==
    lock = "free" => /\ \A h \in Handlers : Done(h)
                     /\ \A h \in Handlers : gen[h] = tx.observed /\ gen[h] > 0 => host = h
                     /\ \A c \in Carriers : disk[c] = {}

(* A late stage whose credential the recovery saved is removed by the handler   *)
(* or by the recovery, whichever comes last, unless the removal failed          *)
(* (cleanup_late_durable_stage).                                                *)
LateIsCleared ==
    (rec.at = "done" /\ rec.late /\ at[rec.stage] \in {"idle", "done"}) =>
        (stage[rec.stage].committed /\ stage[rec.stage].fallback =>
            disk[Stage(rec.stage)] = {} \/ Stage(rec.stage) \in stuck)

(* Only the newest staged credential is written to the host, and only when no   *)
(* handler can stage another (accept_refreshed_credential).                     *)
WriteIsNewest == host' # host => \A h \in Handlers : Done(h) /\ (stage[h].committed => AsNew(host', h))
NewestIsWritten ==
    [][WriteIsNewest]_vars

(* The caller's shutdown ends although handlers and the recovery hang. *)
Begun == main # "run"
Ended == main = "done"
CallerEnds == Begun ~> Ended
================================================================================
