--------------------------- MODULE AppServerSession ---------------------------
(***************************************************************************)
(* One review over the app-server's stdin and stdout: AppServerProtocol    *)
(* (appserver_protocol.py) inside the loop of direct_gate.py.  The server  *)
(* is under no obligation: it may send any record at any time, and every   *)
(* record that no handler below admits ends the session (Reject).  A       *)
(* response's schema checks are one Boolean, its identifiers are numbers,  *)
(* and a text is a sequence of words, of which "_" is white space.         *)
(***************************************************************************)
EXTENDS Naturals, FiniteSets, SequencesExt, TLC

CONSTANTS
  None,
  ExternalAuth,    \* config.external_auth is given
  Ids,             \* identifiers of threads, turns and items, only compared
  Words,           \* what texts are made of
  Budget,          \* APP_SERVER_COMMENTARY_BYTES
  MaxParts,        \* APP_SERVER_MAX_REASONING_PARTS
  MaxReasoning,    \* APP_SERVER_MAX_REASONING_ITEMS
  MaxTelemetry,    \* APP_SERVER_MAX_TELEMETRY_NOTIFICATIONS
  MaxItems,        \* bound on the items of the turn
  MaxDeltas        \* bound on the deltas of the final message

VARIABLES
  st,         \* _state, or "failed"
  pending,    \* method of the outstanding request
  sent,       \* methods queued for stdin, in order
  clash,      \* a request was issued while one was outstanding
  thread,     \* response, notification and current identifier of the thread
  turn,       \* the same of the turn
  proved,     \* responses and notifications that passed their validators
  items,      \* active item, completed items, final item
  stream,     \* deltas of the final message and their size
  reason,     \* parts of the active reasoning item, size of all reasoning
  telemetry,  \* _telemetry_notifications
  io,         \* the process and its pipes as the gate sees them
  result      \* the gate's result was returned

conv == <<st, pending, sent, clash>>
talk == <<thread, turn, proved>>
work == <<items, stream, reason>>
vars == <<st, pending, sent, clash, thread, turn, proved, items, stream, reason,
          telemetry, io, result>>

Texts == BoundedSeq(Words, Budget)
(* A sum is the number of the units it counts. *)
Total(f) == Cardinality(UNION {{k} \X (1..f[k]) : k \in DOMAIN f})
Size(parts) == Total([k \in DOMAIN parts |-> Len(parts[k])])
Join(parts) == FoldLeft(LAMBDA text, part : text \o part, <<>>, parts)
Unknown == [resp |-> None, note |-> None, cur |-> None]

Init ==
  /\ st = "new" /\ pending = None /\ sent = <<>> /\ clash = FALSE
  /\ thread = Unknown /\ turn = Unknown /\ proved = {}
  /\ items = [active |-> None, done |-> <<>>, final |-> None]
  /\ stream = [began |-> <<>>, parts |-> <<>>, bytes |-> 0]
  /\ reason = [content |-> <<>>, summary |-> <<>>, bytes |-> 0]
  /\ telemetry = 0 /\ result = FALSE
  /\ io = [stdin |-> TRUE, queued |-> FALSE, stdout |-> TRUE, partial |-> FALSE,
           exit |-> None]

-----------------------------------------------------------------------------
(* What the validators demand.  A response or a notification is admitted   *)
(* only if every claim of its list holds; `proved` collects them.          *)

InitializeClaims == {"expected codex home"}
NoExecutionClaims == {"agents off", "apps off", "features off", "tools off", "no ambient instructions",
                      "no history", "no known field beyond the pinned ones"}
LayerClaims == {"session, user and system layers only", "user and system layers empty"}
ConfigClaims == NoExecutionClaims \cup LayerClaims \cup {"origins bound to the session layer"}
HooksClaims == {"no hooks in the neutral directory"}
ThreadClaims == {"ephemeral", "idle", "no turns", "no path", "primary", "pinned version"}
ThreadStartClaims == ThreadClaims \cup
  {"read-only sandbox", "never asks", "pinned model", "no instruction sources", "no roots"}

ClaimsOf(m) ==
  {m} \cup CASE m = "initialize" -> InitializeClaims [] m = "config/read" -> ConfigClaims
             [] m = "hooks/list" -> HooksClaims       [] m = "thread/start" -> ThreadStartClaims
             [] m = "thread/started" -> ThreadClaims  [] OTHER -> {}

-----------------------------------------------------------------------------
(* Requests and their responses *)

(* _request: the session may have one request outstanding. *)
Ask(method, outstanding) ==
  /\ pending' = method /\ sent' = Append(sent, method)
  /\ clash' = (clash \/ outstanding # None)

Start ==
  /\ st = "new" /\ st' = "initialize" /\ Ask("initialize", pending)
  /\ io' = [io EXCEPT !.queued = TRUE]
  /\ UNCHANGED <<thread, turn, proved, items, stream, reason, telemetry, result>>

Reads == st \notin {"new", "failed"} /\ io.stdout /\ ~io.partial /\ ~result
Answered(method, state) == Reads /\ pending = method /\ st = state

(* A valid response settles the request; the next one is queued.  With     *)
(* external authorization before_external_auth_send has the last word: the *)
(* credential is queued only if its source is still the one it was loaded  *)
(* from.                                                                   *)
NextState == [s \in {"initialize", "auth", "config", "hooks"} |->
  CASE s = "initialize" -> IF ExternalAuth THEN "auth" ELSE "config"
    [] s = "auth" -> "config" [] s = "config" -> "hooks" [] s = "hooks" -> "thread"]
RequestOf == [s \in {"initialize", "auth", "config", "hooks", "thread", "turn"} |->
  CASE s = "initialize" -> "initialize" [] s = "auth" -> "account/login/start"
    [] s = "config" -> "config/read" [] s = "hooks" -> "hooks/list"
    [] s = "thread" -> "thread/start" [] s = "turn" -> "turn/start"]

SetupResponse ==
  \E s \in DOMAIN NextState :
    /\ Answered(RequestOf[s], s)
    /\ st' = NextState[s] /\ proved' = proved \cup ClaimsOf(RequestOf[s])
    /\ Ask(RequestOf[NextState[s]], None)
    /\ io' = [io EXCEPT !.queued = TRUE]
    /\ UNCHANGED <<thread, turn, items, stream, reason, telemetry, result>>

AuthNotices == {"account/login/completed", "account/updated", "remoteControl/status/changed"}

(* _maybe_start_turn, with the values the handler has just assigned. *)
Ready(t, facts) ==
  /\ t.resp # None /\ t.note # None
  /\ ExternalAuth => AuthNotices \cup {"account/login/start"} \subseteq facts

MaybeStartTurn(t, facts, outstanding) ==
  IF st = "thread" /\ Ready(t, facts)
  THEN IF t.resp = t.note
       THEN /\ st' = "turn" /\ Ask("turn/start", outstanding)
            /\ io' = [io EXCEPT !.queued = TRUE]
       ELSE /\ st' = "failed" /\ pending' = outstanding /\ UNCHANGED <<sent, clash, io>>
  ELSE pending' = outstanding /\ UNCHANGED <<st, sent, clash, io>>

ThreadResponse ==
  /\ Answered("thread/start", "thread")
  /\ \E i \in Ids :
       /\ thread' = [thread EXCEPT !.resp = i, !.cur = i]
       /\ proved' = proved \cup ClaimsOf("thread/start")
       /\ MaybeStartTurn(thread', proved', None)
  /\ UNCHANGED <<turn, items, stream, reason, telemetry, result>>

ThreadStarted ==
  /\ Reads /\ st = "thread" /\ thread.note = None
  /\ \E i \in Ids :
       /\ thread' = [thread EXCEPT !.note = i, !.cur = i]
       /\ proved' = proved \cup ClaimsOf("thread/started")
       /\ MaybeStartTurn(thread', proved', pending)
  /\ UNCHANGED <<turn, items, stream, reason, telemetry, result>>

(* The three notices arrive once each, in any state from the login to the  *)
(* thread.  remoteControl is admitted without external authorization too.  *)
AuthNotice ==
  /\ Reads /\ st \in {"auth", "config", "hooks", "thread"}
  /\ \E n \in AuthNotices \ proved :
       /\ ExternalAuth \/ n = "remoteControl/status/changed"
       /\ proved' = proved \cup ClaimsOf(n)
       /\ MaybeStartTurn(thread, proved', pending)
  /\ UNCHANGED <<thread, turn, items, stream, reason, telemetry, result>>

(* _maybe_enter_running. *)
EnterRunning(t) ==
  st' = CASE t.resp = None \/ t.note = None -> st
          [] t.resp = t.note -> "running"
          [] OTHER -> "failed"

TurnResponse ==
  /\ Answered("turn/start", "turn") /\ pending' = None
  /\ \E i \in Ids : turn' = [turn EXCEPT !.resp = i, !.cur = i] /\ EnterRunning(turn')
  /\ UNCHANGED <<sent, clash, thread, proved, work, telemetry, io, result>>

TurnStarted ==
  /\ Reads /\ st = "turn" /\ turn.note = None
  /\ \E i \in Ids : turn' = [turn EXCEPT !.note = i, !.cur = i] /\ EnterRunning(turn')
  /\ UNCHANGED <<pending, sent, clash, thread, proved, work, telemetry, io, result>>

-----------------------------------------------------------------------------
(* Items of the turn.  A handler that names the thread and the turn only   *)
(* admits the current ones, so they are not parameters.                    *)

Running == Reads /\ st = "running"
Active(kind) == items.active # None /\ items.active.type = kind
Others == UNCHANGED <<conv, talk, telemetry, io, result>>
Used(i) == \E k \in DOMAIN items.done : items.done[k].id = i
Reasonings(seq) == SelectSeq(seq, LAMBDA item : item.type = "reasoning")

Item(kind, i, t) == [type |-> kind, id |-> i, text |-> t, held |-> 0]

Starts == Running /\ items.active = None /\ items.final = None

ItemStarted(kind, i) ==
  /\ Starts /\ ~Used(i)
  /\ Len(items.done) < MaxItems          \* bound

UserMessageStarted ==
  /\ items.done = <<>>
  /\ \E i \in Ids : ItemStarted("userMessage", i)
       /\ items' = [items EXCEPT !.active = Item("userMessage", i, <<>>)]
  /\ UNCHANGED <<stream, reason>> /\ Others

(* The item may bring parts of its own. *)
InitialParts == {<<>>} \cup {<<<<w>>>> : w \in Words}

ReasoningStarted ==
  /\ Len(Reasonings(items.done)) < MaxReasoning
  /\ \E i \in Ids, c \in InitialParts, s \in InitialParts :
       /\ ItemStarted("reasoning", i)
       /\ reason.bytes + Size(c) + Size(s) <= Budget
       /\ reason' = [content |-> c, summary |-> s, bytes |-> reason.bytes + Size(c) + Size(s)]
       /\ items' = [items EXCEPT !.active = Item("reasoning", i, <<>>)]
  /\ UNCHANGED stream /\ Others

AgentMessageStarted ==
  /\ \E i \in Ids, t \in BoundedSeq(Words, 1) :
       /\ ItemStarted("agentMessage", i)
       /\ items' = [items EXCEPT !.active = Item("agentMessage", i, t)]
       /\ stream' = [stream EXCEPT !.began = t, !.parts = <<>>]
  /\ UNCHANGED reason /\ Others

MessageDelta ==
  /\ Running /\ Active("agentMessage") /\ items.final = None
  /\ Len(stream.parts) < MaxDeltas       \* bound
  /\ \E d \in BoundedSeq(Words, 1) :
       /\ stream.bytes + Len(d) <= Budget
       /\ stream' = [stream EXCEPT !.parts = Append(@, d), !.bytes = @ + Len(d)]
  /\ UNCHANGED <<items, reason>> /\ Others

SummaryPartAdded ==
  /\ Running /\ Active("reasoning") /\ Len(reason.summary) < MaxParts
  /\ reason' = [reason EXCEPT !.summary = Append(@, <<>>)]
  /\ UNCHANGED <<items, stream>> /\ Others

CountDelta(field, d) == reason.bytes + Len(d)

(* A delta extends a part; for content the next part may begin with it. *)
ReasoningDelta ==
  /\ Running /\ Active("reasoning")
  /\ \E field \in {"summary", "content"}, d \in BoundedSeq(Words, 1), k \in 1..MaxParts :
       LET parts == reason[field]
           fits  == IF field = "content" /\ k = Len(parts) + 1
                    THEN Append(parts, <<>>) ELSE parts
           bytes == CountDelta(field, d) IN
       /\ k <= Len(fits) /\ bytes <= Budget
       /\ reason' = [reason EXCEPT ![field] = [fits EXCEPT ![k] = @ \o d], !.bytes = bytes]
  /\ UNCHANGED <<items, stream>> /\ Others

Complete(item, final) ==
  items' = [active |-> None, done |-> Append(items.done, item), final |-> final]

UserMessageCompleted ==
  /\ Running /\ Active("userMessage") /\ Complete(items.active, items.final)
  /\ UNCHANGED <<stream, reason>> /\ Others

(* Content and summary equal the stream; they are kept as their size. *)
ReasoningCompleted ==
  /\ Running /\ Active("reasoning")
  /\ Complete([items.active EXCEPT !.held = Size(reason.content) + Size(reason.summary)], items.final)
  /\ UNCHANGED <<stream, reason>> /\ Others

(* Variant: deltas are not compared. *)
AgreesAtStart(text) == stream.parts # <<>> \/ items.active.text \in {<<>>, text}

(* Without deltas the text the item began with may be empty or the whole. *)
Agrees(text) ==
  IF stream.parts # <<>> THEN text = items.active.text \o Join(stream.parts)
  ELSE items.active.text \in {<<>>, text}

AgentMessageCompleted ==
  /\ Running /\ Active("agentMessage") /\ items.final = None
  /\ \E text \in Texts :
       LET item == [items.active EXCEPT !.text = text] IN
       Agrees(text) /\ Complete(item, item)
  /\ UNCHANGED <<stream, reason>> /\ Others

(* validate_final_message refuses an empty or blank text. *)
TurnCompleted ==
  /\ Running /\ items.active = None /\ items.final # None
  /\ \E k \in DOMAIN items.final.text : items.final.text[k] # "_"
  /\ st' = "terminal"
  /\ UNCHANGED <<pending, sent, clash, talk, work, telemetry, io, result>>

(* Token usage, rate limits and thread status are counted together. *)
Telemetry ==
  /\ Reads /\ telemetry < MaxTelemetry
  /\ \/ st = "running"
     \/ st \in {"auth", "config", "hooks", "thread", "turn"}
     \/ st \in {"thread", "turn"} /\ thread.cur # None
  /\ telemetry' = telemetry + 1
  /\ UNCHANGED <<conv, talk, work, io, result>>

-----------------------------------------------------------------------------
(* The gate's loop *)

(* A request of the server, a diagnostic, a hook, a record out of order,   *)
(* twice, malformed or after the answer, a signal, a lost owner, a limit   *)
(* or the deadline.                                                        *)
Reject ==
  /\ st # "failed" /\ ~result /\ st' = "failed"
  /\ UNCHANGED <<pending, sent, clash, talk, work, telemetry, io, result>>

IoStep(next) == st # "failed" /\ ~result /\ io' = next
                /\ UNCHANGED <<conv, talk, work, telemetry, result>>

Flush      == st # "new" /\ io.queued /\ io.stdin /\ IoStep([io EXCEPT !.queued = FALSE])
CloseStdin == st = "terminal" /\ ~io.queued /\ io.stdin /\ IoStep([io EXCEPT !.stdin = FALSE])
StdoutEnds == st # "new" /\ io.stdout /\ IoStep([io EXCEPT !.stdout = FALSE])
PartialRecord == Reads /\ IoStep([io EXCEPT !.partial = TRUE])
ServerExits == io.exit = None /\ \E code \in {"zero", "nonzero"} : IoStep([io EXCEPT !.exit = code])

(* The process has ended and its pipes are drained (stderr is only counted *)
(* and kept for the error code).                                           *)
Whole == ~io.partial /\ st = "terminal" /\ io.exit = "zero"

Finish ==
  /\ st \notin {"new", "failed"} /\ ~result /\ ~io.stdout /\ io.exit # None
  /\ \/ Whole /\ result' = TRUE /\ UNCHANGED st
     \/ ~Whole /\ st' = "failed" /\ UNCHANGED result
  /\ UNCHANGED <<pending, sent, clash, talk, work, telemetry, io>>

Next ==
  \/ Start \/ SetupResponse \/ ThreadResponse \/ ThreadStarted \/ AuthNotice
  \/ TurnResponse \/ TurnStarted
  \/ UserMessageStarted \/ ReasoningStarted \/ AgentMessageStarted
  \/ MessageDelta \/ SummaryPartAdded \/ ReasoningDelta
  \/ UserMessageCompleted \/ ReasoningCompleted \/ AgentMessageCompleted \/ TurnCompleted
  \/ Telemetry \/ Reject
  \/ Flush \/ CloseStdin \/ StdoutEnds \/ PartialRecord \/ ServerExits \/ Finish

Spec == Init /\ [][Next]_vars

-----------------------------------------------------------------------------
(* Identifiers are only compared, so they are interchangeable. *)
Symmetry == Permutations(Ids)

-----------------------------------------------------------------------------
(* Properties *)

Items == [type : {"userMessage", "reasoning", "agentMessage"}, id : Ids, text : Texts, held : 0..Budget]
IdNote == [resp : Ids \cup {None}, note : Ids \cup {None}, cur : Ids \cup {None}]

(* Every variable has its type and the counters keep their limits. *)
TypeOK ==
  /\ st \in {"new", "initialize", "auth", "config", "hooks", "thread", "turn", "running",
             "terminal", "failed"}
  /\ clash \in BOOLEAN /\ result \in BOOLEAN /\ thread \in IdNote /\ turn \in IdNote
  /\ items.active \in Items \cup {None} /\ items.final \in Items \cup {None}
  /\ Len(items.done) <= MaxItems + 1
  /\ \A k \in DOMAIN items.done : items.done[k] \in Items
  /\ stream.bytes \in 0..Budget /\ reason.bytes \in 0..Budget
  /\ Len(reason.content) <= MaxParts /\ Len(reason.summary) <= MaxParts
  /\ telemetry \in 0..MaxTelemetry

(* The outstanding request is the one the state waits for, whichever of    *)
(* the racing notifications moved the session on; _request never finds     *)
(* another one outstanding.                                                *)
OneOutstanding ==
  /\ ~clash
  /\ st # "failed" =>
       pending = CASE st \in {"initialize", "auth", "config", "hooks"} -> RequestOf[st]
                   [] st = "thread" /\ thread.resp = None -> "thread/start"
                   [] st = "turn" /\ turn.resp = None -> "turn/start"
                   [] OTHER -> None

(* The prompt is sent once, and only after every attestation was checked   *)
(* and, with external authorization, its three notices had arrived.        *)
PromptIsEarned ==
  "turn/start" \in ToSet(sent) =>
    /\ Cardinality({k \in DOMAIN sent : sent[k] = "turn/start"}) = 1
    /\ {"initialize", "config/read", "hooks/list", "thread/start", "thread/started"} \subseteq proved
    /\ {"tools off", "features off", "user and system layers empty", "read-only sandbox",
        "never asks", "ephemeral", "no hooks in the neutral directory"} \subseteq proved
    /\ ExternalAuth => AuthNotices \cup {"account/login/start"} \subseteq proved
    /\ thread.resp = thread.note /\ thread.note = thread.cur

(* Items are accepted, and the result is attested, only for a turn on      *)
(* whose identifier response and notification agree.                       *)
RunsOnAgreedTurn ==
  st \in {"running", "terminal"} => turn.resp = turn.note /\ turn.note = turn.cur /\ turn.cur # None

(* The result is the one message of the turn, its last item, and exactly   *)
(* what was streamed; no identifier stands for two items.                  *)
ResultIsTheStream ==
  st = "terminal" =>
    LET n == Len(items.done) IN
    /\ n > 0 /\ items.done[n] = items.final
    /\ \A k \in 1..n : (items.done[k].type = "agentMessage") <=> k = n
    /\ \A k \in 1..n : items.done[k].type = "userMessage" => k = 1
    /\ Cardinality({items.done[k].id : k \in 1..n}) = n
    /\ stream.parts # <<>> => items.final.text = stream.began \o Join(stream.parts)

(* What the session holds of the model's commentary is what it has counted *)
(* against the budget, over all items.                                     *)
HeldIsCounted ==
  /\ stream.bytes = Size(stream.parts)
  /\ LET held == Total([k \in DOMAIN items.done |-> items.done[k].held])
         live == IF Active("reasoning") THEN Size(reason.content) + Size(reason.summary) ELSE 0
     IN reason.bytes = held + live

(* A result is returned only after an answer, a clean exit and the end of  *)
(* both streams on a record boundary.                                      *)
AnswerIsDelivered ==
  result => st = "terminal" /\ io.exit = "zero" /\ ~io.partial /\ ~io.stdout /\ pending = None
=============================================================================
