----------------------------- MODULE AuthCarrier -----------------------------
(***************************************************************************)
(* The account's credential file (auth_carrier.py) on its way from disk to *)
(* a reviewer (run_authenticated_review and _run_review of                 *)
(* review_execution.py).  The client that owns the file rewrites it in     *)
(* place, replaces it, removes it or opens its mode at any moment, and the *)
(* wall clock is set forwards and backwards; the suspend-aware clock only  *)
(* runs.  A file is two blocks, written and read one at a time; a file     *)
(* caught in the middle of a rewrite says what its second block says.  The *)
(* directory is checked like the file and left out.                        *)
(***************************************************************************)
EXTENDS Integers, Sequences, FiniteSets

CONSTANTS
  None,
  Margin,      \* minimum_remaining_seconds
  Tolerance,   \* WALL_CLOCK_ROLLBACK_TOLERANCE_SECONDS
  Fresh,       \* the expiration of a fresh token
  MaxEdits,    \* bound on what the client does to the file
  MaxTime,     \* bound on the suspend-aware clock
  MaxSkew      \* bound on what the wall clock is off by

Versions == 0..MaxEdits
Objects == 0..MaxEdits
Kinds == {"fresh", "expired", "unmanaged", "malformed"}

VARIABLES
  kind,      \* what each version of the credential is
  name,      \* the file at the path
  content,   \* each file's two blocks
  private,   \* whether a file's access policy is the required one
  edits,     \* what the client has done, which also numbers files and versions
  clock,     \* [mono, wall]
  stage,     \* what the inspection is for
  pc,        \* its next step
  seen,      \* what it has read: [file, raw, digest, still]
  evidence,  \* ExternalAuthEvidence, with its high water
  history,   \* every content the path has named, the present one last
  launched   \* how many of them there were when the reviewer was launched

disk == <<kind, name, content, private, edits, history>>
reader == <<stage, pc, seen, evidence, launched>>
vars == <<disk, clock, reader>>

Unseen == [file |-> None, raw |-> <<None, None>>, digest |-> <<None, None>>, still |-> FALSE]

Init ==
  /\ \E k \in Kinds : kind = [v \in Versions |-> k]
  /\ name = 0 /\ content = [o \in Objects |-> <<0, 0>>] /\ private = [o \in Objects |-> TRUE]
  /\ edits = 0 /\ history = <<<<0, 0>>>> /\ launched = 0
  /\ \E skew \in -MaxSkew..MaxSkew : clock = [mono |-> 0, wall |-> skew]
  /\ stage = "load" /\ pc = "open" /\ seen = Unseen /\ evidence = None

-----------------------------------------------------------------------------
(* The client, until the run is over, and the clocks, which are only read  *)
(* where a credential is put to use and may as well run there.             *)

Running == pc \notin {"sent", "failed"}
Edit == Running /\ edits < MaxEdits /\ edits' = edits + 1
Compose == \E k \in Kinds : kind' = [kind EXCEPT ![edits'] = k]

RewriteFirst ==
  /\ name # None /\ content[name][1] = content[name][2] /\ Edit /\ Compose
  /\ content' = [content EXCEPT ![name][1] = edits']
  /\ history' = Append(history, content'[name])
  /\ UNCHANGED <<name, private, clock, reader>>

RewriteSecond ==
  /\ Running /\ \E o \in Objects :
       /\ content[o][1] # content[o][2]
       /\ content' = [content EXCEPT ![o][2] = content[o][1]]
       /\ history' = IF o = name THEN Append(history, content'[o]) ELSE history
  /\ UNCHANGED <<kind, name, private, edits, clock, reader>>

Replace ==
  /\ Edit /\ Compose /\ name' = edits' /\ content' = [content EXCEPT ![edits'] = <<edits', edits'>>]
  /\ history' = Append(history, <<edits', edits'>>)
  /\ UNCHANGED <<private, clock, reader>>

Remove ==
  /\ name # None /\ Edit /\ name' = None
  /\ UNCHANGED <<kind, content, private, history, clock, reader>>

Loosen ==
  /\ name # None /\ Edit /\ private' = [private EXCEPT ![name] = ~@]
  /\ UNCHANGED <<kind, name, content, history, clock, reader>>

Tick ==
  /\ pc = "use" /\ clock.mono < MaxTime /\ clock' = [mono |-> clock.mono + 1, wall |-> clock.wall + 1]
  /\ UNCHANGED <<disk, reader>>

SetWall ==
  /\ pc = "use" /\ \E skew \in -MaxSkew..MaxSkew : clock' = [clock EXCEPT !.wall = clock.mono + skew]
  /\ UNCHANGED <<disk, reader>>

-----------------------------------------------------------------------------
(* _inspect_auth_source *)

At(step) == pc = step
Go(step) == pc' = step
Fail == pc' = "failed" /\ seen' = Unseen /\ UNCHANGED <<stage, evidence, launched>>
Begin(what) == stage' = what /\ pc' = "open" /\ seen' = Unseen

Open ==
  /\ At("open")
  /\ \/ /\ name # None /\ private[name] /\ Go("read-1")
        /\ seen' = [seen EXCEPT !.file = name] /\ UNCHANGED <<stage, evidence, launched>>
     \/ Fail
  /\ UNCHANGED <<disk, clock>>

Read(i, here, next) ==
  /\ At(here) /\ Go(next)
  /\ seen' = [seen EXCEPT !.raw[i] = content[seen.file][i]]
  /\ UNCHANGED <<disk, clock, stage, evidence, launched>>

(* The path and the policies once more; the verdict falls after the second *)
(* reading.                                                                *)
Stat ==
  /\ At("stat") /\ Go("digest-1")
  /\ seen' = [seen EXCEPT !.still = name = seen.file /\ private[seen.file]]
  /\ UNCHANGED <<disk, clock, stage, evidence, launched>>

Digest(i, here, next) ==
  /\ At(here) /\ Go(next)
  /\ seen' = [seen EXCEPT !.digest[i] = content[seen.file][i]]
  /\ UNCHANGED <<disk, clock, stage, evidence, launched>>

Confirm == seen.still /\ seen.digest = seen.raw

Inspect ==
  \/ Open \/ Read(1, "read-1", "read-2") \/ Read(2, "read-2", "stat") \/ Stat
  \/ Digest(1, "digest-1", "digest-2") \/ Digest(2, "digest-2", "use")

-----------------------------------------------------------------------------
(* load_external_auth and revalidate_external_auth_source *)

Selected == kind[seen.raw[2]]
Expiration(k) == IF k = "fresh" THEN Fresh ELSE 0
Short(k) == Expiration(k) < clock.wall + Margin

Load ==
  /\ At("use") /\ stage \in {"load", "reload"}
  /\ \/ (~Confirm \/ Selected = "malformed") /\ Fail
     \/ /\ Confirm /\ Selected # "malformed" /\ Short(Selected)
        /\ \/ Selected # "unmanaged" /\ stage = "load" /\ Go("refresh")
              /\ UNCHANGED <<stage, seen, evidence, launched>>
           \/ (Selected = "unmanaged" \/ stage = "reload") /\ Fail
     \/ /\ Confirm /\ Selected # "malformed" /\ ~Short(Selected)
        /\ evidence' = [file |-> seen.file, content |-> seen.raw, expires |-> Expiration(Selected),
                        mono |-> clock.mono, wall |-> clock.wall, last |-> clock.mono, high |-> clock.wall]
        /\ Begin("check") /\ UNCHANGED launched
  /\ UNCHANGED <<disk, clock>>

(* _revalidate_clock_and_lifetime. *)
Later(a, b) == IF a >= b THEN a ELSE b
Expected == evidence.wall + (clock.mono - evidence.mono)
Candidate == Later(clock.wall, Expected)
Effective == Later(Candidate, evidence.high)
ClockAgrees == Expected - clock.wall <= Tolerance /\ evidence.high - Candidate <= Tolerance
Lasts == evidence.expires >= Effective + Margin

(* Variant: whatever the same file says. *)
SameFile == Confirm /\ evidence.file = seen.file

SameSource == Confirm /\ evidence.file = seen.file /\ evidence.content = seen.raw

After == CASE stage = "check" -> "start" [] stage = "launch" -> "serve" [] OTHER -> "sent"

Revalidate ==
  /\ At("use") /\ stage \in {"check", "launch", "send"}
  /\ \/ (~SameSource \/ ~ClockAgrees) /\ Fail
     \/ /\ SameSource /\ ClockAgrees
        /\ evidence' = [evidence EXCEPT !.last = clock.mono, !.high = Effective]
        /\ Go(IF Lasts THEN After ELSE "failed") /\ UNCHANGED <<stage, seen, launched>>
  /\ UNCHANGED <<disk, clock>>

-----------------------------------------------------------------------------
(* run_authenticated_review. *)

Refresh ==
  /\ At("refresh")
  /\ (Begin("reload") /\ UNCHANGED <<evidence, launched>>) \/ Fail
  /\ UNCHANGED <<disk, clock>>

Launch ==
  /\ At("start")
  /\ (Begin("launch") /\ launched' = Len(history) /\ UNCHANGED evidence) \/ Fail
  /\ UNCHANGED <<disk, clock>>

Serve ==
  /\ At("serve")
  /\ (Begin("send") /\ UNCHANGED <<evidence, launched>>) \/ Fail
  /\ UNCHANGED <<disk, clock>>

Next ==
  \/ RewriteFirst \/ RewriteSecond \/ Replace \/ Remove \/ Loosen \/ Tick \/ SetWall
  \/ Inspect \/ Load \/ Revalidate \/ Refresh \/ Launch \/ Serve
Spec == Init /\ [][Next]_vars

-----------------------------------------------------------------------------
(* Properties *)

Sent == pc = "sent"

(* Every variable has its type; a review begins with evidence. *)
TypeOK ==
  /\ kind \in [Versions -> Kinds] /\ name \in Objects \cup {None}
  /\ content \in [Objects -> Versions \X Versions] /\ private \in [Objects -> BOOLEAN]
  /\ edits \in 0..MaxEdits /\ clock.mono \in 0..MaxTime
  /\ stage \in {"load", "reload", "check", "launch", "send"}
  /\ (stage \in {"load", "reload"}) = (evidence = None)
  /\ launched \in 0..Len(history) /\ (stage \in {"launch", "send"}) = (launched > 0)

(* What was loaded was the file at one moment: no half of one credential   *)
(* with half of another, unless the client itself left it so.              *)
EvidenceWasWhole ==
  evidence # None => \E i \in 1..Len(history) : history[i] = evidence.content

(* What the reviewer is sent was in the account's file after the reviewer  *)
(* had been launched: a credential replaced or rewritten before that is    *)
(* never sent, whenever it was loaded.                                     *)
SentWasHeldAfterLaunch ==
  Sent => \E i \in launched..Len(history) : history[i] = evidence.content

(* A token that is sent outlives the review if the wall clock was not      *)
(* behind when the token was loaded, however it was set since.             *)
SentOutlivesReview ==
  Sent /\ evidence.wall >= evidence.mono => evidence.expires >= evidence.last + Margin

(* The time a credential is judged by never goes back. *)
HighWaterStays ==
  evidence # None /\ evidence' # None =>
    evidence'.high >= evidence.high /\ evidence'.last >= evidence.last
HighWaterRises ==
  [][HighWaterStays]_vars
=============================================================================
