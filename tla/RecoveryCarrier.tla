---------------------------- MODULE RecoveryCarrier ----------------------------
(* The private carrier of a refreshed login (providers.py): a directory with    *)
(* one credential file in it, beside the review.  It is created and filled,     *)
(* committed under another name, refilled and removed, by one process under the *)
(* lock of the credentials; calls fail in between, other processes of the user  *)
(* may edit the file or put another directory in its place, and the machine may *)
(* lose what was not yet synced.  A call that fails says what it leaves: the    *)
(* carrier, a proven copy of the credential, or what is to be cleaned up.       *)
EXTENDS Naturals

CONSTANTS MaxFaults,    \* bounds: calls that fail,
          MaxEdits      \* and acts of other processes

Versions == {"v1", "v2"}
Contents == Versions \cup {"none", "torn", "foreign"}
Trees == [place : {"none", "pending", "committed"}, config : BOOLEAN,
          main : Contents, temp : Contents, stale : Contents]
Empty == [place |-> "none", config |-> FALSE, main |-> "none", temp |-> "none", stale |-> "none"]

VARIABLES op,         \* retain, commit, replace, remove
          at,         \* its step; "ready" between two operations
          durable,    \* durable_directories
          disk,       \* the carrier as processes see it
          safe,       \* as it is after a loss of power
          loose,      \* the file whose bytes are not synced yet
          want,       \* the version the operation is about
          moved,      \* another directory lies at the carrier's path
          rival,      \* another owner has made the requested path
          complete,   \* temporary_complete
          verified,   \* payload_verified, main_payload_verified
          told, blind,
          owed,       \* the version that was reported stored durably
          proven,     \* an update was reported kept beside the file
          faults, edits

env == <<moved, rival, edits>>
tree == <<disk, safe, loose>>
report == <<told, blind>>
flags == <<complete, verified>>
vars == <<op, at, durable, tree, want, env, flags, report, owed, proven, faults>>

Ops == {"retain", "commit", "replace", "remove"}
Steps == {"mkdir", "syncRoot", "config", "syncCarrier", "create", "write", "flush", "syncConfig", "readback",
          "readPending", "rename", "syncRename", "readCommitted",
          "inspect", "temporary", "fill", "exchange", "syncExchange", "stale", "syncStale",
          "check", "unlink", "syncUnlink", "rmConfig", "rmCarrier", "syncGone",
          "bare", "clean", "ready", "failed", "removed"}
Nothing == [carrier |-> FALSE, proof |-> "none", cleanup |-> "none"]

TypeOK ==
    /\ op \in Ops /\ at \in Steps /\ durable \in BOOLEAN
    /\ disk \in Trees /\ safe \in Trees /\ loose \in {"none", "main", "temp"}
    /\ want \in Versions /\ moved \in BOOLEAN /\ rival \in BOOLEAN
    /\ complete \in BOOLEAN /\ verified \in BOOLEAN
    /\ told.carrier \in BOOLEAN /\ told.proof \in {"none", "main", "temp"}
    /\ told.cleanup \in {"none", "carrier", "config", "main", "temp", "stale", "root"}
    /\ blind \in BOOLEAN /\ proven \in BOOLEAN /\ owed \in Versions \cup {"none"}
    /\ faults \in 0..MaxFaults /\ edits \in 0..MaxEdits

Init ==
    /\ op = "retain" /\ at = "mkdir" /\ durable \in BOOLEAN
    /\ disk = Empty /\ safe = Empty /\ loose = "none" /\ want = "v1"
    /\ moved = FALSE /\ rival = FALSE /\ complete = FALSE /\ verified = FALSE
    /\ told = Nothing /\ blind = FALSE /\ owed = "none" /\ proven = FALSE /\ faults = 0 /\ edits = 0

Go(s) == at' = s
Fault == faults < MaxFaults /\ faults' = faults + 1
Ended == at \in {"failed", "removed"}

(* Syncing makes the entries of a directory safe, with their bytes if these are. *)
SafeFile(file, content) == IF content # "none" /\ loose = file THEN "torn" ELSE content
SyncRoot == safe' = [safe EXCEPT !.place = disk.place]
SyncCarrier == safe' = [safe EXCEPT !.config = disk.config]
SyncConfig == safe' = [safe EXCEPT !.main = SafeFile("main", disk.main), !.temp = SafeFile("temp", disk.temp), !.stale = disk.stale]
Unsynced == UNCHANGED safe

--------------------------------------------------------------------------------
(* Other processes of the same user.  What happens between a check and the call *)
(* it guards is not seen by the code and left out.                              *)

Meddles == edits < MaxEdits /\ edits' = edits + 1
           /\ at \in {"create", "syncConfig", "readback", "readPending", "readCommitted", "inspect", "temporary", "fill",
                      "syncExchange", "check", "ready"}
Edit ==
    /\ Meddles /\ disk.main # "none"
    /\ disk' = [disk EXCEPT !.main = "foreign"]
    /\ UNCHANGED <<op, at, durable, safe, loose, want, moved, rival, flags, report, owed, proven, faults>>
Move ==
    /\ Meddles /\ disk.place # "none" /\ moved' = TRUE
    /\ UNCHANGED <<op, at, durable, tree, want, rival, flags, report, owed, proven, faults>>
Rival ==
    /\ at = "mkdir" /\ durable /\ ~rival /\ edits < MaxEdits /\ edits' = edits + 1
    /\ rival' = TRUE
    /\ UNCHANGED <<op, at, durable, tree, want, moved, flags, report, owed, proven, faults>>
Others == Edit \/ Move \/ Rival

--------------------------------------------------------------------------------
(* What a failed operation says *)

There == disk.place # "none" \/ moved

(* _capture_claude_retained_credential_proof: the artifact is read again, and   *)
(* no proof is given of what cannot be read or is something else                *)
Proves(name) ==
    LET content == IF name = "main" THEN disk.main ELSE disk.temp
    IN  ~moved /\ content = want

(* mark_..._update_artifact and mark_..._cleanup_artifact *)
Mark(name, carrier, cleanup) ==
    \/ /\ told' = [carrier |-> carrier, proof |-> IF name # "none" /\ Proves(name) THEN name ELSE "none",
                   cleanup |-> cleanup]
       /\ UNCHANGED faults
    \/ name # "none" /\ Fault /\ told' = [carrier |-> carrier, proof |-> "none", cleanup |-> cleanup]

(* mark_retention_failure and mark_stage_failure: nothing is said of a carrier  *)
(* that is not seen                                                             *)
MarkRetention(known) ==
    \/ There /\ known /\ Mark("main", TRUE, "none") /\ UNCHANGED blind
    \/ There /\ ~known /\ Mark("none", FALSE, "carrier") /\ UNCHANGED blind
    \/ ~There /\ Mark("none", FALSE, "none") /\ UNCHANGED blind
    \/ There /\ Fault /\ told' = Nothing /\ blind' = TRUE

Fails == Go("failed") /\ proven' = (proven \/ told'.proof = "temp") /\ UNCHANGED <<op, durable, want, env, flags, owed>>

--------------------------------------------------------------------------------
(* _retain_claude_macos_refreshed_credential *)

MakeCarrier ==
    /\ at = "mkdir" /\ ~rival
    /\ disk' = [disk EXCEPT !.place = "pending"] /\ Unsynced
    /\ Go(IF durable THEN "syncRoot" ELSE "config")
    /\ UNCHANGED <<op, durable, loose, want, env, flags, report, owed, proven, faults>>

(* the requested name is taken: its owner's carrier is named for cleanup *)
NameTaken ==
    /\ at = "mkdir" /\ rival
    /\ told' = [Nothing EXCEPT !.cleanup = "carrier"] /\ Fails
    /\ UNCHANGED <<tree, blind, faults>>

SyncMade ==
    /\ at = "syncRoot" /\ SyncRoot /\ Go("config")
    /\ UNCHANGED <<op, durable, disk, loose, want, env, flags, report, owed, proven, faults>>

MakeConfig ==
    /\ at = "config"
    /\ disk' = [disk EXCEPT !.config = TRUE] /\ Unsynced
    /\ Go(IF durable THEN "syncCarrier" ELSE "create")
    /\ UNCHANGED <<op, durable, loose, want, env, flags, report, owed, proven, faults>>

SyncConfigMade ==
    /\ at = "syncCarrier" /\ SyncCarrier /\ Go("create")
    /\ UNCHANGED <<op, durable, disk, loose, want, env, flags, report, owed, proven, faults>>

(* until the file exists a failure takes the directories away again *)
BareFails ==
    /\ at \in {"mkdir", "syncRoot", "config", "syncCarrier"} /\ (at = "mkdir" => ~rival) /\ Fault /\ Go("bare")
    /\ UNCHANGED <<op, durable, tree, want, env, flags, report, owed, proven>>
RemoveBare ==
    /\ at = "bare"
    /\ \/ disk' = [disk EXCEPT !.place = "none", !.config = FALSE] /\ UNCHANGED faults
       \/ Fault /\ disk' \in {disk, [disk EXCEPT !.config = FALSE]}
    /\ told' = [Nothing EXCEPT !.cleanup = IF disk'.place = "none" THEN "none" ELSE "carrier"]
    /\ Fails /\ Unsynced /\ UNCHANGED <<loose, blind>>

CreateFile ==
    /\ at = "create" /\ ~moved
    /\ disk' = [disk EXCEPT !.main = "torn"] /\ Unsynced /\ loose' = "main"
    /\ Go("write")
    /\ UNCHANGED <<op, durable, want, env, flags, report, owed, proven, faults>>
WriteFile ==
    /\ at = "write"
    /\ disk' = [disk EXCEPT !.main = want] /\ Unsynced
    /\ Go("flush")
    /\ UNCHANGED <<op, durable, loose, want, env, flags, report, owed, proven, faults>>
Flush ==
    /\ at = "flush" /\ loose' = "none"
    /\ IF op = "retain" THEN Go("syncConfig") /\ UNCHANGED flags
                        ELSE Go("exchange") /\ complete' = TRUE /\ UNCHANGED verified
    /\ UNCHANGED <<op, durable, disk, safe, want, env, report, owed, proven, faults>>
SyncFile ==
    /\ at = "syncConfig" /\ SyncConfig /\ Go("readback")
    /\ UNCHANGED <<op, durable, disk, loose, want, env, flags, report, owed, proven, faults>>

(* the file is read back and the directories are looked at again *)
Intact == ~moved /\ disk.main = want
Done(v) == Go("ready") /\ owed' = (IF durable THEN v ELSE owed)
ReadBack ==
    /\ at = "readback" /\ Intact /\ Done("v1")
    /\ UNCHANGED <<op, durable, tree, want, env, flags, report, proven, faults>>
RetainFails ==
    /\ at \in {"create", "write", "flush", "syncConfig", "readback"}
    /\ \/ at \in {"create", "readback"} /\ (moved \/ (at = "readback" /\ ~Intact)) /\ Go("clean") /\ UNCHANGED faults
       \/ Fault /\ Go("clean")
    /\ UNCHANGED <<op, durable, tree, want, env, flags, report, owed, proven>>
(* descriptors that cannot be closed fail a verified carrier too *)
CloseFails ==
    /\ at = "readback" /\ Intact /\ Fault /\ verified' = TRUE /\ Go("clean")
    /\ UNCHANGED <<op, durable, tree, want, env, complete, report, owed, proven>>
RetainSays ==
    /\ op = "retain" /\ at = "clean" /\ MarkRetention(verified) /\ Fails
    /\ UNCHANGED tree

--------------------------------------------------------------------------------
(* _commit_claude_macos_durable_stage *)

BeginCommit ==
    /\ at = "ready" /\ durable /\ disk.place = "pending" /\ op = "retain"
    /\ op' = "commit" /\ Go("readPending") /\ verified' = FALSE
    /\ UNCHANGED <<durable, tree, want, env, complete, report, owed, proven, faults>>
ReadPending ==
    /\ at = "readPending" /\ Intact /\ verified' = TRUE /\ Go("rename")
    /\ UNCHANGED <<op, durable, tree, want, env, complete, report, owed, proven, faults>>
Rename ==
    /\ at = "rename"
    /\ disk' = [disk EXCEPT !.place = "committed"] /\ Unsynced
    /\ Go("syncRename")
    /\ UNCHANGED <<op, durable, loose, want, env, flags, report, owed, proven, faults>>
SyncRename ==
    /\ at = "syncRename" /\ SyncRoot /\ Go("readCommitted")
    /\ UNCHANGED <<op, durable, disk, loose, want, env, flags, report, owed, proven, faults>>
ReadCommitted ==
    /\ at = "readCommitted" /\ Intact /\ Done("v1")
    /\ UNCHANGED <<op, durable, tree, want, env, flags, report, proven, faults>>
CommitFails ==
    /\ op = "commit" /\ at \in {"readPending", "rename", "syncRename", "readCommitted"}
    /\ \/ at \in {"readPending", "readCommitted"} /\ ~Intact /\ UNCHANGED faults
       \/ Fault
    /\ verified' = (at # "readPending" /\ (at = "readCommitted" => moved \/ disk.main = want))
    /\ Go("clean")
    /\ UNCHANGED <<op, durable, tree, want, env, complete, report, owed, proven>>
CommitSays ==
    /\ op = "commit" /\ at = "clean" /\ MarkRetention(verified) /\ Fails
    /\ UNCHANGED tree

--------------------------------------------------------------------------------
(* _replace_claude_macos_recovery_credential *)

BeginReplace ==
    /\ at = "ready" /\ want = "v1"
    /\ op' = "replace" /\ want' = "v2" /\ Go("inspect")
    /\ complete' = FALSE /\ verified' = FALSE
    /\ UNCHANGED <<durable, tree, env, report, owed, proven, faults>>
(* a later call finds the update that a failed one left beside the file *)
ReplaceAgain ==
    /\ at = "failed" /\ op = "replace" /\ Go("inspect")
    /\ LET left(t) == [t EXCEPT !.temp = "none", !.stale = IF t.temp = "none" THEN @ ELSE t.temp]
       IN  disk' = left(disk) /\ safe' = left(safe)
    /\ told' = Nothing /\ blind' = FALSE /\ complete' = FALSE /\ verified' = FALSE
    /\ UNCHANGED <<op, durable, loose, want, env, owed, proven, faults>>
Inspect ==
    /\ at = "inspect" /\ ~moved /\ Go("temporary")
    /\ UNCHANGED <<op, durable, tree, want, env, flags, report, owed, proven, faults>>
(* the checks before the try clause name nothing: the caller holds the path *)
InspectFails ==
    /\ at = "inspect" /\ (moved \/ faults < MaxFaults)
    /\ faults' = (IF moved THEN faults ELSE faults + 1)
    /\ \/ told' = [Nothing EXCEPT !.carrier = TRUE] /\ UNCHANGED blind
       \/ told' = Nothing /\ blind' = TRUE
    /\ Fails /\ UNCHANGED tree
MakeTemporary ==
    /\ at = "temporary"
    /\ disk' = [disk EXCEPT !.temp = "torn"] /\ Unsynced /\ loose' = "temp"
    /\ Go("fill")
    /\ UNCHANGED <<op, durable, want, env, flags, report, owed, proven, faults>>
FillTemporary ==
    /\ at = "fill"
    /\ disk' = [disk EXCEPT !.temp = want] /\ Unsynced
    /\ Go("flush")
    /\ UNCHANGED <<op, durable, loose, want, env, flags, report, owed, proven, faults>>
Exchange ==
    /\ at = "exchange"
    /\ disk' = [disk EXCEPT !.main = disk.temp, !.temp = "none"] /\ Unsynced
    /\ loose' = (IF loose = "temp" THEN "main" ELSE loose) /\ Go("syncExchange")
    /\ UNCHANGED <<op, durable, want, env, flags, report, owed, proven, faults>>
SyncExchange ==
    /\ at = "syncExchange" /\ Intact /\ SyncConfig /\ verified' = TRUE /\ Go("stale")
    /\ UNCHANGED <<op, durable, disk, loose, want, env, complete, report, owed, proven, faults>>
RemoveStale ==
    /\ at = "stale"
    /\ disk' = [disk EXCEPT !.stale = "none"] /\ Unsynced /\ Go("syncStale")
    /\ UNCHANGED <<op, durable, loose, want, env, flags, report, owed, proven, faults>>
SyncStale ==
    /\ at = "syncStale" /\ SyncConfig /\ Done("v2")
    /\ UNCHANGED <<op, durable, disk, loose, want, env, flags, report, proven, faults>>
ReplaceFails ==
    /\ op = "replace" /\ at \in {"temporary", "fill", "flush", "exchange", "syncExchange", "stale", "syncStale"}
    /\ \/ at = "syncExchange" /\ ~Intact /\ UNCHANGED faults
       \/ Fault
    /\ Go("clean")
    /\ UNCHANGED <<op, durable, tree, want, env, flags, report, owed, proven>>
(* An update that was written completely is kept and proven; another is removed *)
ReplaceSays ==
    /\ op = "replace" /\ at = "clean"
    /\ IF disk.temp # "none" /\ ~complete
       THEN \/ disk' = [disk EXCEPT !.temp = "none"] /\ Mark("none", TRUE, "none")
            \/ Fault /\ UNCHANGED disk /\ told' = [carrier |-> TRUE, proof |-> "none", cleanup |-> "temp"]
       ELSE /\ UNCHANGED disk
            /\ \/ verified /\ Mark("main", TRUE, IF disk.stale # "none" THEN "stale" ELSE "none")
               \/ ~verified /\ disk.temp # "none" /\ Mark("temp", TRUE, "none")
               \/ ~verified /\ disk.temp # "none" /\ Fault
                  /\ told' = [carrier |-> TRUE, proof |-> "none", cleanup |-> "temp"]
               \/ ~verified /\ disk.temp = "none" /\ Mark("none", TRUE, "none")
    /\ Fails /\ Unsynced /\ UNCHANGED <<loose, blind>>

--------------------------------------------------------------------------------
(* _remove_claude_macos_recovery_carrier *)

BeginRemove ==
    /\ at = "ready" /\ op' = "remove" /\ Go("check")
    /\ owed' = "none" /\ complete' = FALSE /\ verified' = FALSE
    /\ UNCHANGED <<durable, tree, want, env, report, proven, faults>>
(* the file has the digest it should have and is alone in its directory *)
Check ==
    /\ at = "check" /\ Intact /\ verified' = TRUE
    /\ disk.stale = "none" /\ disk.temp = "none" /\ Go("unlink")
    /\ UNCHANGED <<op, durable, tree, want, env, complete, report, owed, proven, faults>>
Unlink ==
    /\ at = "unlink"
    /\ disk' = [disk EXCEPT !.main = "none"] /\ Unsynced /\ Go("syncUnlink")
    /\ UNCHANGED <<op, durable, loose, want, env, flags, report, owed, proven, faults>>
SyncUnlink ==
    /\ at = "syncUnlink" /\ SyncConfig /\ Go("rmConfig")
    /\ UNCHANGED <<op, durable, disk, loose, want, env, flags, report, owed, proven, faults>>
RemoveConfig ==
    /\ at = "rmConfig"
    /\ disk' = [disk EXCEPT !.config = FALSE] /\ Unsynced /\ Go("rmCarrier")
    /\ UNCHANGED <<op, durable, loose, want, env, flags, report, owed, proven, faults>>
RemoveCarrier ==
    /\ at = "rmCarrier"
    /\ SyncCarrier /\ disk' = [disk EXCEPT !.place = "none"] /\ Go("syncGone")
    /\ UNCHANGED <<op, durable, loose, want, env, flags, report, owed, proven, faults>>
SyncGone ==
    /\ at = "syncGone" /\ SyncRoot /\ Go("removed")
    /\ UNCHANGED <<op, durable, disk, loose, want, env, flags, report, owed, proven, faults>>
RemoveFails ==
    /\ op = "remove" /\ at \in {"check", "unlink", "syncUnlink", "rmConfig", "rmCarrier", "syncGone"}
    /\ \/ at = "check" /\ (~Intact \/ disk.stale # "none") /\ UNCHANGED faults
       \/ Fault
    /\ verified' \in (CASE at = "unlink" -> {TRUE} [] at = "check" /\ Intact -> {disk.stale # "none", TRUE} [] OTHER -> {FALSE})
    /\ Go("clean")
    /\ UNCHANGED <<op, durable, tree, want, env, complete, report, owed, proven>>
(* _existing_claude_macos_recovery_cleanup_scope: the innermost thing still seen *)
Scope == IF disk.place = "none" THEN "root" ELSE IF ~disk.config THEN "carrier"
         ELSE IF disk.main = "none" THEN "config" ELSE "main"
RemoveSays ==
    /\ op = "remove" /\ at = "clean"
    /\ \/ verified /\ Intact /\ Mark("main", TRUE, Scope)
       \/ ~(verified /\ Intact) /\ Mark("none", FALSE, IF moved THEN "carrier" ELSE Scope)
    /\ Fails /\ UNCHANGED <<tree, blind>>

Retain == MakeCarrier \/ NameTaken \/ SyncMade \/ MakeConfig \/ SyncConfigMade \/ BareFails \/ RemoveBare \/ CreateFile
          \/ WriteFile \/ Flush \/ SyncFile \/ ReadBack \/ RetainFails \/ CloseFails \/ RetainSays
Commit == BeginCommit \/ ReadPending \/ Rename \/ SyncRename \/ ReadCommitted \/ CommitFails \/ CommitSays
Replace == BeginReplace \/ ReplaceAgain \/ Inspect \/ InspectFails \/ MakeTemporary \/ FillTemporary
           \/ Exchange \/ SyncExchange \/ RemoveStale \/ SyncStale \/ ReplaceFails \/ ReplaceSays
Remove == BeginRemove \/ Check \/ Unlink \/ SyncUnlink \/ RemoveConfig \/ RemoveCarrier \/ SyncGone \/ RemoveFails
          \/ RemoveSays
Next == Retain \/ Commit \/ Replace \/ Remove \/ Others
Spec == Init /\ [][Next]_vars

--------------------------------------------------------------------------------
(* A failed operation that says the credential is kept in a file was right: the *)
(* carrier is still in its place, and the file holds exactly what was to be     *)
(* stored.                                                                      *)
ProofIsTrue ==
    (at = "failed" /\ told.proof # "none") =>
        ~moved /\ (IF told.proof = "main" THEN disk.main ELSE disk.temp) = want

(* A failed operation leaves no carrier behind of which its caller hears        *)
(* nothing, except one that it could not look at.                               *)
NothingUnnamed == (at = "failed" /\ There /\ ~blind) => told # Nothing

(* What a failed operation asks to be cleaned up is there. *)
CleanupIsReal ==
    at = "failed" =>
        CASE told.cleanup = "carrier" -> There \/ rival
          [] told.cleanup = "config" -> disk.config
          [] told.cleanup = "main" -> disk.main # "none"
          [] told.cleanup = "temp" -> disk.temp # "none"
          [] told.cleanup = "stale" -> disk.stale # "none"
          [] OTHER -> TRUE

(* Once a carrier was reported stored, a loss of power at any later step of a   *)
(* commit or a replacement leaves a whole version in it, whichever of the       *)
(* changes not yet synced the disk has kept; unless others have edited the file.*)
CrashKeepsCopy ==
    (owed # "none" /\ "foreign" \notin {disk.main, safe.main}) =>
        \A place \in {disk.place, safe.place}, config \in {disk.config, safe.config},
           main \in {IF disk.main = safe.main THEN safe.main ELSE SafeFile("main", disk.main), safe.main} :
            place # "none" /\ config /\ main \in {owed, want}

(* An operation that returns has stored the version it was given, and where the *)
(* directories are durable a loss of power does not take it away.               *)
ReturnIsWhole ==
    (at # "ready" /\ at' = "ready") => disk'.main = want /\ ~moved /\ (durable => safe' = disk')

(* The removal of a carrier takes away only the version it was told to remove,  *)
(* and no directory that another process has put in its place.  Nothing is      *)
(* claimed of the moment between the last check and the unlink by name: the     *)
(* carrier is private and no cooperating process writes it (see Meddles).       *)
RemovedIsExpected == (op = "remove" /\ disk.main # "none" /\ disk'.main = "none") => disk.main = want /\ ~moved

(* An update that a failed replacement reported as kept is not removed before   *)
(* the file itself holds that version.                                          *)
UpdateSurvives == (op = "replace" /\ proven /\ disk.main # "foreign") => "v2" \in {disk.main, disk.temp, disk.stale}
================================================================================
