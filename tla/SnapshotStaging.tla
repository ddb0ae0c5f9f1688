--------------------------- MODULE SnapshotStaging ---------------------------
(***************************************************************************)
(* _stage_snapshot of codex_executable.py: a private directory is made, an *)
(* executable is copied into it and sealed, and whatever goes wrong on the *)
(* way is undone: before the directory's identity is published by          *)
(* _abort_unpublished_snapshot_creation, later by _rollback_new_snapshot,  *)
(* which moves it to a quarantine name first.  What cannot be undone is    *)
(* kept, with its descriptors and evidence of its state.  What was staged  *)
(* is used, or destroyed by _destroy_staged_snapshot.  A call may fail with *)
(* or without its effect: an interrupt can follow the effect.              *)
(***************************************************************************)
EXTENDS Naturals

CONSTANT MaxFaults

VARIABLES
  pc,
  place,   \* the directory: none, public, quarantine, gone
  file,    \* in it: none, there, gone
  synced,  \* the directory's removal is on disk
  state,   \* entry_state of the creation, then of the rollback
  created, \* file_created
  ident,   \* rollback_file_identity: none, stale or true
  build,   \* the build descriptor: none, open, closed; stale: closed but still referred to
  fd,      \* [parent, dir, file: open descriptors]
  held,    \* the descriptors an error retains
  out,     \* none, staged, aborted, failed, retained
  faults

vars == <<pc, place, file, synced, state, created, ident, build, fd, held, out, faults>>

Disk == <<place, file, synced>>
Known == <<created, ident>>
Fds == <<build, fd, held>>
Closed == [parent |-> FALSE, dir |-> FALSE, file |-> FALSE]

Init ==
  /\ pc = "mkdir" /\ place = "none" /\ file = "none" /\ synced = FALSE /\ state = "idle"
  /\ created = FALSE /\ ident = "none" /\ build = "none" /\ fd = [Closed EXCEPT !.parent = TRUE]
  /\ held = {} /\ out = "none" /\ faults = 0

At(l) == pc = l /\ out = "none"
Goto(l) == pc' = l /\ UNCHANGED <<out, faults>>
Fail(l) == faults < MaxFaults /\ faults' = faults + 1 /\ pc' = l /\ UNCHANGED out
Finish(o) == pc' = "done" /\ out' = o
Remove == place' = (IF place = "none" THEN "none" ELSE "gone")

-----------------------------------------------------------------------------
(* The directory before its identity is published *)

\* Names that are taken are skipped, until none are left to try.
Mkdir ==
  /\ At("mkdir")
  /\ \/ Goto("capture") /\ place' = "public" /\ state' = "created-unidentified" /\ UNCHANGED <<fd, held>>
     \/ Fail("rmdir") /\ place' \in {"none", "public"} /\ state' = "mkdir-pending" /\ UNCHANGED <<fd, held>>
     \/ Finish("failed") /\ fd' = Closed /\ UNCHANGED <<place, state, held, faults>>
  /\ UNCHANGED <<file, synced, Known, build>>

Capture ==
  /\ At("capture")
  /\ \/ Goto("open") /\ state' = "published"
     \/ Fail("rmdir") /\ UNCHANGED state
  /\ UNCHANGED <<Disk, Known, Fds>>

\* _abort_unpublished_snapshot_creation failed: the parent's descriptor and the name are kept.
KeepCreation ==
  /\ faults < MaxFaults /\ faults' = faults + 1 /\ Finish("retained") /\ held' = {"parent"} /\ UNCHANGED fd

AbortRemove ==
  /\ At("rmdir")
  /\ \/ /\ Goto("abort-sync") /\ Remove /\ UNCHANGED <<fd, held>>
        /\ state' = IF place = "none" THEN "absent-unfsynced" ELSE "removed-unfsynced"
     \/ KeepCreation /\ state' = "removal-pending" /\ (Remove \/ UNCHANGED place)
  /\ UNCHANGED <<file, synced, Known, build>>

AbortSync ==
  /\ At("abort-sync")
  /\ \/ Goto("abort-check") /\ synced' = TRUE /\ UNCHANGED <<fd, held>>
     \/ KeepCreation /\ UNCHANGED synced
  /\ UNCHANGED <<place, file, state, Known, build>>

AbortCheck ==
  /\ At("abort-check")
  /\ \/ /\ Finish("aborted") /\ fd' = Closed /\ UNCHANGED <<held, faults>>
        /\ state' = IF place = "none" THEN "absent" ELSE "removed"
     \/ KeepCreation /\ UNCHANGED state
  /\ UNCHANGED <<Disk, Known, build>>

-----------------------------------------------------------------------------
(* The copy *)

\* The parent is flushed and the directory opened and made private.
Open ==
  /\ At("open")
  /\ \/ Goto("create") /\ fd' = [fd EXCEPT !.dir = TRUE]
     \/ Fail("enter") /\ fd' \in {fd, [fd EXCEPT !.dir = TRUE]}
  /\ UNCHANGED <<Disk, state, Known, build, held>>

\* The file may have been made by a call that did not return.
Create ==
  /\ At("create")
  /\ \/ /\ Goto("seal") /\ file' = "there" /\ created' = TRUE /\ ident' = "true" /\ build' = "open"
     \/ /\ Fail("enter") /\ UNCHANGED <<created, ident, build>> /\ file' = "none"
     \/ /\ Fail("enter") /\ file' = "there" /\ UNCHANGED ident
        /\ \/ created' = FALSE /\ build' = "none"
           \/ created' = TRUE /\ build' = "open"
  /\ UNCHANGED <<place, synced, state, fd, held>>

\* Copied, flushed, made executable and read back: its identity is recorded again at the end.
Seal ==
  /\ At("seal")
  /\ \/ Goto("close") /\ ident' = "true"
     \/ Fail("enter") /\ ident' \in {"true", "stale"}
  /\ UNCHANGED <<Disk, state, created, Fds>>

CloseBuild ==
  /\ At("close")
  /\ \/ Goto("reopen") /\ build' = "closed"
     \/ Fail("enter") /\ build' \in {"open", "stale"}
  /\ UNCHANGED <<Disk, state, Known, fd, held>>

\* The file is opened by its path, its digest compared with the pin and the evidence made; the
\* parent's descriptor is closed, the others go to the custody.
Reopen ==
  /\ At("reopen")
  /\ \/ Goto("custody") /\ fd' = [parent |-> FALSE, dir |-> TRUE, file |-> TRUE]
     \/ Fail("enter") /\ UNCHANGED fd
  /\ UNCHANGED <<Disk, state, Known, build, held>>

-----------------------------------------------------------------------------
(* _rollback_new_snapshot *)

\* The recovery owner takes every descriptor there is.
Keep ==
  /\ Finish("retained") /\ UNCHANGED fd
  /\ held' = {"parent"} \cup (IF fd.dir THEN {"dir"} ELSE {}) \cup (IF fd.file THEN {"file"} ELSE {})
             \cup (IF build = "open" THEN {"build"} ELSE {})
KeepOnFault == faults < MaxFaults /\ faults' = faults + 1 /\ Keep

Enter ==
  /\ At("enter") /\ state' = "public"
  /\ \/ Goto("check") /\ fd' = [fd EXCEPT !.dir = TRUE] /\ UNCHANGED held
     \/ KeepOnFault
  /\ UNCHANGED <<Disk, Known, build>>

\* The directory holds the file that was made, as it was last seen, and nothing else.
AsExpected == (file = "there") = created /\ (created => ident = "true" /\ build # "stale")

Check ==
  /\ At("check")
  /\ \/ /\ AsExpected /\ Goto(IF created THEN "unlink" ELSE "name") /\ UNCHANGED held
        /\ fd' = [fd EXCEPT !.file = created /\ build = "closed"]
     \/ ~AsExpected /\ Keep /\ UNCHANGED faults
     \/ KeepOnFault
  /\ UNCHANGED <<Disk, state, Known, build>>

Unlink ==
  /\ At("unlink")
  /\ \/ Goto("name") /\ file' = "gone" /\ state' = "public-empty" /\ UNCHANGED <<fd, held>>
     \/ /\ KeepOnFault /\ file' \in {"there", "gone"}
        /\ state' \in IF file' = "gone" THEN {"public", "public-empty"} ELSE {"public"}
  /\ UNCHANGED <<place, synced, Known, build>>

\* A free quarantine name is looked for, within the deadline.
Name ==
  /\ At("name")
  /\ \/ Goto("rename") /\ UNCHANGED <<fd, held>>
     \/ KeepOnFault
  /\ UNCHANGED <<Disk, state, Known, build>>

\* _refresh_snapshot_rollback_entry_state: the held directory is looked for under both names.
Refresh(p) ==
  {"entry-state-unavailable",
   CASE p = "public" -> "public-empty" [] p = "quarantine" -> "quarantined" [] OTHER -> "removed-unfsynced"}

Rename ==
  /\ At("rename")
  /\ \/ Goto("quarantine-sync") /\ place' = "quarantine" /\ state' = "quarantined" /\ UNCHANGED <<fd, held>>
     \/ KeepOnFault /\ place' \in {"public", "quarantine"} /\ state' \in Refresh(place')
  /\ UNCHANGED <<file, synced, Known, build>>

\* The parent is flushed, and both names are looked at again.
QuarantineSync ==
  /\ At("quarantine-sync")
  /\ \/ Goto("remove") /\ UNCHANGED <<fd, held>>
     \/ KeepOnFault
  /\ UNCHANGED <<Disk, state, Known, build>>

RemoveQuarantine ==
  /\ At("remove")
  /\ \/ Goto("removal-sync") /\ place' = "gone" /\ state' = "removed-unfsynced" /\ UNCHANGED <<fd, held>>
     \/ KeepOnFault /\ place' \in {"quarantine", "gone"} /\ state' \in Refresh(place')
  /\ UNCHANGED <<file, synced, Known, build>>

RemovalSync ==
  /\ At("removal-sync")
  /\ \/ Goto("removed") /\ synced' = TRUE /\ UNCHANGED <<fd, held>>
     \/ KeepOnFault /\ UNCHANGED synced
  /\ UNCHANGED <<place, file, state, Known, build>>

Removed ==
  /\ At("removed")
  /\ \/ Goto("release") /\ state' = "removed" /\ UNCHANGED <<fd, held>>
     \/ KeepOnFault /\ UNCHANGED state
  /\ UNCHANGED <<Disk, Known, build>>

\* The descriptors that were opened here are closed, then the caller's own; a close that fails
\* keeps what is left.
Release ==
  /\ At("release")
  /\ \/ /\ Finish("failed") /\ fd' = Closed /\ build' = (IF build = "open" THEN "closed" ELSE build)
        /\ UNCHANGED <<held, faults>>
     \/ KeepOnFault /\ UNCHANGED build
  /\ UNCHANGED <<Disk, state, Known>>

-----------------------------------------------------------------------------
(* The custody of what is staged *)

Use == At("custody") /\ Finish("staged") /\ UNCHANGED <<Disk, state, Known, Fds, faults>>

KeepCustody ==
  /\ faults < MaxFaults /\ faults' = faults + 1 /\ Finish("retained")
  /\ held' = {"dir", "file"} /\ state' = "custody" /\ UNCHANGED fd

\* The names are compared with the descriptors, the file is unlinked and the directory flushed.
Destroy ==
  /\ At("custody")
  /\ \/ Goto("destroy") /\ file' = "gone" /\ UNCHANGED <<state, fd, held>>
     \/ KeepCustody /\ file' \in {"there", "gone"}
  /\ UNCHANGED <<place, synced, Known, build>>

\* quarantine_and_remove_empty_root; then both descriptors are closed.
DestroyRoot ==
  /\ At("destroy")
  /\ \/ /\ Finish("destroyed") /\ place' = "gone" /\ synced' = TRUE /\ fd' = Closed
        /\ UNCHANGED <<state, held, faults>>
     \/ KeepCustody /\ place' \in {"public", "quarantine", "gone"} /\ synced' \in {FALSE, place' = "gone"}
  /\ UNCHANGED <<file, Known, build>>

Done == pc = "done" /\ UNCHANGED vars

Next ==
  \/ Mkdir \/ Capture \/ AbortRemove \/ AbortSync \/ AbortCheck \/ Open \/ Create \/ Seal
  \/ CloseBuild \/ Reopen \/ Enter \/ Check \/ Unlink \/ Name \/ Rename \/ QuarantineSync
  \/ RemoveQuarantine \/ RemovalSync \/ Removed \/ Release \/ Use \/ Destroy
  \/ DestroyRoot \/ Done

Spec == Init /\ [][Next]_vars

-----------------------------------------------------------------------------
\* The values of the variables; what is staged is whole, and only what is staged is open.
TypeOK ==
  /\ place \in {"none", "public", "quarantine", "gone"} /\ file \in {"none", "there", "gone"}
  /\ ident \in {"none", "stale", "true"} /\ build \in {"none", "open", "closed", "stale"}
  /\ held \subseteq {"parent", "dir", "file", "build"} /\ faults \in 0 .. MaxFaults
  /\ out \in {"none", "staged", "destroyed", "aborted", "failed", "retained"} /\ (out = "none") = (pc # "done")
  /\ out = "staged" => place = "public" /\ file = "there" /\ build = "closed"

\* The evidence of a retained snapshot says where the directory is; it may say that it does not
\* know, and never that something is gone that is there.
EvidenceIsTrue ==
  out = "retained" =>
    /\ state \in {"public", "public-empty"} => place = "public"
    /\ state = "public-empty" => file # "there"
    /\ state = "quarantined" => place = "quarantine"
    /\ state \in {"removed", "removed-unfsynced"} => place = "gone"
    /\ state \in {"absent", "absent-unfsynced"} => place = "none"
    /\ state \notin {"mkdir-pending", "created-unidentified", "published"}
    /\ place \in {"public", "quarantine"} => held # {}

\* An error that retains nothing leaves nothing, and this is on disk.
CleanIsDurable ==
  out \in {"aborted", "failed", "destroyed"} => place = "none" \/ (place = "gone" /\ synced)

\* Every open descriptor is the custody's or the error's; none is forgotten.
DescriptorsAccounted ==
  /\ out \in {"aborted", "failed", "destroyed"} => fd = Closed /\ build # "open"
  /\ out = "retained" => /\ (fd.parent => "parent" \in held) /\ (fd.dir => "dir" \in held)
                         /\ (fd.file => "file" \in held) /\ (build = "open" => "build" \in held)
=============================================================================
