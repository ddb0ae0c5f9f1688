----------------------------- MODULE HostWriteback -----------------------------
(* Writing a refreshed login back to the host (providers.py).  A review reads   *)
(* the login from the Keychain and from the file in the home directory, its     *)
(* reviewer refreshes it, and the result is written to the carrier it was taken *)
(* from, and to both when they hold one login.  Reviews exclude each other by   *)
(* two update locks and Claude's own clients by the refresh lock, which a       *)
(* client may take over when its owner looks dead; a login may also ignore it.  *)
EXTENDS Naturals, FiniteSets

CONSTANTS Writers,      \* reviews that write back
          MaxFaults,    \* bounds: calls that fail and interrupts,
          MaxLogins     \* and logins of others

Own == {"a", "a2", "b"}                     \* a and a2 hold the same refresh token
Contents == Own \cup {"none", "other"} \cup Writers

VARIABLES pc, out, cause,   \* per review: its step, the outcome, why it is not proven
          snap,             \* carrier_snapshot
          source,           \* selected.source
          form,             \* the refreshed login: good, too large for the Keychain's client, or malformed
          got,              \* what the read in progress has seen
          attempt,          \* attempt_index
          temp,             \* the temporary file: absent, open or complete
          mask, pending,    \* forwarded signals are blocked; one has arrived
          bound,            \* the refresh lock's lease is in the owner's hands
          late,             \* a login came after the last look that could see it
          keychain, file, generation,    \* the carriers, and the file's identity
          lockKeychain, lockFile,        \* the update locks
          refresh,                       \* the holder of the refresh lock
          faults, logins

carriers == <<keychain, file, generation>>
locks == <<lockKeychain, lockFile, refresh>>
signals == <<mask, pending>>
choice == <<snap, source, form>>
result == <<out, cause>>
others == <<late, logins>>
vars == <<pc, result, choice, got, attempt, temp, signals, bound, others, carriers, locks, faults>>

Steps == {"readKeychain", "readFile", "refreshed", "lockKeychain", "lockFile", "block", "lock", "unblock",
          "lookKeychain", "lookFile", "temp", "fill", "recheck", "assert", "replace", "sync", "readBack",
          "compare", "assertAgain", "write", "assertRead", "backKeychain", "backFile", "decide",
          "lastAssert", "lastKeychain", "lastFile", "unlink", "unlock", "restoreTwice", "restore",
          "unlockFile", "unlockKeychain", "done"}
Nobody == "nobody"
Forms == {"good", "large", "malformed"}
Snapshots == [keychain : Contents, file : Contents, generation : 0..(MaxLogins + Cardinality(Writers))]

TypeOK ==
    /\ pc \in [Writers -> Steps]
    /\ out \in [Writers -> {"none", "proven", "notProven", "error"}]
    /\ cause \in [Writers -> {"none", "io"}]
    /\ snap \in [Writers -> Snapshots] /\ source \in [Writers -> {"keychain", "file"}] /\ form \in [Writers -> Forms]
    /\ got \in [Writers -> [keychain : Contents, file : Contents]] /\ attempt \in [Writers -> 0..1]
    /\ temp \in [Writers -> {"absent", "open", "complete"}]
    /\ mask \in [Writers -> BOOLEAN] /\ pending \in [Writers -> BOOLEAN] /\ bound \in [Writers -> BOOLEAN]
    /\ late \in [Writers -> BOOLEAN]
    /\ keychain \in Contents /\ file \in Contents /\ generation \in 0..(MaxLogins + Cardinality(Writers))
    /\ lockKeychain \in Writers \cup {Nobody} /\ lockFile \in Writers \cup {Nobody}
    /\ refresh \in Writers \cup {Nobody, "client"}
    /\ faults \in 0..MaxFaults /\ logins \in 0..MaxLogins

Init ==
    /\ pc = [w \in Writers |-> "readKeychain"]
    /\ out = [w \in Writers |-> "none"] /\ cause = [w \in Writers |-> "none"]
    /\ snap = [w \in Writers |-> [keychain |-> "none", file |-> "none", generation |-> 0]]
    /\ source = [w \in Writers |-> "keychain"] /\ form \in [Writers -> Forms]
    /\ got = [w \in Writers |-> [keychain |-> "none", file |-> "none"]] /\ attempt = [w \in Writers |-> 0]
    /\ temp = [w \in Writers |-> "absent"]
    /\ mask = [w \in Writers |-> FALSE] /\ pending = [w \in Writers |-> FALSE] /\ bound = [w \in Writers |-> FALSE]
    /\ late = [w \in Writers |-> FALSE]
    /\ \E pair \in {<<"a", "none">>, <<"none", "a">>, <<"a", "a">>, <<"a", "a2">>, <<"a", "b">>} :
           keychain = pair[1] /\ file = pair[2]
    /\ generation = 0 /\ lockKeychain = Nobody /\ lockFile = Nobody /\ refresh = Nobody
    /\ faults = 0 /\ logins = 0

At(w, step) == pc[w] = step
Go(w, step) == pc' = [pc EXCEPT ![w] = step]
Fault == faults < MaxFaults /\ faults' = faults + 1
Says(w, o) == out' = [out EXCEPT ![w] = o]

(* _claude_macos_carriers_share_refresh_token and what follows from it *)
Token(content) == IF content = "a2" THEN "a" ELSE content
Shared(s) == s.keychain # "none" /\ s.file # "none" /\ Token(s.keychain) = Token(s.file)
WritesKeychain(w) == source[w] = "keychain" \/ Shared(snap[w])
WritesFile(w) == source[w] = "file" \/ Shared(snap[w])
WantedKeychain(w) == IF WritesKeychain(w) THEN w ELSE snap[w].keychain
WantedFile(w) == IF WritesFile(w) THEN w ELSE snap[w].file

(* what stands for which file it is: its directory, inode, times and contents *)
Identity == generation
(* _validate_claude_local_credential, _claude_keychain_credential_has_refresh_margin *)
Valid(w) == form[w] # "malformed"
Fits(w) == form[w] # "large"

(* A call ends: the temporary file goes first, then the locks in their order *)
Quit(w, o) == Says(w, o) /\ Go(w, IF temp[w] = "absent" THEN "unlock" ELSE "unlink")

--------------------------------------------------------------------------------
(* Logins by others: with the refresh lock, which is taken over from an owner   *)
(* that looks dead, or without it                                               *)

ClientTakes ==
    /\ refresh = Nobody /\ logins < MaxLogins /\ refresh' = "client"
    /\ UNCHANGED <<pc, result, choice, got, attempt, temp, signals, bound, others, carriers, lockKeychain, lockFile, faults>>
ClientTakesOver ==
    /\ refresh \in Writers /\ logins < MaxLogins /\ Fault /\ refresh' = "client"
    /\ UNCHANGED <<pc, result, choice, got, attempt, temp, signals, bound, others, carriers, lockKeychain, lockFile>>
ClientFrees ==
    /\ refresh = "client" /\ refresh' = Nobody
    /\ UNCHANGED <<pc, result, choice, got, attempt, temp, signals, bound, others, carriers, lockKeychain, lockFile, faults>>

(* where the code cannot see a change any more *)
TooLate == {"assert", "replace", "assertAgain", "write", "backFile", "decide", "lastFile"}
TooLateToAssert == {"replace", "write", "lastFile"}
Login ==
    /\ logins < MaxLogins /\ logins' = logins + 1
    /\ \/ file' = "other" /\ generation' = generation + 1 /\ UNCHANGED keychain
       \/ keychain' = "other" /\ UNCHANGED <<file, generation>>
       \/ file' = "other" /\ generation' = generation + 1 /\ keychain' = "other"
    /\ late' = [w \in Writers |-> late[w] \/ pc[w] \in (IF refresh = "client" THEN TooLateToAssert ELSE TooLate)]
    /\ UNCHANGED <<pc, result, choice, got, attempt, temp, signals, bound, locks, faults>>
Others == ClientTakes \/ ClientTakesOver \/ ClientFrees \/ Login

--------------------------------------------------------------------------------
(* _select_claude_macos_credential *)

SelectKeychain(w) ==
    /\ At(w, "readKeychain") /\ got' = [got EXCEPT ![w].keychain = keychain] /\ Go(w, "readFile")
    /\ UNCHANGED <<result, choice, attempt, temp, signals, bound, others, carriers, locks, faults>>
(* the one that lives longer is selected *)
SelectFile(w) ==
    /\ At(w, "readFile") /\ {got[w].keychain, file} # {"none"}
    /\ snap' = [snap EXCEPT ![w] = [keychain |-> got[w].keychain, file |-> file, generation |-> Identity]]
    /\ \E s \in {s \in {"keychain", "file"} : (IF s = "keychain" THEN got[w].keychain ELSE file) # "none"} :
           source' = [source EXCEPT ![w] = s]
    /\ Go(w, "refreshed")
    /\ UNCHANGED <<result, form, got, attempt, temp, signals, bound, others, carriers, locks, faults>>
SelectFails(w) ==
    /\ pc[w] \in {"readKeychain", "readFile"}
    /\ \/ Fault
       \/ At(w, "readFile") /\ {got[w].keychain, file} = {"none"} /\ UNCHANGED faults
    /\ Says(w, "error") /\ Go(w, "done")
    /\ UNCHANGED <<cause, choice, got, attempt, temp, signals, bound, others, carriers, locks>>

(* all that can be refused without a look is refused before anything is written *)
Persist(w) ==
    /\ At(w, "refreshed")
    /\ IF ~Valid(w) \/ (WritesKeychain(w) /\ ~Fits(w))
       THEN Says(w, "notProven") /\ Go(w, "done")
       ELSE Go(w, "lockKeychain") /\ UNCHANGED out
    /\ UNCHANGED <<cause, choice, got, attempt, temp, signals, bound, others, carriers, locks, faults>>

--------------------------------------------------------------------------------
(* _claude_credential_update_lock and _claude_macos_carrier_coordination *)

LockKeychain(w) ==
    /\ At(w, "lockKeychain") /\ lockKeychain = Nobody /\ lockKeychain' = w /\ Go(w, "lockFile")
    /\ UNCHANGED <<result, choice, got, attempt, temp, signals, bound, others, carriers, lockFile, refresh, faults>>
LockFile(w) ==
    /\ At(w, "lockFile") /\ lockFile = Nobody /\ lockFile' = w /\ Go(w, "block")
    /\ UNCHANGED <<result, choice, got, attempt, temp, signals, bound, others, carriers, lockKeychain, refresh, faults>>
(* the deadline passes while another holds the lock, or it cannot be opened *)
LockFails(w) ==
    /\ \/ At(w, "lockKeychain") /\ Go(w, "done")
          /\ ((lockKeychain # Nobody /\ UNCHANGED faults) \/ Fault)
       \/ At(w, "lockFile") /\ Go(w, "unlockKeychain")
          /\ ((lockFile # Nobody /\ UNCHANGED faults) \/ Fault)
    /\ Says(w, "error")
    /\ UNCHANGED <<cause, choice, got, attempt, temp, signals, bound, others, carriers, locks>>
Block(w) ==
    /\ At(w, "block") /\ mask' = [mask EXCEPT ![w] = TRUE] /\ Go(w, "lock")
    /\ UNCHANGED <<result, choice, got, attempt, temp, pending, bound, others, carriers, locks, faults>>
Lock(w) ==
    /\ At(w, "lock") /\ refresh = Nobody /\ refresh' = w /\ Go(w, "unblock")
    /\ UNCHANGED <<result, choice, got, attempt, temp, signals, bound, others, carriers, lockKeychain, lockFile, faults>>
RefreshLockFails(w) ==
    /\ At(w, "lock") /\ ((refresh # Nobody /\ UNCHANGED faults) \/ Fault)
    /\ Says(w, "error") /\ Go(w, "restoreTwice")
    /\ UNCHANGED <<cause, choice, got, attempt, temp, signals, bound, others, carriers, locks>>
(* the lease is the context's, and a signal that came meanwhile is raised in it *)
Unblock(w) ==
    /\ At(w, "unblock") /\ bound' = [bound EXCEPT ![w] = TRUE]
    /\ \/ mask' = [mask EXCEPT ![w] = FALSE] /\ UNCHANGED faults
          /\ IF pending[w] THEN Quit(w, "error") ELSE Go(w, "lookKeychain") /\ UNCHANGED out
       \/ Fault /\ Quit(w, "error") /\ UNCHANGED mask
    /\ UNCHANGED <<cause, choice, got, attempt, temp, pending, others, carriers, locks>>

(* An interrupt is raised at once where signals are open, and later otherwise.  *)
(* The handlers that release the locks are taken not to be interrupted.         *)
Working == {"lookKeychain", "lookFile", "temp", "fill", "recheck", "assert", "replace", "sync", "readBack", "compare",
            "assertAgain", "write", "assertRead", "backKeychain", "backFile", "decide", "lastAssert", "lastKeychain", "lastFile"}
Interrupt(w) ==
    /\ Fault
    /\ \/ pc[w] \in Working /\ Quit(w, "error") /\ UNCHANGED pending
       \/ pc[w] \in {"lock", "unblock"} /\ mask[w] /\ pending' = [pending EXCEPT ![w] = TRUE] /\ UNCHANGED <<pc, out>>
       \/ pc[w] \in {"lock", "unblock"} /\ ~mask[w] /\ Says(w, "error") /\ Go(w, "unlock") /\ UNCHANGED pending
    /\ UNCHANGED <<cause, choice, got, attempt, temp, mask, bound, others, carriers, locks>>

--------------------------------------------------------------------------------
(* _persist_claude_macos_refreshed_credential_impl: both carriers are as they   *)
(* were selected                                                                *)

Held(w) == refresh = w
AsSelected(w) == got[w].keychain = snap[w].keychain /\ file = snap[w].file /\ Identity = snap[w].generation

LookKeychain(w) ==
    /\ At(w, "lookKeychain") /\ Held(w)
    /\ got' = [got EXCEPT ![w].keychain = keychain] /\ Go(w, "lookFile")
    /\ UNCHANGED <<result, choice, attempt, temp, signals, bound, others, carriers, locks, faults>>
LookFile(w) ==
    /\ At(w, "lookFile")
    /\ IF AsSelected(w) THEN Go(w, IF WritesFile(w) THEN "temp" ELSE "compare") /\ UNCHANGED out
                        ELSE Quit(w, "notProven")
    /\ UNCHANGED <<cause, choice, got, attempt, temp, signals, bound, others, carriers, locks, faults>>

--------------------------------------------------------------------------------
(* _write_claude_file_credential *)

FileIsSelected(w) == file = snap[w].file /\ Identity = snap[w].generation

MakeTemporary(w) ==
    /\ At(w, "temp")
    /\ IF FileIsSelected(w) THEN temp' = [temp EXCEPT ![w] = "open"] /\ Go(w, "fill") /\ UNCHANGED out
                            ELSE Quit(w, "notProven") /\ UNCHANGED temp
    /\ UNCHANGED <<cause, choice, got, attempt, signals, bound, others, carriers, locks, faults>>
FillTemporary(w) ==
    /\ At(w, "fill") /\ temp' = [temp EXCEPT ![w] = "complete"] /\ Go(w, "recheck")
    /\ UNCHANGED <<result, choice, got, attempt, signals, bound, others, carriers, locks, faults>>
Recheck(w) ==
    /\ At(w, "recheck")
    /\ IF FileIsSelected(w) THEN Go(w, "assert") /\ UNCHANGED out ELSE Quit(w, "notProven")
    /\ UNCHANGED <<cause, choice, got, attempt, temp, signals, bound, others, carriers, locks, faults>>
AssertHeld(w) ==
    /\ At(w, "assert")
    /\ IF Held(w) THEN Go(w, "replace") /\ UNCHANGED out ELSE Quit(w, "error")
    /\ UNCHANGED <<cause, choice, got, attempt, temp, signals, bound, others, carriers, locks, faults>>
ReplaceFile(w) ==
    /\ At(w, "replace") /\ file' = w /\ generation' = generation + 1
    /\ temp' = [temp EXCEPT ![w] = "absent"] /\ Go(w, "sync")
    /\ UNCHANGED <<result, choice, got, attempt, signals, bound, others, keychain, locks, faults>>
SyncFile(w) ==
    /\ At(w, "sync") /\ Go(w, "readBack")
    /\ UNCHANGED <<result, choice, got, attempt, temp, signals, bound, others, carriers, locks, faults>>
ReadBack(w) ==
    /\ At(w, "readBack")
    /\ IF file = w THEN Go(w, IF WritesKeychain(w) THEN "compare" ELSE "lastAssert") /\ UNCHANGED out
                   ELSE Quit(w, "notProven")
    /\ UNCHANGED <<cause, choice, got, attempt, temp, signals, bound, others, carriers, locks, faults>>
(* a failing system call ends the write, a failing or unsafe read the whole call *)
FileFails(w) ==
    /\ Fault
    /\ \/ pc[w] \in {"temp", "fill", "replace", "sync"} /\ Quit(w, "notProven") /\ cause' = [cause EXCEPT ![w] = "io"]
       \/ pc[w] \in {"temp", "recheck", "readBack"} /\ Quit(w, "error") /\ UNCHANGED cause
    /\ UNCHANGED <<choice, got, attempt, temp, signals, bound, others, carriers, locks>>
(* the temporary file goes, and one that stays is an error, but for a call that *)
(* had failed already: that error is answered, and the file not mentioned       *)
Unlink(w) ==
    /\ At(w, "unlink") /\ Go(w, "unlock")
    /\ \/ temp' = [temp EXCEPT ![w] = "absent"] /\ UNCHANGED <<out, faults>>
       \/ Fault /\ UNCHANGED temp /\ Says(w, IF cause[w] = "io" THEN out[w] ELSE "error")
    /\ UNCHANGED <<cause, choice, got, attempt, signals, bound, others, carriers, locks>>

--------------------------------------------------------------------------------
(* _write_claude_keychain_credential, and what a failed write left *)

CompareKeychain(w) ==
    /\ At(w, "compare") /\ Go(w, IF keychain = snap[w].keychain THEN "assertAgain" ELSE "assertRead")
    /\ UNCHANGED <<result, choice, got, attempt, temp, signals, bound, others, carriers, locks, faults>>
AssertForKeychain(w) ==
    /\ At(w, "assertAgain") /\ Go(w, IF Held(w) THEN "write" ELSE "assertRead")
    /\ UNCHANGED <<result, choice, got, attempt, temp, signals, bound, others, carriers, locks, faults>>
(* the client may fail, and may fail after it has written *)
WriteKeychain(w) ==
    /\ At(w, "write")
    /\ \/ keychain' = w /\ Go(w, "lastAssert") /\ UNCHANGED faults
       \/ Fault /\ keychain' \in {keychain, w} /\ Go(w, "assertRead")
       \/ Fault /\ UNCHANGED keychain /\ Go(w, "lastAssert")
    /\ UNCHANGED <<result, choice, got, attempt, temp, signals, bound, others, file, generation, locks>>
KeychainFails(w) ==
    /\ pc[w] \in {"compare", "assertAgain"} /\ Fault /\ Go(w, "assertRead")
    /\ UNCHANGED <<result, choice, got, attempt, temp, signals, bound, others, carriers, locks>>

BackKeychain(w) ==
    /\ pc[w] \in {"backKeychain", "lastKeychain"} /\ got' = [got EXCEPT ![w].keychain = keychain]
    /\ Go(w, IF At(w, "backKeychain") THEN "backFile" ELSE "lastFile")
    /\ UNCHANGED <<result, choice, attempt, temp, signals, bound, others, carriers, locks, faults>>
BackFile(w) ==
    /\ At(w, "backFile") /\ got' = [got EXCEPT ![w].file = file] /\ Go(w, "decide")
    /\ UNCHANGED <<result, choice, attempt, temp, signals, bound, others, carriers, locks, faults>>
(* done after all, tried once more, or given up with the file as it is *)
Decide(w) ==
    /\ At(w, "decide")
    /\ LET fileIsExpected == got[w].file = WantedFile(w) IN
       \/ ~Held(w) /\ Quit(w, "error") /\ UNCHANGED attempt
       \/ Held(w) /\ got[w].keychain = w /\ fileIsExpected /\ Quit(w, "proven") /\ UNCHANGED attempt
       \/ Held(w) /\ got[w].keychain = snap[w].keychain /\ fileIsExpected /\ attempt[w] = 0
          /\ attempt' = [attempt EXCEPT ![w] = 1] /\ Go(w, "compare") /\ UNCHANGED out
       \/ Held(w) /\ ~(fileIsExpected /\ (got[w].keychain = w \/ (got[w].keychain = snap[w].keychain /\ attempt[w] = 0)))
          /\ Quit(w, "error") /\ UNCHANGED attempt
    /\ UNCHANGED <<cause, choice, got, temp, signals, bound, others, carriers, locks, faults>>
(* the last look at both carriers *)
LastFile(w) ==
    /\ At(w, "lastFile")
    /\ Quit(w, IF got[w].keychain = WantedKeychain(w) /\ file = WantedFile(w) THEN "proven" ELSE "notProven")
    /\ UNCHANGED <<cause, choice, got, attempt, temp, signals, bound, others, carriers, locks, faults>>

(* refresh_lock.assert_held, and reads that fail *)
Assert(w) ==
    /\ pc[w] \in {"assertRead", "lastAssert"} /\ Held(w)
    /\ Go(w, IF At(w, "assertRead") THEN "backKeychain" ELSE "lastKeychain")
    /\ UNCHANGED <<result, choice, got, attempt, temp, signals, bound, others, carriers, locks, faults>>
Lost(w) ==
    /\ pc[w] \in {"lookKeychain", "assertRead", "lastAssert"} /\ ~Held(w) /\ Quit(w, "error")
    /\ UNCHANGED <<cause, choice, got, attempt, temp, signals, bound, others, carriers, locks, faults>>
ReadFails(w) ==
    /\ pc[w] \in {"lookKeychain", "lookFile", "backKeychain", "backFile", "lastKeychain", "lastFile"} /\ Fault
    /\ Quit(w, "error")
    /\ UNCHANGED <<cause, choice, got, attempt, temp, signals, bound, others, carriers, locks>>

--------------------------------------------------------------------------------
(* The way out *)

(* a lease that was lost or cannot be given back is an error *)
Unlock(w) ==
    /\ At(w, "unlock") /\ Go(w, IF mask[w] THEN "restore" ELSE "unlockFile")
    /\ \/ bound[w] /\ Held(w) /\ refresh' = Nobody /\ UNCHANGED <<out, faults>>
       \/ bound[w] /\ Held(w) /\ Fault /\ Says(w, "error") /\ UNCHANGED refresh
       \/ bound[w] /\ ~Held(w) /\ Says(w, "error") /\ UNCHANGED <<refresh, faults>>
       \/ ~bound[w] /\ UNCHANGED <<out, refresh, faults>>
    /\ UNCHANGED <<cause, choice, got, attempt, temp, signals, bound, others, carriers, lockKeychain, lockFile>>
(* the signal mask is restored, with a second try *)
Restore(w) ==
    /\ pc[w] \in {"restoreTwice", "restore"}
    /\ \/ mask' = [mask EXCEPT ![w] = FALSE] /\ Go(w, "unlockFile") /\ UNCHANGED faults
       \/ Fault /\ Go(w, IF At(w, "restoreTwice") THEN "restore" ELSE "unlockFile") /\ UNCHANGED mask
    /\ UNCHANGED <<result, choice, got, attempt, temp, pending, bound, others, carriers, locks>>
UnlockFile(w) ==
    /\ At(w, "unlockFile") /\ lockFile' = Nobody /\ Go(w, "unlockKeychain")
    /\ UNCHANGED <<result, choice, got, attempt, temp, signals, bound, others, carriers, lockKeychain, refresh, faults>>
UnlockKeychain(w) ==
    /\ At(w, "unlockKeychain") /\ lockKeychain' = Nobody /\ Go(w, "done")
    /\ UNCHANGED <<result, choice, got, attempt, temp, signals, bound, others, carriers, lockFile, refresh, faults>>

Write(w) ==
    \/ SelectKeychain(w) \/ SelectFile(w) \/ SelectFails(w) \/ Persist(w)
    \/ LockKeychain(w) \/ LockFile(w) \/ LockFails(w) \/ Block(w) \/ Lock(w) \/ RefreshLockFails(w) \/ Unblock(w)
    \/ LookKeychain(w) \/ LookFile(w) \/ MakeTemporary(w) \/ FillTemporary(w) \/ Recheck(w) \/ AssertHeld(w)
    \/ ReplaceFile(w) \/ SyncFile(w) \/ ReadBack(w) \/ FileFails(w) \/ Unlink(w)
    \/ CompareKeychain(w) \/ AssertForKeychain(w) \/ WriteKeychain(w) \/ KeychainFails(w)
    \/ BackKeychain(w) \/ BackFile(w) \/ Decide(w) \/ LastFile(w) \/ Assert(w) \/ Lost(w) \/ ReadFails(w)
    \/ Unlock(w) \/ Restore(w) \/ UnlockFile(w) \/ UnlockKeychain(w)
Next == Others \/ \E w \in Writers : Write(w) \/ Interrupt(w)
Spec == Init /\ [][Next]_vars
FairSpec == Spec /\ \A w \in Writers : WF_vars(Write(w))

--------------------------------------------------------------------------------
(* A writeback overwrites only the login it refreshed: one that another client  *)
(* or review has stored since then stays, unless it came after the last look,   *)
(* and even then only if its owner had taken no lock or had taken over ours     *)
(* after it was last asserted.                                                  *)
Replaces(w, before, after, selected) == (before # after /\ after = w) => before = selected \/ late[w]
NewerSurvives == \A w \in Writers : Replaces(w, file, file', snap[w].file) /\ Replaces(w, keychain, keychain', snap[w].keychain)

(* A writeback that is reported proven has put the refreshed login into every   *)
(* carrier that held it and has left the other one as it was.                   *)
ProvenIsWhole ==
    \A w \in Writers : (out[w] # "proven" /\ out'[w] = "proven" /\ ~late[w]) =>
        keychain' = WantedKeychain(w) /\ file' = WantedFile(w)

(* When one login is in both carriers the Keychain gets the refreshed one only  *)
(* after the file, which the clients read first.                                *)
FileGoesFirst ==
    \A w \in Writers : (Shared(snap[w]) /\ keychain = w) => ~(file = snap[w].file /\ Identity = snap[w].generation)

(* A refreshed login that is malformed, or that the Keychain's client cannot    *)
(* take when it would have to be stored there, is stored nowhere.               *)
NothingHalfRefused ==
    \A w \in Writers : (~Valid(w) \/ (~Fits(w) /\ WritesKeychain(w))) => file # w /\ keychain # w

(* A review that is done holds no lock and no blocked signals, or says so. *)
LocksReturned ==
    \A w \in Writers : At(w, "done") =>
        /\ lockKeychain # w /\ lockFile # w
        /\ refresh = w => out[w] = "error" /\ bound[w]
        /\ mask[w] => out[w] = "error"

(* A copy of the login in a temporary file is left only by an error, or where   *)
(* the write itself had failed before.                                          *)
LeftoverIsSaid == \A w \in Writers : (At(w, "done") /\ temp[w] # "absent") => out[w] = "error" \/ cause[w] = "io"

(* Every review gets past the locks and ends. *)
Begun == \E w \in Writers : pc[w] # "done"
Ended == \A w \in Writers : pc[w] = "done"
================================================================================
