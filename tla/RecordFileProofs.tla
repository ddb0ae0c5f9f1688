--------------------------- MODULE RecordFileProofs ---------------------------
(***************************************************************************)
(* What the supervisor leaves on the disk, in four proofs.  RecordFile, for *)
(* any number of writers, of blocks that other files take, and of tries:    *)
(* state.json is one record that is replaced as a whole and survives once   *)
(* its writer has returned, and a settlement that was reported as exact is  *)
(* exact.  SumFunction, which adds up the sizes in the directory, is never  *)
(* expanded: the proofs use of it only that equal directories of equal      *)
(* files have equal sizes.  AuthenticatedReview, SnapshotStaging and        *)
(* PreflightCommand, under the names Review, Staging and Preflight: what a  *)
(* process may still use is kept and named by the error, for any number of  *)
(* faults.                                                                  *)
(***************************************************************************)
EXTENDS RecordFile, TLAPS

CONSTANTS MaxMissteps, MaxSlips, MaxBreaks, Limit

VARIABLES step, stage, leased, copy, custody, launch, roots, process, aide, closure, known,
  life, owed, failure, cause, collected, missteps, blind, refused    \* those of AuthenticatedReview
VARIABLES act, place, content, synced, entry, created, ident, build, opened, held, verdict,
  slips    \* those of SnapshotStaging
VARIABLES point, schema, outcome, anchors, program, killed, ownership, bound, receipt, channels,
  eof, bytes, reaped, error, retained, breaks    \* those of PreflightCommand

Review == INSTANCE AuthenticatedReview WITH pc <- step, lease <- leased, snap <- copy,
  child <- process, helper <- aide, state <- closure, err <- failure, source <- cause,
  errs <- collected, faults <- missteps, MaxFaults <- MaxMissteps
Staging == INSTANCE SnapshotStaging WITH pc <- act, file <- content, state <- entry,
  fd <- opened, out <- verdict, faults <- slips, MaxFaults <- MaxSlips
Preflight == INSTANCE PreflightCommand WITH pc <- point, dir <- schema, child <- program,
  own <- ownership, fds <- channels, err <- error, faults <- breaks, MaxFaults <- MaxBreaks

-----------------------------------------------------------------------------
(* The inductive invariant *)

(* Steps of a writer that has not made its record the current one; those   *)
(* at which its record is on the disk whole; those at which it is current. *)
Before == {"create", "write", "sync", "rename", "measure", "recheck", "exchange"}
OnDisk == {"rename", "measure", "recheck", "exchange"}
After == {"sync-dir", "verify"}

Complete(node) == node.whole /\ node.synced

(* A directory, as it is or as a power failure may bring it back *)
Sound(d, w, node) ==
  /\ d \in [Names -> 0..Absent] /\ d[State] \in 0..w /\ Complete(node[d[State]])
  /\ \A k \in 1..MaxWrites : d[k] = Absent \/ d[k] <= k

(* The least record a power failure leaves *)
Least == IF log = <<>> THEN dir[State] ELSE log[1][State]

WellFormed(node) ==
  /\ node = [charge |-> node.charge, size |-> node.size, whole |-> node.whole, synced |-> node.synced]
  /\ node.whole \in BOOLEAN /\ node.synced \in BOOLEAN

Files == inode = [i \in 0..MaxWrites |-> inode[i]] /\ \A i \in 0..MaxWrites : WellFormed(inode[i])

Shape ==
  /\ pc \in Labels /\ kind \in {"replace", "settle"} /\ writer \in 0..MaxWrites
  /\ log \in Seq([Names -> 0..Absent]) /\ tries \in 0..MaxTries /\ other \in 0..MaxOther
  /\ result \in {"ok", "raised", "died", "worn"}
  /\ Files

Directories ==
  /\ Sound(dir, writer, inode)
  /\ \A i \in DOMAIN log :
       Sound(log[i], writer, inode) /\ log[1][State] <= log[i][State] /\ log[i][State] <= dir[State]

Predecessor == base \in 0..writer /\ Complete(inode[base])

Progress ==
  /\ pc # "idle" => writer > 0 /\ base < writer
  /\ pc \in {"create", "write", "sync", "measure"} => tries < MaxTries
  /\ pc \in {"rename", "unlink"} => kind = "replace"
  /\ pc \in {"measure", "recheck", "exchange", "give-up"} => kind = "settle"
  /\ pc \in Before => dir[State] < writer
  /\ pc = "sync" => inode[writer].whole
  /\ pc \in OnDisk => Complete(inode[writer])
  /\ pc \in After => dir[State] = writer
  /\ pc = "verify" => log = <<>>

(* What a settlement's record states is what was measured last. *)
Stated ==
  kind = "settle" /\ pc \in {"sync"} \cup (OnDisk \cup After) => inode[writer].charge = claim

Settled ==
  pc = "idle" /\ kind = "settle" /\ result \in {"ok", "worn"} /\ writer > 0 => log = <<>>

Durable == returned \in 0..writer /\ returned <= Least

IInv ==
  /\ Shape /\ Directories /\ Predecessor /\ Progress /\ Stated /\ Settled /\ SettledIsExact /\ Durable

(* What the constants are *)
Bounds == MaxWrites \in Nat /\ MaxOther \in Nat /\ MaxTries \in Nat \ {0}

-----------------------------------------------------------------------------
(* Directories *)

(* A change of the directory keeps what a power failure may bring back. *)
LEMMA ChangeKeeps ==
  ASSUME Bounds, log \in Seq([Names -> 0..Absent]), Directories,
         NEW d, Sound(d, writer, inode), dir[State] <= d[State],
         dir' = d, log' = Append(log, dir), UNCHANGED <<inode, writer>>
  PROVE  Directories' /\ Least' = Least /\ log' \in Seq([Names -> 0..Absent])
<1>1. Names = 0..MaxWrites /\ State \in Names /\ Absent \in Nat
  BY DEF Bounds, Names, State, Absent
<1>2. dir \in [Names -> 0..Absent] /\ Sound(dir, writer, inode)
  BY DEF Directories, Sound
<1>3. log' \in Seq([Names -> 0..Absent]) /\ Len(log') = Len(log) + 1 /\ log'[Len(log) + 1] = dir
      /\ \A i \in 1..Len(log) : log'[i] = log[i]
  BY <1>2
<1>4. dir[State] \in Nat /\ d[State] \in Nat /\ \A i \in DOMAIN log : log[i][State] \in Nat
  BY DEF Sound, Directories, Bounds
<1>5. DOMAIN log = 1..Len(log) /\ DOMAIN log' = 1..(Len(log) + 1) /\ Len(log) \in Nat
  BY <1>3
<1>6. ASSUME NEW i \in DOMAIN log'
      PROVE  Sound(log'[i], writer, inode) /\ log'[1][State] <= log'[i][State] /\ log'[i][State] <= d[State]
  <2>1. CASE i \in 1..Len(log)
    <3>1. Sound(log[i], writer, inode) /\ log[1][State] <= log[i][State] /\ log[i][State] <= dir[State]
      BY <2>1, <1>5 DEF Directories
    <3>2. log'[i] = log[i] /\ log'[1] = log[1] /\ 1 \in DOMAIN log /\ i \in DOMAIN log
      BY <2>1, <1>3, <1>5
    <3> QED
      BY <3>1, <3>2, <1>4
  <2>2. CASE i = Len(log) + 1
    <3>1. log'[i] = dir
      BY <2>2, <1>3
    <3>2. CASE log = <<>>
      BY <3>1, <3>2, <2>2, <1>2, <1>3, <1>4
    <3>3. CASE log # <<>>
      <4>1. 1 \in 1..Len(log)
        BY <3>3, <1>5
      <4>2. log[1][State] <= dir[State] /\ log'[1] = log[1]
        BY <4>1, <1>3, <1>5 DEF Directories
      <4> QED
        BY <4>2, <3>1, <1>2, <1>4
    <3> QED
      BY <3>2, <3>3
  <2> QED
    BY <2>1, <2>2, <1>5
<1>7. Least' = Least
  <2>1. log' # <<>>
    BY <1>3, <1>5
  <2>2. CASE log = <<>>
    BY <2>1, <2>2, <1>3 DEF Least
  <2>3. CASE log # <<>>
    <3>1. 1 \in 1..Len(log)
      BY <2>3, <1>5
    <3> QED
      BY <3>1, <2>1, <2>3, <1>3 DEF Least
  <2> QED
    BY <2>2, <2>3
<1>8. Directories'
  BY <1>6 DEF Directories
<1> QED
  BY <1>3, <1>7, <1>8

(* As long as the writer has not made its file the current record, what it *)
(* does to the file changes no directory.                                  *)
LEMMA FileKeeps ==
  ASSUME Bounds, Directories, Predecessor, base < writer, dir[State] < writer, writer \in 0..MaxWrites,
         UNCHANGED <<dir, log, writer, base>>,
         \A i \in 0..MaxWrites : i # writer => inode'[i] = inode[i]
  PROVE  Directories' /\ Predecessor' /\ Least' = Least
<1>1. ASSUME NEW d, Sound(d, writer, inode), d[State] <= dir[State]
      PROVE  Sound(d, writer, inode')
  <2>1. d[State] \in 0..MaxWrites /\ d[State] # writer
    <3>1. d[State] \in 0..writer /\ dir[State] \in 0..writer
      BY <1>1 DEF Directories, Sound
    <3> QED
      BY <3>1, <1>1 DEF Bounds
  <2> QED
    BY <1>1, <2>1 DEF Sound
<1>2. Directories'
  BY <1>1 DEF Directories, Sound, Bounds
<1>3. Predecessor'
  BY DEF Predecessor, Bounds
<1> QED
  BY <1>2, <1>3 DEF Least

-----------------------------------------------------------------------------
(* The invariant is inductive *)

LEMMA InitHolds ==
  ASSUME Bounds, Init
  PROVE  IInv
<1>1. Names = 0..MaxWrites /\ State \in Names /\ Absent \in Nat /\ State \notin 1..MaxWrites
  BY DEF Bounds, Names, State, Absent
<1>2. Shape
  <2>1. Files
    BY DEF Init, Files, WellFormed, Empty
  <2> QED
    BY <2>1 DEF Bounds, Init, Shape, Labels
<1>3. Sound(dir, writer, inode) /\ log = <<>> /\ DOMAIN log = {}
  BY <1>1 DEF Bounds, Init, Sound, Complete, State, Absent
<1>4. Predecessor /\ Progress /\ Stated /\ Settled /\ SettledIsExact
  BY DEF Bounds, Init, Predecessor, Complete, Progress, Stated, Settled, SettledIsExact, Before,
         OnDisk, After
<1>5. Durable
  BY <1>1, <1>3 DEF Init, Durable, Least, State
<1> QED
  BY <1>2, <1>3, <1>4, <1>5 DEF IInv, Directories

(* No step but the power failure starts and ends with an idle writer. *)
LEMMA StartKeeps ==
  ASSUME Bounds, IInv, Start
  PROVE  IInv'
<1> USE DEF Start, Goto, disk, end, IInv
<1>1. Shape'
  BY DEF Bounds, Shape, Labels, Files
<1>2. writer \in 0..MaxWrites /\ writer' = writer + 1 /\ dir[State] \in 0..writer
  BY DEF Shape, Directories, Sound
<1>3. Directories' /\ Least' = Least
  BY <1>2 DEF Bounds, Directories, Sound, Least
<1>4. Predecessor'
  BY <1>2 DEF Bounds, Predecessor, Directories, Sound
<1>5. Progress'
  BY <1>2 DEF Bounds, Progress, Before, OnDisk, After
<1>6. Stated' /\ Settled' /\ SettledIsExact'
  BY DEF Stated, Settled, SettledIsExact, OnDisk, After
<1>7. Durable'
  BY <1>2, <1>3 DEF Durable, Bounds
<1> QED
  BY <1>1, <1>3, <1>4, <1>5, <1>6, <1>7

LEMMA CreateKeeps ==
  ASSUME Bounds, IInv, Create
  PROVE  IInv'
<1> USE DEF IInv
<1>1. pc = "create" /\ writer \in 1..MaxWrites /\ dir[State] < writer /\ tries < MaxTries /\ base < writer
  BY DEF Create, Progress, Shape, Before, Bounds
<1>2. pc' \in {"write", "unlink", "give-up"} /\ (pc' = "unlink" => kind = "replace")
      /\ (pc' = "give-up" => kind = "settle")
  BY DEF Create, Goto, Raise, Shape
<1>3. Directories' /\ Least' = Least /\ log' \in Seq([Names -> 0..Absent])
  <2>1. CASE UNCHANGED disk
    BY <2>1 DEF Create, self, disk, Directories, Sound, Least, Shape
  <2>2. CASE Change([dir EXCEPT ![writer] = writer])
    <3> DEFINE d == [dir EXCEPT ![writer] = writer]
    <3>1. Sound(d, writer, inode) /\ d[State] = dir[State]
      BY <1>1 DEF Directories, Sound, Bounds, Names, State, Absent
    <3>2. dir[State] <= dir[State]
      BY DEF Directories, Sound, Bounds
    <3> HIDE DEF d
    <3> QED
      BY <2>2, <3>1, <3>2, ChangeKeeps DEF Change, Create, self, Shape, d
  <2> QED
    BY <2>1, <2>2 DEF Create
<1>4. UNCHANGED <<kind, writer, base, tries, inode, other, result, returned>>
  BY DEF Create, self, end
<1>5. Shape'
  <2>1. Files'
    BY <1>4 DEF Shape, Files
  <2> QED
    BY <2>1, <1>2, <1>3, <1>4 DEF Shape, Labels
<1>6. dir'[State] = dir[State]
  BY <1>1 DEF Create, Change, disk, Directories, Sound, State, Names, Bounds
<1>7. Predecessor' /\ Durable'
  BY <1>3, <1>4 DEF Predecessor, Durable
<1>8. Progress' /\ Stated' /\ Settled' /\ SettledIsExact'
  BY <1>1, <1>2, <1>4, <1>6 DEF Progress, Stated, Settled, SettledIsExact, Before, OnDisk, After, Bounds
<1> QED
  BY <1>3, <1>5, <1>7, <1>8

(* Write and Sync change the writer's own file. *)
LEMMA WriteKeeps ==
  ASSUME Bounds, IInv, Write
  PROVE  IInv'
<1> USE DEF IInv
<1>1. pc = "write" /\ writer \in 1..MaxWrites /\ dir[State] < writer /\ tries < MaxTries /\ base < writer
  BY DEF Write, Progress, Shape, Before, Bounds
<1>2. PICK size \in {1, 2}, whole \in BOOLEAN :
        /\ inode' = [inode EXCEPT ![writer] =
                       [charge |-> claim, size |-> size, whole |-> whole, synced |-> FALSE]]
        /\ IF whole THEN Goto("sync") ELSE Raise
  BY DEF Write
<1>3. UNCHANGED <<kind, writer, base, tries, dir, log, other, claim, result, returned>>
  BY DEF Write, self, disk, end
<1>4. pc' \in {"sync", "unlink", "give-up"} /\ (pc' = "unlink" => kind = "replace")
      /\ (pc' = "give-up" => kind = "settle") /\ (pc' = "sync" => whole)
  BY <1>2 DEF Goto, Raise, Shape
<1>5. /\ \A i \in 0..MaxWrites : i # writer => inode'[i] = inode[i]
      /\ inode'[writer] = [charge |-> claim, size |-> size, whole |-> whole, synced |-> FALSE]
      /\ inode' = [i \in 0..MaxWrites |-> inode'[i]]
  BY <1>1, <1>2 DEF Shape, Files
<1>6. Shape'
  <2>1. Files'
    <3>1. WellFormed(inode'[writer])
      BY <1>5 DEF WellFormed
    <3> QED
      BY <3>1, <1>5 DEF Shape, Files
  <2> QED
    BY <2>1, <1>3, <1>4 DEF Shape, Labels
<1>7. Directories' /\ Predecessor' /\ Least' = Least
  BY <1>1, <1>3, <1>5, FileKeeps DEF Shape
<1>8. Progress' /\ Stated' /\ Settled' /\ SettledIsExact'
  BY <1>1, <1>3, <1>4, <1>5 DEF Progress, Stated, Settled, SettledIsExact, Before, OnDisk, After, Bounds
<1>9. Durable'
  BY <1>3, <1>7 DEF Durable
<1> QED
  BY <1>6, <1>7, <1>8, <1>9

LEMMA SyncKeeps ==
  ASSUME Bounds, IInv, Sync
  PROVE  IInv'
<1> USE DEF IInv
<1>1. pc = "sync" /\ writer \in 1..MaxWrites /\ dir[State] < writer /\ tries < MaxTries /\ base < writer
      /\ inode[writer].whole
  BY DEF Sync, Progress, Shape, Before, Bounds
<1>2. UNCHANGED <<kind, writer, base, tries, dir, log, other, claim, result, returned>>
  BY DEF Sync, self, disk, end
<1>3. \/ inode' = [inode EXCEPT ![writer].synced = TRUE]
         /\ pc' = IF kind = "replace" THEN "rename" ELSE "measure"
      \/ inode' = inode /\ pc' = IF kind = "replace" THEN "unlink" ELSE "give-up"
  BY DEF Sync, Raise, Goto
<1>4. pc' \in {"rename", "measure", "unlink", "give-up"}
      /\ (pc' \in {"rename", "unlink"} => kind = "replace")
      /\ (pc' \in {"measure", "give-up"} => kind = "settle")
  BY <1>3 DEF Shape
<1>5. /\ \A i \in 0..MaxWrites : i # writer => inode'[i] = inode[i]
      /\ inode' = [i \in 0..MaxWrites |-> inode'[i]]
      /\ WellFormed(inode'[writer]) /\ inode'[writer].charge = inode[writer].charge
      /\ pc' \in {"rename", "measure"} => inode'[writer].whole /\ inode'[writer].synced
  <2>1. CASE inode' = [inode EXCEPT ![writer].synced = TRUE]
    <3>1. inode'[writer] = [inode[writer] EXCEPT !.synced = TRUE]
          /\ \A i \in 0..MaxWrites : i # writer => inode'[i] = inode[i]
      BY <1>1, <2>1 DEF Shape, Files
    <3>2. inode[writer] = [charge |-> inode[writer].charge, size |-> inode[writer].size,
                           whole |-> inode[writer].whole, synced |-> inode[writer].synced]
          /\ inode[writer].whole \in BOOLEAN
      BY <1>1 DEF Shape, Files, WellFormed
    <3>3. inode'[writer] = [charge |-> inode[writer].charge, size |-> inode[writer].size,
                            whole |-> inode[writer].whole, synced |-> TRUE]
      BY <3>1, <3>2
    <3>4. inode' = [i \in 0..MaxWrites |-> inode'[i]]
      BY <2>1 DEF Shape, Files
    <3> QED
      BY <1>1, <3>1, <3>2, <3>3, <3>4 DEF WellFormed
  <2>2. CASE inode' = inode /\ pc' = IF kind = "replace" THEN "unlink" ELSE "give-up"
    BY <1>1, <2>2 DEF Shape, Files
  <2> QED
    BY <2>1, <2>2, <1>3
<1>6. Shape'
  <2>1. Files'
    BY <1>1, <1>5 DEF Shape, Files
  <2> QED
    BY <2>1, <1>2, <1>4 DEF Shape, Labels
<1>7. Directories' /\ Predecessor' /\ Least' = Least
  BY <1>1, <1>2, <1>5, FileKeeps DEF Shape
<1>8. Progress' /\ Settled' /\ SettledIsExact'
  BY <1>1, <1>2, <1>4, <1>5 DEF Progress, Settled, SettledIsExact, Before, OnDisk, After, Bounds, Complete
<1>9. Stated'
  BY <1>1, <1>2, <1>5 DEF Stated
<1>10. Durable'
  BY <1>2, <1>7 DEF Durable
<1> QED
  BY <1>6, <1>7, <1>8, <1>9, <1>10

(* The other steps change no file. *)
LEMMA FilesStay ==
  ASSUME Bounds, Shape, UNCHANGED <<kind, writer, tries, inode, other>>,
         pc' \in Labels, result' \in {"ok", "raised", "died", "worn"},
         log' \in Seq([Names -> 0..Absent])
  PROVE  Shape'
<1>1. Files'
  BY DEF Shape, Files
<1> QED
  BY <1>1 DEF Shape

LEMMA DirectoriesStay ==
  ASSUME Bounds, Directories, UNCHANGED <<writer, inode, dir, log>>
  PROVE  Directories' /\ Least' = Least
BY DEF Directories, Sound, Least

LEMMA LeastIsLeast ==
  ASSUME Bounds, Shape, Directories
  PROVE  Least \in 0..writer /\ dir[State] \in 0..writer /\ Least <= dir[State]
<1>1. dir[State] \in 0..writer /\ \A i \in DOMAIN log : log[i][State] \in 0..writer
  BY DEF Directories, Sound
<1>2. CASE log = <<>>
  BY <1>1, <1>2 DEF Least, Shape
<1>3. CASE log # <<>>
  <2>1. 1 \in DOMAIN log
    BY <1>3 DEF Shape
  <2> QED
    BY <1>1, <1>3, <2>1 DEF Least, Directories
<1> QED
  BY <1>2, <1>3

(* Once the directory is synchronised no power failure brings back what it *)
(* was before.                                                             *)
LEMMA DirectorySynced ==
  ASSUME Bounds, Shape, Directories, UNCHANGED <<writer, inode, dir>>, log' = <<>>
  PROVE  Directories' /\ Least <= Least' /\ Least' = dir[State]
<1>1. Sound(dir, writer, inode)
  BY DEF Directories
<1>2. Least <= dir[State]
  BY LeastIsLeast
<1>3. Directories'
  BY <1>1 DEF Directories
<1> QED
  BY <1>2, <1>3 DEF Least

LEMMA RenameKeeps ==
  ASSUME Bounds, IInv, Rename
  PROVE  IInv'
<1> USE DEF IInv
<1>1. pc = "rename" /\ kind = "replace" /\ writer \in 1..MaxWrites /\ dir[State] < writer
      /\ base < writer /\ Complete(inode[writer])
  BY DEF Rename, Progress, Shape, Before, OnDisk, Bounds
<1>2. UNCHANGED <<kind, writer, base, tries, inode, other, claim, result, returned>>
  BY DEF Rename, self, end
<1>3. \/ /\ pc' = "sync-dir" /\ dir'[State] = writer /\ Directories' /\ Least' = Least
         /\ log' \in Seq([Names -> 0..Absent])
      \/ pc' = "unlink" /\ UNCHANGED <<dir, log>>
  <2>1. CASE Change([dir EXCEPT ![State] = writer, ![writer] = Absent]) /\ Goto("sync-dir")
    <3> DEFINE d == [dir EXCEPT ![State] = writer, ![writer] = Absent]
    <3>1. Sound(d, writer, inode) /\ d[State] = writer /\ dir[State] <= d[State]
      BY <1>1 DEF Directories, Sound, Bounds, Names, State, Absent
    <3> HIDE DEF d
    <3> QED
      BY <2>1, <3>1, <1>2, ChangeKeeps DEF Change, Goto, Shape, d
  <2>2. CASE Raise /\ UNCHANGED disk
    BY <2>2, <1>1 DEF Raise, Goto, disk
  <2> QED
    BY <2>1, <2>2 DEF Rename
<1>4. Directories' /\ Least' = Least /\ log' \in Seq([Names -> 0..Absent])
  BY <1>2, <1>3, DirectoriesStay DEF Shape
<1>5. Shape'
  BY <1>2, <1>3, <1>4, FilesStay DEF Shape, Labels
<1>6. Predecessor' /\ Durable'
  BY <1>2, <1>4 DEF Predecessor, Durable
<1>7. Progress' /\ Stated' /\ Settled' /\ SettledIsExact'
  BY <1>1, <1>2, <1>3 DEF Progress, Stated, Settled, SettledIsExact, Before, OnDisk, After, Bounds
<1> QED
  BY <1>4, <1>5, <1>6, <1>7

LEMMA ExchangeKeeps ==
  ASSUME Bounds, IInv, Exchange
  PROVE  IInv'
<1> USE DEF IInv
<1>1. pc = "exchange" /\ kind = "settle" /\ writer \in 1..MaxWrites /\ dir[State] < writer
      /\ base < writer /\ base \in Nat /\ Complete(inode[writer]) /\ inode[writer].charge = claim
  BY DEF Exchange, Progress, Shape, Before, OnDisk, Bounds, Stated, Predecessor
<1>2. UNCHANGED <<kind, writer, base, tries, inode, other, claim, result, returned>>
  BY DEF Exchange, self, end
<1>3. \/ /\ pc' = "sync-dir" /\ dir'[State] = writer /\ Directories' /\ Least' = Least
         /\ log' \in Seq([Names -> 0..Absent])
      \/ pc' = "give-up" /\ UNCHANGED <<dir, log>>
  <2>1. CASE Change([dir EXCEPT ![State] = writer, ![writer] = base]) /\ Goto("sync-dir")
    <3> DEFINE d == [dir EXCEPT ![State] = writer, ![writer] = base]
    <3>1. Sound(d, writer, inode) /\ d[State] = writer /\ dir[State] <= d[State]
      BY <1>1 DEF Directories, Sound, Bounds, Names, State, Absent
    <3> HIDE DEF d
    <3> QED
      BY <2>1, <3>1, <1>2, ChangeKeeps DEF Change, Goto, Shape, d
  <2>2. CASE Raise /\ UNCHANGED disk
    BY <2>2, <1>1 DEF Raise, Goto, disk
  <2> QED
    BY <2>1, <2>2 DEF Exchange
<1>4. Directories' /\ Least' = Least /\ log' \in Seq([Names -> 0..Absent])
  BY <1>2, <1>3, DirectoriesStay DEF Shape
<1>5. Shape'
  BY <1>2, <1>3, <1>4, FilesStay DEF Shape, Labels
<1>6. Predecessor' /\ Durable'
  BY <1>2, <1>4 DEF Predecessor, Durable
<1>7. Progress' /\ Stated' /\ Settled' /\ SettledIsExact'
  BY <1>1, <1>2, <1>3 DEF Progress, Stated, Settled, SettledIsExact, Before, OnDisk, After, Bounds
<1> QED
  BY <1>4, <1>5, <1>6, <1>7

LEMMA SyncDirectoryKeeps ==
  ASSUME Bounds, IInv, SyncDirectory
  PROVE  IInv'
<1> USE DEF IInv
<1>1. pc = "sync-dir" /\ writer \in 1..MaxWrites /\ dir[State] = writer /\ base < writer
  BY DEF SyncDirectory, Progress, Shape, After, Bounds
<1>2. UNCHANGED <<kind, writer, base, tries, inode, other, claim, result, returned, dir>>
  BY DEF SyncDirectory, self, end, disk
<1>3. \/ pc' = "verify" /\ log' = <<>>
      \/ /\ pc' \in {"unlink", "give-up"} /\ log' = log
         /\ (pc' = "unlink" => kind = "replace") /\ (pc' = "give-up" => kind = "settle")
  BY DEF SyncDirectory, Raise, Goto, disk, Shape
<1>4. Directories' /\ log' \in Seq([Names -> 0..Absent]) /\ Least \in Nat /\ Least' \in Nat
      /\ Least <= Least'
  <2>1. Least \in Nat
    BY LeastIsLeast
  <2>2. CASE log' = log
    BY <2>1, <2>2, <1>2, DirectoriesStay DEF Shape
  <2>3. CASE log' = <<>>
    BY <2>1, <2>3, <1>2, DirectorySynced, LeastIsLeast DEF Shape
  <2> QED
    BY <2>2, <2>3, <1>3
<1>5. Shape'
  BY <1>2, <1>3, <1>4, FilesStay DEF Labels, Shape
<1>6. Predecessor' /\ Durable'
  BY <1>2, <1>4 DEF Predecessor, Durable, Shape
<1>7. Progress' /\ Stated' /\ Settled' /\ SettledIsExact'
  BY <1>1, <1>2, <1>3 DEF Progress, Stated, Settled, SettledIsExact, Before, OnDisk, After, Bounds
<1> QED
  BY <1>4, <1>5, <1>6, <1>7

LEMMA UnlinkKeeps ==
  ASSUME Bounds, IInv, Unlink
  PROVE  IInv'
<1> USE DEF IInv
<1>1. pc = "unlink" /\ kind = "replace" /\ writer \in 1..MaxWrites
  BY DEF Unlink, Progress, Shape, Bounds
<1>2. UNCHANGED <<kind, writer, base, tries, inode, other, claim, returned>>
      /\ pc' = "idle" /\ result' = "raised"
  BY DEF Unlink, self, Goto
<1>3. Directories' /\ Least' = Least /\ log' \in Seq([Names -> 0..Absent])
  <2>1. CASE Change([dir EXCEPT ![writer] = Absent])
    <3> DEFINE d == [dir EXCEPT ![writer] = Absent]
    <3>1. Sound(d, writer, inode) /\ d[State] = dir[State] /\ dir[State] <= d[State]
      BY <1>1 DEF Directories, Sound, Bounds, Names, State, Absent
    <3> HIDE DEF d
    <3> QED
      BY <2>1, <3>1, <1>2, ChangeKeeps DEF Change, Shape, d
  <2>2. CASE UNCHANGED disk
    BY <2>2, <1>2, DirectoriesStay DEF disk, Shape
  <2> QED
    BY <2>1, <2>2 DEF Unlink
<1>4. Shape'
  BY <1>2, <1>3, FilesStay DEF Labels
<1>5. Predecessor' /\ Durable'
  BY <1>2, <1>3 DEF Predecessor, Durable
<1>6. Progress' /\ Stated' /\ Settled' /\ SettledIsExact'
  BY <1>1, <1>2 DEF Progress, Stated, Settled, SettledIsExact, Before, OnDisk, After
<1> QED
  BY <1>3, <1>4, <1>5, <1>6

LEMMA MeasureKeeps ==
  ASSUME Bounds, IInv, Measure
  PROVE  IInv'
<1> USE DEF IInv
<1>1. pc = "measure" /\ kind = "settle" /\ writer \in 1..MaxWrites /\ dir[State] < writer
      /\ base < writer /\ Complete(inode[writer]) /\ inode[writer].charge = claim /\ tries < MaxTries
  BY DEF Measure, Progress, Shape, Before, OnDisk, Stated, Bounds
<1>2. UNCHANGED <<kind, writer, base, inode, other, dir, log, result, returned>> /\ tries' = tries + 1
  BY DEF Measure, self, end, disk
<1>3. \/ pc' = "recheck" /\ claim' = claim
      \/ pc' = "write" /\ tries' < MaxTries
      \/ pc' = "give-up"
  BY <1>1 DEF Measure, Goto, Raise
<1>4. Directories' /\ Least' = Least
  BY <1>2, DirectoriesStay
<1>5. Shape'
  <2>1. Files'
    BY <1>2 DEF Shape, Files
  <2>2. tries' \in 0..MaxTries
    BY <1>1, <1>2 DEF Shape, Bounds
  <2> QED
    BY <2>1, <2>2, <1>2, <1>3 DEF Shape, Labels
<1>6. Predecessor' /\ Durable'
  BY <1>2, <1>4 DEF Predecessor, Durable
<1>7. Progress' /\ Stated' /\ Settled' /\ SettledIsExact'
  BY <1>1, <1>2, <1>3 DEF Progress, Stated, Settled, SettledIsExact, Before, OnDisk, After, Bounds
<1> QED
  BY <1>4, <1>5, <1>6, <1>7

LEMMA RecheckKeeps ==
  ASSUME Bounds, IInv, Recheck
  PROVE  IInv'
<1> USE DEF IInv
<1>1. pc = "recheck" /\ kind = "settle" /\ writer \in 1..MaxWrites /\ dir[State] < writer
      /\ base < writer /\ Complete(inode[writer]) /\ inode[writer].charge = claim
  BY DEF Recheck, Progress, Shape, Before, OnDisk, Stated, Bounds
<1>2. UNCHANGED <<kind, writer, base, tries, inode, other, claim, dir, log, result, returned>>
  BY DEF Recheck, self, end, disk
<1>3. pc' \in {"exchange", "give-up"}
  BY <1>1 DEF Recheck, Goto, Raise
<1>4. Directories' /\ Least' = Least
  BY <1>2, DirectoriesStay
<1>5. Shape'
  BY <1>2, <1>3, FilesStay DEF Labels, Shape
<1>6. Predecessor' /\ Durable'
  BY <1>2, <1>4 DEF Predecessor, Durable
<1>7. Progress' /\ Stated' /\ Settled' /\ SettledIsExact'
  BY <1>1, <1>2, <1>3 DEF Progress, Stated, Settled, SettledIsExact, Before, OnDisk, After, Bounds
<1> QED
  BY <1>4, <1>5, <1>6, <1>7

(* Where a settlement is found exact: the record states what was measured, *)
(* and what is measured now is the same.                                   *)
LEMMA VerifyKeeps ==
  ASSUME Bounds, IInv, Verify
  PROVE  IInv'
<1> USE DEF IInv
<1>1. pc = "verify" /\ writer \in 1..MaxWrites /\ dir[State] = writer /\ base < writer /\ log = <<>>
      /\ (kind = "settle" => inode[writer].charge = claim)
  BY DEF Verify, Progress, Shape, After, Stated, Bounds
<1>2. UNCHANGED <<kind, writer, base, tries, inode, other, claim, dir, log>>
  BY DEF Verify, self, disk
<1>3. \/ /\ pc' = "idle" /\ result' = "ok" /\ returned' = writer
         /\ kind = "settle" => dir[writer] = base /\ Blocks(dir, inode, other) = claim
      \/ /\ pc' \in {"unlink", "give-up"} /\ UNCHANGED <<result, returned>>
         /\ (pc' = "unlink" => kind = "replace") /\ (pc' = "give-up" => kind = "settle")
  BY DEF Verify, Goto, Raise, end, Shape
<1>4. Directories' /\ Least' = Least
  BY <1>2, DirectoriesStay
<1>5. Shape'
  BY <1>2, <1>3, FilesStay DEF Labels, Shape
<1>6. Predecessor'
  BY <1>2 DEF Predecessor
<1>7. Durable'
  BY <1>1, <1>2, <1>3, <1>4 DEF Durable, Least
<1>8. Progress' /\ Stated' /\ Settled'
  BY <1>1, <1>2, <1>3 DEF Progress, Stated, Settled, Before, OnDisk, After, Bounds
<1>9. SettledIsExact'
  BY <1>1, <1>2, <1>3 DEF SettledIsExact, Predecessor, Complete, Blocks
<1> QED
  BY <1>4, <1>5, <1>6, <1>7, <1>8, <1>9

LEMMA GiveUpKeeps ==
  ASSUME Bounds, IInv, GiveUp
  PROVE  IInv'
<1> USE DEF IInv
<1>1. pc = "give-up" /\ kind = "settle"
  BY DEF GiveUp, Progress
<1>2. UNCHANGED <<kind, writer, base, tries, inode, other, claim, dir, returned>>
      /\ pc' = "idle" /\ result' = "raised" /\ (log' = log \/ log' = <<>>)
  BY DEF GiveUp, self, disk, Goto
<1>3. Directories' /\ Least \in Nat /\ Least' \in Nat /\ Least <= Least'
  <2>1. Least \in Nat
    BY LeastIsLeast
  <2>2. CASE log' = log
    BY <2>1, <2>2, <1>2, DirectoriesStay DEF Shape
  <2>3. CASE log' = <<>>
    BY <2>1, <2>3, <1>2, DirectorySynced, LeastIsLeast DEF Shape
  <2> QED
    BY <2>2, <2>3, <1>2
<1>4. Shape'
  <2>1. CASE log' = log
    BY <2>1, <1>2, FilesStay DEF Labels, Shape
  <2>2. CASE log' = <<>>
    BY <2>2, <1>2, FilesStay DEF Labels
  <2> QED
    BY <2>1, <2>2, <1>2
<1>5. Predecessor' /\ Durable'
  BY <1>2, <1>3 DEF Predecessor, Durable, Shape
<1>6. Progress' /\ Stated' /\ Settled' /\ SettledIsExact'
  BY <1>1, <1>2 DEF Progress, Stated, Settled, SettledIsExact, Before, OnDisk, After
<1> QED
  BY <1>3, <1>4, <1>5, <1>6

LEMMA WriterDiesKeeps ==
  ASSUME Bounds, IInv, WriterDies
  PROVE  IInv'
<1> USE DEF IInv
<1>1. UNCHANGED <<kind, writer, base, tries, inode, other, claim, dir, log, returned>>
      /\ pc' = "idle" /\ result' = "died"
  BY DEF WriterDies, self, disk, Goto
<1>2. Directories' /\ Least' = Least
  BY <1>1, DirectoriesStay
<1>3. Shape'
  BY <1>1, FilesStay DEF Labels, Shape
<1>4. Predecessor' /\ Durable'
  BY <1>1, <1>2 DEF Predecessor, Durable
<1>5. Progress' /\ Stated' /\ Settled' /\ SettledIsExact'
  BY <1>1 DEF Progress, Stated, Settled, SettledIsExact, Before, OnDisk, After
<1> QED
  BY <1>2, <1>3, <1>4, <1>5

LEMMA GrowKeeps ==
  ASSUME Bounds, IInv, Grow
  PROVE  IInv'
<1> USE DEF IInv
<1>1. UNCHANGED <<pc, kind, writer, base, tries, inode, claim, dir, log, result, returned>>
      /\ pc # "idle" /\ other' \in 0..MaxOther
  BY DEF Grow, self, disk, end, Shape, Bounds
<1>2. Directories' /\ Least' = Least
  BY <1>1, DirectoriesStay
<1>3. Shape'
  BY <1>1 DEF Shape, Files
<1>4. Predecessor' /\ Durable'
  BY <1>1, <1>2 DEF Predecessor, Durable
<1>5. Progress' /\ Stated' /\ Settled' /\ SettledIsExact'
  BY <1>1 DEF Progress, Stated, Settled, SettledIsExact
<1> QED
  BY <1>2, <1>3, <1>4, <1>5

(* What a power failure brings back is a directory whose record is whole,  *)
(* no older than the one that was sure to survive.                         *)
LEMMA PowerFailsKeeps ==
  ASSUME Bounds, IInv, PowerFails
  PROVE  IInv' /\ dir'[State] \in 0..dir[State] /\ Least <= dir'[State]
<1> USE DEF IInv
<1>1. PICK torn \in SUBSET {i \in DOMAIN inode : ~inode[i].synced} :
        /\ inode' = [i \in DOMAIN inode |-> IF i \in torn THEN Empty ELSE inode[i]]
        /\ result' = IF pc # "idle" THEN "died"
                     ELSE IF result = "ok" /\ \E n \in Names : dir[n] \in torn /\ inode[dir[n]] # Empty
                     THEN "worn" ELSE result
  BY DEF PowerFails
<1>2. UNCHANGED <<kind, writer, base, tries, other, claim, returned>> /\ pc' = "idle" /\ log' = <<>>
      /\ dir' \in {dir} \cup {log[i] : i \in DOMAIN log}
  BY DEF PowerFails, self, Goto
<1>3. \A i \in 0..MaxWrites : /\ i \notin torn => inode'[i] = inode[i]
                              /\ i \in torn => inode'[i] = Empty
                              /\ inode[i].synced => i \notin torn
  BY <1>1 DEF Shape, Files
<1>4. Files'
  <2>1. inode' = [i \in 0..MaxWrites |-> inode'[i]]
    BY <1>1 DEF Shape, Files
  <2>2. WellFormed(Empty)
    BY DEF WellFormed, Empty
  <2> QED
    BY <2>1, <2>2, <1>3 DEF Shape, Files
<1>5. Sound(dir', writer, inode) /\ dir'[State] \in 0..dir[State] /\ Least <= dir'[State]
  <2>1. CASE dir' = dir
    BY <2>1, LeastIsLeast DEF Directories
  <2>2. ASSUME NEW i \in DOMAIN log, dir' = log[i]
        PROVE  Sound(dir', writer, inode) /\ dir'[State] \in 0..dir[State] /\ Least <= dir'[State]
    <3>1. log # <<>>
      BY <2>2
    <3> QED
      BY <2>2, <3>1, LeastIsLeast DEF Directories, Sound, Least
  <2> QED
    BY <2>1, <2>2, <1>2
<1>6. Sound(dir', writer, inode')
  <2>1. dir'[State] \in 0..MaxWrites
    BY <1>5 DEF Sound, Shape, Bounds
  <2> QED
    BY <2>1, <1>3, <1>5 DEF Sound, Complete
<1>7. Directories' /\ Least' = dir'[State]
  BY <1>2, <1>6 DEF Directories, Least
<1>8. Predecessor' /\ inode'[base].whole
  <2>1. base \in 0..MaxWrites
    BY DEF Predecessor, Shape, Bounds
  <2> QED
    BY <2>1, <1>2, <1>3 DEF Predecessor, Complete
<1>9. result' \in {"ok", "raised", "died", "worn"}
  BY <1>1 DEF Shape
<1>10. Shape'
  BY <1>2, <1>4, <1>9 DEF Shape, Labels
<1>11. Durable'
  BY <1>2, <1>5, <1>7, LeastIsLeast DEF Durable
<1>12. Progress' /\ Stated' /\ Settled'
  BY <1>2 DEF Progress, Stated, Settled, Before, OnDisk, After
<1>13. SettledIsExact'
  <2> SUFFICES ASSUME kind = "settle", result' \in {"ok", "worn"}, writer > 0
               PROVE  /\ dir'[State] = writer /\ dir'[writer] = base /\ inode'[base].whole
                      /\ result' = "ok" => inode'[writer].charge = Blocks(dir', inode', other)
    BY <1>2 DEF SettledIsExact, Blocks, Absent, Names
  <2>1. pc = "idle" /\ result \in {"ok", "worn"} /\ (result' = "ok" => result = "ok")
    BY <1>1
  <2>2. log = <<>> /\ dir' = dir /\ dir[State] = writer /\ dir[writer] = base
        /\ (result = "ok" => inode[writer].charge = Blocks(dir, inode, other))
    BY <2>1, <1>2 DEF Settled, SettledIsExact
  <2>3. ASSUME result' = "ok"
        PROVE  inode'[writer].charge = Blocks(dir', inode', other)
    <3>1. ASSUME NEW n \in Names, dir[n] # Absent
          PROVE  inode'[dir[n]] = inode[dir[n]]
      <4>1. dir[n] \in 0..MaxWrites
        BY <3>1 DEF Directories, Sound, Absent, Bounds
      <4>2. dir[n] \notin torn \/ inode[dir[n]] = Empty
        BY <1>1, <2>1, <2>3
      <4> QED
        BY <4>1, <4>2, <1>3
    <3>2. [n \in Names |-> IF dir[n] = Absent THEN 0 ELSE inode'[dir[n]].size]
            = [n \in Names |-> IF dir[n] = Absent THEN 0 ELSE inode[dir[n]].size]
      BY <3>1
    <3>3. Blocks(dir', inode', other) = Blocks(dir, inode, other)
      BY <3>2, <2>2 DEF Blocks
    <3>4. inode'[writer].charge = inode[writer].charge
      <4>1. State \in Names /\ dir[State] # Absent
        BY <2>2 DEF Names, State, Absent, Shape, Bounds
      <4> QED
        BY <4>1, <3>1, <2>2
    <3> QED
      BY <3>3, <3>4, <2>1, <2>2, <2>3
  <2> QED
    BY <2>2, <2>3, <1>8
<1> QED
  BY <1>5, <1>7, <1>8, <1>10, <1>11, <1>12, <1>13

LEMMA StepKeeps ==
  ASSUME Bounds, IInv, [Next]_vars
  PROVE  IInv'
<1>1. CASE Start
  BY <1>1, StartKeeps
<1>2. CASE Steps
  BY <1>2, CreateKeeps, WriteKeeps, SyncKeeps, RenameKeeps, SyncDirectoryKeeps, UnlinkKeeps,
     MeasureKeeps, RecheckKeeps, ExchangeKeeps, VerifyKeeps, GiveUpKeeps DEF Steps
<1>3. CASE WriterDies \/ PowerFails \/ Grow
  BY <1>3, WriterDiesKeeps, PowerFailsKeeps, GrowKeeps
<1>4. CASE UNCHANGED vars
  <2>1. Directories' /\ Least' = Least
    BY <1>4, DirectoriesStay DEF vars, IInv
  <2>2. Shape'
    BY <1>4 DEF vars, IInv, Shape, Files
  <2> QED
    BY <1>4, <2>1, <2>2 DEF vars, IInv, Predecessor, Progress, Stated, Settled, SettledIsExact, Durable
<1> QED
  BY <1>1, <1>2, <1>3, <1>4 DEF Next

-----------------------------------------------------------------------------
(* What the writers promise *)

LEMMA InvariantHolds ==
  ASSUME Bounds
  PROVE  Spec => []IInv
<1>1. Init => IInv
  BY InitHolds
<1>2. IInv /\ [Next]_vars => IInv'
  BY StepKeeps
<1> QED
  BY <1>1, <1>2, PTL DEF Spec

LEMMA InvariantTells ==
  ASSUME Bounds, IInv
  PROVE  TypeOK /\ SettledIsExact
<1>1. dir \in [Names -> 0..Absent] /\ dir[State] # Absent
      /\ \A k \in 1..writer : dir[k] = Absent \/ dir[k] <= k
  BY DEF IInv, Directories, Sound, Absent, Bounds, Shape
<1>2. TypeOK
  BY <1>1 DEF IInv, Shape, Durable, TypeOK
<1> QED
  BY <1>2 DEF IInv

(* A settlement that was reported as exact is exact, and stays so across   *)
(* every death of a writer and every power failure that leaves what was    *)
(* counted as it was; every variable keeps its type                        *)
(* (settlement_state.py:64).                                               *)
THEOREM SettlementsAreExact ==
  ASSUME Bounds
  PROVE  Spec => [](TypeOK /\ SettledIsExact)
<1>1. IInv => TypeOK /\ SettledIsExact
  BY InvariantTells
<1> QED
  BY <1>1, InvariantHolds, PTL

(* A record whose writer returned without an error is what a reader finds, *)
(* or a later one is, whatever fails afterwards (secureio.py:1632).        *)
THEOREM ReturnedSurvives ==
  ASSUME Bounds
  PROVE  Spec => [](inode[dir[State]].whole /\ returned <= dir[State])
<1>1. IInv => inode[dir[State]].whole /\ returned <= dir[State]
  <2> SUFFICES ASSUME IInv PROVE inode[dir[State]].whole /\ returned <= dir[State]
    OBVIOUS
  <2> QED
    BY LeastIsLeast DEF IInv, Directories, Sound, Complete, Durable
<1> QED
  BY <1>1, InvariantHolds, PTL

-----------------------------------------------------------------------------
(* state.json is one record *)

(* What is sure to survive, as RecordFile maps it *)
Stable ==
  IF log = <<>> THEN Current
  ELSE IF inode[log[1][State]].whole THEN log[1][State] ELSE Absent

(* A reader finds a whole record, and what a crash leaves is whole too. *)
LEMMA StoreSeen ==
  ASSUME Bounds, IInv
  PROVE  Current = dir[State] /\ Stable = Least
<1>1. Current = dir[State]
  BY DEF IInv, Directories, Sound, Complete, Current
<1>2. CASE log # <<>>
  <2>1. 1 \in DOMAIN log
    BY <1>2 DEF IInv, Shape
  <2>2. inode[log[1][State]].whole
    BY <2>1 DEF IInv, Directories, Sound, Complete
  <2> QED
    BY <1>1, <1>2, <2>2 DEF Least, Stable
<1> QED
  BY <1>1, <1>2 DEF Least, Stable

LEMMA StoreSeenNext ==
  ASSUME Bounds, IInv'
  PROVE  Current' = dir'[State] /\ Stable' = Least'
<1>1. Current' = dir'[State]
  BY DEF IInv, Directories, Sound, Complete, Current
<1>2. CASE log' # <<>>
  <2>1. 1 \in DOMAIN log'
    BY <1>2 DEF IInv, Shape
  <2>2. (inode[log[1][State]].whole)'
    BY <2>1 DEF IInv, Directories, Sound, Complete
  <2> QED
    BY <1>1, <1>2, <2>2 DEF Least, Stable
<1> QED
  BY <1>1, <1>2 DEF Least, Stable

(* The steps of the store, in terms of the directory *)
Published ==
  dir'[State] \in 0..MaxWrites /\ dir'[State] > dir[State] /\ Least' = Least /\ returned' = returned
SettledStep == dir'[State] = dir[State] /\ Least' = dir[State] /\ returned' = returned
ReturnedStep ==
  Least = dir[State] /\ returned' = dir[State] /\ dir'[State] = dir[State] /\ Least' = Least
FailedStep == dir'[State] \in Least..dir[State] /\ Least' = dir'[State] /\ returned' = returned
Same == dir'[State] = dir[State] /\ Least' = Least /\ returned' = returned

LEMMA WriterStep ==
  ASSUME Bounds, IInv, [Next]_vars
  PROVE  Published \/ SettledStep \/ ReturnedStep \/ FailedStep \/ Same
<1> USE DEF IInv
<1>1. dir[State] \in 0..writer /\ Least \in 0..writer /\ Least <= dir[State]
      /\ writer \in 0..MaxWrites /\ State \in Names /\ dir \in [Names -> 0..Absent]
      /\ log \in Seq([Names -> 0..Absent])
  BY LeastIsLeast DEF Shape, Names, State, Bounds, Directories, Sound
<1>2. ASSUME NEW d, Change(d), UNCHANGED <<inode, writer>>
      PROVE  Least' = Least /\ dir' = d
  <2>1. log' # <<>> /\ (log # <<>> => log'[1] = log[1]) /\ (log = <<>> => log'[1] = dir)
    BY <1>1, <1>2 DEF Change
  <2> QED
    BY <2>1, <1>2 DEF Least, Change
<1>3. ASSUME UNCHANGED disk PROVE Least' = Least /\ dir' = dir
  BY <1>3 DEF Least, disk
<1>4. CASE Start \/ Write \/ Sync \/ Measure \/ Recheck \/ WriterDies \/ Grow \/ UNCHANGED vars
  <2>1. UNCHANGED disk /\ returned' = returned
    BY <1>4 DEF Start, Write, Sync, Measure, Recheck, WriterDies, Grow, vars, disk, end
  <2> QED
    BY <2>1, <1>3 DEF Same
<1>5. CASE Create
  <2>1. writer > 0 /\ returned' = returned /\ UNCHANGED writer
    BY <1>5 DEF Create, end, self, Progress
  <2>2. CASE UNCHANGED disk
    BY <2>1, <2>2, <1>3 DEF Same
  <2>3. CASE Change([dir EXCEPT ![writer] = writer])
    <3>1. Least' = Least /\ dir' = [dir EXCEPT ![writer] = writer]
      BY <2>3, <1>2, <1>5 DEF Create, self
    <3> QED
      BY <3>1, <2>1, <1>1 DEF Same, State
  <2> QED
    BY <2>2, <2>3, <1>5 DEF Create
<1>6. CASE Rename \/ Exchange
  <2>1. writer > 0 /\ dir[State] < writer /\ returned' = returned /\ UNCHANGED <<inode, writer>>
    BY <1>6 DEF Rename, Exchange, end, self, Progress, Before
  <2>2. CASE UNCHANGED disk
    BY <2>1, <2>2, <1>3 DEF Same
  <2>3. ASSUME NEW v, Change([dir EXCEPT ![State] = writer, ![writer] = v])
        PROVE  Published
    <3>1. Least' = Least /\ dir' = [dir EXCEPT ![State] = writer, ![writer] = v]
      BY <2>1, <2>3, <1>2
    <3>2. dir'[State] = writer
      BY <3>1, <2>1, <1>1 DEF State
    <3> QED
      BY <3>1, <3>2, <2>1, <1>1 DEF Published
  <2> QED
    BY <2>2, <2>3, <1>6 DEF Rename, Exchange
<1>7. CASE SyncDirectory \/ GiveUp
  <2>1. returned' = returned /\ dir' = dir /\ (log' = log \/ log' = <<>>)
    BY <1>7 DEF SyncDirectory, GiveUp, end, disk
  <2> QED
    BY <2>1 DEF Same, SettledStep, Least
<1>8. CASE Unlink
  <2>1. writer > 0 /\ returned' = returned /\ UNCHANGED <<inode, writer>>
    BY <1>8 DEF Unlink, self, Progress
  <2>2. CASE UNCHANGED disk
    BY <2>1, <2>2, <1>3 DEF Same
  <2>3. CASE Change([dir EXCEPT ![writer] = Absent])
    <3>1. Least' = Least /\ dir' = [dir EXCEPT ![writer] = Absent]
      BY <2>1, <2>3, <1>2
    <3> QED
      BY <3>1, <2>1, <1>1 DEF Same, State
  <2> QED
    BY <2>2, <2>3, <1>8 DEF Unlink
<1>9. CASE Verify
  <2>1. log = <<>> /\ dir[State] = writer /\ UNCHANGED disk
        /\ returned' \in {returned, writer}
    BY <1>9 DEF Verify, end, Progress, After
  <2> QED
    BY <2>1, <1>3 DEF Same, ReturnedStep, Least
<1>10. CASE PowerFails
  <2>1. dir'[State] \in 0..dir[State] /\ Least <= dir'[State] /\ Least' = dir'[State]
    BY <1>10, PowerFailsKeeps DEF PowerFails, Least
  <2>2. returned' = returned
    BY <1>10 DEF PowerFails
  <2> QED
    BY <2>1, <2>2, <1>1 DEF FailedStep
<1> QED
  BY <1>4, <1>5, <1>6, <1>7, <1>8, <1>9, <1>10 DEF Next, Steps

LEMMA StepIsStoreStep ==
  ASSUME Bounds, IInv, [Next]_vars
  PROVE  [Store!Next]_(Store!vars)
<1>1. Current = dir[State] /\ Stable = Least /\ Current' = dir'[State] /\ Stable' = Least'
  BY StepKeeps, StoreSeen, StoreSeenNext
<1>2. CASE Published
  BY <1>1, <1>2 DEF Published, Store!Next, Store!Publish, Stable
<1>3. CASE SettledStep
  BY <1>1, <1>3 DEF SettledStep, Store!Next, Store!Settle, Stable
<1>4. CASE ReturnedStep
  BY <1>1, <1>4 DEF ReturnedStep, Store!Next, Store!Return, Stable
<1>5. CASE FailedStep
  BY <1>1, <1>5 DEF FailedStep, Store!Next, Store!PowerFails, Stable
<1>6. CASE Same
  BY <1>1, <1>6 DEF Same, Store!vars, Stable
<1> QED
  BY <1>2, <1>3, <1>4, <1>5, <1>6, WriterStep

(* The writers of state.json implement the store of RecordStore: readers   *)
(* see one whole record after the other, never an older one but after a    *)
(* power failure, and none older than the last whose writer returned.      *)
THEOREM RecordsAreOneStore ==
  ASSUME Bounds
  PROVE  Spec => KeepsRecords
<1>1. Init => Store!Init
  <2> SUFFICES ASSUME Init PROVE Store!Init
    OBVIOUS
  <2>1. dir[State] = 0 /\ log = <<>> /\ returned = 0 /\ inode[0].whole
    BY DEF Init, State, Names, Bounds
  <2> QED
    BY <2>1 DEF Store!Init, Current
<1>2. IInv /\ [Next]_vars => [Store!Next]_(Store!vars)
  BY StepIsStoreStep
<1> QED
  BY <1>1, <1>2, InvariantHolds, PTL DEF Spec, KeepsRecords, Store!Spec

-----------------------------------------------------------------------------
(* The two stages of a review *)

ReviewBefore == {"authenticate", "attest", "handoff", "begin", "launch"}
Live == {"publish", "bind", "serve"}
Ending == {"stop", "settle", "judge", "close", "quiesce", "leave"}
Outside == {"allocate", "load", "dirs", "result", "handle", "cleanup", "done"}

ReviewLabels ==
  /\ step \in ReviewBefore \cup Live \cup Ending \cup Outside
  /\ stage \in {"none", "refresh", "review"}
  /\ copy \in {"none", "whole", "gone"} /\ roots \in {"none", "open", "closed"}
  /\ custody \in {"none", "authenticated", "pre-fork", "child", "bound", "post", "cleaned", "stale-retained"}
  /\ process \in {"none", "runs", "dead", "reaped"} /\ life \in {"idle", "begun", "launched", "closed"}
  /\ collected \in {"none", "plain", "retention"}
ReviewFlags ==
  /\ launch \in BOOLEAN /\ aide \in BOOLEAN /\ known \in BOOLEAN /\ owed \in BOOLEAN
  /\ cause \in BOOLEAN /\ refused \in BOOLEAN
LeaseTyped ==
  leased \in [dir : {"none", "whole", "partial", "gone"}, kept : BOOLEAN]
ErrTyped ==
  failure \in [kind : {"none", "plain", "retention", "unproven"},
           names : SUBSET {"lease", "snapshot", "roots", "helper", "launch"}]
StateTyped ==
  closure \in [pid : BOOLEAN, reaped : BOOLEAN, empty : BOOLEAN, pipes : BOOLEAN, exit : BOOLEAN]
ReviewSums == missteps \in 0 .. MaxMissteps

(* Who holds the copy of the executable at each step of a stage. *)
Holder ==
  /\ launch => custody \notin {"none", "authenticated"}
  /\ step = "authenticate" => custody = "none" /\ ~launch
  /\ step \in {"attest", "handoff"} => custody = "authenticated" /\ ~launch
  /\ step \in {"begin", "launch", "publish", "bind"} => custody = "child" /\ launch
  /\ step = "serve" => custody = "post" /\ launch
  /\ step = "stop" => custody \in {"child", "bound", "post"} /\ launch
  /\ step \in {"settle", "judge", "close", "quiesce"} =>
       custody \in {"none", "authenticated", "pre-fork", "child", "bound", "post"}
  /\ step \in ReviewBefore \cup Live \cup {"stop", "settle", "judge", "close", "quiesce"}
       /\ custody # "none" =>
       copy = "whole"

(* What is known of the launched process. *)
Followed ==
  /\ step = "allocate" => process = "none"
  /\ step \in ReviewBefore => process = "none" /\ closure = Review!NoState /\ ~known /\ ~owed
  /\ step \in Live => process \in {"runs", "dead"} /\ closure.pid /\ ~closure.reaped
  /\ step = "publish" => ~known
  /\ step = "stop" => process \in {"runs", "dead"} /\ closure.pid /\ ~closure.reaped
  /\ step \in {"bind", "serve"} => known /\ owed /\ life = "launched"
  /\ known => closure.pid
  /\ process # "none" => custody # "none"
  /\ known /\ closure.reaped => closure.exit /\ closure.empty
  /\ step = "judge" /\ known => process # "none"
  /\ step = "settle" /\ known => process # "none" /\ (stage = "review" => closure.pipes)
  /\ step \in {"settle", "judge"} /\ known /\ closure.reaped => process = "reaped"
  /\ step \in {"judge", "close"} /\ known => closure.pipes

(* A process that may run was lost by its launch, or is not proven closed. *)
Alive ==
  /\ process = "runs" /\ (~closure.pid \/ closure.reaped) => "launch" \in blind
  /\ step \in {"load", "dirs", "close", "quiesce", "leave", "result"} /\ process = "runs" =>
       "launch" \in blind
  /\ step \in {"handle", "cleanup", "done"} /\ process = "runs" /\ "launch" \notin blind =>
       failure.kind = "unproven" /\ leased.kept /\ leased.dir = "whole"

(* A helper that may run is the source of the error. *)
Helping ==
  aide /\ "helper" \notin blind =>
    \/ step \in {"stop", "settle", "judge"} /\ cause
    \/ /\ step \in {"handle", "cleanup", "done"} /\ failure.kind = "unproven"
       /\ leased.kept /\ leased.dir = "whole"

(* The error under way. *)
Told ==
  /\ failure.kind \in {"none", "plain"} => failure.names = {}
  /\ step \in {"allocate", "load", "dirs", "result"} \cup ReviewBefore \cup Live =>
       failure.kind = "none" /\ ~cause
  /\ step \in {"allocate", "load", "dirs", "result", "stop", "settle"} \cup ReviewBefore \cup Live =>
       collected = "none"
  /\ step \in Ending => (cause <=> failure.kind = "unproven")
  /\ step \in {"close", "quiesce", "leave"} => ~cause
  /\ step \in {"close", "quiesce"} => collected = "none"
  /\ step = "judge" /\ collected # "none" => custody # "none" /\ ~closure.reaped
  /\ step \in {"stop", "handle"} => failure.kind # "none"

ReviewNames ==
  /\ "lease" \in failure.names => leased.kept
  /\ collected # "none" => leased.kept
  /\ "snapshot" \in failure.names => copy # "gone" \/ custody = "stale-retained"
  /\ step \in {"stop", "settle", "judge", "close", "quiesce"} /\ custody # "none" =>
       "snapshot" \notin failure.names
  /\ step = "leave" /\ collected = "retention" => custody = "stale-retained"

(* The runtime directory. *)
Leased ==
  /\ step = "allocate" => leased.dir = "none"
  /\ step \notin {"allocate", "done"} => leased.dir = "whole"
  /\ step \notin {"judge", "leave", "handle", "cleanup", "done"} => ~leased.kept
  /\ step = "judge" /\ leased.kept => custody # "none" /\ ~closure.reaped
  /\ step = "leave" /\ leased.kept => collected = "retention" \/ (collected = "plain" /\ refused)
  /\ step \in {"handle", "cleanup"} /\ leased.kept => "lease" \in failure.names \/ refused
  /\ step = "cleanup" /\ failure.kind \in {"retention", "unproven"} => leased.kept
  /\ step = "done" /\ leased.dir \in {"whole", "partial"} => "lease" \in failure.names \/ refused

(* The launch in the durable record. *)
Recorded ==
  life = "launched" =>
    \/ step \in {"bind", "serve", "close"}
    \/ step \in {"stop", "settle", "judge"} /\ owed /\ known
    \/ step \in {"handle", "cleanup", "done"} /\ failure.kind = "unproven"

(* What a result rests on. *)
Earned ==
  /\ step \in {"settle", "judge", "close", "quiesce"} /\ failure.kind = "none" =>
       process = "reaped" /\ custody = "post" /\ launch /\ closure.pid
  /\ step \in {"settle", "judge", "close"} /\ failure.kind = "none" =>
       known /\ closure.reaped /\ owed /\ life = "launched"
  /\ step = "quiesce" /\ failure.kind = "none" => life = "closed"
  /\ step = "leave" /\ collected = "none" /\ failure.kind = "none" =>
       process = "reaped" /\ custody = "cleaned" /\ copy = "gone" /\ life = "closed"
  /\ step \in {"result", "cleanup", "done"} /\ failure.kind = "none" =>
       process = "reaped" /\ custody = "cleaned" /\ copy = "gone" /\ life = "closed"
  /\ step = "cleanup" /\ failure.kind = "none" => ~leased.kept
  /\ step = "done" /\ failure.kind = "none" => leased.dir = "gone"

(* The writable roots. *)
Rooted ==
  roots = "open" =>
    \/ step = "handoff"
    \/ step \in {"begin", "launch"} \cup Live \cup Ending /\ launch
    \/ step \in {"handle", "cleanup", "done"} /\ "roots" \in failure.names
Unseen ==
  /\ blind \subseteq {"launch", "helper"}
  /\ step \in ReviewBefore \cup Live \cup {"allocate", "load", "dirs"} => blind = {}
  /\ step \in Ending /\ failure.kind = "none" => blind = {}

ReviewInv ==
  /\ ReviewLabels /\ ReviewFlags /\ LeaseTyped /\ ErrTyped /\ StateTyped /\ ReviewSums
  /\ Holder /\ Followed /\ Alive /\ Helping /\ Told /\ ReviewNames /\ Leased
  /\ Recorded /\ Earned /\ Rooted /\ Unseen /\ Review!KnownKeepsSnapshot

(* What the constant is *)
ReviewBounds == MaxMissteps \in Nat

(* The helpers of its actions; the actions are cited where they are taken. *)
USE DEF Review!Goto, Review!NoError, Review!Raise, Review!Held, Review!Process, Review!Life,
  Review!Past, Review!Error, Review!Fault, Review!Throw, Review!Disk, Review!RaiseHelper,
  Review!GateState, Review!Review, Review!Piped, Review!Entered, Review!RaiseRetained,
  Review!Proven, Review!Quiescent, Review!NoState

LEMMA RecordsTyped ==
  /\ \A d \in {"none", "whole", "partial", "gone"} :
       [dir |-> d, kept |-> TRUE] \in [dir : {"none", "whole", "partial", "gone"}, kept : BOOLEAN]
  /\ Review!NoState \in [pid : BOOLEAN, reaped : BOOLEAN, empty : BOOLEAN, pipes : BOOLEAN, exit : BOOLEAN]
OBVIOUS

LEMMA ReviewInitHolds ==
  ASSUME ReviewBounds, Review!Init
  PROVE  ReviewInv
<1>1. ReviewLabels /\ ReviewFlags
  BY DEF Review!Init, ReviewLabels, ReviewFlags, ReviewBefore, Live, Ending, Outside
<1>2. LeaseTyped /\ ErrTyped /\ StateTyped
  BY DEF Review!Init, LeaseTyped, ErrTyped, StateTyped
<1>3. ReviewSums
  BY DEF ReviewBounds, Review!Init, ReviewSums
<1>4. Holder /\ Followed /\ Alive /\ Helping
  BY DEF Review!Init, Holder, Followed, Alive, Helping, ReviewBefore, Live
<1>5. Told /\ ReviewNames /\ Leased
  BY DEF Review!Init, Told, ReviewNames, Leased, ReviewBefore, Live, Ending
<1>6. Recorded /\ Earned /\ Rooted /\ Unseen /\ Review!KnownKeepsSnapshot
  BY DEF Review!Init, Recorded, Earned, Rooted, Unseen, Review!KnownKeepsSnapshot, ReviewBefore,
     Live, Ending
<1> QED
  BY <1>1, <1>2, <1>3, <1>4, <1>5, <1>6 DEF ReviewInv

LEMMA ReviewLabelsKept == ASSUME ReviewBounds, ReviewInv, Review!Next PROVE ReviewLabels'
<1> USE DEF ReviewInv, ReviewLabels, ReviewBefore, Live, Ending, Outside
<1>1. CASE Review!Allocate \/ Review!Load \/ Review!Dirs
  BY <1>1 DEF Review!Allocate, Review!Load, Review!Dirs
<1>2. CASE Review!Authenticate \/ Review!Attest \/ Review!Handoff \/ Review!Begin
  BY <1>2 DEF Review!Authenticate, Review!Attest, Review!Handoff, Review!Begin
<1>3. CASE Review!Launch \/ Review!Publish \/ Review!Bind
  BY <1>3 DEF Review!Launch, Review!Publish, Review!Bind
<1>4. CASE Review!Serve \/ Review!Stop \/ Review!ChildExits \/ Review!Done
  BY <1>4 DEF Review!Serve, Review!Stop, Review!ChildExits, Review!Done, Review!vars
<1>5. CASE Review!Settle \/ Review!Judge
  BY <1>5 DEF Review!Settle, Review!Judge, Review!Unclosed
<1>6. CASE Review!Close \/ Review!Quiesce \/ Review!Leave
  BY <1>6 DEF Review!Close, Review!Quiesce, Review!Leave
<1>7. CASE Review!Result \/ Review!Handle \/ Review!Cleanup
  BY <1>7 DEF Review!Result, Review!Handle, Review!Cleanup
<1> QED
  BY <1>1, <1>2, <1>3, <1>4, <1>5, <1>6, <1>7 DEF Review!Next, Review!Step

LEMMA ReviewFlagsKept == ASSUME ReviewBounds, ReviewInv, Review!Next PROVE ReviewFlags'
<1> USE DEF ReviewInv, ReviewFlags
<1>1. CASE Review!Allocate \/ Review!Load \/ Review!Dirs
  BY <1>1 DEF Review!Allocate, Review!Load, Review!Dirs
<1>2. CASE Review!Authenticate \/ Review!Attest \/ Review!Handoff \/ Review!Begin
  BY <1>2 DEF Review!Authenticate, Review!Attest, Review!Handoff, Review!Begin
<1>3. CASE Review!Launch \/ Review!Publish \/ Review!Bind
  BY <1>3 DEF Review!Launch, Review!Publish, Review!Bind
<1>4. CASE Review!Serve \/ Review!Stop \/ Review!ChildExits \/ Review!Done
  BY <1>4 DEF Review!Serve, Review!Stop, Review!ChildExits, Review!Done, Review!vars
<1>5. CASE Review!Settle \/ Review!Judge
  BY <1>5 DEF Review!Settle, Review!Judge, Review!Unclosed
<1>6. CASE Review!Close \/ Review!Quiesce \/ Review!Leave
  BY <1>6 DEF Review!Close, Review!Quiesce, Review!Leave
<1>7. CASE Review!Result \/ Review!Handle \/ Review!Cleanup
  BY <1>7 DEF Review!Result, Review!Handle, Review!Cleanup
<1> QED
  BY <1>1, <1>2, <1>3, <1>4, <1>5, <1>6, <1>7 DEF Review!Next, Review!Step

LEMMA LeaseTypedKept == ASSUME ReviewBounds, ReviewInv, Review!Next PROVE LeaseTyped'
<1> USE DEF ReviewInv, LeaseTyped
<1>1. CASE Review!Allocate \/ Review!Load \/ Review!Dirs
  BY <1>1, RecordsTyped DEF Review!Allocate, Review!Load, Review!Dirs
<1>2. CASE Review!Authenticate \/ Review!Attest \/ Review!Handoff \/ Review!Begin
  BY <1>2, RecordsTyped DEF Review!Authenticate, Review!Attest, Review!Handoff, Review!Begin
<1>3. CASE Review!Launch \/ Review!Publish \/ Review!Bind
  BY <1>3, RecordsTyped DEF Review!Launch, Review!Publish, Review!Bind
<1>4. CASE Review!Serve \/ Review!Stop \/ Review!ChildExits \/ Review!Done
  BY <1>4, RecordsTyped DEF Review!Serve, Review!Stop, Review!ChildExits, Review!Done, Review!vars
<1>5. CASE Review!Settle \/ Review!Judge
  BY <1>5, RecordsTyped DEF Review!Settle, Review!Judge, Review!Unclosed
<1>6. CASE Review!Close \/ Review!Quiesce \/ Review!Leave
  BY <1>6, RecordsTyped DEF Review!Close, Review!Quiesce, Review!Leave
<1>7. CASE Review!Result \/ Review!Handle \/ Review!Cleanup
  BY <1>7, RecordsTyped DEF Review!Result, Review!Handle, Review!Cleanup
<1> QED
  BY <1>1, <1>2, <1>3, <1>4, <1>5, <1>6, <1>7 DEF Review!Next, Review!Step

LEMMA ErrTypedKept == ASSUME ReviewBounds, ReviewInv, Review!Next PROVE ErrTyped'
<1> USE DEF ReviewInv, ReviewLabels, ErrTyped
<1>1. CASE Review!Allocate \/ Review!Load \/ Review!Dirs
  BY <1>1 DEF Review!Allocate, Review!Load, Review!Dirs
<1>2. CASE Review!Authenticate \/ Review!Attest \/ Review!Handoff \/ Review!Begin
  BY <1>2 DEF Review!Authenticate, Review!Attest, Review!Handoff, Review!Begin
<1>3. CASE Review!Launch \/ Review!Publish \/ Review!Bind
  BY <1>3 DEF Review!Launch, Review!Publish, Review!Bind
<1>4. CASE Review!Serve \/ Review!Stop \/ Review!ChildExits \/ Review!Done
  BY <1>4 DEF Review!Serve, Review!Stop, Review!ChildExits, Review!Done, Review!vars
<1>5. CASE Review!Settle \/ Review!Judge
  BY <1>5 DEF Review!Settle, Review!Judge, Review!Unclosed
<1>6. CASE Review!Close \/ Review!Quiesce \/ Review!Leave
  BY <1>6 DEF Review!Close, Review!Quiesce, Review!Leave
<1>7. CASE Review!Result \/ Review!Handle \/ Review!Cleanup
  BY <1>7 DEF Review!Result, Review!Handle, Review!Cleanup
<1> QED
  BY <1>1, <1>2, <1>3, <1>4, <1>5, <1>6, <1>7 DEF Review!Next, Review!Step

LEMMA StateTypedKept == ASSUME ReviewBounds, ReviewInv, Review!Next PROVE StateTyped'
<1> USE DEF ReviewInv, StateTyped, Review!NoState, Review!GateState, Review!Entered, Review!Piped
<1>1. CASE Review!Allocate
  BY <1>1 DEF Review!Allocate
<1>2. CASE Review!Load
  BY <1>2 DEF Review!Load
<1>3. CASE Review!Dirs
  BY <1>3 DEF Review!Dirs
<1>4. CASE Review!Authenticate \/ Review!Attest \/ Review!Handoff \/ Review!Begin
  BY <1>4 DEF Review!Authenticate, Review!Attest, Review!Handoff, Review!Begin
<1>5. CASE Review!Launch \/ Review!Publish \/ Review!Bind
  BY <1>5 DEF Review!Launch, Review!Publish, Review!Bind
<1>6. CASE Review!Serve \/ Review!Stop \/ Review!ChildExits \/ Review!Done
  BY <1>6 DEF Review!Serve, Review!Stop, Review!ChildExits, Review!Done, Review!vars
<1>7. CASE Review!Settle \/ Review!Judge
  BY <1>7 DEF Review!Settle, Review!Judge, Review!Unclosed
<1>8. CASE Review!Close \/ Review!Quiesce \/ Review!Leave
  BY <1>8 DEF Review!Close, Review!Quiesce, Review!Leave
<1>9. CASE Review!Result \/ Review!Handle \/ Review!Cleanup
  BY <1>9 DEF Review!Result, Review!Handle, Review!Cleanup
<1> QED
  BY <1>1, <1>2, <1>3, <1>4, <1>5, <1>6, <1>7, <1>8, <1>9 DEF Review!Next, Review!Step

LEMMA ReviewSumsKept == ASSUME ReviewBounds, ReviewInv, Review!Next PROVE ReviewSums'
<1> USE DEF ReviewInv, ReviewSums, ReviewBounds
<1>1. CASE Review!Allocate \/ Review!Load \/ Review!Dirs
  BY <1>1 DEF Review!Allocate, Review!Load, Review!Dirs
<1>2. CASE Review!Authenticate \/ Review!Attest \/ Review!Handoff \/ Review!Begin
  BY <1>2 DEF Review!Authenticate, Review!Attest, Review!Handoff, Review!Begin
<1>3. CASE Review!Launch \/ Review!Publish \/ Review!Bind
  BY <1>3 DEF Review!Launch, Review!Publish, Review!Bind
<1>4. CASE Review!Serve \/ Review!Stop \/ Review!ChildExits \/ Review!Done
  BY <1>4 DEF Review!Serve, Review!Stop, Review!ChildExits, Review!Done, Review!vars
<1>5. CASE Review!Settle \/ Review!Judge
  BY <1>5 DEF Review!Settle, Review!Judge, Review!Unclosed
<1>6. CASE Review!Close \/ Review!Quiesce \/ Review!Leave
  BY <1>6 DEF Review!Close, Review!Quiesce, Review!Leave
<1>7. CASE Review!Result \/ Review!Handle \/ Review!Cleanup
  BY <1>7 DEF Review!Result, Review!Handle, Review!Cleanup
<1> QED
  BY <1>1, <1>2, <1>3, <1>4, <1>5, <1>6, <1>7 DEF Review!Next, Review!Step

LEMMA HolderKept == ASSUME ReviewBounds, ReviewInv, Review!Next PROVE Holder'
<1> USE DEF ReviewInv, ReviewLabels, Holder, ReviewBefore, Live, Ending, Outside, Review!Quiescent
<1>1. CASE Review!Allocate \/ Review!Load \/ Review!Dirs
  BY <1>1 DEF Review!Allocate, Review!Load, Review!Dirs
<1>2. CASE Review!Authenticate \/ Review!Attest \/ Review!Handoff \/ Review!Begin
  BY <1>2 DEF Review!Authenticate, Review!Attest, Review!Handoff, Review!Begin
<1>3. CASE Review!Launch \/ Review!Publish \/ Review!Bind
  BY <1>3 DEF Review!Launch, Review!Publish, Review!Bind
<1>4. CASE Review!Serve \/ Review!Stop \/ Review!ChildExits \/ Review!Done
  BY <1>4 DEF Review!Serve, Review!Stop, Review!ChildExits, Review!Done, Review!vars
<1>5. CASE Review!Settle \/ Review!Judge
  BY <1>5 DEF Review!Settle, Review!Judge, Review!Unclosed
<1>6. CASE Review!Close \/ Review!Quiesce \/ Review!Leave
  BY <1>6 DEF Review!Close, Review!Quiesce, Review!Leave
<1>7. CASE Review!Result \/ Review!Handle \/ Review!Cleanup
  BY <1>7 DEF Review!Result, Review!Handle, Review!Cleanup
<1> QED
  BY <1>1, <1>2, <1>3, <1>4, <1>5, <1>6, <1>7 DEF Review!Next, Review!Step

LEMMA FollowedKept == ASSUME ReviewBounds, ReviewInv, Review!Next PROVE Followed'
<1> USE DEF ReviewInv, ReviewLabels, ReviewFlags, StateTyped, Holder, Followed, Review!NoState,
   Review!Entered, Review!Piped, Review!GateState, ReviewBefore, Live, Ending, Outside
<1>1. CASE Review!Allocate \/ Review!Load \/ Review!Dirs
  BY <1>1 DEF Review!Allocate, Review!Load, Review!Dirs
<1>2. CASE Review!Authenticate \/ Review!Attest \/ Review!Handoff \/ Review!Begin
  BY <1>2 DEF Review!Authenticate, Review!Attest, Review!Handoff, Review!Begin
<1>3. CASE Review!Launch \/ Review!Publish \/ Review!Bind
  BY <1>3 DEF Review!Launch, Review!Publish, Review!Bind
<1>4. CASE Review!Serve
  BY <1>4 DEF Review!Serve
<1>5. CASE Review!Stop
  BY <1>5 DEF Review!Stop
<1>6. CASE Review!ChildExits
  BY <1>6 DEF Review!ChildExits
<1>7. CASE Review!Done
  BY <1>7 DEF Review!Done, Review!vars
<1>8. CASE Review!Settle
  BY <1>8 DEF Review!Settle
<1>9. CASE Review!Judge
  BY <1>9 DEF Review!Judge, Review!Unclosed
<1>10. CASE Review!Close \/ Review!Quiesce \/ Review!Leave
  BY <1>10 DEF Review!Close, Review!Quiesce, Review!Leave
<1>11. CASE Review!Result \/ Review!Handle \/ Review!Cleanup
  BY <1>11 DEF Review!Result, Review!Handle, Review!Cleanup
<1> QED
  BY <1>1, <1>2, <1>3, <1>4, <1>5, <1>6, <1>7, <1>8, <1>9, <1>10, <1>11 DEF Review!Next, Review!Step

LEMMA AliveKept == ASSUME ReviewBounds, ReviewInv, Review!Next PROVE Alive'
<1> USE DEF ReviewInv, ReviewLabels, ReviewFlags, StateTyped, LeaseTyped, ErrTyped, Holder,
   Followed, Alive, Leased, Told, Review!NoState, Review!Entered, Review!Piped, Review!GateState,
   Review!Unclosed, Review!Proven, ReviewBefore, Live, Ending, Outside
<1>1. CASE Review!Allocate \/ Review!Load \/ Review!Dirs
  BY <1>1 DEF Review!Allocate, Review!Load, Review!Dirs
<1>2. CASE Review!Authenticate \/ Review!Attest \/ Review!Handoff \/ Review!Begin
  BY <1>2 DEF Review!Authenticate, Review!Attest, Review!Handoff, Review!Begin
<1>3. CASE Review!Launch \/ Review!Publish \/ Review!Bind
  BY <1>3 DEF Review!Launch, Review!Publish, Review!Bind
<1>4. CASE Review!Serve \/ Review!Stop \/ Review!ChildExits \/ Review!Done
  BY <1>4 DEF Review!Serve, Review!Stop, Review!ChildExits, Review!Done, Review!vars
<1>5. CASE Review!Settle \/ Review!Judge
  BY <1>5 DEF Review!Settle, Review!Judge
<1>6. CASE Review!Close \/ Review!Quiesce \/ Review!Leave
  BY <1>6 DEF Review!Close, Review!Quiesce, Review!Leave
<1>7. CASE Review!Result \/ Review!Handle \/ Review!Cleanup
  BY <1>7 DEF Review!Result, Review!Handle, Review!Cleanup
<1> QED
  BY <1>1, <1>2, <1>3, <1>4, <1>5, <1>6, <1>7 DEF Review!Next, Review!Step

LEMMA HelpingKept == ASSUME ReviewBounds, ReviewInv, Review!Next PROVE Helping'
<1> USE DEF ReviewInv, ReviewLabels, ReviewFlags, Unseen, LeaseTyped, ErrTyped, Helping, Told,
   Leased, Review!Unclosed, ReviewBefore, Live, Ending, Outside
<1>1. CASE Review!Allocate \/ Review!Load \/ Review!Dirs
  BY <1>1 DEF Review!Allocate, Review!Load, Review!Dirs
<1>2. CASE Review!Authenticate \/ Review!Attest \/ Review!Handoff \/ Review!Begin
  BY <1>2 DEF Review!Authenticate, Review!Attest, Review!Handoff, Review!Begin
<1>3. CASE Review!Launch \/ Review!Publish \/ Review!Bind
  BY <1>3 DEF Review!Launch, Review!Publish, Review!Bind
<1>4. CASE Review!Serve \/ Review!Stop \/ Review!ChildExits \/ Review!Done
  BY <1>4 DEF Review!Serve, Review!Stop, Review!ChildExits, Review!Done, Review!vars
<1>5. CASE Review!Settle
  BY <1>5 DEF Review!Settle
<1>6. CASE Review!Judge
  BY <1>6 DEF Review!Judge
<1>7. CASE Review!Close
  <2>1. CASE Review!RaiseRetained
    <3>1. step' = "handle" /\ failure'.kind = "unproven" /\ leased'.kept /\ leased'.dir = leased.dir
      BY <2>1 DEF LeaseTyped
    <3> QED
      BY <1>7, <3>1 DEF Review!Close, Helping, Leased
  <2>2. CASE ~Review!RaiseRetained
    BY <1>7, <2>2 DEF Review!Close, Helping, ReviewLabels
  <2> QED
    BY <2>1, <2>2
<1>8. CASE Review!Quiesce
  BY <1>8 DEF Review!Quiesce
<1>9. CASE Review!Leave
  BY <1>9 DEF Review!Leave
<1>10. CASE Review!Result \/ Review!Handle \/ Review!Cleanup
  BY <1>10 DEF Review!Result, Review!Handle, Review!Cleanup
<1> QED
  BY <1>1, <1>2, <1>3, <1>4, <1>5, <1>6, <1>7, <1>8, <1>9, <1>10 DEF Review!Next, Review!Step

LEMMA ToldKept == ASSUME ReviewBounds, ReviewInv, Review!Next PROVE Told'
<1> USE DEF ReviewInv, ReviewLabels, ReviewFlags, ErrTyped, StateTyped, Told, Followed, Holder,
   Review!Unclosed, Review!Proven, Review!Entered, Review!Piped, ReviewBefore, Live, Ending, Outside
<1>1. CASE Review!Allocate \/ Review!Load \/ Review!Dirs
  BY <1>1 DEF Review!Allocate, Review!Load, Review!Dirs
<1>2. CASE Review!Authenticate
  <2>1. CASE Review!RaiseHelper({"snapshot"}, "settle")
    <3>1. step' = "settle" /\ failure'.kind = "unproven" /\ cause' /\ collected' = collected
      BY <2>1
    <3> QED
      BY <1>2, <3>1 DEF Review!Authenticate, Told, ReviewBefore, Live, Ending
  <2>2. CASE Review!Goto("attest") /\ Review!NoError
    BY <1>2, <2>2 DEF Review!Authenticate, Told, ReviewBefore, Live, Ending
  <2>3. CASE Review!Raise("plain", {}, "settle")
    <3>1. step' = "settle" /\ failure' = [kind |-> "plain", names |-> {}] /\ ~cause'
               /\ collected' = collected
      BY <2>3
    <3> QED
      BY <1>2, <3>1 DEF Review!Authenticate, Told, ReviewBefore, Live, Ending
  <2>4. CASE Review!Raise("retention", {"snapshot"}, "settle")
    <3>1. step' = "settle" /\ failure' = [kind |-> "retention", names |-> {"snapshot"}]
               /\ ~cause' /\ collected' = collected
      BY <2>4
    <3> QED
      BY <1>2, <3>1 DEF Review!Authenticate, Told, ReviewBefore, Live, Ending
  <2> QED
    BY <1>2, <2>1, <2>2, <2>3, <2>4 DEF Review!Authenticate
<1>3. CASE Review!Attest
  BY <1>3 DEF Review!Attest
<1>4. CASE Review!Handoff
  <2>1. CASE Review!RaiseHelper({}, "settle")
    <3>1. step' = "settle" /\ failure'.kind = "unproven" /\ cause' /\ collected' = collected
      BY <2>1
    <3> QED
      BY <1>4, <3>1 DEF Review!Handoff, Told, ReviewBefore, Live, Ending
  <2>2. CASE Review!Goto("begin") /\ Review!NoError
    BY <1>4, <2>2 DEF Review!Handoff, Told, ReviewBefore, Live, Ending
  <2>3. CASE Review!Raise("plain", {}, "settle")
    <3>1. step' = "settle" /\ failure' = [kind |-> "plain", names |-> {}] /\ ~cause'
               /\ collected' = collected
      BY <2>3
    <3> QED
      BY <1>4, <3>1 DEF Review!Handoff, Told, ReviewBefore, Live, Ending
  <2> QED
    BY <1>4, <2>1, <2>2, <2>3 DEF Review!Handoff
<1>5. CASE Review!Begin
  <2>1. CASE Review!RaiseHelper({}, "settle")
    <3>1. step' = "settle" /\ failure'.kind = "unproven" /\ cause' /\ collected' = collected
      BY <2>1
    <3> QED
      BY <1>5, <3>1 DEF Review!Begin, Told, ReviewBefore, Live, Ending
  <2>2. CASE Review!Goto("launch") /\ Review!NoError
    BY <1>5, <2>2 DEF Review!Begin, Told, ReviewBefore, Live, Ending
  <2>3. CASE Review!Raise("plain", {}, "settle")
    <3>1. step' = "settle" /\ failure' = [kind |-> "plain", names |-> {}] /\ ~cause'
               /\ collected' = collected
      BY <2>3
    <3> QED
      BY <1>5, <3>1 DEF Review!Begin, Told, ReviewBefore, Live, Ending
  <2> QED
    BY <1>5, <2>1, <2>2, <2>3 DEF Review!Begin
<1>6. CASE Review!Launch \/ Review!Publish \/ Review!Bind
  BY <1>6 DEF Review!Launch, Review!Publish, Review!Bind
<1>7. CASE Review!Serve \/ Review!Stop \/ Review!ChildExits \/ Review!Done
  BY <1>7 DEF Review!Serve, Review!Stop, Review!ChildExits, Review!Done, Review!vars
<1>8. CASE Review!Settle \/ Review!Judge
  BY <1>8 DEF Review!Settle, Review!Judge
<1>9. CASE Review!Close \/ Review!Quiesce \/ Review!Leave
  BY <1>9 DEF Review!Close, Review!Quiesce, Review!Leave
<1>10. CASE Review!Result \/ Review!Handle \/ Review!Cleanup
  BY <1>10 DEF Review!Result, Review!Handle, Review!Cleanup
<1> QED
  BY <1>1, <1>2, <1>3, <1>4, <1>5, <1>6, <1>7, <1>8, <1>9, <1>10 DEF Review!Next, Review!Step

LEMMA NamesKept == ASSUME ReviewBounds, ReviewInv, Review!Next PROVE ReviewNames'
<1> USE DEF ReviewInv, ReviewLabels, ReviewFlags, LeaseTyped, ErrTyped, Holder, Told, ReviewNames,
   Leased, Review!Unclosed, ReviewBefore, Live, Ending, Outside
<1>1. CASE Review!Allocate \/ Review!Load \/ Review!Dirs
  BY <1>1 DEF Review!Allocate, Review!Load, Review!Dirs
<1>2. CASE Review!Authenticate \/ Review!Attest \/ Review!Handoff \/ Review!Begin
  BY <1>2 DEF Review!Authenticate, Review!Attest, Review!Handoff, Review!Begin
<1>3. CASE Review!Launch \/ Review!Publish \/ Review!Bind
  BY <1>3 DEF Review!Launch, Review!Publish, Review!Bind
<1>4. CASE Review!Serve \/ Review!Stop \/ Review!ChildExits \/ Review!Done
  BY <1>4 DEF Review!Serve, Review!Stop, Review!ChildExits, Review!Done, Review!vars
<1>5. CASE Review!Settle \/ Review!Judge
  BY <1>5 DEF Review!Settle, Review!Judge
<1>6. CASE Review!Close \/ Review!Quiesce \/ Review!Leave
  BY <1>6 DEF Review!Close, Review!Quiesce, Review!Leave
<1>7. CASE Review!Result \/ Review!Handle \/ Review!Cleanup
  BY <1>7 DEF Review!Result, Review!Handle, Review!Cleanup
<1> QED
  BY <1>1, <1>2, <1>3, <1>4, <1>5, <1>6, <1>7 DEF Review!Next, Review!Step

LEMMA LeasedKept == ASSUME ReviewBounds, ReviewInv, Review!Next PROVE Leased'
<1> USE DEF ReviewInv, ReviewLabels, ReviewFlags, LeaseTyped, ErrTyped, StateTyped, Holder,
   Followed, Told, ReviewNames, Leased, Review!Unclosed, Review!Proven, Review!Entered,
   Review!Piped, ReviewBefore, Live, Ending, Outside
<1>1. CASE Review!Allocate \/ Review!Load \/ Review!Dirs
  BY <1>1 DEF Review!Allocate, Review!Load, Review!Dirs
<1>2. CASE Review!Authenticate \/ Review!Attest \/ Review!Handoff \/ Review!Begin
  BY <1>2 DEF Review!Authenticate, Review!Attest, Review!Handoff, Review!Begin
<1>3. CASE Review!Launch \/ Review!Publish \/ Review!Bind
  BY <1>3 DEF Review!Launch, Review!Publish, Review!Bind
<1>4. CASE Review!Serve \/ Review!Stop \/ Review!ChildExits \/ Review!Done
  BY <1>4 DEF Review!Serve, Review!Stop, Review!ChildExits, Review!Done, Review!vars
<1>5. CASE Review!Settle \/ Review!Judge
  BY <1>5 DEF Review!Settle, Review!Judge
<1>6. CASE Review!Close \/ Review!Quiesce \/ Review!Leave
  BY <1>6 DEF Review!Close, Review!Quiesce, Review!Leave
<1>7. CASE Review!Result \/ Review!Handle \/ Review!Cleanup
  BY <1>7 DEF Review!Result, Review!Handle, Review!Cleanup
<1> QED
  BY <1>1, <1>2, <1>3, <1>4, <1>5, <1>6, <1>7 DEF Review!Next, Review!Step

LEMMA RecordedKept == ASSUME ReviewBounds, ReviewInv, Review!Next PROVE Recorded'
<1> USE DEF ReviewInv, ReviewLabels, ReviewFlags, ErrTyped, StateTyped, LeaseTyped, Holder,
   Followed, Told, Leased, Recorded, Review!Unclosed, Review!Proven, ReviewBefore, Live, Ending,
   Outside
<1>1. CASE Review!Allocate \/ Review!Load \/ Review!Dirs
  BY <1>1 DEF Review!Allocate, Review!Load, Review!Dirs
<1>2. CASE Review!Authenticate \/ Review!Attest \/ Review!Handoff \/ Review!Begin
  BY <1>2 DEF Review!Authenticate, Review!Attest, Review!Handoff, Review!Begin
<1>3. CASE Review!Launch \/ Review!Publish \/ Review!Bind
  BY <1>3 DEF Review!Launch, Review!Publish, Review!Bind
<1>4. CASE Review!Serve \/ Review!Stop \/ Review!ChildExits \/ Review!Done
  BY <1>4 DEF Review!Serve, Review!Stop, Review!ChildExits, Review!Done, Review!vars
<1>5. CASE Review!Settle \/ Review!Judge
  BY <1>5 DEF Review!Settle, Review!Judge
<1>6. CASE Review!Close \/ Review!Quiesce \/ Review!Leave
  BY <1>6 DEF Review!Close, Review!Quiesce, Review!Leave
<1>7. CASE Review!Result \/ Review!Handle \/ Review!Cleanup
  BY <1>7 DEF Review!Result, Review!Handle, Review!Cleanup
<1> QED
  BY <1>1, <1>2, <1>3, <1>4, <1>5, <1>6, <1>7 DEF Review!Next, Review!Step

LEMMA EarnedKept == ASSUME ReviewBounds, ReviewInv, Review!Next PROVE Earned'
<1> USE DEF ReviewInv, ReviewLabels, ReviewFlags, ErrTyped, StateTyped, LeaseTyped, Holder,
   Followed, Told, Leased, Earned, Review!Unclosed, Review!Proven, Review!Quiescent, Review!Entered,
   Review!Piped, ReviewBefore, Live, Ending, Outside
<1>1. CASE Review!Allocate \/ Review!Load \/ Review!Dirs
  BY <1>1 DEF Review!Allocate, Review!Load, Review!Dirs
<1>2. CASE Review!Authenticate \/ Review!Attest \/ Review!Handoff \/ Review!Begin
  BY <1>2 DEF Review!Authenticate, Review!Attest, Review!Handoff, Review!Begin
<1>3. CASE Review!Launch \/ Review!Publish \/ Review!Bind
  BY <1>3 DEF Review!Launch, Review!Publish, Review!Bind
<1>4. CASE Review!Serve
  BY <1>4 DEF Review!Serve
<1>5. CASE Review!Stop
  BY <1>5 DEF Review!Stop
<1>6. CASE Review!ChildExits
  BY <1>6 DEF Review!ChildExits
<1>7. CASE Review!Done
  BY <1>7 DEF Review!Done, Review!vars
<1>8. CASE Review!Settle \/ Review!Judge
  BY <1>8 DEF Review!Settle, Review!Judge
<1>9. CASE Review!Close \/ Review!Quiesce \/ Review!Leave
  BY <1>9 DEF Review!Close, Review!Quiesce, Review!Leave
<1>10. CASE Review!Result \/ Review!Handle \/ Review!Cleanup
  BY <1>10 DEF Review!Result, Review!Handle, Review!Cleanup
<1> QED
  BY <1>1, <1>2, <1>3, <1>4, <1>5, <1>6, <1>7, <1>8, <1>9, <1>10 DEF Review!Next, Review!Step

LEMMA RootedKept == ASSUME ReviewBounds, ReviewInv, Review!Next PROVE Rooted'
<1> USE DEF ReviewInv, ReviewLabels, ReviewFlags, ErrTyped, LeaseTyped, Holder, Told, Leased,
   Rooted, ReviewBefore, Live, Ending, Outside
<1>1. CASE Review!Allocate \/ Review!Load \/ Review!Dirs
  BY <1>1 DEF Review!Allocate, Review!Load, Review!Dirs
<1>2. CASE Review!Authenticate \/ Review!Attest \/ Review!Handoff \/ Review!Begin
  BY <1>2 DEF Review!Authenticate, Review!Attest, Review!Handoff, Review!Begin
<1>3. CASE Review!Launch \/ Review!Publish \/ Review!Bind
  BY <1>3 DEF Review!Launch, Review!Publish, Review!Bind
<1>4. CASE Review!Serve \/ Review!Stop \/ Review!ChildExits \/ Review!Done
  BY <1>4 DEF Review!Serve, Review!Stop, Review!ChildExits, Review!Done, Review!vars
<1>5. CASE Review!Settle \/ Review!Judge
  BY <1>5 DEF Review!Settle, Review!Judge, Review!Unclosed
<1>6. CASE Review!Close \/ Review!Quiesce \/ Review!Leave
  BY <1>6 DEF Review!Close, Review!Quiesce, Review!Leave
<1>7. CASE Review!Result \/ Review!Handle \/ Review!Cleanup
  BY <1>7 DEF Review!Result, Review!Handle, Review!Cleanup
<1> QED
  BY <1>1, <1>2, <1>3, <1>4, <1>5, <1>6, <1>7 DEF Review!Next, Review!Step

LEMMA UnseenKept == ASSUME ReviewBounds, ReviewInv, Review!Next PROVE Unseen'
<1> USE DEF ReviewInv, ReviewLabels, ErrTyped, Unseen, Told, ReviewBefore, Live, Ending, Outside
<1>1. CASE Review!Allocate \/ Review!Load \/ Review!Dirs
  BY <1>1 DEF Review!Allocate, Review!Load, Review!Dirs
<1>2. CASE Review!Authenticate \/ Review!Attest \/ Review!Handoff \/ Review!Begin
  BY <1>2 DEF Review!Authenticate, Review!Attest, Review!Handoff, Review!Begin
<1>3. CASE Review!Launch \/ Review!Publish \/ Review!Bind
  BY <1>3 DEF Review!Launch, Review!Publish, Review!Bind
<1>4. CASE Review!Serve \/ Review!Stop \/ Review!ChildExits \/ Review!Done
  BY <1>4 DEF Review!Serve, Review!Stop, Review!ChildExits, Review!Done, Review!vars
<1>5. CASE Review!Settle \/ Review!Judge
  BY <1>5 DEF Review!Settle, Review!Judge, Review!Unclosed
<1>6. CASE Review!Close \/ Review!Quiesce \/ Review!Leave
  BY <1>6 DEF Review!Close, Review!Quiesce, Review!Leave
<1>7. CASE Review!Result \/ Review!Handle \/ Review!Cleanup
  BY <1>7 DEF Review!Result, Review!Handle, Review!Cleanup
<1> QED
  BY <1>1, <1>2, <1>3, <1>4, <1>5, <1>6, <1>7 DEF Review!Next, Review!Step

LEMMA KnownKeepsSnapshotKept == ASSUME ReviewBounds, ReviewInv, Review!Next PROVE Review!KnownKeepsSnapshot'
<1> USE DEF ReviewInv, ReviewLabels, ReviewFlags, StateTyped, LeaseTyped, Followed, Alive, Holder,
   Told, Leased, Review!Unclosed, Review!Proven, Review!KnownKeepsSnapshot, ReviewBefore, Live,
   Ending, Outside
<1>1. CASE Review!Allocate \/ Review!Load \/ Review!Dirs
  BY <1>1 DEF Review!Allocate, Review!Load, Review!Dirs
<1>2. CASE Review!Authenticate \/ Review!Attest \/ Review!Handoff \/ Review!Begin
  BY <1>2 DEF Review!Authenticate, Review!Attest, Review!Handoff, Review!Begin
<1>3. CASE Review!Launch \/ Review!Publish \/ Review!Bind
  BY <1>3 DEF Review!Launch, Review!Publish, Review!Bind
<1>4. CASE Review!Serve \/ Review!Stop \/ Review!ChildExits \/ Review!Done
  BY <1>4 DEF Review!Serve, Review!Stop, Review!ChildExits, Review!Done, Review!vars
<1>5. CASE Review!Settle \/ Review!Judge
  BY <1>5 DEF Review!Settle, Review!Judge
<1>6. CASE Review!Close \/ Review!Quiesce \/ Review!Leave
  BY <1>6 DEF Review!Close, Review!Quiesce, Review!Leave
<1>7. CASE Review!Result \/ Review!Handle \/ Review!Cleanup
  BY <1>7 DEF Review!Result, Review!Handle, Review!Cleanup
<1> QED
  BY <1>1, <1>2, <1>3, <1>4, <1>5, <1>6, <1>7 DEF Review!Next, Review!Step

LEMMA ReviewStepKeeps ==
  ASSUME ReviewBounds, ReviewInv, [Review!Next]_(Review!vars)
  PROVE  ReviewInv'
<1>1. CASE Review!Next
  BY <1>1, ReviewLabelsKept, ReviewFlagsKept, LeaseTypedKept, ErrTypedKept, StateTypedKept,
     ReviewSumsKept, HolderKept, FollowedKept, AliveKept, HelpingKept, ToldKept, NamesKept,
     LeasedKept, RecordedKept, EarnedKept, RootedKept, UnseenKept, KnownKeepsSnapshotKept DEF
     ReviewInv
<1>2. CASE UNCHANGED Review!vars
  BY <1>2 DEF ReviewInv, Review!vars, ReviewLabels, ReviewFlags, LeaseTyped, ErrTyped, StateTyped,
     ReviewSums, Holder, Followed, Alive, Helping, Told, ReviewNames, Leased, Recorded, Earned,
     Rooted, Unseen, Review!KnownKeepsSnapshot
<1> QED
  BY <1>1, <1>2

LEMMA ReviewInvariantTells ==
  ASSUME ReviewInv
  PROVE  /\ Review!TypeOK /\ Review!KnownKeepsSnapshot /\ Review!AliveIsUnproven
         /\ Review!OpenLaunchIsUnproven /\ Review!NamedIsKept /\ Review!NothingLeft
<1>1. Review!TypeOK
  BY DEF ReviewInv, ReviewLabels, LeaseTyped, ErrTyped, ReviewSums, Holder, Review!TypeOK
<1>2. Review!KnownKeepsSnapshot /\ Review!AliveIsUnproven /\ Review!OpenLaunchIsUnproven
  BY DEF ReviewInv, Alive, Helping, Recorded, Review!AliveIsUnproven, Review!OpenLaunchIsUnproven,
     Review!AtEnd
<1>3. Review!NamedIsKept /\ Review!NothingLeft
  BY DEF ReviewInv, ReviewNames, Leased, Earned, Rooted, Review!NamedIsKept, Review!NothingLeft,
     Review!AtEnd, ReviewBefore, Live, Ending
<1> QED
  BY <1>1, <1>2, <1>3

(* Whatever fails, the copy that a known process runs is not deleted; a process or a helper that
   may still run is told by the type of the error, with the runtime directory whole; a launch left
   open in the record is told as unproven; what the error names is there and what is left is
   named; and a result leaves nothing.                                       *)
THEOREM ReviewIsTold ==
  ASSUME ReviewBounds
  PROVE  Review!Spec => [](/\ Review!TypeOK /\ Review!KnownKeepsSnapshot
                            /\ Review!AliveIsUnproven /\ Review!OpenLaunchIsUnproven
                            /\ Review!NamedIsKept /\ Review!NothingLeft)
<1>1. Review!Init => ReviewInv
  BY ReviewInitHolds
<1>2. ReviewInv /\ [Review!Next]_(Review!vars) => ReviewInv'
  BY ReviewStepKeeps
<1>3. ReviewInv => /\ Review!TypeOK /\ Review!KnownKeepsSnapshot /\ Review!AliveIsUnproven
                   /\ Review!OpenLaunchIsUnproven /\ Review!NamedIsKept /\ Review!NothingLeft
  BY ReviewInvariantTells
<1> QED
  BY <1>1, <1>2, <1>3, PTL DEF Review!Spec

HIDE DEF Review!Goto, Review!NoError, Review!Raise, Review!Held, Review!Process, Review!Life,
  Review!Past, Review!Error, Review!Fault, Review!Throw, Review!Disk, Review!RaiseHelper,
  Review!GateState, Review!Review, Review!Piped, Review!Entered, Review!RaiseRetained,
  Review!Proven, Review!Quiescent, Review!NoState

-----------------------------------------------------------------------------
(* The snapshot of the executable *)

Creating == {"mkdir", "capture", "rmdir", "abort-sync", "abort-check"}
Copying == {"open", "create", "seal", "close", "reopen"}
StagingEmpty == {"name", "rename", "quarantine-sync", "remove", "removal-sync", "removed", "release"}

StagingLabels ==
  /\ act \in Creating \cup Copying \cup StagingEmpty
       \cup {"enter", "check", "unlink", "custody", "destroy", "done"}
  /\ place \in {"none", "public", "quarantine", "gone"} /\ content \in {"none", "there", "gone"}
  /\ entry \in {"idle", "created-unidentified", "mkdir-pending", "published", "absent-unfsynced",
       "removed-unfsynced", "removal-pending", "absent", "removed", "public", "public-empty", "quarantined",
       "entry-state-unavailable", "custody"}
  /\ ident \in {"none", "stale", "true"} /\ build \in {"none", "open", "closed", "stale"}
  /\ verdict \in {"none", "staged", "destroyed", "aborted", "failed", "retained"}
StagingFlags == synced \in BOOLEAN /\ created \in BOOLEAN
StagingSlots == opened \in [parent : BOOLEAN, dir : BOOLEAN, file : BOOLEAN]
StagingMarks == held \subseteq {"parent", "dir", "file", "build"}
StagingSums == slips \in 0 .. MaxSlips
StagingEnded == verdict = "none" <=> act # "done"

(* Where the directory is at each step, and what the state says of it. *)
Where ==
  /\ act = "mkdir" => place = "none"
  /\ act = "capture" => place = "public"
  /\ act = "rmdir" => place \in {"none", "public"}
  /\ act \in {"abort-sync", "abort-check"} =>
       (place = "none" /\ entry = "absent-unfsynced") \/ (place = "gone" /\ entry = "removed-unfsynced")
  /\ act = "abort-check" => synced
  /\ act \in Copying \cup {"enter", "check", "unlink", "custody", "destroy", "name", "rename"}
       => place = "public"
  /\ act \in {"check", "unlink"} => entry = "public"
  /\ act \in {"name", "rename"} => entry \in {"public", "public-empty"}
  /\ act \in {"quarantine-sync", "remove"} => place = "quarantine" /\ entry = "quarantined"
  /\ act \in {"removal-sync", "removed", "release"} => place = "gone"
  /\ act = "removal-sync" \/ act = "removed" => entry = "removed-unfsynced"
  /\ act = "release" => entry = "removed"
  /\ act \in {"removed", "release"} => synced

(* The file in it, and the descriptors, at each step. *)
Copy ==
  /\ act \in StagingEmpty => content # "there"
  /\ act \in Creating \cup {"open"} => build = "none"
  /\ act \in {"reopen", "custody"} => content = "there" /\ build = "closed"
  /\ act \in {"seal", "close"} => content = "there"
  /\ act = "destroy" => build = "closed"
Handles ==
  /\ act \in Creating => ~opened.dir /\ ~opened.file
  /\ act \in {"custody", "destroy"} => ~opened.parent

Evidence ==
  /\ Staging!EvidenceIsTrue
  /\ Staging!CleanIsDurable
  /\ verdict = "staged" => place = "public" /\ content = "there" /\ build = "closed"
Kept == Staging!DescriptorsAccounted

StagingInv ==
  /\ StagingLabels /\ StagingFlags /\ StagingSlots /\ StagingMarks /\ StagingSums /\ StagingEnded
  /\ Where /\ Copy /\ Handles /\ Evidence /\ Kept

(* What the constant is *)
StagingBounds == MaxSlips \in Nat

(* The helpers of its actions; the actions are cited where they are taken. *)
USE DEF Staging!At, Staging!Goto, Staging!Fail, Staging!Finish, Staging!Closed, Staging!Known,
  Staging!Disk, Staging!Fds, Staging!KeepOnFault, Staging!Keep, Staging!KeepCustody,
  Staging!Refresh

LEMMA ClosedTyped ==
  /\ Staging!Closed \in [parent : BOOLEAN, dir : BOOLEAN, file : BOOLEAN]
  /\ [parent |-> FALSE, dir |-> TRUE, file |-> TRUE] \in [parent : BOOLEAN, dir : BOOLEAN, file : BOOLEAN]
OBVIOUS

LEMMA StagingInitHolds ==
  ASSUME StagingBounds, Staging!Init
  PROVE  StagingInv
<1>1. StagingLabels /\ StagingFlags /\ StagingMarks /\ StagingEnded
  BY DEF Staging!Init, StagingLabels, StagingFlags, StagingMarks, StagingEnded, Creating
<1>2. StagingSlots
  BY ClosedTyped DEF Staging!Init, StagingSlots
<1>3. StagingSums
  BY DEF StagingBounds, Staging!Init, StagingSums
<1>4. Where /\ Copy
  BY DEF Staging!Init, Where, Copy, Creating, Copying, StagingEmpty
<1>5. Handles
  BY DEF Staging!Init, Handles, Creating
<1>6. Evidence /\ Kept
  BY DEF Staging!Init, Evidence, Staging!EvidenceIsTrue, Staging!CleanIsDurable, Kept,
     Staging!DescriptorsAccounted
<1> QED
  BY <1>1, <1>2, <1>3, <1>4, <1>5, <1>6 DEF StagingInv

LEMMA StagingLabelsKept == ASSUME StagingBounds, StagingInv, Staging!Next PROVE StagingLabels'
<1> USE DEF StagingInv, StagingLabels, Creating, Copying, StagingEmpty, Staging!Refresh
<1>1. CASE Staging!Mkdir \/ Staging!Capture
  BY <1>1 DEF Staging!Mkdir, Staging!Capture
<1>2. CASE Staging!AbortRemove \/ Staging!AbortSync \/ Staging!AbortCheck
  BY <1>2 DEF Staging!AbortRemove, Staging!Remove, Staging!KeepCreation, Staging!AbortSync,
     Staging!AbortCheck
<1>3. CASE Staging!Open \/ Staging!Create
  BY <1>3 DEF Staging!Open, Staging!Create
<1>4. CASE Staging!Seal \/ Staging!CloseBuild \/ Staging!Reopen
  BY <1>4 DEF Staging!Seal, Staging!CloseBuild, Staging!Reopen
<1>5. CASE Staging!Enter \/ Staging!Check \/ Staging!Unlink
  BY <1>5 DEF Staging!Enter, Staging!Check, Staging!AsExpected, Staging!Unlink
<1>6. CASE Staging!Name \/ Staging!Rename \/ Staging!QuarantineSync
  BY <1>6 DEF Staging!Name, Staging!Rename, Staging!QuarantineSync
<1>7. CASE Staging!RemoveQuarantine \/ Staging!RemovalSync \/ Staging!Removed \/ Staging!Release
  BY <1>7 DEF Staging!RemoveQuarantine, Staging!RemovalSync, Staging!Removed, Staging!Release
<1>8. CASE Staging!Use \/ Staging!Destroy
  BY <1>8 DEF Staging!Use, Staging!Destroy
<1>9. CASE Staging!DestroyRoot
  BY <1>9 DEF Staging!DestroyRoot
<1>10. CASE Staging!Done
  BY <1>10 DEF Staging!Done, Staging!vars
<1> QED
  BY <1>1, <1>2, <1>3, <1>4, <1>5, <1>6, <1>7, <1>8, <1>9, <1>10 DEF Staging!Next

LEMMA StagingFlagsKept == ASSUME StagingBounds, StagingInv, Staging!Next PROVE StagingFlags'
<1> USE DEF StagingInv, StagingFlags
<1>1. CASE Staging!Mkdir \/ Staging!Capture
  BY <1>1 DEF Staging!Mkdir, Staging!Capture
<1>2. CASE Staging!AbortRemove \/ Staging!AbortSync \/ Staging!AbortCheck
  BY <1>2 DEF Staging!AbortRemove, Staging!Remove, Staging!KeepCreation, Staging!AbortSync,
     Staging!AbortCheck
<1>3. CASE Staging!Open \/ Staging!Create
  BY <1>3 DEF Staging!Open, Staging!Create
<1>4. CASE Staging!Seal \/ Staging!CloseBuild \/ Staging!Reopen
  BY <1>4 DEF Staging!Seal, Staging!CloseBuild, Staging!Reopen
<1>5. CASE Staging!Enter \/ Staging!Check \/ Staging!Unlink
  BY <1>5 DEF Staging!Enter, Staging!Check, Staging!AsExpected, Staging!Unlink
<1>6. CASE Staging!Name \/ Staging!Rename \/ Staging!QuarantineSync
  BY <1>6 DEF Staging!Name, Staging!Rename, Staging!QuarantineSync
<1>7. CASE Staging!RemoveQuarantine \/ Staging!RemovalSync \/ Staging!Removed \/ Staging!Release
  BY <1>7 DEF Staging!RemoveQuarantine, Staging!RemovalSync, Staging!Removed, Staging!Release
<1>8. CASE Staging!Use \/ Staging!Destroy
  BY <1>8 DEF Staging!Use, Staging!Destroy
<1>9. CASE Staging!DestroyRoot
  BY <1>9 DEF Staging!DestroyRoot
<1>10. CASE Staging!Done
  BY <1>10 DEF Staging!Done, Staging!vars
<1> QED
  BY <1>1, <1>2, <1>3, <1>4, <1>5, <1>6, <1>7, <1>8, <1>9, <1>10 DEF Staging!Next

LEMMA StagingSlotsKept == ASSUME StagingBounds, StagingInv, Staging!Next PROVE StagingSlots'
<1> USE DEF StagingInv, StagingSlots
<1>1. CASE Staging!Mkdir \/ Staging!Capture
  BY <1>1, ClosedTyped DEF Staging!Mkdir, Staging!Capture
<1>2. CASE Staging!AbortRemove \/ Staging!AbortSync \/ Staging!AbortCheck
  BY <1>2, ClosedTyped DEF Staging!AbortRemove, Staging!Remove, Staging!KeepCreation,
     Staging!AbortSync, Staging!AbortCheck
<1>3. CASE Staging!Open \/ Staging!Create
  BY <1>3, ClosedTyped DEF Staging!Open, Staging!Create
<1>4. CASE Staging!Seal \/ Staging!CloseBuild \/ Staging!Reopen
  BY <1>4, ClosedTyped DEF Staging!Seal, Staging!CloseBuild, Staging!Reopen
<1>5. CASE Staging!Enter \/ Staging!Check \/ Staging!Unlink
  BY <1>5, ClosedTyped DEF Staging!Enter, Staging!Check, Staging!AsExpected, Staging!Unlink
<1>6. CASE Staging!Name \/ Staging!Rename \/ Staging!QuarantineSync
  BY <1>6, ClosedTyped DEF Staging!Name, Staging!Rename, Staging!QuarantineSync
<1>7. CASE Staging!RemoveQuarantine \/ Staging!RemovalSync \/ Staging!Removed \/ Staging!Release
  BY <1>7, ClosedTyped DEF Staging!RemoveQuarantine, Staging!RemovalSync, Staging!Removed,
     Staging!Release
<1>8. CASE Staging!Use \/ Staging!Destroy
  BY <1>8, ClosedTyped DEF Staging!Use, Staging!Destroy
<1>9. CASE Staging!DestroyRoot
  BY <1>9, ClosedTyped DEF Staging!DestroyRoot
<1>10. CASE Staging!Done
  BY <1>10, ClosedTyped DEF Staging!Done, Staging!vars
<1> QED
  BY <1>1, <1>2, <1>3, <1>4, <1>5, <1>6, <1>7, <1>8, <1>9, <1>10 DEF Staging!Next

LEMMA StagingMarksKept == ASSUME StagingBounds, StagingInv, Staging!Next PROVE StagingMarks'
<1> USE DEF StagingInv, StagingMarks
<1>1. CASE Staging!Mkdir \/ Staging!Capture
  BY <1>1 DEF Staging!Mkdir, Staging!Capture
<1>2. CASE Staging!AbortRemove \/ Staging!AbortSync \/ Staging!AbortCheck
  BY <1>2 DEF Staging!AbortRemove, Staging!Remove, Staging!KeepCreation, Staging!AbortSync,
     Staging!AbortCheck
<1>3. CASE Staging!Open \/ Staging!Create
  BY <1>3 DEF Staging!Open, Staging!Create
<1>4. CASE Staging!Seal \/ Staging!CloseBuild \/ Staging!Reopen
  BY <1>4 DEF Staging!Seal, Staging!CloseBuild, Staging!Reopen
<1>5. CASE Staging!Enter \/ Staging!Check \/ Staging!Unlink
  BY <1>5 DEF Staging!Enter, Staging!Check, Staging!AsExpected, Staging!Unlink
<1>6. CASE Staging!Name \/ Staging!Rename \/ Staging!QuarantineSync
  BY <1>6 DEF Staging!Name, Staging!Rename, Staging!QuarantineSync
<1>7. CASE Staging!RemoveQuarantine \/ Staging!RemovalSync \/ Staging!Removed \/ Staging!Release
  BY <1>7 DEF Staging!RemoveQuarantine, Staging!RemovalSync, Staging!Removed, Staging!Release
<1>8. CASE Staging!Use \/ Staging!Destroy
  BY <1>8 DEF Staging!Use, Staging!Destroy
<1>9. CASE Staging!DestroyRoot
  BY <1>9 DEF Staging!DestroyRoot
<1>10. CASE Staging!Done
  BY <1>10 DEF Staging!Done, Staging!vars
<1> QED
  BY <1>1, <1>2, <1>3, <1>4, <1>5, <1>6, <1>7, <1>8, <1>9, <1>10 DEF Staging!Next

LEMMA StagingSumsKept == ASSUME StagingBounds, StagingInv, Staging!Next PROVE StagingSums'
<1> USE DEF StagingInv, StagingSums, StagingBounds
<1>1. CASE Staging!Mkdir \/ Staging!Capture
  BY <1>1 DEF Staging!Mkdir, Staging!Capture
<1>2. CASE Staging!AbortRemove \/ Staging!AbortSync \/ Staging!AbortCheck
  BY <1>2 DEF Staging!AbortRemove, Staging!Remove, Staging!KeepCreation, Staging!AbortSync,
     Staging!AbortCheck
<1>3. CASE Staging!Open \/ Staging!Create
  BY <1>3 DEF Staging!Open, Staging!Create
<1>4. CASE Staging!Seal \/ Staging!CloseBuild \/ Staging!Reopen
  BY <1>4 DEF Staging!Seal, Staging!CloseBuild, Staging!Reopen
<1>5. CASE Staging!Enter \/ Staging!Check \/ Staging!Unlink
  BY <1>5 DEF Staging!Enter, Staging!Check, Staging!AsExpected, Staging!Unlink
<1>6. CASE Staging!Name \/ Staging!Rename \/ Staging!QuarantineSync
  BY <1>6 DEF Staging!Name, Staging!Rename, Staging!QuarantineSync
<1>7. CASE Staging!RemoveQuarantine \/ Staging!RemovalSync \/ Staging!Removed \/ Staging!Release
  BY <1>7 DEF Staging!RemoveQuarantine, Staging!RemovalSync, Staging!Removed, Staging!Release
<1>8. CASE Staging!Use \/ Staging!Destroy
  BY <1>8 DEF Staging!Use, Staging!Destroy
<1>9. CASE Staging!DestroyRoot
  <2>1. UNCHANGED slips \/ (slips < MaxSlips /\ slips' = slips + 1)
    BY <1>9, Zenon DEF Staging!DestroyRoot
  <2> QED
    BY <2>1 DEF StagingSums, StagingBounds
<1>10. CASE Staging!Done
  BY <1>10 DEF Staging!Done, Staging!vars
<1> QED
  BY <1>1, <1>2, <1>3, <1>4, <1>5, <1>6, <1>7, <1>8, <1>9, <1>10 DEF Staging!Next

LEMMA EndedKept == ASSUME StagingBounds, StagingInv, Staging!Next PROVE StagingEnded'
<1> USE DEF StagingInv, StagingEnded
<1>1. CASE Staging!Mkdir \/ Staging!Capture
  BY <1>1 DEF Staging!Mkdir, Staging!Capture
<1>2. CASE Staging!AbortRemove \/ Staging!AbortSync \/ Staging!AbortCheck
  BY <1>2 DEF Staging!AbortRemove, Staging!Remove, Staging!KeepCreation, Staging!AbortSync,
     Staging!AbortCheck
<1>3. CASE Staging!Open \/ Staging!Create
  BY <1>3 DEF Staging!Open, Staging!Create
<1>4. CASE Staging!Seal \/ Staging!CloseBuild \/ Staging!Reopen
  BY <1>4 DEF Staging!Seal, Staging!CloseBuild, Staging!Reopen
<1>5. CASE Staging!Enter \/ Staging!Check \/ Staging!Unlink
  BY <1>5 DEF Staging!Enter, Staging!Check, Staging!AsExpected, Staging!Unlink
<1>6. CASE Staging!Name \/ Staging!Rename \/ Staging!QuarantineSync
  BY <1>6 DEF Staging!Name, Staging!Rename, Staging!QuarantineSync
<1>7. CASE Staging!RemoveQuarantine \/ Staging!RemovalSync \/ Staging!Removed \/ Staging!Release
  BY <1>7 DEF Staging!RemoveQuarantine, Staging!RemovalSync, Staging!Removed, Staging!Release
<1>8. CASE Staging!Use \/ Staging!Destroy
  BY <1>8 DEF Staging!Use, Staging!Destroy
<1>9. CASE Staging!DestroyRoot
  BY <1>9 DEF Staging!DestroyRoot
<1>10. CASE Staging!Done
  BY <1>10 DEF Staging!Done, Staging!vars
<1> QED
  BY <1>1, <1>2, <1>3, <1>4, <1>5, <1>6, <1>7, <1>8, <1>9, <1>10 DEF Staging!Next

LEMMA WhereKept == ASSUME StagingBounds, StagingInv, Staging!Next PROVE Where'
<1> USE DEF StagingInv, StagingLabels, Where, StagingEnded, Creating, Copying, StagingEmpty,
   Staging!Refresh, Staging!AsExpected
<1>1. CASE Staging!Mkdir \/ Staging!Capture
  BY <1>1 DEF Staging!Mkdir, Staging!Capture
<1>2. CASE Staging!AbortRemove \/ Staging!AbortSync \/ Staging!AbortCheck
  BY <1>2 DEF Staging!AbortRemove, Staging!Remove, Staging!KeepCreation, Staging!AbortSync,
     Staging!AbortCheck
<1>3. CASE Staging!Open \/ Staging!Create
  BY <1>3 DEF Staging!Open, Staging!Create
<1>4. CASE Staging!Seal \/ Staging!CloseBuild \/ Staging!Reopen
  BY <1>4 DEF Staging!Seal, Staging!CloseBuild, Staging!Reopen
<1>5. CASE Staging!Enter \/ Staging!Check \/ Staging!Unlink
  BY <1>5 DEF Staging!Enter, Staging!Check, Staging!Unlink
<1>6. CASE Staging!Name \/ Staging!Rename \/ Staging!QuarantineSync
  BY <1>6 DEF Staging!Name, Staging!Rename, Staging!QuarantineSync
<1>7. CASE Staging!RemoveQuarantine \/ Staging!RemovalSync \/ Staging!Removed \/ Staging!Release
  BY <1>7 DEF Staging!RemoveQuarantine, Staging!RemovalSync, Staging!Removed, Staging!Release
<1>8. CASE Staging!Use \/ Staging!Destroy
  BY <1>8 DEF Staging!Use, Staging!Destroy
<1>9. CASE Staging!DestroyRoot
  BY <1>9 DEF Staging!DestroyRoot
<1>10. CASE Staging!Done
  BY <1>10 DEF Staging!Done, Staging!vars
<1> QED
  BY <1>1, <1>2, <1>3, <1>4, <1>5, <1>6, <1>7, <1>8, <1>9, <1>10 DEF Staging!Next

LEMMA CopyKept == ASSUME StagingBounds, StagingInv, Staging!Next PROVE Copy'
<1> USE DEF StagingInv, StagingLabels, Copy, Creating, Copying, StagingEmpty, Staging!AsExpected
<1>1. CASE Staging!Mkdir \/ Staging!Capture
  BY <1>1 DEF Staging!Mkdir, Staging!Capture
<1>2. CASE Staging!AbortRemove \/ Staging!AbortSync \/ Staging!AbortCheck
  BY <1>2 DEF Staging!AbortRemove, Staging!Remove, Staging!KeepCreation, Staging!AbortSync,
     Staging!AbortCheck
<1>3. CASE Staging!Open \/ Staging!Create
  BY <1>3 DEF Staging!Open, Staging!Create
<1>4. CASE Staging!Seal \/ Staging!CloseBuild \/ Staging!Reopen
  BY <1>4 DEF Staging!Seal, Staging!CloseBuild, Staging!Reopen
<1>5. CASE Staging!Enter \/ Staging!Check \/ Staging!Unlink
  BY <1>5 DEF Staging!Enter, Staging!Check, Staging!Unlink
<1>6. CASE Staging!Name \/ Staging!Rename \/ Staging!QuarantineSync
  BY <1>6 DEF Staging!Name, Staging!Rename, Staging!QuarantineSync
<1>7. CASE Staging!RemoveQuarantine \/ Staging!RemovalSync \/ Staging!Removed \/ Staging!Release
  BY <1>7 DEF Staging!RemoveQuarantine, Staging!RemovalSync, Staging!Removed, Staging!Release
<1>8. CASE Staging!Use \/ Staging!Destroy
  BY <1>8 DEF Staging!Use, Staging!Destroy
<1>9. CASE Staging!DestroyRoot
  BY <1>9 DEF Staging!DestroyRoot
<1>10. CASE Staging!Done
  BY <1>10 DEF Staging!Done, Staging!vars
<1> QED
  BY <1>1, <1>2, <1>3, <1>4, <1>5, <1>6, <1>7, <1>8, <1>9, <1>10 DEF Staging!Next

LEMMA HandlesKept == ASSUME StagingBounds, StagingInv, Staging!Next PROVE Handles'
<1> USE DEF StagingInv, StagingSlots, Handles, Creating, Copying, StagingEmpty
<1>1. CASE Staging!Mkdir \/ Staging!Capture
  BY <1>1 DEF Staging!Mkdir, Staging!Capture
<1>2. CASE Staging!AbortRemove \/ Staging!AbortSync \/ Staging!AbortCheck
  BY <1>2 DEF Staging!AbortRemove, Staging!Remove, Staging!KeepCreation, Staging!AbortSync,
     Staging!AbortCheck
<1>3. CASE Staging!Open \/ Staging!Create
  BY <1>3 DEF Staging!Open, Staging!Create
<1>4. CASE Staging!Seal \/ Staging!CloseBuild \/ Staging!Reopen
  BY <1>4 DEF Staging!Seal, Staging!CloseBuild, Staging!Reopen
<1>5. CASE Staging!Enter \/ Staging!Check \/ Staging!Unlink
  BY <1>5 DEF Staging!Enter, Staging!Check, Staging!AsExpected, Staging!Unlink
<1>6. CASE Staging!Name \/ Staging!Rename \/ Staging!QuarantineSync
  BY <1>6 DEF Staging!Name, Staging!Rename, Staging!QuarantineSync
<1>7. CASE Staging!RemoveQuarantine \/ Staging!RemovalSync \/ Staging!Removed \/ Staging!Release
  BY <1>7 DEF Staging!RemoveQuarantine, Staging!RemovalSync, Staging!Removed, Staging!Release
<1>8. CASE Staging!Use \/ Staging!Destroy
  BY <1>8 DEF Staging!Use, Staging!Destroy
<1>9. CASE Staging!DestroyRoot
  BY <1>9 DEF Staging!DestroyRoot
<1>10. CASE Staging!Done
  BY <1>10 DEF Staging!Done, Staging!vars
<1> QED
  BY <1>1, <1>2, <1>3, <1>4, <1>5, <1>6, <1>7, <1>8, <1>9, <1>10 DEF Staging!Next

LEMMA EvidenceKept == ASSUME StagingBounds, StagingInv, Staging!Next PROVE Evidence'
<1> USE DEF StagingInv, StagingLabels, StagingFlags, StagingEnded, Where, Copy, Evidence,
   Staging!EvidenceIsTrue, Staging!CleanIsDurable, Creating, Copying, StagingEmpty, Staging!Refresh
<1>1. CASE Staging!Mkdir \/ Staging!Capture
  BY <1>1 DEF Staging!Mkdir, Staging!Capture
<1>2. CASE Staging!AbortRemove \/ Staging!AbortSync \/ Staging!AbortCheck
  BY <1>2 DEF Staging!AbortRemove, Staging!Remove, Staging!KeepCreation, Staging!AbortSync,
     Staging!AbortCheck
<1>3. CASE Staging!Open \/ Staging!Create
  BY <1>3 DEF Staging!Open, Staging!Create
<1>4. CASE Staging!Seal \/ Staging!CloseBuild \/ Staging!Reopen
  BY <1>4 DEF Staging!Seal, Staging!CloseBuild, Staging!Reopen
<1>5. CASE Staging!Enter \/ Staging!Check \/ Staging!Unlink
  BY <1>5 DEF Staging!Enter, Staging!Check, Staging!AsExpected, Staging!Unlink
<1>6. CASE Staging!Name \/ Staging!Rename \/ Staging!QuarantineSync
  BY <1>6 DEF Staging!Name, Staging!Rename, Staging!QuarantineSync
<1>7. CASE Staging!RemoveQuarantine \/ Staging!RemovalSync \/ Staging!Removed \/ Staging!Release
  BY <1>7 DEF Staging!RemoveQuarantine, Staging!RemovalSync, Staging!Removed, Staging!Release
<1>8. CASE Staging!Use \/ Staging!Destroy
  BY <1>8 DEF Staging!Use, Staging!Destroy
<1>9. CASE Staging!DestroyRoot
  BY <1>9 DEF Staging!DestroyRoot
<1>10. CASE Staging!Done
  BY <1>10 DEF Staging!Done, Staging!vars
<1> QED
  BY <1>1, <1>2, <1>3, <1>4, <1>5, <1>6, <1>7, <1>8, <1>9, <1>10 DEF Staging!Next

LEMMA KeptKept == ASSUME StagingBounds, StagingInv, Staging!Next PROVE Kept'
<1> USE DEF StagingInv, StagingLabels, StagingSlots, StagingEnded, Copy, Handles, Kept,
   Staging!DescriptorsAccounted, Creating, Copying, StagingEmpty
<1>1. CASE Staging!Mkdir \/ Staging!Capture
  BY <1>1 DEF Staging!Mkdir, Staging!Capture
<1>2. CASE Staging!AbortRemove \/ Staging!AbortSync \/ Staging!AbortCheck
  BY <1>2 DEF Staging!AbortRemove, Staging!Remove, Staging!KeepCreation, Staging!AbortSync,
     Staging!AbortCheck
<1>3. CASE Staging!Open \/ Staging!Create
  BY <1>3 DEF Staging!Open, Staging!Create
<1>4. CASE Staging!Seal \/ Staging!CloseBuild \/ Staging!Reopen
  BY <1>4 DEF Staging!Seal, Staging!CloseBuild, Staging!Reopen
<1>5. CASE Staging!Enter \/ Staging!Check \/ Staging!Unlink
  BY <1>5 DEF Staging!Enter, Staging!Check, Staging!AsExpected, Staging!Unlink
<1>6. CASE Staging!Name \/ Staging!Rename \/ Staging!QuarantineSync
  BY <1>6 DEF Staging!Name, Staging!Rename, Staging!QuarantineSync
<1>7. CASE Staging!RemoveQuarantine \/ Staging!RemovalSync \/ Staging!Removed \/ Staging!Release
  BY <1>7 DEF Staging!RemoveQuarantine, Staging!RemovalSync, Staging!Removed, Staging!Release
<1>8. CASE Staging!Use \/ Staging!Destroy
  BY <1>8 DEF Staging!Use, Staging!Destroy
<1>9. CASE Staging!DestroyRoot
  BY <1>9 DEF Staging!DestroyRoot
<1>10. CASE Staging!Done
  BY <1>10 DEF Staging!Done, Staging!vars
<1> QED
  BY <1>1, <1>2, <1>3, <1>4, <1>5, <1>6, <1>7, <1>8, <1>9, <1>10 DEF Staging!Next

LEMMA StagingStepKeeps ==
  ASSUME StagingBounds, StagingInv, [Staging!Next]_(Staging!vars)
  PROVE  StagingInv'
<1>1. CASE Staging!Next
  BY <1>1, StagingLabelsKept, StagingFlagsKept, StagingSlotsKept, StagingMarksKept, StagingSumsKept,
     EndedKept, WhereKept, CopyKept, HandlesKept, EvidenceKept, KeptKept DEF StagingInv
<1>2. CASE UNCHANGED Staging!vars
  BY <1>2 DEF StagingInv, Staging!vars, StagingLabels, StagingFlags, StagingSlots, StagingMarks,
     StagingSums, StagingEnded, Where, Copy, Handles, Evidence, Staging!EvidenceIsTrue,
     Staging!CleanIsDurable, Kept, Staging!DescriptorsAccounted
<1> QED
  BY <1>1, <1>2

LEMMA StagingInvariantTells ==
  ASSUME StagingInv
  PROVE  Staging!TypeOK /\ Staging!EvidenceIsTrue /\ Staging!CleanIsDurable
              /\ Staging!DescriptorsAccounted
BY DEF StagingInv, StagingLabels, StagingMarks, StagingSums, StagingEnded, Evidence, Kept, Staging!TypeOK

(* The snapshot of the executable is whole, undone, or told of: the error's evidence is true of
   the directory, what an error does not keep is gone and this is on disk, and every descriptor
   that is open is the custody's or the error's.                             *)
THEOREM StagingIsTold ==
  ASSUME StagingBounds
  PROVE  Staging!Spec => [](/\ Staging!TypeOK /\ Staging!EvidenceIsTrue
                             /\ Staging!CleanIsDurable /\ Staging!DescriptorsAccounted)
<1>1. Staging!Init => StagingInv
  BY StagingInitHolds
<1>2. StagingInv /\ [Staging!Next]_(Staging!vars) => StagingInv'
  BY StagingStepKeeps
<1>3. StagingInv => /\ Staging!TypeOK /\ Staging!EvidenceIsTrue /\ Staging!CleanIsDurable
                    /\ Staging!DescriptorsAccounted
  BY StagingInvariantTells
<1> QED
  BY <1>1, <1>2, <1>3, PTL DEF Staging!Spec

HIDE DEF Staging!At, Staging!Goto, Staging!Fail, Staging!Finish, Staging!Closed, Staging!Known,
  Staging!Disk, Staging!Fds, Staging!KeepOnFault, Staging!Keep, Staging!KeepCustody,
  Staging!Refresh

-----------------------------------------------------------------------------
(* The command that writes the schema *)

Preparing == {"root", "mkdir", "bind", "pipes"}
Working == {"launch", "ends", "launch-failed", "launch-close", "loop", "run-failed", "final", "hash"}
Over == {"none", "reaped"}

PreflightLabels ==
  /\ point \in Preparing \cup Working \cup {"clean", "anchors", "done"}
  /\ schema \in {"none", "there", "part", "gone"}
  /\ outcome \in {"not-started", "mkdir-outcome-unproven", "collision", "created", "created-durable",
                  "descriptor-bound"}
  /\ program \in {"none", "runs", "dead", "reaped"}
  /\ ownership \in {"allocating", "armed", "bound", "published", "caller", "proven", "retained", "closed"}
  /\ error \in {"none", "plain", "retention"}
PreflightFlags == killed \in BOOLEAN /\ bound \in BOOLEAN /\ receipt \in BOOLEAN /\ reaped \in BOOLEAN
PreflightSlots ==
  /\ anchors \in [{"work", "output"} -> {"none", "open", "unproven", "closed", "kept"}]
  /\ channels \in [Preflight!Ends -> {"none", "owned", "unproven", "closed"}]
PreflightMarks == eof \subseteq Preflight!Streams /\ retained \subseteq {"launch", "schema"}
PreflightSums == bytes \in 0 .. Limit + 1 /\ breaks \in 0 .. MaxBreaks

(* The directory at each step, and the anchors it is held by. *)
Folder ==
  /\ point \in {"root", "mkdir"} => schema = "none" /\ outcome = "not-started"
       /\ anchors["output"] = "none"
  /\ point = "root" => anchors["work"] = "none"
  /\ point \in {"mkdir", "bind", "pipes"} \cup Working => anchors["work"] = "open"
  /\ point = "bind" => schema = "there" /\ outcome = "created-durable" /\ anchors["output"] = "none"
  /\ point = "pipes" \/ point \in Working =>
       schema = "there" /\ outcome = "descriptor-bound" /\ anchors["output"] = "open"
  /\ point = "clean" => schema \in {"none", "there"} /\ (schema = "there" => Preflight!Named)
  /\ point = "clean" /\ anchors["output"] = "open" => Preflight!Named
  /\ point = "clean" /\ error = "none" => anchors["output"] = "open" /\ anchors["work"] = "open"
  /\ point = "anchors" => schema \in {"none", "gone"}
  /\ point # "done" => \A a \in {"work", "output"} : anchors[a] \in {"none", "open"}
  /\ point # "done" => "schema" \notin retained
  /\ point \in {"anchors", "done"} /\ error = "none" => schema = "gone"
  /\ point = "done" /\ schema \in {"there", "part"} => "schema" \in retained
  /\ \A a \in {"work", "output"} : anchors[a] = "kept" => "schema" \in retained

(* Whose the program is: the launch's, the caller's, or the error's. *)
Charge ==
  /\ point \in Preparing \cup {"launch"} => program = "none" /\ ~bound /\ ~receipt /\ error = "none"
  /\ point \in Preparing => ownership = "allocating"
  /\ point = "launch" => ownership = "armed"
  /\ point = "ends" => ownership = "bound"
  /\ point \in {"ends", "loop"} => program \in {"runs", "dead"} /\ bound /\ error = "none"
  /\ point = "loop" => ownership = "caller" /\ receipt
  /\ point = "launch-failed" => error # "none"
       /\ ownership \in {"allocating", "armed", "bound", "published"}
  /\ point = "launch-failed" /\ ownership = "allocating" => program = "none" /\ ~bound
  /\ point = "launch-close" => error = "plain" /\ program \in Over
  /\ point = "run-failed" => error # "none"
  /\ point = "run-failed" /\ error = "plain" /\ ownership \in {"allocating", "closed"}
       => program \in Over
  /\ schema \in {"part", "gone"} => program \in Over
  /\ ownership \in {"published", "caller"} => bound /\ receipt

(* What may still run is the error's. *)
Transferred ==
  /\ point \in Preparing \cup {"launch", "ends", "loop", "launch-failed", "launch-close"}
       => "launch" \notin retained
  /\ point = "hash" => error = "none"
  /\ point \in {"final", "hash", "clean", "anchors", "done"} /\ program \notin Over
       => "launch" \in retained
  /\ point \in {"run-failed", "final", "hash", "clean"} /\ "launch" \in retained => error = "retention"
  /\ point \in {"run-failed", "final", "hash", "clean"} /\ error = "retention" => "launch" \in retained

(* The descriptors of the launch. *)
Controls ==
  /\ program \notin Over => \A d \in Preflight!Streams : channels[d] = "owned"
  /\ point \in {"root", "mkdir", "bind"} => \A d \in Preflight!Ends : channels[d] = "none"
  /\ point = "launch" => \A d \in Preflight!Ends : channels[d] = "owned"
  /\ point = "loop" => channels["ends"] = "closed"
  /\ point \in {"run-failed", "final"} /\ error # "retention"
       => \A d \in Preflight!Ends : channels[d] # "unproven"
  /\ point \in {"hash", "clean", "anchors", "done"} /\ "launch" \notin retained =>
       \A d \in Preflight!Ends : channels[d] \in {"none", "closed"}

(* What a result rests on. *)
Whole ==
  /\ error = "none" => ~killed
  /\ point \in {"final", "hash", "clean", "anchors", "done"} /\ error = "none" =>
       program = "reaped" /\ eof = Preflight!Streams
Within ==
  /\ point \in Preparing \cup {"launch", "ends", "loop"} => bytes <= Limit
  /\ point \in {"final", "hash", "clean", "anchors", "done"} /\ error = "none" => bytes <= Limit

PreflightInv ==
  /\ PreflightLabels /\ PreflightFlags /\ PreflightSlots /\ PreflightMarks /\ PreflightSums
  /\ Folder /\ Charge /\ Transferred /\ Controls /\ Whole /\ Within

(* What the constants are *)
PreflightBounds == MaxBreaks \in Nat /\ Limit \in Nat

(* The helpers of its actions; the actions are cited where they are taken. *)
USE DEF Preflight!Ends, Preflight!Goto, Preflight!Raise, Preflight!Process, Preflight!Launched,
  Preflight!Stream, Preflight!Error, Preflight!Fault, Preflight!Throw, Preflight!Files,
  Preflight!Streams, Preflight!Retain, Preflight!Reap, Preflight!ClosedAll, Preflight!OneUnproven,
  Preflight!Named, Preflight!Hold

LEMMA PreflightInitHolds ==
  ASSUME PreflightBounds, Preflight!Init
  PROVE  PreflightInv
<1>1. PreflightLabels /\ PreflightFlags
  BY DEF Preflight!Init, PreflightLabels, PreflightFlags, Preparing, Working
<1>4. PreflightSlots /\ PreflightMarks
  BY DEF Preflight!Init, PreflightSlots, PreflightMarks
<1>2. PreflightSums /\ Within
  BY DEF PreflightBounds, Preflight!Init, PreflightSums, Within
<1>3. Folder /\ Charge /\ Transferred /\ Controls /\ Whole
  BY DEF Preflight!Init, Folder, Charge, Transferred, Controls, Whole, Preparing, Working, Over
<1> QED
  BY <1>1, <1>2, <1>3, <1>4 DEF PreflightInv

LEMMA PreflightLabelsKept == ASSUME PreflightBounds, PreflightInv, Preflight!Next PROVE PreflightLabels'
<1> USE DEF PreflightInv, PreflightLabels, Preparing, Working
<1>1. CASE Preflight!OpenRoot \/ Preflight!MakeDirectory \/ Preflight!BindDirectory
  BY <1>1 DEF Preflight!OpenRoot, Preflight!MakeDirectory, Preflight!BindDirectory
<1>2. CASE Preflight!Pipes \/ Preflight!Launch
  BY <1>2 DEF Preflight!Pipes, Preflight!Launch
<1>3. CASE Preflight!CloseEnds
  BY <1>3 DEF Preflight!CloseEnds
<1>4. CASE Preflight!LaunchFailed
  BY <1>4 DEF Preflight!LaunchFailed
<1>5. CASE Preflight!LaunchClose
  BY <1>5 DEF Preflight!LaunchClose, Preflight!Unproven
<1>6. CASE Preflight!Read \/ Preflight!End \/ Preflight!TimeOut \/ Preflight!Wait
  BY <1>6 DEF Preflight!Read, Preflight!End, Preflight!TimeOut, Preflight!Wait
<1>7. CASE Preflight!RunFailed
  BY <1>7 DEF Preflight!RunFailed
<1>8. CASE Preflight!Finalize
  BY <1>8 DEF Preflight!Finalize
<1>9. CASE Preflight!Hash
  BY <1>9 DEF Preflight!Hash
<1>10. CASE Preflight!Keep \/ Preflight!Created \/ Preflight!Nothing
  BY <1>10 DEF Preflight!Keep, Preflight!Created, Preflight!Nothing
<1>11. CASE Preflight!Destroy
  BY <1>11 DEF Preflight!Destroy
<1>12. CASE Preflight!CloseAnchors
  BY <1>12 DEF Preflight!CloseAnchors
<1>13. CASE Preflight!ChildExits \/ Preflight!Done
  BY <1>13 DEF Preflight!ChildExits, Preflight!Done, Preflight!vars
<1> QED
  BY <1>1, <1>2, <1>3, <1>4, <1>5, <1>6, <1>7, <1>8, <1>9, <1>10, <1>11, <1>12, <1>13 DEF
     Preflight!Next, Preflight!Step

LEMMA PreflightFlagsKept == ASSUME PreflightBounds, PreflightInv, Preflight!Next PROVE PreflightFlags'
<1> USE DEF PreflightInv, PreflightFlags
<1>1. CASE Preflight!OpenRoot \/ Preflight!MakeDirectory \/ Preflight!BindDirectory
  BY <1>1 DEF Preflight!OpenRoot, Preflight!MakeDirectory, Preflight!BindDirectory
<1>2. CASE Preflight!Pipes \/ Preflight!Launch
  BY <1>2 DEF Preflight!Pipes, Preflight!Launch
<1>3. CASE Preflight!CloseEnds
  BY <1>3 DEF Preflight!CloseEnds
<1>4. CASE Preflight!LaunchFailed
  BY <1>4 DEF Preflight!LaunchFailed
<1>5. CASE Preflight!LaunchClose
  BY <1>5 DEF Preflight!LaunchClose, Preflight!Unproven
<1>6. CASE Preflight!Read \/ Preflight!End \/ Preflight!TimeOut \/ Preflight!Wait
  BY <1>6 DEF Preflight!Read, Preflight!End, Preflight!TimeOut, Preflight!Wait
<1>7. CASE Preflight!RunFailed
  BY <1>7 DEF Preflight!RunFailed
<1>8. CASE Preflight!Finalize
  BY <1>8 DEF Preflight!Finalize
<1>9. CASE Preflight!Hash
  BY <1>9 DEF Preflight!Hash
<1>10. CASE Preflight!Keep \/ Preflight!Created \/ Preflight!Nothing
  BY <1>10 DEF Preflight!Keep, Preflight!Created, Preflight!Nothing
<1>11. CASE Preflight!Destroy
  BY <1>11 DEF Preflight!Destroy
<1>12. CASE Preflight!CloseAnchors
  BY <1>12 DEF Preflight!CloseAnchors
<1>13. CASE Preflight!ChildExits \/ Preflight!Done
  BY <1>13 DEF Preflight!ChildExits, Preflight!Done, Preflight!vars
<1> QED
  BY <1>1, <1>2, <1>3, <1>4, <1>5, <1>6, <1>7, <1>8, <1>9, <1>10, <1>11, <1>12, <1>13 DEF
     Preflight!Next, Preflight!Step

LEMMA PreflightSlotsKept == ASSUME PreflightBounds, PreflightInv, Preflight!Next PROVE PreflightSlots'
<1> USE DEF PreflightInv, PreflightSlots, Preflight!Ends, Preflight!Streams
<1>1. CASE Preflight!OpenRoot \/ Preflight!MakeDirectory \/ Preflight!BindDirectory
  BY <1>1 DEF Preflight!OpenRoot, Preflight!MakeDirectory, Preflight!BindDirectory
<1>2. CASE Preflight!Pipes \/ Preflight!Launch
  BY <1>2 DEF Preflight!Pipes, Preflight!Launch
<1>3. CASE Preflight!CloseEnds
  BY <1>3 DEF Preflight!CloseEnds
<1>4. CASE Preflight!LaunchFailed
  BY <1>4 DEF Preflight!LaunchFailed
<1>5. CASE Preflight!LaunchClose
  BY <1>5 DEF Preflight!LaunchClose, Preflight!Unproven
<1>6. CASE Preflight!Read \/ Preflight!End \/ Preflight!TimeOut \/ Preflight!Wait
  BY <1>6 DEF Preflight!Read, Preflight!End, Preflight!TimeOut, Preflight!Wait
<1>7. CASE Preflight!RunFailed
  BY <1>7 DEF Preflight!RunFailed
<1>8. CASE Preflight!Finalize
  BY <1>8 DEF Preflight!Finalize
<1>9. CASE Preflight!Hash
  BY <1>9 DEF Preflight!Hash
<1>10. CASE Preflight!Keep \/ Preflight!Created \/ Preflight!Nothing
  BY <1>10 DEF Preflight!Keep, Preflight!Created, Preflight!Nothing
<1>11. CASE Preflight!Destroy
  BY <1>11 DEF Preflight!Destroy
<1>12. CASE Preflight!CloseAnchors
  BY <1>12 DEF Preflight!CloseAnchors
<1>13. CASE Preflight!ChildExits \/ Preflight!Done
  BY <1>13 DEF Preflight!ChildExits, Preflight!Done, Preflight!vars
<1> QED
  BY <1>1, <1>2, <1>3, <1>4, <1>5, <1>6, <1>7, <1>8, <1>9, <1>10, <1>11, <1>12, <1>13 DEF
     Preflight!Next, Preflight!Step

LEMMA PreflightMarksKept == ASSUME PreflightBounds, PreflightInv, Preflight!Next PROVE PreflightMarks'
<1> USE DEF PreflightInv, PreflightMarks, Preflight!Streams
<1>1. CASE Preflight!OpenRoot \/ Preflight!MakeDirectory \/ Preflight!BindDirectory
  BY <1>1 DEF Preflight!OpenRoot, Preflight!MakeDirectory, Preflight!BindDirectory
<1>2. CASE Preflight!Pipes \/ Preflight!Launch
  BY <1>2 DEF Preflight!Pipes, Preflight!Launch
<1>3. CASE Preflight!CloseEnds
  BY <1>3 DEF Preflight!CloseEnds
<1>4. CASE Preflight!LaunchFailed
  BY <1>4 DEF Preflight!LaunchFailed
<1>5. CASE Preflight!LaunchClose
  BY <1>5 DEF Preflight!LaunchClose, Preflight!Unproven
<1>6. CASE Preflight!Read \/ Preflight!End \/ Preflight!TimeOut \/ Preflight!Wait
  BY <1>6 DEF Preflight!Read, Preflight!End, Preflight!TimeOut, Preflight!Wait
<1>7. CASE Preflight!RunFailed
  BY <1>7 DEF Preflight!RunFailed
<1>8. CASE Preflight!Finalize
  BY <1>8 DEF Preflight!Finalize
<1>9. CASE Preflight!Hash
  BY <1>9 DEF Preflight!Hash
<1>10. CASE Preflight!Keep \/ Preflight!Created \/ Preflight!Nothing
  BY <1>10 DEF Preflight!Keep, Preflight!Created, Preflight!Nothing
<1>11. CASE Preflight!Destroy
  BY <1>11 DEF Preflight!Destroy
<1>12. CASE Preflight!CloseAnchors
  BY <1>12 DEF Preflight!CloseAnchors
<1>13. CASE Preflight!ChildExits \/ Preflight!Done
  BY <1>13 DEF Preflight!ChildExits, Preflight!Done, Preflight!vars
<1> QED
  BY <1>1, <1>2, <1>3, <1>4, <1>5, <1>6, <1>7, <1>8, <1>9, <1>10, <1>11, <1>12, <1>13 DEF
     Preflight!Next, Preflight!Step

LEMMA PreflightSumsKept == ASSUME PreflightBounds, PreflightInv, Preflight!Next PROVE PreflightSums'
<1> USE DEF PreflightInv, PreflightSums, PreflightBounds, Within, Preparing
<1>1. CASE Preflight!OpenRoot \/ Preflight!MakeDirectory \/ Preflight!BindDirectory
  BY <1>1 DEF Preflight!OpenRoot, Preflight!MakeDirectory, Preflight!BindDirectory
<1>2. CASE Preflight!Pipes \/ Preflight!Launch
  BY <1>2 DEF Preflight!Pipes, Preflight!Launch
<1>3. CASE Preflight!CloseEnds
  BY <1>3 DEF Preflight!CloseEnds
<1>4. CASE Preflight!LaunchFailed
  BY <1>4 DEF Preflight!LaunchFailed
<1>5. CASE Preflight!LaunchClose
  BY <1>5 DEF Preflight!LaunchClose, Preflight!Unproven
<1>6. CASE Preflight!Read \/ Preflight!End \/ Preflight!TimeOut \/ Preflight!Wait
  BY <1>6 DEF Preflight!Read, Preflight!End, Preflight!TimeOut, Preflight!Wait
<1>7. CASE Preflight!RunFailed
  BY <1>7 DEF Preflight!RunFailed
<1>8. CASE Preflight!Finalize
  BY <1>8 DEF Preflight!Finalize
<1>9. CASE Preflight!Hash
  BY <1>9 DEF Preflight!Hash
<1>10. CASE Preflight!Keep \/ Preflight!Created \/ Preflight!Nothing
  BY <1>10 DEF Preflight!Keep, Preflight!Created, Preflight!Nothing
<1>11. CASE Preflight!Destroy
  BY <1>11 DEF Preflight!Destroy
<1>12. CASE Preflight!CloseAnchors
  BY <1>12 DEF Preflight!CloseAnchors
<1>13. CASE Preflight!ChildExits \/ Preflight!Done
  BY <1>13 DEF Preflight!ChildExits, Preflight!Done, Preflight!vars
<1> QED
  BY <1>1, <1>2, <1>3, <1>4, <1>5, <1>6, <1>7, <1>8, <1>9, <1>10, <1>11, <1>12, <1>13 DEF
     Preflight!Next, Preflight!Step

LEMMA FolderKept == ASSUME PreflightBounds, PreflightInv, Preflight!Next PROVE Folder'
<1> USE DEF PreflightInv, PreflightLabels, PreflightSlots, PreflightMarks, Folder, Preparing,
   Working, Preflight!Named
<1>1. CASE Preflight!OpenRoot \/ Preflight!MakeDirectory \/ Preflight!BindDirectory
  BY <1>1 DEF Preflight!OpenRoot, Preflight!MakeDirectory, Preflight!BindDirectory
<1>2. CASE Preflight!Pipes \/ Preflight!Launch
  BY <1>2 DEF Preflight!Pipes, Preflight!Launch
<1>3. CASE Preflight!CloseEnds
  BY <1>3 DEF Preflight!CloseEnds
<1>4. CASE Preflight!LaunchFailed
  BY <1>4 DEF Preflight!LaunchFailed
<1>5. CASE Preflight!LaunchClose
  BY <1>5 DEF Preflight!LaunchClose, Preflight!Unproven
<1>6. CASE Preflight!Read \/ Preflight!End \/ Preflight!TimeOut \/ Preflight!Wait
  BY <1>6 DEF Preflight!Read, Preflight!End, Preflight!TimeOut, Preflight!Wait
<1>7. CASE Preflight!RunFailed
  BY <1>7 DEF Preflight!RunFailed
<1>8. CASE Preflight!Finalize
  BY <1>8 DEF Preflight!Finalize
<1>9. CASE Preflight!Hash
  BY <1>9 DEF Preflight!Hash
<1>10. CASE Preflight!Keep \/ Preflight!Created \/ Preflight!Nothing
  BY <1>10 DEF Preflight!Keep, Preflight!Created, Preflight!Nothing
<1>11. CASE Preflight!Destroy
  BY <1>11 DEF Preflight!Destroy
<1>12. CASE Preflight!CloseAnchors
  BY <1>12 DEF Preflight!CloseAnchors
<1>13. CASE Preflight!ChildExits \/ Preflight!Done
  BY <1>13 DEF Preflight!ChildExits, Preflight!Done, Preflight!vars
<1> QED
  BY <1>1, <1>2, <1>3, <1>4, <1>5, <1>6, <1>7, <1>8, <1>9, <1>10, <1>11, <1>12, <1>13 DEF
     Preflight!Next, Preflight!Step

LEMMA ChargeKept == ASSUME PreflightBounds, PreflightInv, Preflight!Next PROVE Charge'
<1> USE DEF PreflightInv, PreflightLabels, PreflightFlags, Charge, Folder, Transferred, Preparing,
   Working, Over
<1>1. CASE Preflight!OpenRoot \/ Preflight!MakeDirectory \/ Preflight!BindDirectory
  BY <1>1 DEF Preflight!OpenRoot, Preflight!MakeDirectory, Preflight!BindDirectory
<1>2. CASE Preflight!Pipes \/ Preflight!Launch
  BY <1>2 DEF Preflight!Pipes, Preflight!Launch
<1>3. CASE Preflight!CloseEnds
  BY <1>3 DEF Preflight!CloseEnds
<1>4. CASE Preflight!LaunchFailed
  BY <1>4 DEF Preflight!LaunchFailed
<1>5. CASE Preflight!LaunchClose
  BY <1>5 DEF Preflight!LaunchClose, Preflight!Unproven
<1>6. CASE Preflight!Read \/ Preflight!End \/ Preflight!TimeOut \/ Preflight!Wait
  BY <1>6 DEF Preflight!Read, Preflight!End, Preflight!TimeOut, Preflight!Wait
<1>7. CASE Preflight!RunFailed
  BY <1>7 DEF Preflight!RunFailed
<1>8. CASE Preflight!Finalize
  BY <1>8 DEF Preflight!Finalize
<1>9. CASE Preflight!Hash
  BY <1>9 DEF Preflight!Hash
<1>10. CASE Preflight!Keep \/ Preflight!Created \/ Preflight!Nothing
  BY <1>10 DEF Preflight!Keep, Preflight!Created, Preflight!Nothing
<1>11. CASE Preflight!Destroy
  BY <1>11 DEF Preflight!Destroy
<1>12. CASE Preflight!CloseAnchors
  BY <1>12 DEF Preflight!CloseAnchors
<1>13. CASE Preflight!ChildExits \/ Preflight!Done
  BY <1>13 DEF Preflight!ChildExits, Preflight!Done, Preflight!vars
<1> QED
  BY <1>1, <1>2, <1>3, <1>4, <1>5, <1>6, <1>7, <1>8, <1>9, <1>10, <1>11, <1>12, <1>13 DEF
     Preflight!Next, Preflight!Step

LEMMA TransferredKept == ASSUME PreflightBounds, PreflightInv, Preflight!Next PROVE Transferred'
<1> USE DEF PreflightInv, PreflightLabels, PreflightFlags, Charge, Transferred, Preparing, Working, Over
<1>1. CASE Preflight!OpenRoot \/ Preflight!MakeDirectory \/ Preflight!BindDirectory
  BY <1>1 DEF Preflight!OpenRoot, Preflight!MakeDirectory, Preflight!BindDirectory
<1>2. CASE Preflight!Pipes \/ Preflight!Launch
  BY <1>2 DEF Preflight!Pipes, Preflight!Launch
<1>3. CASE Preflight!CloseEnds
  BY <1>3 DEF Preflight!CloseEnds
<1>4. CASE Preflight!LaunchFailed
  BY <1>4 DEF Preflight!LaunchFailed
<1>5. CASE Preflight!LaunchClose
  BY <1>5 DEF Preflight!LaunchClose, Preflight!Unproven
<1>6. CASE Preflight!Read \/ Preflight!End \/ Preflight!TimeOut \/ Preflight!Wait
  BY <1>6 DEF Preflight!Read, Preflight!End, Preflight!TimeOut, Preflight!Wait
<1>7. CASE Preflight!RunFailed
  BY <1>7 DEF Preflight!RunFailed
<1>8. CASE Preflight!Finalize
  BY <1>8 DEF Preflight!Finalize
<1>9. CASE Preflight!Hash
  BY <1>9 DEF Preflight!Hash
<1>10. CASE Preflight!Keep \/ Preflight!Created \/ Preflight!Nothing
  BY <1>10 DEF Preflight!Keep, Preflight!Created, Preflight!Nothing
<1>11. CASE Preflight!Destroy
  BY <1>11 DEF Preflight!Destroy
<1>12. CASE Preflight!CloseAnchors
  BY <1>12 DEF Preflight!CloseAnchors
<1>13. CASE Preflight!ChildExits \/ Preflight!Done
  BY <1>13 DEF Preflight!ChildExits, Preflight!Done, Preflight!vars
<1> QED
  BY <1>1, <1>2, <1>3, <1>4, <1>5, <1>6, <1>7, <1>8, <1>9, <1>10, <1>11, <1>12, <1>13 DEF
     Preflight!Next, Preflight!Step

LEMMA ControlsKept == ASSUME PreflightBounds, PreflightInv, Preflight!Next PROVE Controls'
<1> USE DEF PreflightInv, PreflightLabels, PreflightSlots, Charge, Transferred, Controls, Preparing,
   Working, Over, Preflight!Ends, Preflight!Streams
<1>1. CASE Preflight!OpenRoot \/ Preflight!MakeDirectory \/ Preflight!BindDirectory
  BY <1>1 DEF Preflight!OpenRoot, Preflight!MakeDirectory, Preflight!BindDirectory
<1>2. CASE Preflight!Pipes \/ Preflight!Launch
  BY <1>2 DEF Preflight!Pipes, Preflight!Launch
<1>3. CASE Preflight!CloseEnds
  BY <1>3 DEF Preflight!CloseEnds
<1>4. CASE Preflight!LaunchFailed
  BY <1>4 DEF Preflight!LaunchFailed
<1>5. CASE Preflight!LaunchClose
  BY <1>5 DEF Preflight!LaunchClose, Preflight!Unproven
<1>6. CASE Preflight!Read \/ Preflight!End \/ Preflight!TimeOut \/ Preflight!Wait
  BY <1>6 DEF Preflight!Read, Preflight!End, Preflight!TimeOut, Preflight!Wait
<1>7. CASE Preflight!RunFailed
  BY <1>7 DEF Preflight!RunFailed
<1>8. CASE Preflight!Finalize
  BY <1>8 DEF Preflight!Finalize
<1>9. CASE Preflight!Hash
  BY <1>9 DEF Preflight!Hash
<1>10. CASE Preflight!Keep \/ Preflight!Created \/ Preflight!Nothing
  BY <1>10 DEF Preflight!Keep, Preflight!Created, Preflight!Nothing
<1>11. CASE Preflight!Destroy
  BY <1>11 DEF Preflight!Destroy
<1>12. CASE Preflight!CloseAnchors
  BY <1>12 DEF Preflight!CloseAnchors
<1>13. CASE Preflight!ChildExits \/ Preflight!Done
  BY <1>13 DEF Preflight!ChildExits, Preflight!Done, Preflight!vars
<1> QED
  BY <1>1, <1>2, <1>3, <1>4, <1>5, <1>6, <1>7, <1>8, <1>9, <1>10, <1>11, <1>12, <1>13 DEF
     Preflight!Next, Preflight!Step

LEMMA WholeKept == ASSUME PreflightBounds, PreflightInv, Preflight!Next PROVE Whole'
<1> USE DEF PreflightInv, PreflightLabels, Folder, Charge, Whole, Preparing, Working, Over,
   Preflight!Named
<1>1. CASE Preflight!OpenRoot \/ Preflight!MakeDirectory \/ Preflight!BindDirectory
  BY <1>1 DEF Preflight!OpenRoot, Preflight!MakeDirectory, Preflight!BindDirectory
<1>2. CASE Preflight!Pipes \/ Preflight!Launch
  BY <1>2 DEF Preflight!Pipes, Preflight!Launch
<1>3. CASE Preflight!CloseEnds
  BY <1>3 DEF Preflight!CloseEnds
<1>4. CASE Preflight!LaunchFailed
  BY <1>4 DEF Preflight!LaunchFailed
<1>5. CASE Preflight!LaunchClose
  BY <1>5 DEF Preflight!LaunchClose, Preflight!Unproven
<1>6. CASE Preflight!Read \/ Preflight!End \/ Preflight!TimeOut \/ Preflight!Wait
  BY <1>6 DEF Preflight!Read, Preflight!End, Preflight!TimeOut, Preflight!Wait
<1>7. CASE Preflight!RunFailed
  BY <1>7 DEF Preflight!RunFailed
<1>8. CASE Preflight!Finalize
  BY <1>8 DEF Preflight!Finalize
<1>9. CASE Preflight!Hash
  BY <1>9 DEF Preflight!Hash
<1>10. CASE Preflight!Keep \/ Preflight!Created \/ Preflight!Nothing
  BY <1>10 DEF Preflight!Keep, Preflight!Created, Preflight!Nothing
<1>11. CASE Preflight!Destroy
  BY <1>11 DEF Preflight!Destroy
<1>12. CASE Preflight!CloseAnchors
  BY <1>12 DEF Preflight!CloseAnchors
<1>13. CASE Preflight!ChildExits \/ Preflight!Done
  BY <1>13 DEF Preflight!ChildExits, Preflight!Done, Preflight!vars
<1> QED
  BY <1>1, <1>2, <1>3, <1>4, <1>5, <1>6, <1>7, <1>8, <1>9, <1>10, <1>11, <1>12, <1>13 DEF
     Preflight!Next, Preflight!Step

LEMMA WithinKept == ASSUME PreflightBounds, PreflightInv, Preflight!Next PROVE Within'
<1> USE DEF PreflightInv, PreflightLabels, PreflightSums, PreflightBounds, Within, Preparing,
   Working, Whole
<1>1. CASE Preflight!OpenRoot \/ Preflight!MakeDirectory \/ Preflight!BindDirectory
  BY <1>1 DEF Preflight!OpenRoot, Preflight!MakeDirectory, Preflight!BindDirectory
<1>2. CASE Preflight!Pipes \/ Preflight!Launch
  BY <1>2 DEF Preflight!Pipes, Preflight!Launch
<1>3. CASE Preflight!CloseEnds
  BY <1>3 DEF Preflight!CloseEnds
<1>4. CASE Preflight!LaunchFailed
  BY <1>4 DEF Preflight!LaunchFailed
<1>5. CASE Preflight!LaunchClose
  BY <1>5 DEF Preflight!LaunchClose, Preflight!Unproven
<1>6. CASE Preflight!Read \/ Preflight!End \/ Preflight!TimeOut \/ Preflight!Wait
  BY <1>6 DEF Preflight!Read, Preflight!End, Preflight!TimeOut, Preflight!Wait
<1>7. CASE Preflight!RunFailed
  BY <1>7 DEF Preflight!RunFailed
<1>8. CASE Preflight!Finalize
  BY <1>8 DEF Preflight!Finalize
<1>9. CASE Preflight!Hash
  BY <1>9 DEF Preflight!Hash
<1>10. CASE Preflight!Keep \/ Preflight!Created \/ Preflight!Nothing
  BY <1>10 DEF Preflight!Keep, Preflight!Created, Preflight!Nothing
<1>11. CASE Preflight!Destroy
  BY <1>11 DEF Preflight!Destroy
<1>12. CASE Preflight!CloseAnchors
  BY <1>12 DEF Preflight!CloseAnchors
<1>13. CASE Preflight!ChildExits \/ Preflight!Done
  BY <1>13 DEF Preflight!ChildExits, Preflight!Done, Preflight!vars
<1> QED
  BY <1>1, <1>2, <1>3, <1>4, <1>5, <1>6, <1>7, <1>8, <1>9, <1>10, <1>11, <1>12, <1>13 DEF
     Preflight!Next, Preflight!Step

LEMMA PreflightStepKeeps ==
  ASSUME PreflightBounds, PreflightInv, [Preflight!Next]_(Preflight!vars)
  PROVE  PreflightInv'
<1>1. CASE Preflight!Next
  BY <1>1, PreflightLabelsKept, PreflightFlagsKept, PreflightSlotsKept, PreflightMarksKept,
     PreflightSumsKept, FolderKept, ChargeKept, TransferredKept, ControlsKept, WholeKept, WithinKept
     DEF PreflightInv
<1>2. CASE UNCHANGED Preflight!vars
  BY <1>2 DEF PreflightInv, Preflight!vars, PreflightLabels, PreflightFlags, PreflightSlots,
     PreflightMarks, PreflightSums, Folder, Charge, Transferred, Controls, Whole, Within
<1> QED
  BY <1>1, <1>2

LEMMA PreflightInvariantTells ==
  ASSUME PreflightInv
  PROVE  /\ Preflight!TypeOK /\ Preflight!NoSilentProcess /\ Preflight!DirectoryOutlivesProcess
              /\ Preflight!LeftIsHeld /\ Preflight!LaunchControlsKept
         /\ Preflight!ResultIsWhole
<1>1. Preflight!TypeOK
  BY DEF PreflightInv, PreflightLabels, PreflightSlots, PreflightMarks, PreflightSums, Charge,
     Preflight!TypeOK
<1>2. Preflight!NoSilentProcess /\ Preflight!DirectoryOutlivesProcess
  BY DEF PreflightInv, Charge, Transferred, Over, Preflight!NoSilentProcess,
     Preflight!DirectoryOutlivesProcess, Preflight!AtEnd
<1>3. Preflight!LeftIsHeld
  BY DEF PreflightInv, PreflightSlots, Folder, Preflight!LeftIsHeld, Preflight!AtEnd
<1>4. Preflight!LaunchControlsKept
  BY DEF PreflightInv, Controls, Over, Preflight!LaunchControlsKept, Preflight!AtEnd
<1>5. Preflight!ResultIsWhole
  BY DEF PreflightInv, Folder, Whole, Within, Preflight!ResultIsWhole, Preflight!AtEnd
<1> QED
  BY <1>1, <1>2, <1>3, <1>4, <1>5

(* The program that writes the schema is ended or told of, the directory is not deleted under it,
   what is left is the error's with its anchors and descriptors, and a result is whole. *)
THEOREM CommandIsSettled ==
  ASSUME PreflightBounds
  PROVE  Preflight!Spec => [](/\ Preflight!TypeOK /\ Preflight!NoSilentProcess
                               /\ Preflight!DirectoryOutlivesProcess /\ Preflight!LeftIsHeld
                               /\ Preflight!LaunchControlsKept /\ Preflight!ResultIsWhole)
<1>1. Preflight!Init => PreflightInv
  BY PreflightInitHolds
<1>2. PreflightInv /\ [Preflight!Next]_(Preflight!vars) => PreflightInv'
  BY PreflightStepKeeps
<1>3. PreflightInv => /\ Preflight!TypeOK /\ Preflight!NoSilentProcess
                      /\ Preflight!DirectoryOutlivesProcess /\ Preflight!LeftIsHeld
                      /\ Preflight!LaunchControlsKept /\ Preflight!ResultIsWhole
  BY PreflightInvariantTells
<1> QED
  BY <1>1, <1>2, <1>3, PTL DEF Preflight!Spec

HIDE DEF Preflight!Ends, Preflight!Goto, Preflight!Raise, Preflight!Process, Preflight!Launched,
  Preflight!Stream, Preflight!Error, Preflight!Fault, Preflight!Throw, Preflight!Files,
  Preflight!Streams, Preflight!Retain, Preflight!Reap, Preflight!ClosedAll, Preflight!OneUnproven,
  Preflight!Named, Preflight!Hold
=============================================================================
