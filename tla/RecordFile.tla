------------------------------ MODULE RecordFile ------------------------------
(***************************************************************************)
(* How state.json is written (secureio.py, settlement_state.py): a         *)
(* temporary is written, synchronised and renamed over it; the settlement  *)
(* of a process writes a candidate that records the directory's own size,  *)
(* itself included, and exchanges it with the record it follows.  Writers  *)
(* come one after the other, as the lease of AttemptLifecycle has them,    *)
(* and a call may fail, the writer die, or the power go, after any step.   *)
(***************************************************************************)
EXTENDS Naturals, Sequences, Functions

CONSTANTS
  MaxWrites,   \* bound on writers; writer k writes record k into inode k
  MaxOther,    \* bound on the blocks of the other files in the directory
  MaxTries     \* the settlement's attempts to state its own size

VARIABLES
  pc,       \* the writer's next step
  kind,     \* "replace" or "settle"
  writer,   \* the last writer's number
  tries,
  dir,      \* what the record's name and the temporary of each writer lead to
  log,      \* directories since the last fsync of the directory, oldest first
  inode,    \* [charge, size, whole, synced] of each inode
  other,    \* blocks of the other files
  claim,    \* what the settlement measured last
  base,     \* the inode of the record it follows
  result,   \* how the last writer ended: "ok", "raised", "died"; "worn" if a power failure
            \* has since emptied a leftover that was counted
  returned  \* the last writer that returned without an error

vars == <<pc, kind, writer, tries, dir, log, inode, other, claim, base, result, returned>>
disk == <<dir, log>>
self == <<kind, writer, base>>
end == <<result, returned>>

Absent == MaxWrites + 1
State == 0   \* the name state.json; writer k's temporary has the name k
Names == 0..MaxWrites
Empty == [charge |-> 0, size |-> 0, whole |-> FALSE, synced |-> FALSE]

Init ==
  /\ pc = "idle" /\ kind = "replace" /\ writer = 0 /\ tries = 0 /\ base = 0
  /\ dir = [n \in Names |-> IF n = State THEN 0 ELSE Absent] /\ log = <<>>
  /\ inode = [i \in 0..MaxWrites |->
                IF i = 0 THEN [charge |-> 0, size |-> 1, whole |-> TRUE, synced |-> TRUE] ELSE Empty]
  /\ other = 0 /\ claim = 0 /\ result = "ok" /\ returned = 0

Goto(l) == pc' = l
Change(d) == dir' = d /\ log' = Append(log, dir)
Raise == Goto(IF kind = "replace" THEN "unlink" ELSE "give-up")

(* allocated_bytes_fd *)
Blocks(d, nodes, rest) ==
  rest + SumFunction([n \in Names |-> IF d[n] = Absent THEN 0 ELSE nodes[d[n]].size])

Start ==
  /\ pc = "idle" /\ writer < MaxWrites /\ Goto("create")
  /\ kind' \in {"replace", "settle"} /\ writer' = writer + 1 /\ base' = dir[State] /\ tries' = 0
  /\ UNCHANGED <<disk, inode, other, claim, end>>

(* O_EXCL; a settlement then measures the directory for the first time. *)
Create ==
  /\ pc = "create"
  /\ \/ /\ Change([dir EXCEPT ![writer] = writer]) /\ Goto("write")
        /\ claim' = Blocks(dir', inode, other)
     \/ Raise /\ UNCHANGED <<disk, claim>>
  /\ UNCHANGED <<self, tries, inode, other, end>>

(* write_all, or ftruncate and write_all, of a record that states `claim`. *)
Write ==
  /\ pc = "write"
  /\ \E size \in {1, 2}, whole \in BOOLEAN :
       /\ inode' = [inode EXCEPT ![writer] =
                      [charge |-> claim, size |-> size, whole |-> whole, synced |-> FALSE]]
       /\ IF whole THEN Goto("sync") ELSE Raise
  /\ UNCHANGED <<self, tries, disk, other, claim, end>>

Sync ==
  /\ pc = "sync"
  /\ \/ /\ inode' = [inode EXCEPT ![writer].synced = TRUE]
        /\ Goto(IF kind = "replace" THEN "rename" ELSE "measure")
     \/ Raise /\ UNCHANGED inode
  /\ UNCHANGED <<self, tries, disk, other, claim, end>>

(* atomic_write_json_at: the rename, fsync of the directory, the readback, *)
(* and on the way out, in any case, the temporary's removal.               *)
Rename ==
  /\ pc = "rename"
  /\ \/ Change([dir EXCEPT ![State] = writer, ![writer] = Absent]) /\ Goto("sync-dir")
     \/ Raise /\ UNCHANGED disk
  /\ UNCHANGED <<self, tries, inode, other, claim, end>>

SyncDirectory ==
  /\ pc = "sync-dir"
  /\ \/ log' = <<>> /\ UNCHANGED dir /\ Goto("verify")
     \/ Raise /\ UNCHANGED disk
  /\ UNCHANGED <<self, tries, inode, other, claim, end>>

Unlink ==
  /\ pc = "unlink" /\ Goto("idle") /\ result' = "raised"
  /\ \/ dir[writer] # Absent /\ Change([dir EXCEPT ![writer] = Absent])
     \/ UNCHANGED disk
  /\ UNCHANGED <<self, tries, inode, other, claim, returned>>

(* The settlement: the record states a size, and writing it may change the *)
(* size; try again until it does not, a bounded number of times.           *)
Measure ==
  /\ pc = "measure" /\ tries' = tries + 1
  /\ LET now == Blocks(dir, inode, other) IN
     \/ now = claim /\ Goto("recheck") /\ UNCHANGED claim
     \/ now # claim /\ tries' < MaxTries /\ claim' = now /\ Goto("write")
     \/ now # claim /\ tries' = MaxTries /\ claim' = now /\ Raise
  /\ UNCHANGED <<self, disk, inode, other, end>>

Recheck ==
  /\ pc = "recheck"
  /\ IF dir[State] = base /\ Blocks(dir, inode, other) = claim THEN Goto("exchange") ELSE Raise
  /\ UNCHANGED <<self, tries, disk, inode, other, claim, end>>

Exchange ==
  /\ pc = "exchange"
  /\ \/ Change([dir EXCEPT ![State] = writer, ![writer] = base]) /\ Goto("sync-dir")
     \/ Raise /\ UNCHANGED disk
  /\ UNCHANGED <<self, tries, inode, other, claim, end>>

(* Variant: without the size. *)
VerifyRecord ==
  /\ pc = "verify"
  /\ \/ Goto("idle") /\ result' = "ok" /\ returned' = writer
     \/ Raise /\ UNCHANGED end
  /\ UNCHANGED <<self, tries, disk, inode, other, claim>>

(* Readback; of a settlement also the predecessor's, and the size again. *)
Verify ==
  /\ pc = "verify"
  /\ \/ /\ kind = "settle" => dir[writer] = base /\ Blocks(dir, inode, other) = claim
        /\ Goto("idle") /\ result' = "ok" /\ returned' = writer
     \/ Raise /\ UNCHANGED end
  /\ UNCHANGED <<self, tries, disk, inode, other, claim>>

(* A settlement that fails leaves its candidate, or what it exchanged. *)
GiveUp ==
  /\ pc = "give-up" /\ Goto("idle") /\ result' = "raised"
  /\ \/ dir[State] # writer /\ log' = <<>> /\ UNCHANGED dir
     \/ UNCHANGED disk
  /\ UNCHANGED <<self, tries, inode, other, claim, returned>>

-----------------------------------------------------------------------------
(* Crashes and other files *)

WriterDies ==
  /\ pc # "idle" /\ Goto("idle") /\ result' = "died"
  /\ UNCHANGED <<self, tries, disk, inode, other, claim, returned>>

(* Of the changes since the last fsync of the directory the first few have *)
(* reached the disk; a file that was not synchronised may be torn.         *)
PowerFails ==
  /\ Goto("idle") /\ log' = <<>> /\ dir' \in {dir} \cup {log[i] : i \in DOMAIN log}
  /\ \E torn \in SUBSET {i \in DOMAIN inode : ~inode[i].synced} :
       /\ inode' = [i \in DOMAIN inode |-> IF i \in torn THEN Empty ELSE inode[i]]
       /\ result' = IF pc # "idle" THEN "died"
                    ELSE IF result = "ok" /\ \E n \in Names : dir[n] \in torn /\ inode[dir[n]] # Empty
                    THEN "worn" ELSE result
  /\ UNCHANGED <<self, tries, other, claim, returned>>

Grow ==
  /\ pc # "idle" /\ other < MaxOther /\ other' = other + 1
  /\ UNCHANGED <<pc, self, tries, disk, inode, claim, end>>

Steps ==
  \/ Create \/ Write \/ Sync \/ Rename \/ SyncDirectory \/ Unlink
  \/ Measure \/ Recheck \/ Exchange \/ Verify \/ GiveUp
Next == Start \/ Steps \/ WriterDies \/ PowerFails \/ Grow

Spec == Init /\ [][Next]_vars /\ WF_vars(Steps)

-----------------------------------------------------------------------------
(* Properties *)

Labels == {"idle", "create", "write", "sync", "rename", "sync-dir", "verify", "unlink", "measure",
           "recheck", "exchange", "give-up"}

(* Every variable has its type; a writer's temporary leads to what it      *)
(* wrote or to the record it exchanged for it.                             *)
TypeOK ==
  /\ pc \in Labels /\ kind \in {"replace", "settle"} /\ writer \in 0..MaxWrites
  /\ dir \in [Names -> 0..Absent] /\ dir[State] # Absent
  /\ \A k \in 1..writer : dir[k] = Absent \/ dir[k] <= k
  /\ log \in Seq([Names -> 0..Absent]) /\ tries \in 0..MaxTries /\ other \in 0..MaxOther
  /\ result \in {"ok", "raised", "died", "worn"} /\ returned \in 0..writer

(* state.json behaves as one record that is replaced as a whole; whoever   *)
(* was told that it was written finds it after a crash.                    *)
Current == IF inode[dir[State]].whole THEN dir[State] ELSE Absent
Store == INSTANCE RecordStore WITH
  Records <- 0..MaxWrites,
  record <- Current,
  stable <- IF log = <<>> THEN Current
            ELSE IF inode[log[1][State]].whole THEN log[1][State] ELSE Absent,
  returned <- returned
RecordsAreKept == [Store!Next]_(Store!vars)
KeepsRecords == Store!Spec

(* A settlement that was reported as exact stays exact, whatever crashes   *)
(* afterwards: the record and its predecessor are there, and it states the *)
(* directory's size, both included - unless a power failure empties what   *)
(* an earlier writer left behind without having synchronised it.           *)
SettledIsExact ==
  pc = "idle" /\ kind = "settle" /\ result \in {"ok", "worn"} /\ writer > 0 =>
    /\ dir[State] = writer /\ dir[writer] = base /\ inode[base].whole
    /\ result = "ok" => inode[writer].charge = Blocks(dir, inode, other)

(* Every writer ends, even if each write of its size changes the size. *)
Begun == pc # "idle"
Ended == pc = "idle"
WriterEnds == Begun ~> Ended
=============================================================================
