--------------------------- MODULE RunCustodyProofs ---------------------------
(***************************************************************************)
(* What the review runtime keeps, in three proofs.  RunCustody, for any     *)
(* number of commands, private files and kills: what is reviewed is whole,  *)
(* one process removes at a time, success is removal, and the marker        *)
(* outlives what it tells how to remove.  RefreshLock, under the name Lock: *)
(* the lease on the two refresh locks, for any number of helpers, signals   *)
(* and directories, with and without Claude beside them.  CommitScope,      *)
(* under the name Scope: the range of a review, for a history of any size   *)
(* and any part of it that is missing.                                      *)
(***************************************************************************)
EXTENDS RunCustody, Sequences, TLAPS

CONSTANTS Helpers, Nil, Claude, Foreign, OnSuccess, MaxInterrupts, MaxInodes, N, MaxDamage

VARIABLES dir, inodes, place, agenda, hold, adopted, opened, beat, operator, handoff, cleared,
  faults, signals    \* those of RefreshLock
VARIABLES parents, present, trees, root, verdict, scope, store, damage, valid    \* those of CommitScope

Lock == INSTANCE RefreshLock WITH pc <- place, todo <- agenda, lease <- hold, locks <- adopted,
  fds <- opened, op <- operator, removed <- cleared, None <- Nil
Scope == INSTANCE CommitScope WITH base <- root

-----------------------------------------------------------------------------
(* The inductive invariant *)

StarterPCs == {"create", "accept", "build", "ready", "record", "spawn", "publish", "review", "lock",
               "clean", "undo", "gone"}
RunnerPCs == {"none", "check", "review", "seal", "record", "gone"}
CommandPCs == {"idle", "load", "probe", "exit", "lock", "locked", "job", "poll", "end"}
WorkerPCs == {"none", "check", "clean", "ok", "failed", "killed"}
Kinds == {"none", "partial", "ready", "retain", "artifacts"}
JobPCs == {"idle", "scan", "pick", "unlink", "receipt", "enter-workspace", "empty-workspace",
           "remove-workspace", "enter-git", "empty-git", "remove-git", "contents", "box", "done", "failed"}

Codes == {"none", "ok", "late", "error", "running", "failed", "killed"}
Calls == [pc : CommandPCs, op : {"status", "wait", "cleanup"}, timed : BOOLEAN, saw : BOOLEAN,
          code : Codes,
          answer : {"none", "pending", "sealed", "unsealed"}]
Jobs == [kind : Kinds, step : JobPCs, item : Artifacts \cup {Nobody}, todo : SUBSET Artifacts, bad : BOOLEAN]

Files ==
  /\ marker \in {"none", "preparing", "ready"} /\ record \in BOOLEAN /\ sealed \in BOOLEAN
  /\ box \in {"absent", "present", "aside"} /\ exit \in {"none", "ran", "lost"}
  /\ art \in [Artifacts -> {"absent", "present", "aside"}] /\ receipts \subseteq Artifacts
  /\ tree \in [Dirs -> {"absent", "whole", "partial", "blocked", "aside"}]
Processes ==
  /\ mode \in {"detached", "foreground"} /\ keep \in BOOLEAN
  /\ starter \in StarterPCs /\ runner \in RunnerPCs
  /\ lock \in Actors \cup {Nobody} /\ fds \in [Commands -> SUBSET {"self", "worker"}]
  /\ cmd \in [Commands -> Calls] /\ worker \in [Commands -> WorkerPCs] /\ job \in [Actors -> Jobs]
  /\ kills \in 0..MaxKills

NoArtifacts == \A a \in Artifacts : art[a] = "absent"
NoTrees == \A d \in Dirs : tree[d] = "absent"
AllArtifacts == \A a \in Artifacts : art[a] = "present"
AllTrees == \A d \in Dirs : tree[d] = "whole"

(* What the starter has made when it comes to a step. *)
StarterTells ==
  /\ starter = "create" => marker = "none" /\ NoArtifacts /\ NoTrees
  /\ starter = "accept" => marker = "none" /\ box = "present" /\ AllArtifacts /\ NoTrees
  /\ starter = "build" => marker = "preparing" /\ box = "present" /\ AllArtifacts /\ NoTrees
  /\ starter = "ready" => marker = "preparing" /\ box = "present" /\ AllArtifacts /\ AllTrees
  /\ starter \in {"record", "spawn", "publish", "review", "lock"} \/ RunnerLives =>
       marker = "ready" /\ box = "present" /\ AllArtifacts /\ AllTrees
  /\ RunnerLives => starter \in {"publish", "gone"}

(* Nobody starts, and nobody runs, any more. *)
Settled == starter = "gone" /\ ~RunnerLives

(* The cleanup lock is held as long as somebody shares its description. *)
LockOf(c) ==
  /\ lock = c <=> fds[c] # {}
  /\ "self" \in fds[c] <=> cmd[c].pc \in {"locked", "job", "poll"}
  /\ "worker" \in fds[c] <=> worker[c] \in {"check", "clean"}
LockTells ==
  /\ lock = Starter <=> starter = "clean"
  /\ \A c \in Commands : LockOf(c)

CommandOf(c) ==
  /\ cmd[c].pc # "end" => cmd[c].code = "none"
  /\ cmd[c].pc \in {"exit", "lock", "locked", "job", "poll"} => Settled
  /\ cmd[c].pc = "probe" => starter \notin {"create", "accept"}
  /\ cmd[c].pc = "exit" => cmd[c].op # "cleanup"
  /\ worker[c] # "none" => cmd[c].pc \in {"poll", "end"} /\ Settled
  /\ worker[c] \in {"check", "clean", "ok"} => ~keep \/ cmd[c].op = "cleanup"
  /\ worker[c] = "ok" => NoArtifacts /\ NoTrees
  /\ cmd[c].code = "ok" /\ cmd[c].op # "status" =>
       Settled /\ NoArtifacts /\ (~keep \/ cmd[c].op = "cleanup" => NoTrees)
CommandTells ==
  /\ exit = "lost" => Settled
  /\ \A c \in Commands : CommandOf(c)

(* Who is busy removing may, and how far it has come. *)
Busy(p) == job[p].step # "idle"
Sorting == {"pick", "unlink", "receipt"}
Later == {"enter-workspace", "empty-workspace", "remove-workspace", "enter-git", "empty-git", "remove-git",
          "contents", "box", "done"}
MayRemove(p) ==
  /\ p = Starter => starter \in {"undo", "clean"}
  /\ p \in Commands =>
       /\ cmd[p].pc = "job" \/ worker[p] = "clean"
       /\ job[p].kind = "artifacts" => keep /\ cmd[p].op # "cleanup"
       /\ worker[p] = "clean" => job[p].kind = "retain"
Progress(p) ==
  /\ job[p].step \in Sorting => \A a \in job[p].todo : art[a] = "present"
  /\ job[p].step \in {"unlink", "receipt"} => job[p].item \in Artifacts
  /\ job[p].step = "pick" /\ ~job[p].bad => \A a \in Artifacts \ job[p].todo : art[a] = "absent"
  /\ job[p].step \in {"unlink", "receipt"} /\ ~job[p].bad =>
       \A a \in Artifacts \ (job[p].todo \cup {job[p].item}) : art[a] = "absent"
  /\ job[p].step = "unlink" => art[job[p].item] = "aside"
  /\ job[p].step = "receipt" => art[job[p].item] = "absent"
  /\ job[p].step \in Later => NoArtifacts
  /\ job[p].step \in {"enter-workspace", "empty-workspace", "remove-workspace"} => job[p].kind = "retain"
  /\ job[p].step \in {"empty-workspace", "remove-workspace"} => tree["workspace"] # "absent"
  /\ job[p].step \in {"empty-git", "remove-git"} => tree["review.git"] # "absent"
  /\ job[p].step \in {"enter-git", "empty-git", "remove-git"} /\ job[p].kind = "retain" =>
       tree["workspace"] = "absent"
  /\ job[p].step \in {"enter-git", "empty-git", "remove-git"} => job[p].kind # "artifacts"
  /\ job[p].step \in {"contents", "box"} => job[p].kind # "artifacts"
  /\ job[p].step = "contents" => tree["review.git"] = "absent"
  /\ job[p].step = "box" => NoTrees
  /\ job[p].step = "done" /\ job[p].kind # "artifacts" => NoTrees
JobTells == \A p \in Actors : Busy(p) => MayRemove(p) /\ Progress(p)

IInv ==
  /\ Files /\ Processes /\ StarterTells /\ LockTells /\ CommandTells /\ JobTells
  /\ MarkerOutlivesContent

(* What the constants are *)
Bounds == MaxKills \in Nat /\ Starter \notin Commands /\ Nobody \notin Actors

-----------------------------------------------------------------------------
(* The invariant is inductive *)

LEMMA InitHolds ==
  ASSUME Bounds, Init
  PROVE  IInv
<1>1. Files
  BY DEF Init, Files
<1>2. NoJob \in Jobs
  BY DEF NoJob, Jobs, Kinds, JobPCs
<1>3. Processes
  BY <1>2 DEF Bounds, Init, Processes, StarterPCs, RunnerPCs, CommandPCs, WorkerPCs, Calls, Codes, Actors
<1>4. StarterTells /\ LockTells /\ CommandTells
  BY DEF Bounds, Init, StarterTells, LockTells, LockOf, CommandTells, CommandOf, Settled, RunnerLives, NoArtifacts, NoTrees, Actors
<1>5. JobTells /\ MarkerOutlivesContent
  BY DEF Init, JobTells, Busy, NoJob, MarkerOutlivesContent
<1> QED
  BY <1>1, <1>3, <1>4, <1>5 DEF IInv

(* One process at a time is busy removing. *)
LEMMA OneBusy ==
  ASSUME Bounds, IInv, NEW p \in Actors, NEW q \in Actors, Busy(p), Busy(q)
  PROVE  p = q
<1>1. ASSUME NEW c \in Commands, Busy(c)
      PROVE  lock = c /\ Settled
  BY <1>1 DEF Bounds, IInv, JobTells, MayRemove, LockTells, LockOf, CommandTells, CommandOf, Processes, Actors
<1>2. ASSUME Busy(Starter)
      PROVE  ~Settled
  BY <1>2 DEF Bounds, IInv, JobTells, MayRemove, Settled, Actors
<1> QED
  BY <1>1, <1>2 DEF Actors

-----------------------------------------------------------------------------
(* Removal *)

(* What every step of a removal leaves true. *)
Advances(p) ==
  /\ Files' /\ exit' = exit
  /\ job' \in [Actors -> Jobs] /\ \A q \in Actors \ {p} : job'[q] = job[q]
  /\ job'[p].kind = job[p].kind /\ Busy(p)' /\ Progress(p)'
  /\ NoArtifacts => NoArtifacts'
  /\ NoTrees => NoTrees'
  /\ MarkerOutlivesContent'

(* A removal that only takes its next step. *)
LEMMA StepTells ==
  ASSUME job \in [Actors -> Jobs], NEW p \in Actors, NEW s \in JobPCs, Step(p, s)
  PROVE  /\ job' \in [Actors -> Jobs] /\ job'[p] = [job[p] EXCEPT !.step = s]
         /\ \A q \in Actors \ {p} : job'[q] = job[q]
BY DEF Step, Jobs

LEMMA ScanAdvances ==
  ASSUME Bounds, Files, job \in [Actors -> Jobs], MarkerOutlivesContent,
         NEW p \in Actors, Busy(p), Progress(p), Scan(p)
  PROVE  Advances(p)
<1> DEFINE removed == IF Receipted(p) THEN receipts ELSE {}
           todo == {a \in Artifacts \ removed : art[a] = "present"}
           bad == \/ \E a \in removed : art[a] # "absent"
                  \/ \E a \in Artifacts \ removed : art[a] # "present"
           j == [job[p] EXCEPT !.step = "pick", !.todo = todo, !.bad = bad]
<1>1. job' = [job EXCEPT ![p] = j] /\ UNCHANGED files
  BY DEF Scan, Jobs
<1>2. removed \subseteq Artifacts /\ bad \in BOOLEAN
  BY DEF Files
<1>3. /\ j \in Jobs /\ j.step = "pick" /\ j.todo = todo /\ j.bad = bad /\ j.kind = job[p].kind
  <2> HIDE DEF bad
  <2> QED
    BY <1>2 DEF Jobs, JobPCs
<1>4. ~bad => \A a \in Artifacts \ todo : art[a] = "absent"
  BY <1>2
<1>5. \A a \in todo : art[a] = "present"
  OBVIOUS
<1> HIDE DEF j, bad, todo
<1>6. job' \in [Actors -> Jobs] /\ job'[p] = j /\ \A q \in Actors \ {p} : job'[q] = job[q]
  BY <1>1, <1>3
<1>7. Busy(p)' /\ Progress(p)'
  BY <1>1, <1>3, <1>4, <1>5, <1>6 DEF Busy, Progress, Sorting, Later, files
<1>8. /\ Files' /\ exit' = exit /\ (NoArtifacts => NoArtifacts') /\ (NoTrees => NoTrees') /\ MarkerOutlivesContent'
  BY <1>1 DEF Files, NoArtifacts, NoTrees, MarkerOutlivesContent, files
<1> QED
  BY <1>3, <1>6, <1>7, <1>8 DEF Advances

LEMMA PickAdvances ==
  ASSUME Bounds, Files, job \in [Actors -> Jobs], MarkerOutlivesContent,
         NEW p \in Actors, Busy(p), Progress(p), Pick(p)
  PROVE  Advances(p)
<1>1. CASE job[p].todo = {} /\ Step(p, IF job[p].bad THEN "failed" ELSE AfterArtifacts(p)) /\ UNCHANGED files
  <2> DEFINE s == IF job[p].bad THEN "failed" ELSE AfterArtifacts(p)
  <2>1. /\ s \in JobPCs /\ s \in {"failed", "done", "enter-workspace", "enter-git"}
        /\ s = "done" => job[p].kind = "artifacts"
        /\ s = "enter-workspace" => job[p].kind = "retain"
        /\ s = "enter-git" => job[p].kind \notin {"artifacts", "retain"}
        /\ s # "failed" => ~job[p].bad
    BY DEF AfterArtifacts, JobPCs
  <2> HIDE DEF s
  <2>2. /\ job' \in [Actors -> Jobs] /\ job'[p] = [job[p] EXCEPT !.step = s]
        /\ \A q \in Actors \ {p} : job'[q] = job[q]
    BY <1>1, <2>1, StepTells DEF s
  <2>3. job'[p].step = s /\ job'[p].kind = job[p].kind
    BY <2>2 DEF Jobs
  <2>4. s # "failed" => NoArtifacts
    BY <1>1, <2>1 DEF Pick, At, Progress, NoArtifacts
  <2>5. Busy(p)' /\ Progress(p)'
    BY <1>1, <2>1, <2>3, <2>4 DEF Busy, Progress, Sorting, Later, NoArtifacts, files
  <2>6. /\ Files' /\ exit' = exit /\ (NoArtifacts => NoArtifacts') /\ (NoTrees => NoTrees') /\ MarkerOutlivesContent'
    BY <1>1 DEF Files, NoArtifacts, NoTrees, MarkerOutlivesContent, files
  <2> QED
    BY <2>2, <2>3, <2>5, <2>6 DEF Advances
<1>2. ASSUME NEW a \in job[p].todo,
             \/ /\ art' = [art EXCEPT ![a] = "aside"]
                /\ job' = [job EXCEPT ![p].step = "unlink", ![p].item = a, ![p].todo = @ \ {a}]
             \/ job' = [job EXCEPT ![p].todo = @ \ {a}, ![p].bad = TRUE] /\ UNCHANGED art,
             UNCHANGED <<marker, record, box, receipts, tree, exit, sealed>>
      PROVE  Advances(p)
  <2>1. a \in Artifacts /\ job[p].step = "pick" /\ art[a] = "present"
    BY <1>2 DEF Jobs, Pick, At, Progress, Sorting
  <2>2. /\ Files' /\ exit' = exit /\ (NoArtifacts => NoArtifacts') /\ (NoTrees => NoTrees') /\ MarkerOutlivesContent'
    BY <1>2, <2>1 DEF Files, NoArtifacts, NoTrees, MarkerOutlivesContent
  <2>3. CASE /\ art' = [art EXCEPT ![a] = "aside"]
             /\ job' = [job EXCEPT ![p].step = "unlink", ![p].item = a, ![p].todo = @ \ {a}]
    <3>1. /\ job'[p] = [job[p] EXCEPT !.step = "unlink", !.item = a, !.todo = job[p].todo \ {a}]
          /\ \A q \in Actors \ {p} : job'[q] = job[q]
          /\ job' = [job EXCEPT ![p] = job'[p]]
      BY <2>3
    <3>2. job'[p] \in Jobs
      <4>1. job[p] \in Jobs /\ job[p].todo \ {a} \in SUBSET Artifacts /\ "unlink" \in JobPCs
        BY DEF Jobs, JobPCs
      <4> QED
        BY <2>1, <3>1, <4>1 DEF Jobs
    <3>3. job' \in [Actors -> Jobs]
      BY <3>1, <3>2
    <3>4. /\ job'[p].step = "unlink" /\ job'[p].item = a /\ job'[p].todo = job[p].todo \ {a}
          /\ job'[p].kind = job[p].kind /\ job'[p].bad = job[p].bad
      BY <3>1 DEF Jobs
    <3>5. Busy(p)' /\ Progress(p)'
      BY <2>1, <2>3, <3>4 DEF Busy, Progress, Sorting, Later, Files
    <3> QED
      BY <2>2, <3>1, <3>3, <3>4, <3>5 DEF Advances
  <2>4. CASE job' = [job EXCEPT ![p].todo = @ \ {a}, ![p].bad = TRUE] /\ UNCHANGED art
    <3>1. /\ job'[p] = [job[p] EXCEPT !.todo = job[p].todo \ {a}, !.bad = TRUE]
          /\ \A q \in Actors \ {p} : job'[q] = job[q]
          /\ job' = [job EXCEPT ![p] = job'[p]]
      BY <2>4
    <3>2. job'[p] \in Jobs
      BY <2>1, <3>1 DEF Jobs, JobPCs
    <3>3. job' \in [Actors -> Jobs]
      BY <3>1, <3>2
    <3>4. /\ job'[p].step = "pick" /\ job'[p].todo = job[p].todo \ {a}
          /\ job'[p].kind = job[p].kind /\ job'[p].bad = TRUE
      BY <2>1, <3>1 DEF Jobs
    <3>5. Busy(p)' /\ Progress(p)'
      BY <2>1, <2>4, <3>4 DEF Busy, Progress, Sorting, Later, Files
    <3> QED
      BY <2>2, <3>1, <3>3, <3>4, <3>5 DEF Advances
  <2> QED
    BY <1>2, <2>3, <2>4
<1> QED
  BY <1>1, <1>2 DEF Pick

LEMMA UnlinkAdvances ==
  ASSUME Bounds, Files, job \in [Actors -> Jobs], MarkerOutlivesContent,
         NEW p \in Actors, Busy(p), Progress(p), UnlinkArtifact(p)
  PROVE  Advances(p)
<1>1. job[p].step = "unlink" /\ job[p].item \in Artifacts
  BY DEF UnlinkArtifact, At, Progress
<1>2. /\ Files' /\ exit' = exit /\ (NoArtifacts => NoArtifacts') /\ (NoTrees => NoTrees') /\ MarkerOutlivesContent'
  BY <1>1 DEF UnlinkArtifact, Files, NoArtifacts, NoTrees, MarkerOutlivesContent
<1>3. CASE /\ art' = [art EXCEPT ![job[p].item] = "absent"]
           /\ Step(p, IF Receipted(p) THEN "receipt" ELSE "pick")
  <2> DEFINE s == IF Receipted(p) THEN "receipt" ELSE "pick"
  <2>1. s \in {"receipt", "pick"} /\ s \in JobPCs
    BY DEF JobPCs
  <2> HIDE DEF s
  <2>2. /\ job' \in [Actors -> Jobs] /\ job'[p] = [job[p] EXCEPT !.step = s]
        /\ \A q \in Actors \ {p} : job'[q] = job[q]
    BY <1>3, <2>1, StepTells DEF s
  <2>3. /\ job'[p].step = s /\ job'[p].item = job[p].item /\ job'[p].todo = job[p].todo
        /\ job'[p].kind = job[p].kind /\ job'[p].bad = job[p].bad
    BY <2>2 DEF Jobs
  <2>4. job[p].todo \subseteq Artifacts
    BY DEF Jobs
  <2>5. /\ \A a \in job[p].todo : art'[a] \in {"present", "absent"}
        /\ \A a \in Artifacts \ {job[p].item} : art'[a] = art[a]
        /\ art'[job[p].item] = "absent"
    BY <1>1, <1>3, <2>4 DEF Files, Progress, Sorting
  <2>6. job[p].item \notin job[p].todo
    BY <1>1 DEF Progress, Sorting
  <2>7. Busy(p)' /\ Progress(p)'
    BY <1>1, <2>1, <2>3, <2>4, <2>5, <2>6 DEF Busy, Progress, Sorting, Later
  <2> QED
    BY <1>2, <2>2, <2>3, <2>7 DEF Advances
<1>4. CASE job' = [job EXCEPT ![p].step = "pick", ![p].bad = TRUE] /\ UNCHANGED art
  <2>1. /\ job'[p] = [job[p] EXCEPT !.step = "pick", !.bad = TRUE]
        /\ \A q \in Actors \ {p} : job'[q] = job[q]
        /\ job' = [job EXCEPT ![p] = job'[p]]
    BY <1>4
  <2>2. job'[p] \in Jobs
    BY <2>1 DEF Jobs, JobPCs
  <2>3. /\ job'[p].step = "pick" /\ job'[p].todo = job[p].todo /\ job'[p].kind = job[p].kind /\ job'[p].bad = TRUE
    BY <2>1 DEF Jobs
  <2>4. Busy(p)' /\ Progress(p)'
    BY <1>1, <1>4, <2>3 DEF Busy, Progress, Sorting, Later
  <2>5. job' \in [Actors -> Jobs]
    BY <2>1, <2>2
  <2> QED
    BY <1>2, <2>1, <2>3, <2>4, <2>5 DEF Advances
<1> QED
  BY <1>3, <1>4 DEF UnlinkArtifact

LEMMA ReceiptAdvances ==
  ASSUME Bounds, Files, job \in [Actors -> Jobs], MarkerOutlivesContent,
         NEW p \in Actors, Busy(p), Progress(p), Receipt(p)
  PROVE  Advances(p)
<1>1. Files' /\ exit' = exit
  BY DEF Receipt, At, Step, Files, Jobs, Progress, Sorting, files, Dirs
<1>2. job' \in [Actors -> Jobs] /\ (\A q \in Actors \ {p} : job'[q] = job[q]) /\ job'[p].kind = job[p].kind
  BY DEF Receipt, At, Step, Jobs, JobPCs, Kinds, Files
<1>3. Busy(p)'
  BY DEF Receipt, At, Step, Jobs, JobPCs, Busy
<1>4. Progress(p)'
  BY <1>2 DEF Receipt, At, Step, Progress, Busy, Sorting, Later, NoArtifacts, NoTrees, Jobs, JobPCs, Kinds, Files, files, Dirs
<1>5. (NoArtifacts => NoArtifacts') /\ (NoTrees => NoTrees')
  BY DEF Receipt, At, Step, NoArtifacts, NoTrees, Files, files, Dirs, Progress, Sorting
<1>6. MarkerOutlivesContent'
  BY DEF Receipt, At, Step, MarkerOutlivesContent, Progress, Sorting, NoTrees, Files, files, Dirs
<1> QED
  BY <1>1, <1>2, <1>3, <1>4, <1>5, <1>6 DEF Advances

LEMMA ContentsAdvances ==
  ASSUME Bounds, Files, job \in [Actors -> Jobs], MarkerOutlivesContent,
         NEW p \in Actors, Busy(p), Progress(p), Contents(p)
  PROVE  Advances(p)
<1>1. /\ job[p].step = "contents" /\ job[p].kind # "artifacts" /\ NoArtifacts /\ tree["review.git"] = "absent"
      /\ UNCHANGED <<marker, box, art, receipts, exit, sealed>>
  BY DEF Contents, At, Progress, Later
<1>2. CASE record' = FALSE /\ tree' = [tree EXCEPT !["workspace"] = "absent"] /\ Step(p, "box")
  <2>1. /\ job' \in [Actors -> Jobs] /\ job'[p] = [job[p] EXCEPT !.step = "box"]
        /\ \A q \in Actors \ {p} : job'[q] = job[q]
    BY <1>2, StepTells DEF JobPCs
  <2>2. job'[p].step = "box" /\ job'[p].kind = job[p].kind
    BY <2>1 DEF Jobs
  <2>3. Files' /\ NoTrees' /\ NoArtifacts'
    BY <1>1, <1>2 DEF Files, NoTrees, NoArtifacts, Dirs
  <2>4. Busy(p)' /\ Progress(p)'
    BY <1>1, <2>2, <2>3 DEF Busy, Progress, Sorting, Later
  <2> QED
    BY <1>1, <2>1, <2>2, <2>3, <2>4 DEF Advances, MarkerOutlivesContent, NoTrees
<1>3. CASE /\ record' \in {record, FALSE} /\ Step(p, "failed")
           /\ tree' \in {tree} \cup {[tree EXCEPT !["workspace"] = t] : t \in
                           IF tree["workspace"] = "absent" THEN {"absent"} ELSE {"partial", "blocked"}}
  <2>1. /\ job' \in [Actors -> Jobs] /\ job'[p] = [job[p] EXCEPT !.step = "failed"]
        /\ \A q \in Actors \ {p} : job'[q] = job[q]
    BY <1>3, StepTells DEF JobPCs
  <2>2. job'[p].step = "failed" /\ job'[p].kind = job[p].kind
    BY <2>1 DEF Jobs
  <2>3. tree' \in [Dirs -> {"absent", "whole", "partial", "blocked", "aside"}]
    BY <1>3 DEF Files
  <2>4. \A d \in Dirs : tree[d] = "absent" => tree'[d] = "absent"
    BY <1>3 DEF Files, Dirs
  <2>5. Files'
    BY <1>1, <1>3, <2>3 DEF Files
  <2>6. /\ (NoArtifacts => NoArtifacts') /\ (NoTrees => NoTrees') /\ MarkerOutlivesContent'
    BY <1>1, <2>4 DEF NoArtifacts, NoTrees, MarkerOutlivesContent
  <2>7. Busy(p)' /\ Progress(p)'
    BY <2>2 DEF Busy, Progress, Sorting, Later
  <2> QED
    BY <1>1, <2>1, <2>2, <2>5, <2>6, <2>7 DEF Advances
<1> QED
  BY <1>2, <1>3 DEF Contents

LEMMA BoxAdvances ==
  ASSUME Bounds, Files, job \in [Actors -> Jobs], MarkerOutlivesContent,
         NEW p \in Actors, Busy(p), Progress(p), Box(p)
  PROVE  Advances(p)
<1>1. Files' /\ exit' = exit
  BY DEF Box, At, Step, Files, Jobs, Progress, Sorting, files, Dirs
<1>2. job' \in [Actors -> Jobs] /\ (\A q \in Actors \ {p} : job'[q] = job[q]) /\ job'[p].kind = job[p].kind
  BY DEF Box, At, Step, Jobs, JobPCs, Kinds, Files
<1>3. Busy(p)'
  BY DEF Box, At, Step, Jobs, JobPCs, Busy
<1>4. Progress(p)'
  BY <1>2 DEF Box, At, Step, Progress, Busy, Sorting, Later, NoArtifacts, NoTrees, Jobs, JobPCs, Kinds, Files, files, Dirs
<1>5. (NoArtifacts => NoArtifacts') /\ (NoTrees => NoTrees')
  BY DEF Box, At, Step, NoArtifacts, NoTrees, Files, files, Dirs, Progress, Sorting
<1>6. MarkerOutlivesContent'
  BY DEF Box, At, Step, MarkerOutlivesContent, Progress, Sorting, NoTrees, Files, files, Dirs
<1> QED
  BY <1>1, <1>2, <1>3, <1>4, <1>5, <1>6 DEF Advances

LEMMA WorkspaceAdvances ==
  ASSUME Bounds, Files, job \in [Actors -> Jobs], MarkerOutlivesContent,
         NEW p \in Actors, Busy(p), Progress(p), Workspace(p)
  PROVE  Advances(p)
<1>1. Files' /\ exit' = exit
  BY DEF Workspace, EnterDirectory, EmptyDirectory, RemoveDirectory, Quarantined, At, Step, Files, Jobs, Progress, Sorting, files, Dirs
<1>2. job' \in [Actors -> Jobs] /\ (\A q \in Actors \ {p} : job'[q] = job[q]) /\ job'[p].kind = job[p].kind
  BY DEF Workspace, EnterDirectory, EmptyDirectory, RemoveDirectory, Quarantined, At, Step, Jobs, JobPCs, Kinds, Files
<1>3. Busy(p)'
  BY DEF Workspace, EnterDirectory, EmptyDirectory, RemoveDirectory, Quarantined, At, Step, Jobs, JobPCs, Busy
<1>4. Progress(p)'
  BY <1>2 DEF Workspace, EnterDirectory, EmptyDirectory, RemoveDirectory, Quarantined, At, Step, Progress, Busy, Sorting, Later, NoArtifacts, NoTrees, Jobs, JobPCs, Kinds, Files, files, Dirs
<1>5. (NoArtifacts => NoArtifacts') /\ (NoTrees => NoTrees')
  BY DEF Workspace, EnterDirectory, EmptyDirectory, RemoveDirectory, Quarantined, At, Step, NoArtifacts, NoTrees, Files, files, Dirs, Progress, Sorting
<1>6. MarkerOutlivesContent'
  BY DEF Workspace, EnterDirectory, EmptyDirectory, RemoveDirectory, Quarantined, At, Step, MarkerOutlivesContent, Progress, Sorting, NoTrees, Files, files, Dirs
<1> QED
  BY <1>1, <1>2, <1>3, <1>4, <1>5, <1>6 DEF Advances

LEMMA GitAdvances ==
  ASSUME Bounds, Files, job \in [Actors -> Jobs], MarkerOutlivesContent,
         NEW p \in Actors, Busy(p), Progress(p), Git(p)
  PROVE  Advances(p)
<1>1. Files' /\ exit' = exit
  BY DEF Git, EnterDirectory, EmptyDirectory, RemoveDirectory, Quarantined, At, Step, AfterGit, Files, Jobs, Progress, Sorting, files, Dirs
<1>2. job' \in [Actors -> Jobs] /\ (\A q \in Actors \ {p} : job'[q] = job[q]) /\ job'[p].kind = job[p].kind
  BY DEF Git, EnterDirectory, EmptyDirectory, RemoveDirectory, Quarantined, At, Step, AfterGit, Jobs, JobPCs, Kinds, Files
<1>3. Busy(p)'
  BY DEF Git, EnterDirectory, EmptyDirectory, RemoveDirectory, Quarantined, At, Step, AfterGit, Jobs, JobPCs, Busy
<1>4. Progress(p)'
  BY <1>2 DEF Git, EnterDirectory, EmptyDirectory, RemoveDirectory, Quarantined, At, Step, AfterGit, Progress, Busy, Sorting, Later, NoArtifacts, NoTrees, Jobs, JobPCs, Kinds, Files, files, Dirs
<1>5. (NoArtifacts => NoArtifacts') /\ (NoTrees => NoTrees')
  BY DEF Git, EnterDirectory, EmptyDirectory, RemoveDirectory, Quarantined, At, Step, AfterGit, NoArtifacts, NoTrees, Files, files, Dirs, Progress, Sorting
<1>6. MarkerOutlivesContent'
  BY DEF Git, EnterDirectory, EmptyDirectory, RemoveDirectory, Quarantined, At, Step, AfterGit, MarkerOutlivesContent, Progress, Sorting, NoTrees, Files, files, Dirs
<1> QED
  BY <1>1, <1>2, <1>3, <1>4, <1>5, <1>6 DEF Advances

LEMMA RemoveKeeps ==
  ASSUME Bounds, IInv, NEW p \in Actors, Remove(p)
  PROVE  IInv'
<1>1. Busy(p)
  BY DEF Remove, Active, Busy
<1>2. Files /\ job \in [Actors -> Jobs] /\ MarkerOutlivesContent /\ MayRemove(p) /\ Progress(p)
  BY <1>1 DEF IInv, Processes, JobTells
<1>3. Advances(p)
  BY <1>1, <1>2, ScanAdvances, PickAdvances, UnlinkAdvances, ReceiptAdvances, ContentsAdvances, BoxAdvances,
     WorkspaceAdvances, GitAdvances DEF Remove, Removing
<1>4. starter \in {"undo", "clean", "gone"} /\ ~RunnerLives
  BY <1>2 DEF Bounds, IInv, MayRemove, StarterTells, CommandTells, CommandOf, Settled, Actors
<1>5. Files' /\ Processes' /\ MarkerOutlivesContent'
  BY <1>3 DEF IInv, Advances, Processes, Remove, run, locks
<1>6. StarterTells'
  BY <1>4 DEF Remove, run, StarterTells, RunnerLives
<1>7. LockTells'
  BY DEF IInv, Remove, run, locks, LockTells, LockOf
<1>8. CommandTells'
  <2>1. /\ exit' = exit /\ cmd' = cmd /\ worker' = worker /\ keep' = keep /\ starter' = starter /\ (Settled <=> Settled')
    BY <1>3 DEF Advances, Remove, run, Settled, RunnerLives
  <2>2. (NoArtifacts => NoArtifacts') /\ (NoTrees => NoTrees')
    BY <1>3 DEF Advances
  <2> QED
    BY <2>1, <2>2 DEF IInv, CommandTells, CommandOf
<1>9. JobTells'
  <2>1. ASSUME NEW q \in Actors, Busy(q)', q # p PROVE FALSE
    <3>1. Busy(q)
      BY <2>1, <1>3 DEF Advances, Busy
    <3> QED
      BY <2>1, <3>1, <1>1, OneBusy
  <2>2. MayRemove(p)'
    BY <1>2, <1>3 DEF Advances, MayRemove, Remove, run
  <2> QED
    BY <1>3, <2>1, <2>2 DEF JobTells, Advances
<1> QED
  BY <1>5, <1>6, <1>7, <1>8, <1>9 DEF IInv

-----------------------------------------------------------------------------
(* The starter and the runner *)

LEMMA BeginTells ==
  ASSUME job \in [Actors -> Jobs], NEW p \in Actors, NEW kind \in Kinds, Begin(p, kind)
  PROVE  /\ job' \in [Actors -> Jobs] /\ job'[p].step = "scan" /\ job'[p].kind = kind
         /\ \A q \in Actors \ {p} : job'[q] = job[q]
         /\ Busy(p)' /\ Progress(p)'
<1>1. /\ job' = [job EXCEPT ![p] = [NoJob EXCEPT !.kind = kind, !.step = "scan"]]
      /\ [NoJob EXCEPT !.kind = kind, !.step = "scan"] \in Jobs
  BY DEF Begin, NoJob, Jobs, JobPCs
<1>2. job'[p].step = "scan" /\ job'[p].kind = kind
  BY <1>1 DEF NoJob
<1> QED
  BY <1>1, <1>2 DEF Busy, Progress, Sorting, Later

LEMMA IdleTells ==
  ASSUME job \in [Actors -> Jobs], NEW p \in Actors, job' = [job EXCEPT ![p] = NoJob]
  PROVE  job' \in [Actors -> Jobs] /\ ~Busy(p)' /\ \A q \in Actors \ {p} : job'[q] = job[q]
<1>1. NoJob \in Jobs /\ NoJob.step = "idle"
  BY DEF NoJob, Jobs, JobPCs, Kinds
<1> QED
  BY <1>1 DEF Busy

(* Before the starter is gone no command has come to the exit code. *)
LEMMA StarterCommands ==
  ASSUME IInv, starter # "gone", starter' # "create", starter = "create" \/ starter' # "accept",
         UNCHANGED <<keep, cmd, worker, exit>>
  PROVE  CommandTells'
<1>1. /\ exit # "lost"
      /\ \A c \in Commands : /\ cmd[c].pc \notin {"exit", "lock", "locked", "job", "poll"}
                             /\ worker[c] = "none" /\ (cmd[c].pc # "end" => cmd[c].code = "none")
                             /\ ~(cmd[c].code = "ok" /\ cmd[c].op # "status")
                             /\ cmd[c].pc = "probe" => starter \notin {"create", "accept"}
  BY DEF IInv, CommandTells, CommandOf, Settled
<1> QED
  BY <1>1 DEF CommandTells, CommandOf

LEMMA StarterAlone ==
  ASSUME Bounds, IInv, starter # "gone", \A q \in Actors \ {Starter} : job'[q] = job[q],
         Busy(Starter)' => starter' \in {"undo", "clean"} /\ Progress(Starter)'
  PROVE  JobTells'
<1>1. ASSUME NEW q \in Actors, Busy(q)', q # Starter
      PROVE  FALSE
  BY <1>1 DEF IInv, JobTells, MayRemove, CommandTells, CommandOf, Settled, Busy, Processes, Actors
<1> QED
  BY <1>1 DEF Bounds, JobTells, MayRemove, Actors

LEMMA NotBusy ==
  ASSUME Bounds, IInv, starter \notin {"undo", "clean", "gone"}
  PROVE  ~Busy(Starter)
BY DEF Bounds, IInv, JobTells, MayRemove, Actors

LEMMA CreateKeeps ==
  ASSUME Bounds, IInv, Create
  PROVE  IInv'
<1>1. starter # "gone" /\ ~Busy(Starter) /\ job \in [Actors -> Jobs] /\ Starter \in Actors
  BY NotBusy DEF Create, Starting, IInv, Processes, Actors
<1>2. /\ job' \in [Actors -> Jobs] /\ \A q \in Actors \ {Starter} : job'[q] = job[q]
      /\ Busy(Starter)' => starter' = "undo" /\ Progress(Starter)'
  BY <1>1 DEF Create, Starting, Busy
<1>3. Files'
  BY DEF Create, Starting, IInv, Files, files, Dirs
<1>4. Processes'
  BY <1>2 DEF Create, Starting, Undo, IInv, Processes, StarterPCs, RunnerPCs, locks, run
<1>5. StarterTells'
  BY DEF Create, Starting, Undo, IInv, Files, Processes, StarterTells, RunnerLives, NoArtifacts, NoTrees, AllArtifacts, AllTrees, files, Dirs
<1>6. LockTells'
  BY <1>1 DEF Create, Starting, Undo, Bounds, IInv, Processes, LockTells, LockOf, locks, Actors
<1>7. CommandTells'
  BY StarterCommands DEF Create, Starting, Undo, files
<1>8. JobTells'
  BY <1>1, <1>2, StarterAlone
<1>9. MarkerOutlivesContent'
  BY DEF Create, Starting, Undo, IInv, Files, StarterTells, MarkerOutlivesContent, NoTrees, files, Dirs
<1> QED
  BY <1>3, <1>4, <1>5, <1>6, <1>7, <1>8, <1>9 DEF IInv

LEMMA AcceptKeeps ==
  ASSUME Bounds, IInv, Accept
  PROVE  IInv'
<1>1. starter # "gone" /\ ~Busy(Starter) /\ job \in [Actors -> Jobs] /\ Starter \in Actors
  BY NotBusy DEF Accept, Starting, IInv, Processes, Actors
<1>2. /\ job' \in [Actors -> Jobs] /\ \A q \in Actors \ {Starter} : job'[q] = job[q]
      /\ Busy(Starter)' => starter' = "undo" /\ Progress(Starter)'
  <2>1. CASE UNCHANGED job
    BY <1>1, <2>1 DEF Busy
  <2>2. CASE starter' = "undo" /\ \E kind \in Kinds : Begin(Starter, kind)
    BY <1>1, <2>2, BeginTells
  <2> QED
    BY <2>1, <2>2 DEF Accept, Starting, Undo, Kinds
<1>3. Files'
  BY DEF Accept, Starting, IInv, Files, files, Dirs
<1>4. Processes'
  BY <1>2 DEF Accept, Starting, Undo, IInv, Processes, StarterPCs, RunnerPCs, locks, run
<1>5. StarterTells'
  BY DEF Accept, Starting, Undo, IInv, Files, Processes, StarterTells, RunnerLives, NoArtifacts, NoTrees, AllArtifacts, AllTrees, files, Dirs
<1>6. LockTells'
  BY <1>1 DEF Accept, Starting, Undo, Bounds, IInv, Processes, LockTells, LockOf, locks, Actors
<1>7. CommandTells'
  BY StarterCommands DEF Accept, Starting, Undo, files
<1>8. JobTells'
  BY <1>1, <1>2, StarterAlone
<1>9. MarkerOutlivesContent'
  BY DEF Accept, Starting, Undo, IInv, Files, StarterTells, MarkerOutlivesContent, NoTrees, files, Dirs
<1> QED
  BY <1>3, <1>4, <1>5, <1>6, <1>7, <1>8, <1>9 DEF IInv

LEMMA BuildKeeps ==
  ASSUME Bounds, IInv, Build
  PROVE  IInv'
<1>1. starter # "gone" /\ ~Busy(Starter) /\ job \in [Actors -> Jobs] /\ Starter \in Actors
  BY NotBusy DEF Build, IInv, Processes, Actors
<1>2. /\ job' \in [Actors -> Jobs] /\ \A q \in Actors \ {Starter} : job'[q] = job[q]
      /\ Busy(Starter)' => starter' = "undo" /\ Progress(Starter)'
  <2>1. CASE UNCHANGED job
    BY <1>1, <2>1 DEF Busy
  <2>2. CASE starter' = "undo" /\ \E kind \in Kinds : Begin(Starter, kind)
    BY <1>1, <2>2, BeginTells
  <2> QED
    BY <2>1, <2>2 DEF Build, Undo, Kinds
<1>3. Files'
  BY DEF Build, IInv, Files, files, Dirs
<1>4. Processes'
  BY <1>2 DEF Build, Undo, IInv, Processes, StarterPCs, RunnerPCs, locks, run
<1>5. StarterTells'
  BY DEF Build, Undo, IInv, Files, Processes, StarterTells, RunnerLives, NoArtifacts, NoTrees, AllArtifacts, AllTrees, files, Dirs
<1>6. LockTells'
  BY <1>1 DEF Build, Undo, Bounds, IInv, Processes, LockTells, LockOf, locks, Actors
<1>7. CommandTells'
  BY StarterCommands DEF Build, Undo, files
<1>8. JobTells'
  BY <1>1, <1>2, StarterAlone
<1>9. MarkerOutlivesContent'
  BY DEF Build, Undo, IInv, Files, StarterTells, MarkerOutlivesContent, NoTrees, files, Dirs
<1> QED
  BY <1>3, <1>4, <1>5, <1>6, <1>7, <1>8, <1>9 DEF IInv

LEMMA ReadyKeeps ==
  ASSUME Bounds, IInv, Ready
  PROVE  IInv'
<1>1. starter # "gone" /\ ~Busy(Starter) /\ job \in [Actors -> Jobs] /\ Starter \in Actors
  BY NotBusy DEF Ready, Starting, IInv, Processes, Actors
<1>2. /\ job' \in [Actors -> Jobs] /\ \A q \in Actors \ {Starter} : job'[q] = job[q]
      /\ Busy(Starter)' => starter' = "undo" /\ Progress(Starter)'
  <2>1. CASE UNCHANGED job
    BY <1>1, <2>1 DEF Busy
  <2>2. CASE starter' = "undo" /\ \E kind \in Kinds : Begin(Starter, kind)
    BY <1>1, <2>2, BeginTells
  <2> QED
    BY <2>1, <2>2 DEF Ready, Starting, Undo, Kinds
<1>3. Files'
  BY DEF Ready, Starting, IInv, Files, files, Dirs
<1>4. Processes'
  BY <1>2 DEF Ready, Starting, Undo, IInv, Processes, StarterPCs, RunnerPCs, locks, run
<1>5. StarterTells'
  BY DEF Ready, Starting, Undo, IInv, Files, Processes, StarterTells, RunnerLives, NoArtifacts, NoTrees, AllArtifacts, AllTrees, files, Dirs
<1>6. LockTells'
  BY <1>1 DEF Ready, Starting, Undo, Bounds, IInv, Processes, LockTells, LockOf, locks, Actors
<1>7. CommandTells'
  BY StarterCommands DEF Ready, Starting, Undo, files
<1>8. JobTells'
  BY <1>1, <1>2, StarterAlone
<1>9. MarkerOutlivesContent'
  BY DEF Ready, Starting, Undo, IInv, Files, StarterTells, MarkerOutlivesContent, NoTrees, files, Dirs
<1> QED
  BY <1>3, <1>4, <1>5, <1>6, <1>7, <1>8, <1>9 DEF IInv

LEMMA RecordKeeps ==
  ASSUME Bounds, IInv, Record
  PROVE  IInv'
<1>1. starter # "gone" /\ ~Busy(Starter) /\ job \in [Actors -> Jobs] /\ Starter \in Actors
  BY NotBusy DEF Record, Starting, IInv, Processes, Actors
<1>2. /\ job' \in [Actors -> Jobs] /\ \A q \in Actors \ {Starter} : job'[q] = job[q]
      /\ Busy(Starter)' => starter' = "undo" /\ Progress(Starter)'
  <2>1. CASE UNCHANGED job
    BY <1>1, <2>1 DEF Busy
  <2>2. CASE starter' = "undo" /\ \E kind \in Kinds : Begin(Starter, kind)
    BY <1>1, <2>2, BeginTells
  <2> QED
    BY <2>1, <2>2 DEF Record, Starting, Undo, Kinds
<1>3. Files'
  BY DEF Record, Starting, IInv, Files, files, Dirs
<1>4. Processes'
  BY <1>2 DEF Record, Starting, Undo, IInv, Processes, StarterPCs, RunnerPCs, locks, run
<1>5. StarterTells'
  BY DEF Record, Starting, Undo, IInv, Files, Processes, StarterTells, RunnerLives, NoArtifacts, NoTrees, AllArtifacts, AllTrees, files, Dirs
<1>6. LockTells'
  BY <1>1 DEF Record, Starting, Undo, Bounds, IInv, Processes, LockTells, LockOf, locks, Actors
<1>7. CommandTells'
  BY StarterCommands DEF Record, Starting, Undo, files
<1>8. JobTells'
  BY <1>1, <1>2, StarterAlone
<1>9. MarkerOutlivesContent'
  BY DEF Record, Starting, Undo, IInv, Files, StarterTells, MarkerOutlivesContent, NoTrees, files, Dirs
<1> QED
  BY <1>3, <1>4, <1>5, <1>6, <1>7, <1>8, <1>9 DEF IInv

LEMMA SpawnKeeps ==
  ASSUME Bounds, IInv, Spawn
  PROVE  IInv'
<1>1. starter # "gone" /\ ~Busy(Starter) /\ job \in [Actors -> Jobs] /\ Starter \in Actors
  BY NotBusy DEF Spawn, Starting, IInv, Processes, Actors
<1>2. /\ job' \in [Actors -> Jobs] /\ \A q \in Actors \ {Starter} : job'[q] = job[q]
      /\ Busy(Starter)' => starter' = "undo" /\ Progress(Starter)'
  <2>1. CASE UNCHANGED job
    BY <1>1, <2>1 DEF Busy
  <2>2. CASE starter' = "undo" /\ \E kind \in Kinds : Begin(Starter, kind)
    BY <1>1, <2>2, BeginTells
  <2> QED
    BY <2>1, <2>2 DEF Spawn, Starting, Undo, Kinds
<1>3. Files'
  BY DEF Spawn, Starting, IInv, Files, files, Dirs
<1>4. Processes'
  BY <1>2 DEF Spawn, Starting, Undo, IInv, Processes, StarterPCs, RunnerPCs, locks, run
<1>5. StarterTells'
  BY DEF Spawn, Starting, Undo, IInv, Files, Processes, StarterTells, RunnerLives, NoArtifacts, NoTrees, AllArtifacts, AllTrees, files, Dirs
<1>6. LockTells'
  BY <1>1 DEF Spawn, Starting, Undo, Bounds, IInv, Processes, LockTells, LockOf, locks, Actors
<1>7. CommandTells'
  BY StarterCommands DEF Spawn, Starting, Undo, files
<1>8. JobTells'
  BY <1>1, <1>2, StarterAlone
<1>9. MarkerOutlivesContent'
  BY DEF Spawn, Starting, Undo, IInv, Files, StarterTells, MarkerOutlivesContent, NoTrees, files, Dirs
<1> QED
  BY <1>3, <1>4, <1>5, <1>6, <1>7, <1>8, <1>9 DEF IInv

LEMMA PublishKeeps ==
  ASSUME Bounds, IInv, Publish
  PROVE  IInv'
<1>1. starter # "gone" /\ ~Busy(Starter) /\ job \in [Actors -> Jobs] /\ Starter \in Actors
  BY NotBusy DEF Publish, Starting, IInv, Processes, Actors
<1>2. /\ job' \in [Actors -> Jobs] /\ \A q \in Actors \ {Starter} : job'[q] = job[q]
      /\ Busy(Starter)' => starter' = "undo" /\ Progress(Starter)'
  <2>1. CASE UNCHANGED job
    BY <1>1, <2>1 DEF Busy
  <2>2. CASE starter' = "undo" /\ \E kind \in Kinds : Begin(Starter, kind)
    BY <1>1, <2>2, BeginTells
  <2> QED
    BY <2>1, <2>2 DEF Publish, Starting, Undo, Kinds
<1>3. Files'
  BY DEF Publish, Starting, IInv, Files, files, Dirs
<1>4. Processes'
  BY <1>2 DEF Publish, Starting, Undo, IInv, Processes, StarterPCs, RunnerPCs, locks, run
<1>5. StarterTells'
  BY DEF Publish, Starting, Undo, IInv, Files, Processes, StarterTells, RunnerLives, NoArtifacts, NoTrees, AllArtifacts, AllTrees, files, Dirs
<1>6. LockTells'
  BY <1>1 DEF Publish, Starting, Undo, Bounds, IInv, Processes, LockTells, LockOf, locks, Actors
<1>7. CommandTells'
  BY StarterCommands DEF Publish, Starting, Undo, files
<1>8. JobTells'
  BY <1>1, <1>2, StarterAlone
<1>9. MarkerOutlivesContent'
  BY DEF Publish, Starting, Undo, IInv, Files, StarterTells, MarkerOutlivesContent, NoTrees, files, Dirs
<1> QED
  BY <1>3, <1>4, <1>5, <1>6, <1>7, <1>8, <1>9 DEF IInv

(* The starter has taken everything back, or was killed. *)
LEMMA StarterLeaves ==
  ASSUME Bounds, IInv, starter # "gone", starter' = "gone", job' = [job EXCEPT ![Starter] = NoJob],
         lock' = IF lock = Starter THEN Nobody ELSE lock,
         UNCHANGED <<mode, keep, runner, files, fds, cmd, worker>>, kills' \in 0..MaxKills
  PROVE  IInv'
<1>1. /\ job' \in [Actors -> Jobs] /\ ~Busy(Starter)' /\ \A q \in Actors \ {Starter} : job'[q] = job[q]
  BY IdleTells DEF IInv, Processes, Actors
<1>2. Files' /\ Processes' /\ MarkerOutlivesContent'
  BY <1>1 DEF IInv, Files, Processes, MarkerOutlivesContent, StarterPCs, files, Actors
<1>3. StarterTells'
  BY DEF IInv, StarterTells, RunnerLives, AllArtifacts, AllTrees, files
<1>4. LockTells'
  <2>1. \A c \in Commands : lock' = c <=> lock = c
    BY DEF Bounds, Actors
  <2> QED
    BY <2>1 DEF Bounds, IInv, LockTells, LockOf, Actors
<1>5. CommandTells'
  BY StarterCommands DEF files
<1>6. JobTells'
  BY <1>1, StarterAlone
<1> QED
  BY <1>2, <1>3, <1>4, <1>5, <1>6 DEF IInv

LEMMA UndoEndsKeeps ==
  ASSUME Bounds, IInv, UndoEnds
  PROVE  IInv'
<1>1. lock # Starter
  BY DEF IInv, LockTells, LockOf, UndoEnds, Starting
<1> QED
  BY <1>1, StarterLeaves DEF UndoEnds, Starting, Over, IInv, Processes, locks

LEMMA StarterDiesKeeps ==
  ASSUME Bounds, IInv, StarterDies
  PROVE  IInv'
BY StarterLeaves DEF StarterDies, Kill, Bounds, IInv, Processes

LEMMA ForegroundKeeps ==
  ASSUME Bounds, IInv, Foreground
  PROVE  IInv'
<1> USE DEF Foreground, Starting
<1>1. ASSUME starter = "review", starter' = "lock", UNCHANGED <<lock, job>>
      PROVE  IInv'
  <2>1. starter # "gone" /\ ~Busy(Starter)
    BY <1>1, NotBusy
  <2>2. Files' /\ Processes' /\ MarkerOutlivesContent' /\ StarterTells' /\ LockTells'
    BY <1>1 DEF IInv, Files, Processes, MarkerOutlivesContent, StarterPCs, files, StarterTells, LockTells, LockOf,
       RunnerLives, AllArtifacts, AllTrees
  <2>3. CommandTells'
    BY <1>1, StarterCommands DEF files
  <2>4. JobTells'
    BY <1>1, <2>1, StarterAlone DEF Busy
  <2> QED
    BY <2>2, <2>3, <2>4 DEF IInv
<1>2. ASSUME starter = "lock", starter' = "clean", lock = Nobody, lock' = Starter,
             \E kind \in Kinds : Begin(Starter, kind)
      PROVE  IInv'
  <2>1. PICK kind \in Kinds : Begin(Starter, kind)
    BY <1>2
  <2>2. /\ job' \in [Actors -> Jobs] /\ Progress(Starter)'
        /\ \A q \in Actors \ {Starter} : job'[q] = job[q]
    BY <2>1, BeginTells DEF IInv, Processes, Actors
  <2>3. Files' /\ Processes' /\ MarkerOutlivesContent' /\ StarterTells'
    BY <1>2, <2>2 DEF IInv, Files, Processes, MarkerOutlivesContent, StarterPCs, files, StarterTells,
       RunnerLives, AllArtifacts, AllTrees, Actors
  <2>4. LockTells'
    BY <1>2 DEF Bounds, IInv, LockTells, LockOf, Actors
  <2>5. CommandTells'
    BY <1>2, StarterCommands DEF files
  <2>6. JobTells'
    BY <1>2, <2>2, StarterAlone
  <2> QED
    BY <2>3, <2>4, <2>5, <2>6 DEF IInv
<1>3. ASSUME starter = "lock", starter' = "gone", UNCHANGED <<lock, job>>
      PROVE  IInv'
  <2>1. starter # "gone" /\ ~Busy(Starter) /\ lock # Starter
    BY <1>3, NotBusy DEF IInv, LockTells, LockOf
  <2>2. Files' /\ Processes' /\ MarkerOutlivesContent' /\ StarterTells' /\ LockTells'
    BY <1>3, <2>1 DEF IInv, Files, Processes, MarkerOutlivesContent, StarterPCs, files, StarterTells, LockTells, LockOf,
       RunnerLives, AllArtifacts, AllTrees
  <2>3. CommandTells'
    BY <1>3, StarterCommands DEF files
  <2>4. JobTells'
    BY <1>3, <2>1, StarterAlone DEF Busy
  <2> QED
    BY <2>2, <2>3, <2>4 DEF IInv
<1>4. ASSUME starter = "clean", starter' = "gone", Over(Starter), lock' = Nobody
      PROVE  IInv'
  <2>1. lock = Starter
    BY <1>4 DEF IInv, LockTells, LockOf
  <2> QED
    BY <1>4, <2>1, StarterLeaves DEF Over, IInv, Processes
<1> QED
  BY <1>1, <1>2, <1>3, <1>4 DEF Kinds

LEMMA StarterKeeps ==
  ASSUME Bounds, IInv, StarterSteps
  PROVE  IInv'
BY CreateKeeps, AcceptKeeps, BuildKeeps, ReadyKeeps, RecordKeeps, SpawnKeeps, PublishKeeps, UndoEndsKeeps,
   ForegroundKeeps DEF StarterSteps

(* The runner's steps, and its death: what it reviews is not touched. *)
LEMMA RunnerKeeps ==
  ASSUME Bounds, IInv, RunnerSteps \/ RunnerDies
  PROVE  IInv'
<1> USE DEF RunnerSteps, RunnerDies
<1>1. /\ RunnerLives /\ runner' \in RunnerPCs \ {"none"} /\ exit' \in {"ran", exit} /\ sealed' \in BOOLEAN
      /\ kills' \in 0..MaxKills
      /\ UNCHANGED <<mode, keep, starter, marker, record, box, art, receipts, tree, locks, cmd, worker, job>>
  BY DEF Kill, RunnerLives, RunnerPCs, Bounds, IInv, Processes, Files, files
<1>2. starter # "create" /\ starter # "accept" /\ starter \in {"publish", "gone"} /\ ~Settled
  BY <1>1 DEF IInv, StarterTells, Settled
<1>3. Files' /\ Processes' /\ MarkerOutlivesContent' /\ LockTells'
  BY <1>1 DEF IInv, Files, Processes, MarkerOutlivesContent, LockTells, LockOf, locks
<1>4. StarterTells'
  BY <1>1, <1>2 DEF IInv, StarterTells, RunnerLives, AllArtifacts, AllTrees
<1>5. CommandTells'
  <2>1. /\ exit # "lost"
        /\ \A c \in Commands : /\ cmd[c].pc \notin {"exit", "lock", "locked", "job", "poll"}
                               /\ worker[c] = "none" /\ (cmd[c].pc # "end" => cmd[c].code = "none")
                               /\ ~(cmd[c].code = "ok" /\ cmd[c].op # "status")
    BY <1>2 DEF IInv, CommandTells, CommandOf
  <2> QED
    BY <1>1, <1>2, <2>1 DEF CommandTells, CommandOf
<1>6. JobTells'
  <2>1. \A q \in Actors : ~Busy(q)
    BY <1>2 DEF Bounds, IInv, JobTells, MayRemove, CommandTells, CommandOf, Processes, Actors
  <2> QED
    BY <1>1, <2>1 DEF JobTells, Busy
<1> QED
  BY <1>3, <1>4, <1>5, <1>6 DEF IInv

-----------------------------------------------------------------------------
(* Commands *)

(* A command comes to a step, its operation as it was. *)
Turn(c, pc, code) ==
  /\ cmd' \in [Commands -> Calls] /\ \A d \in Commands \ {c} : cmd'[d] = cmd[d]
  /\ cmd'[c].pc = pc /\ cmd'[c].op = cmd[c].op /\ cmd'[c].code = code

LEMMA GoTells ==
  ASSUME cmd \in [Commands -> Calls], NEW c \in Commands, NEW p \in CommandPCs, Go(c, p)
  PROVE  Turn(c, p, cmd[c].code)
<1>1. cmd[c] \in Calls /\ cmd' = [cmd EXCEPT ![c] = [cmd[c] EXCEPT !.pc = p]]
  BY DEF Go
<1>2. [cmd[c] EXCEPT !.pc = p] \in Calls
  BY <1>1 DEF Calls
<1> QED
  BY <1>1, <1>2 DEF Turn, Calls

LEMMA EndingTells ==
  ASSUME cmd \in [Commands -> Calls], NEW c \in Commands, NEW code \in Codes,
         NEW a \in {"none", "pending", "sealed", "unsealed"}, Ending(c, code, a)
  PROVE  Turn(c, "end", code)
<1> DEFINE v == [cmd[c] EXCEPT !.pc = "end", !.timed = TRUE, !.saw = FALSE, !.code = code, !.answer = a]
<1>1. cmd[c] \in Calls /\ cmd' = [cmd EXCEPT ![c] = v]
  BY DEF Ending
<1>2. v \in Calls /\ v.pc = "end" /\ v.op = cmd[c].op /\ v.code = code
  BY <1>1 DEF Calls, CommandPCs
<1> HIDE DEF v
<1> QED
  BY <1>1, <1>2 DEF Turn

LEMMA EndTells ==
  ASSUME cmd \in [Commands -> Calls], NEW c \in Commands, NEW code \in Codes, End(c, code)
  PROVE  Turn(c, "end", code)
BY EndingTells DEF End, Calls

LEMMA AnswerTells ==
  ASSUME cmd \in [Commands -> Calls], NEW c \in Commands,
         NEW a \in {"none", "pending", "sealed", "unsealed"}, Answer(c, a)
  PROVE  Turn(c, "end", "ok")
BY EndingTells DEF Answer, Codes

(* What a command leaves alone is as it was. *)
LEMMA FilesStay ==
  ASSUME IInv, UNCHANGED <<run, marker, record, box, art, receipts, tree, sealed>>,
         exit' \in {"none", "ran", "lost"}
  PROVE  Files' /\ StarterTells' /\ MarkerOutlivesContent' /\ (Settled <=> Settled')
BY DEF IInv, Files, StarterTells, MarkerOutlivesContent, run, RunnerLives, NoArtifacts, NoTrees, AllArtifacts,
   AllTrees, Settled

LEMMA OthersStay ==
  ASSUME IInv, UNCHANGED <<run, art, tree>>, NEW d \in Commands, cmd'[d] = cmd[d], worker'[d] = worker[d]
  PROVE  CommandOf(d)'
BY DEF IInv, CommandTells, CommandOf, run, RunnerLives, NoArtifacts, NoTrees, Settled

LEMMA JobsStay ==
  ASSUME IInv, UNCHANGED <<run, art, tree>>, NEW q \in Actors, job'[q] = job[q],
         q \in Commands => cmd'[q].op = cmd[q].op /\ worker'[q] = worker[q] /\
                           (cmd[q].pc = "job" /\ worker[q] # "clean" => cmd'[q].pc = "job")
  PROVE  Busy(q)' => MayRemove(q)' /\ Progress(q)'
BY DEF IInv, JobTells, Busy, MayRemove, Progress, run, NoArtifacts, NoTrees

LEMMA IdleCommand ==
  ASSUME Bounds, IInv, NEW c \in Commands, cmd[c].pc # "job", worker[c] # "clean"
  PROVE  ~Busy(c)
BY DEF Bounds, IInv, JobTells, MayRemove, Actors

(* A command that shares no lock goes from one step to the next. *)
LEMMA MovesKeeps ==
  ASSUME Bounds, IInv, NEW c \in Commands, NEW pc \in CommandPCs, NEW code \in Codes, Turn(c, pc, code),
         cmd[c].pc \in {"load", "probe", "exit", "lock"}, pc \in {"load", "probe", "exit", "lock", "end"},
         pc \in {"exit", "lock"} => Settled, pc = "probe" => starter \notin {"create", "accept"},
         pc = "exit" => cmd[c].op # "cleanup",
         pc # "end" => code = cmd[c].code, code # "ok" \/ cmd[c].op = "status",
         exit' = exit \/ (exit' = "lost" /\ Settled),
         UNCHANGED <<run, marker, record, box, art, receipts, tree, sealed, locks, worker, job>>,
         kills' \in 0..MaxKills
  PROVE  IInv'
<1>1. Files' /\ StarterTells' /\ MarkerOutlivesContent' /\ (Settled <=> Settled')
  BY FilesStay DEF IInv, Files
<1>2. Processes'
  BY DEF Turn, IInv, Processes, run, locks
<1>3. worker[c] = "none" /\ fds[c] = {}
  BY DEF IInv, CommandTells, CommandOf, LockTells, LockOf, Processes
<1>4. LockTells'
  <2>1. LockOf(c)'
    BY <1>3 DEF IInv, LockTells, LockOf, Turn, locks
  <2>2. \A d \in Commands \ {c} : LockOf(d)'
    BY DEF IInv, LockTells, LockOf, Turn, locks
  <2> QED
    BY <2>1, <2>2 DEF IInv, LockTells, run, locks
<1>5. CommandTells'
  <2>1. CommandOf(c)'
    BY <1>1, <1>3 DEF IInv, CommandTells, CommandOf, Turn, run, NoArtifacts, NoTrees
  <2>2. \A d \in Commands \ {c} : CommandOf(d)'
    BY OthersStay DEF Turn
  <2> QED
    BY <1>1, <2>1, <2>2 DEF IInv, CommandTells
<1>6. JobTells'
  BY JobsStay DEF JobTells, Turn
<1> QED
  BY <1>1, <1>2, <1>4, <1>5, <1>6 DEF IInv

(* A command that nobody shares a lock with gives it back and ends. *)
LEMMA UnlocksKeeps ==
  ASSUME Bounds, IInv, NEW c \in Commands, NEW code \in Codes, Turn(c, "end", code),
         cmd[c].pc \in {"locked", "job"},
         fds' = [fds EXCEPT ![c] = {}], lock' = Nobody,
         job' = [job EXCEPT ![c] = NoJob] \/ (job' = job /\ ~Busy(c)),
         code = "ok" => NoArtifacts /\ (~keep \/ cmd[c].op = "cleanup" => NoTrees),
         exit' = exit \/ exit' = "lost",
         UNCHANGED <<run, marker, record, box, art, receipts, tree, sealed, worker>>,
         kills' \in 0..MaxKills
  PROVE  IInv'
<1>1. Files' /\ StarterTells' /\ MarkerOutlivesContent' /\ (Settled <=> Settled') /\ Settled
  BY FilesStay DEF IInv, Files, CommandTells, CommandOf
<1>2. /\ worker[c] = "none" /\ lock = c /\ fds[c] = {"self"}
  BY DEF IInv, CommandTells, CommandOf, LockTells, LockOf, Processes
<1>3. /\ job' \in [Actors -> Jobs] /\ ~Busy(c)' /\ \A q \in Actors \ {c} : job'[q] = job[q]
  BY IdleTells DEF IInv, Processes, Actors, Busy
<1>4. Processes'
  BY <1>3 DEF Turn, IInv, Processes, run, Actors
<1>5. LockTells'
  <2>1. LockOf(c)'
    BY <1>2 DEF Bounds, IInv, Processes, LockOf, Turn, Actors
  <2>2. \A d \in Commands \ {c} : LockOf(d)'
    BY <1>2 DEF Bounds, IInv, Processes, LockTells, LockOf, Turn, Actors
  <2> QED
    BY <1>2, <2>1, <2>2 DEF Bounds, IInv, LockTells, run, Actors
<1>6. CommandTells'
  <2>1. CommandOf(c)'
    BY <1>1, <1>2 DEF IInv, CommandTells, CommandOf, Turn, run, NoArtifacts, NoTrees
  <2>2. \A d \in Commands \ {c} : CommandOf(d)'
    BY OthersStay DEF Turn
  <2> QED
    BY <1>1, <2>1, <2>2 DEF IInv, CommandTells
<1>7. JobTells'
  <2>1. \A q \in Actors \ {c} : Busy(q)' => MayRemove(q)' /\ Progress(q)'
    BY <1>3, JobsStay DEF Turn
  <2> QED
    BY <1>3, <2>1 DEF JobTells
<1> QED
  BY <1>1, <1>4, <1>5, <1>6, <1>7 DEF IInv

LEMMA CallKeeps ==
  ASSUME Bounds, IInv, NEW c \in Commands, Call(c)
  PROVE  IInv'
<1>1. PICK op \in {"status", "wait", "cleanup"}, timed \in BOOLEAN :
             cmd' = [cmd EXCEPT ![c].pc = "load", ![c].op = op, ![c].timed = timed]
  BY DEF Call
<1>2. /\ cmd[c] \in Calls
      /\ cmd' = [cmd EXCEPT ![c] = [cmd[c] EXCEPT !.pc = "load", !.op = op, !.timed = timed]]
  BY <1>1 DEF IInv, Processes
<1>3. /\ cmd' \in [Commands -> Calls] /\ \A d \in Commands \ {c} : cmd'[d] = cmd[d]
      /\ cmd'[c].pc = "load" /\ cmd'[c].code = cmd[c].code
  <2>1. [cmd[c] EXCEPT !.pc = "load", !.op = op, !.timed = timed] \in Calls
    BY <1>2 DEF Calls, CommandPCs
  <2> QED
    BY <1>2, <2>1 DEF IInv, Processes, Calls
<1>4. Files' /\ StarterTells' /\ MarkerOutlivesContent' /\ (Settled <=> Settled')
  BY FilesStay DEF Call, IInv, Files, files
<1>5. worker[c] = "none" /\ fds[c] = {} /\ cmd[c].pc = "idle" /\ cmd[c].code = "none"
  BY DEF Call, Is, IInv, CommandTells, CommandOf, LockTells, LockOf, Processes
<1>6. Processes'
  BY <1>3 DEF Call, IInv, Processes, run, locks
<1>7. LockTells'
  <2>1. LockOf(c)'
    BY <1>3, <1>5 DEF Call, IInv, LockTells, LockOf, locks
  <2>2. \A d \in Commands \ {c} : LockOf(d)'
    BY <1>3 DEF Call, IInv, LockTells, LockOf, locks
  <2> QED
    BY <2>1, <2>2 DEF Call, IInv, LockTells, run, locks
<1>8. CommandTells'
  <2>1. CommandOf(c)'
    BY <1>3, <1>5 DEF Call, CommandOf
  <2>2. \A d \in Commands \ {c} : CommandOf(d)'
    BY <1>3, OthersStay DEF Call, files
  <2> QED
    BY <1>4, <2>1, <2>2 DEF Call, IInv, CommandTells, files
<1>9. JobTells'
  <2>1. ~Busy(c)'
    BY <1>5, IdleCommand DEF Call, Busy
  <2>2. \A q \in Actors \ {c} : Busy(q)' => MayRemove(q)' /\ Progress(q)'
    BY <1>3, JobsStay DEF Call, files
  <2> QED
    BY <2>1, <2>2 DEF JobTells
<1> QED
  BY <1>4, <1>6, <1>7, <1>8, <1>9 DEF IInv

LEMMA LoadKeeps ==
  ASSUME Bounds, IInv, NEW c \in Commands, Load(c)
  PROVE  IInv'
<1>1. cmd \in [Commands -> Calls] /\ cmd[c] \in Calls /\ cmd[c].pc = "load" /\ cmd[c].code = "none" /\ kills \in 0..MaxKills
  BY DEF Load, Is, IInv, Processes, CommandTells, CommandOf
<1>2. CASE box = "present" /\ marker # "none" /\ (record \/ Forced(c))
  <2>1. cmd' = [cmd EXCEPT ![c] = [cmd[c] EXCEPT !.pc = "probe", !.saw = sealed]]
    BY <1>2 DEF Load
  <2>2. [cmd[c] EXCEPT !.pc = "probe", !.saw = sealed] \in Calls
    BY <1>1 DEF Calls, CommandPCs, IInv, Files
  <2>3. Turn(c, "probe", "none")
    BY <1>1, <2>1, <2>2 DEF Turn, Calls
  <2>4. starter \notin {"create", "accept"}
    BY <1>2 DEF IInv, StarterTells
  <2> QED
    BY <1>1, <2>3, <2>4, MovesKeeps DEF Load, CommandPCs, Codes, files
<1>3. CASE ~(box = "present" /\ marker # "none" /\ (record \/ Forced(c)))
  <2>1. Turn(c, "end", "error")
    BY <1>1, <1>3, EndTells DEF Load, Codes
  <2> QED
    BY <1>1, <2>1, MovesKeeps DEF Load, CommandPCs, Codes, files
<1> QED
  BY <1>2, <1>3

LEMMA ProbeKeeps ==
  ASSUME Bounds, IInv, NEW c \in Commands, Probe(c)
  PROVE  IInv'
<1>1. /\ cmd \in [Commands -> Calls] /\ cmd[c] \in Calls /\ cmd[c].pc = "probe" /\ cmd[c].code = "none"
      /\ kills \in 0..MaxKills /\ starter \notin {"create", "accept"}
      /\ UNCHANGED <<run, files, locks, worker, job, kills>>
  BY DEF Probe, Is, IInv, Processes, CommandTells, CommandOf
<1>2. ASSUME NEW code \in {"error", "running", "late"}, End(c, code)
      PROVE  IInv'
  <2>1. Turn(c, "end", code)
    BY <1>1, <1>2, EndTells DEF Codes
  <2> QED
    BY <1>1, <2>1, MovesKeeps DEF CommandPCs, Codes, files
<1>3. ASSUME ~RunnerLockHeld, Go(c, IF Forced(c) THEN "lock" ELSE "exit")
      PROVE  IInv'
  <2> DEFINE pc == IF Forced(c) THEN "lock" ELSE "exit"
  <2>1. Turn(c, pc, "none")
    BY <1>1, <1>3, GoTells DEF CommandPCs
  <2>2. Settled
    BY <1>1, <1>3 DEF RunnerLockHeld, Settled, IInv, Processes, StarterPCs
  <2>3. pc = "exit" => cmd[c].op # "cleanup"
    BY DEF Forced
  <2>4. pc \in {"exit", "lock"}
    OBVIOUS
  <2> HIDE DEF pc
  <2> QED
    BY <1>1, <2>1, <2>2, <2>3, <2>4, MovesKeeps DEF CommandPCs, Codes, files
<1>4. ASSUME cmd[c].op = "status", Answer(c, "pending")
      PROVE  IInv'
  <2>1. Turn(c, "end", "ok")
    BY <1>1, <1>4, AnswerTells
  <2> QED
    BY <1>1, <1>4, <2>1, MovesKeeps DEF CommandPCs, Codes, files
<1>5. ASSUME Go(c, "load")
      PROVE  IInv'
  <2>1. Turn(c, "load", "none")
    BY <1>1, <1>5, GoTells DEF CommandPCs
  <2> QED
    BY <1>1, <2>1, MovesKeeps DEF CommandPCs, Codes, files
<1> QED
  BY <1>2, <1>3, <1>4, <1>5 DEF Probe, Late

LEMMA ExitKeeps ==
  ASSUME Bounds, IInv, NEW c \in Commands, Exit(c)
  PROVE  IInv'
<1>1. /\ cmd \in [Commands -> Calls] /\ cmd[c] \in Calls /\ cmd[c].pc = "exit" /\ cmd[c].code = "none"
      /\ kills \in 0..MaxKills /\ Settled /\ cmd[c].op # "cleanup"
      /\ UNCHANGED <<run, marker, record, box, art, receipts, tree, sealed, locks, worker, job, kills>>
      /\ exit' \in {exit, "lost"}
  BY DEF Exit, Is, IInv, Processes, CommandTells, CommandOf
<1>2. ASSUME End(c, "error")
      PROVE  IInv'
  <2>1. Turn(c, "end", "error")
    BY <1>1, <1>2, EndTells DEF Codes
  <2> QED
    BY <1>1, <2>1, MovesKeeps DEF CommandPCs, Codes
<1>3. ASSUME Go(c, "lock")
      PROVE  IInv'
  <2>1. Turn(c, "lock", "none")
    BY <1>1, <1>3, GoTells DEF CommandPCs
  <2> QED
    BY <1>1, <2>1, MovesKeeps DEF CommandPCs, Codes
<1>4. ASSUME cmd[c].op # "wait", Answer(c, IF cmd[c].saw THEN "sealed" ELSE "unsealed")
      PROVE  IInv'
  <2>1. Turn(c, "end", "ok")
    BY <1>1, <1>4, AnswerTells
  <2>2. cmd[c].op = "status"
    BY <1>1, <1>4 DEF Calls
  <2> QED
    BY <1>1, <2>1, <2>2, MovesKeeps DEF CommandPCs, Codes
<1> QED
  BY <1>2, <1>3, <1>4 DEF Exit

LEMMA AcquireKeeps ==
  ASSUME Bounds, IInv, NEW c \in Commands, Acquire(c)
  PROVE  IInv'
<1>1. /\ cmd \in [Commands -> Calls] /\ cmd[c] \in Calls /\ cmd[c].pc = "lock" /\ cmd[c].code = "none"
      /\ kills \in 0..MaxKills /\ Settled /\ worker[c] = "none" /\ fds[c] = {}
      /\ UNCHANGED <<run, files, worker, job, kills>>
  BY DEF Acquire, Is, IInv, Processes, CommandTells, CommandOf, LockTells, LockOf
<1>2. ASSUME NEW code \in {"late", "error"}, End(c, code), UNCHANGED locks
      PROVE  IInv'
  <2>1. Turn(c, "end", code)
    BY <1>1, <1>2, EndTells DEF Codes
  <2> QED
    BY <1>1, <1>2, <2>1, MovesKeeps DEF CommandPCs, Codes, files
<1>3. ASSUME lock = Nobody, Go(c, "locked"), lock' = c, fds' = [fds EXCEPT ![c] = {"self"}]
      PROVE  IInv'
  <2>1. Turn(c, "locked", "none")
    BY <1>1, <1>3, GoTells DEF CommandPCs
  <2>2. Files' /\ StarterTells' /\ MarkerOutlivesContent' /\ (Settled <=> Settled')
    BY <1>1, FilesStay DEF IInv, Files, files
  <2>3. Processes'
    BY <1>1, <1>3, <2>1 DEF Turn, IInv, Processes, run, Actors
  <2>4. LockTells'
    <3>1. LockOf(c)'
      BY <1>1, <1>3, <2>1 DEF IInv, Processes, LockOf, Turn
    <3>2. \A d \in Commands \ {c} : LockOf(d)'
      BY <1>1, <1>3, <2>1 DEF Bounds, IInv, Processes, LockTells, LockOf, Turn, Actors
    <3> QED
      BY <1>1, <1>3, <3>1, <3>2 DEF Bounds, IInv, LockTells, run, Actors
  <2>5. CommandTells'
    <3>1. CommandOf(c)'
      BY <1>1, <2>1, <2>2 DEF CommandOf, Turn
    <3>2. \A d \in Commands \ {c} : CommandOf(d)'
      BY <1>1, <2>1, OthersStay DEF Turn, files
    <3> QED
      BY <1>1, <2>2, <3>1, <3>2 DEF IInv, CommandTells, files
  <2>6. JobTells'
    <3>1. ~Busy(c)'
      BY <1>1, IdleCommand DEF Busy
    <3>2. \A q \in Actors \ {c} : Busy(q)' => MayRemove(q)' /\ Progress(q)'
      BY <1>1, <2>1, JobsStay DEF Turn, files
    <3> QED
      BY <3>1, <3>2 DEF JobTells
  <2> QED
    BY <2>2, <2>3, <2>4, <2>5, <2>6 DEF IInv
<1> QED
  BY <1>2, <1>3 DEF Acquire, Late

(* _cleanup_terminal_workspace, holding the lock. *)
LEMMA CleanKeeps ==
  ASSUME Bounds, IInv, NEW c \in Commands, Clean(c)
  PROVE  IInv'
<1>1. /\ cmd \in [Commands -> Calls] /\ cmd[c] \in Calls /\ cmd[c].pc = "locked" /\ cmd[c].code = "none"
      /\ kills \in 0..MaxKills /\ Settled /\ worker[c] = "none" /\ fds[c] = {"self"} /\ lock = c /\ ~Busy(c)
      /\ UNCHANGED <<run, marker, record, box, art, receipts, tree, sealed, kills>>
  BY IdleCommand DEF Clean, Is, IInv, Processes, CommandTells, CommandOf, LockTells, LockOf
<1>2. ASSUME NEW code \in {"late", "error", "running", "failed"}, End(c, code), Unlock(c),
             exit' \in {exit, "lost"}, UNCHANGED <<worker, job>>
      PROVE  IInv'
  <2>1. Turn(c, "end", code)
    BY <1>1, <1>2, EndTells DEF Codes
  <2>2. fds' = [fds EXCEPT ![c] = {}] /\ lock' = Nobody
    BY <1>1, <1>2 DEF Unlock, IInv, Processes
  <2> QED
    BY <1>1, <1>2, <2>1, <2>2, UnlocksKeeps DEF Codes
<1>3. ASSUME NEW kind \in Kinds, Begin(c, kind), Go(c, "job"), exit' \in {exit, "lost"},
             kind = "artifacts" => keep /\ cmd[c].op # "cleanup", UNCHANGED <<locks, worker>>
      PROVE  IInv'
  <2>1. Turn(c, "job", "none")
    BY <1>1, <1>3, GoTells DEF CommandPCs
  <2>2. Files' /\ StarterTells' /\ MarkerOutlivesContent' /\ (Settled <=> Settled')
    BY <1>1, <1>3, FilesStay DEF IInv, Files
  <2>3. /\ job' \in [Actors -> Jobs] /\ job'[c].kind = kind /\ Progress(c)'
        /\ \A q \in Actors \ {c} : job'[q] = job[q]
    BY <1>3, BeginTells DEF IInv, Processes, Actors
  <2>4. Processes'
    BY <1>1, <1>3, <2>1, <2>3 DEF Turn, IInv, Processes, run, locks
  <2>5. LockTells'
    <3>1. LockOf(c)'
      BY <1>1, <1>3, <2>1 DEF LockOf, Turn, locks
    <3>2. \A d \in Commands \ {c} : LockOf(d)'
      BY <1>1, <1>3, <2>1 DEF IInv, LockTells, LockOf, Turn, locks
    <3> QED
      BY <1>1, <1>3, <3>1, <3>2 DEF IInv, LockTells, run, locks
  <2>6. CommandTells'
    <3>1. CommandOf(c)'
      BY <1>1, <1>3, <2>1, <2>2 DEF CommandOf, Turn
    <3>2. \A d \in Commands \ {c} : CommandOf(d)'
      BY <1>1, <1>3, <2>1, OthersStay DEF Turn
    <3> QED
      BY <1>1, <1>3, <2>2, <3>1, <3>2 DEF IInv, CommandTells
  <2>7. JobTells'
    <3>1. MayRemove(c)'
      BY <1>1, <1>3, <2>1, <2>3 DEF Bounds, MayRemove, Turn, run, Actors
    <3>2. \A q \in Actors \ {c} : Busy(q)' => MayRemove(q)' /\ Progress(q)'
      BY <1>1, <1>3, <2>1, <2>3, JobsStay DEF Turn
    <3> QED
      BY <2>3, <3>1, <3>2 DEF JobTells
  <2> QED
    BY <2>2, <2>4, <2>5, <2>6, <2>7 DEF IInv
<1>4. ASSUME worker' = [worker EXCEPT ![c] = "check"], fds' = [fds EXCEPT ![c] = {"self", "worker"}],
             Go(c, "poll"), exit' \in {exit, "lost"}, ~keep \/ Forced(c), UNCHANGED <<lock, job>>
      PROVE  IInv'
  <2>1. Turn(c, "poll", "none")
    BY <1>1, <1>4, GoTells DEF CommandPCs
  <2>2. Files' /\ StarterTells' /\ MarkerOutlivesContent' /\ (Settled <=> Settled')
    BY <1>1, <1>4, FilesStay DEF IInv, Files
  <2>3. Processes'
    BY <1>1, <1>4, <2>1 DEF Turn, IInv, Processes, run, WorkerPCs
  <2>4. /\ worker'[c] = "check" /\ fds'[c] = {"self", "worker"}
        /\ \A d \in Commands \ {c} : worker'[d] = worker[d] /\ fds'[d] = fds[d]
    BY <1>4 DEF IInv, Processes
  <2>5. LockTells'
    <3>1. LockOf(c)'
      BY <1>1, <1>4, <2>1, <2>4 DEF LockOf, Turn
    <3>2. \A d \in Commands \ {c} : LockOf(d)'
      BY <1>1, <1>4, <2>1, <2>4 DEF IInv, LockTells, LockOf, Turn
    <3> QED
      BY <1>1, <1>4, <3>1, <3>2 DEF IInv, LockTells, run
  <2>6. CommandTells'
    <3>1. CommandOf(c)'
      BY <1>1, <1>4, <2>1, <2>2, <2>4 DEF CommandOf, Turn, Forced, run
    <3>2. \A d \in Commands \ {c} : CommandOf(d)'
      BY <1>1, <2>1, <2>4, OthersStay DEF Turn
    <3> QED
      BY <1>1, <1>4, <2>2, <3>1, <3>2 DEF IInv, CommandTells
  <2>7. JobTells'
    <3>1. ~Busy(c)'
      BY <1>1, <1>4 DEF Busy
    <3>2. \A q \in Actors \ {c} : Busy(q)' => MayRemove(q)' /\ Progress(q)'
      BY <1>1, <1>4, <2>1, <2>4, JobsStay DEF Turn
    <3> QED
      BY <3>1, <3>2 DEF JobTells
  <2> QED
    BY <2>2, <2>3, <2>5, <2>6, <2>7 DEF IInv
<1>5. ASSUME Refuse(c)
      PROVE  IInv'
  BY <1>2, <1>5 DEF Refuse
<1>6. ASSUME CleanUnrecorded(c)
      PROVE  IInv'
  BY <1>3, <1>6 DEF CleanUnrecorded, Kinds
<1>7. ASSUME CleanRecorded(c)
      PROVE  IInv'
  BY <1>2, <1>3, <1>4, <1>7 DEF CleanRecorded, Kinds, Late, Forced, locks
<1> QED
  BY <1>5, <1>6, <1>7 DEF Clean

LEMMA CleanedKeeps ==
  ASSUME Bounds, IInv, NEW c \in Commands, Cleaned(c)
  PROVE  IInv'
<1>1. /\ cmd \in [Commands -> Calls] /\ cmd[c] \in Calls /\ cmd[c].pc = "job" /\ kills \in 0..MaxKills
      /\ worker[c] = "none" /\ fds[c] = {"self"} /\ lock = c
      /\ UNCHANGED <<run, files, worker, kills>>
  BY DEF Cleaned, Is, IInv, Processes, CommandTells, CommandOf, LockTells, LockOf
<1>2. PICK code \in {"ok", "failed"} : End(c, code) /\ (code = "ok" <=> At(c, "done"))
  BY DEF Cleaned
<1>3. Turn(c, "end", code)
  BY <1>1, <1>2, EndTells DEF Codes
<1>4. fds' = [fds EXCEPT ![c] = {}] /\ lock' = Nobody /\ job' = [job EXCEPT ![c] = NoJob]
  BY <1>1 DEF Cleaned, Unlock, Over
<1>5. code = "ok" => NoArtifacts /\ (~keep \/ cmd[c].op = "cleanup" => NoTrees)
  BY <1>2 DEF At, IInv, JobTells, Busy, MayRemove, Progress, Later, Actors
<1> QED
  BY <1>1, <1>3, <1>4, <1>5, UnlocksKeeps DEF Codes, files

(* Closing one's copy of the lock's description. *)
LEMMA CloseTells ==
  ASSUME Bounds, IInv, NEW c \in Commands, NEW who \in fds[c], Close(c, who)
  PROVE  /\ fds' \in [Commands -> SUBSET {"self", "worker"}] /\ lock' \in Actors \cup {Nobody}
         /\ fds'[c] = fds[c] \ {who} /\ \A d \in Commands \ {c} : fds'[d] = fds[d]
         /\ lock' = c <=> fds'[c] # {}
         /\ \A d \in Commands \ {c} : lock' # d /\ fds[d] = {}
         /\ lock' # Starter /\ starter # "clean"
<1>1. fds \in [Commands -> SUBSET {"self", "worker"}] /\ lock = c
  BY DEF IInv, Processes, LockTells, LockOf
<1>2. fds' = [fds EXCEPT ![c] = fds[c] \ {who}] /\ lock' = IF fds'[c] = {} THEN Nobody ELSE c
  BY <1>1 DEF Close
<1>3. \A d \in Commands \ {c} : fds[d] = {}
  BY <1>1 DEF IInv, LockTells, LockOf
<1>4. starter # "clean" /\ c # Starter /\ Nobody # Starter /\ \A d \in Commands : Nobody # d
  BY <1>1 DEF Bounds, IInv, LockTells, Actors
<1> QED
  BY <1>1, <1>2, <1>3, <1>4 DEF Actors

LEMMA PollsKeeps ==
  ASSUME Bounds, IInv, NEW c \in Commands, NEW code \in Codes, Turn(c, "end", code), cmd[c].pc = "poll",
         Close(c, "self"), code = "ok" => worker[c] = "ok",
         UNCHANGED <<run, files, worker, job>>, kills' \in 0..MaxKills
  PROVE  IInv'
<1>1. "self" \in fds[c] /\ Settled /\ (worker[c] = "ok" => NoArtifacts /\ NoTrees)
  BY DEF IInv, CommandTells, CommandOf, LockTells, LockOf
<1>2. Files' /\ StarterTells' /\ MarkerOutlivesContent' /\ (Settled <=> Settled')
  BY FilesStay DEF IInv, Files, files
<1>3. Processes'
  BY <1>1, CloseTells DEF Turn, IInv, Processes, run
<1>4. LockTells'
  <2>1. LockOf(c)'
    BY <1>1, CloseTells DEF IInv, LockTells, LockOf, Turn
  <2>2. \A d \in Commands \ {c} : LockOf(d)'
    BY <1>1, CloseTells DEF IInv, LockTells, LockOf, Turn
  <2> QED
    BY <1>1, <2>1, <2>2, CloseTells DEF LockTells, run
<1>5. CommandTells'
  <2>1. CommandOf(c)'
    BY <1>1, <1>2 DEF IInv, CommandTells, CommandOf, Turn, run, files, NoArtifacts, NoTrees
  <2>2. \A d \in Commands \ {c} : CommandOf(d)'
    BY OthersStay DEF Turn, files
  <2> QED
    BY <1>2, <2>1, <2>2 DEF IInv, CommandTells, files
<1>6. JobTells'
  BY JobsStay DEF JobTells, Turn, files
<1> QED
  BY <1>2, <1>3, <1>4, <1>5, <1>6 DEF IInv

LEMMA PollKeeps ==
  ASSUME Bounds, IInv, NEW c \in Commands, Poll(c)
  PROVE  IInv'
<1>1. /\ cmd \in [Commands -> Calls] /\ cmd[c].pc = "poll" /\ kills \in 0..MaxKills
      /\ Close(c, "self") /\ UNCHANGED <<run, files, worker, job, kills>>
  BY DEF Poll, Is, IInv, Processes
<1>2. PICK code \in {"ok", "failed", "late"} : End(c, code) /\ (code = "ok" => worker[c] = "ok")
  BY DEF Poll, Late
<1>3. Turn(c, "end", code)
  BY <1>1, <1>2, EndTells DEF Codes
<1> QED
  BY <1>1, <1>2, <1>3, PollsKeeps DEF Codes

(* The cleaner ends, in whatever way. *)
LEMMA WorkerEndsKeeps ==
  ASSUME Bounds, IInv, NEW c \in Commands, NEW v \in {"ok", "failed", "killed"}, worker[c] \in {"check", "clean"},
         worker' = [worker EXCEPT ![c] = v], Close(c, "worker"),
         job' = [job EXCEPT ![c] = NoJob] \/ (job' = job /\ ~Busy(c)),
         v = "ok" => NoArtifacts /\ NoTrees,
         UNCHANGED <<run, files, cmd>>, kills' \in 0..MaxKills
  PROVE  IInv'
<1>1. /\ "worker" \in fds[c] /\ Settled /\ cmd[c].pc \in {"poll", "end"} /\ (~keep \/ cmd[c].op = "cleanup")
      /\ CommandOf(c)
  BY DEF IInv, CommandTells, CommandOf, LockTells, LockOf
<1>2. Files' /\ StarterTells' /\ MarkerOutlivesContent' /\ (Settled <=> Settled')
  BY FilesStay DEF IInv, Files, files
<1>3. /\ job' \in [Actors -> Jobs] /\ ~Busy(c)' /\ \A q \in Actors \ {c} : job'[q] = job[q]
  BY IdleTells DEF IInv, Processes, Actors, Busy
<1>4. worker' \in [Commands -> WorkerPCs] /\ worker'[c] = v /\ \A d \in Commands \ {c} : worker'[d] = worker[d]
  BY DEF IInv, Processes, WorkerPCs
<1>5. Processes'
  BY <1>1, <1>3, <1>4, CloseTells DEF IInv, Processes, run
<1>6. LockTells'
  <2>1. LockOf(c)'
    BY <1>1, <1>4, CloseTells DEF IInv, LockTells, LockOf
  <2>2. \A d \in Commands \ {c} : LockOf(d)'
    BY <1>1, <1>4, CloseTells DEF IInv, LockTells, LockOf
  <2> QED
    BY <1>1, <2>1, <2>2, CloseTells DEF LockTells, run
<1>7. CommandTells'
  <2>1. CommandOf(c)'
    BY <1>1, <1>2, <1>4 DEF CommandOf, run, files, NoArtifacts, NoTrees
  <2>2. \A d \in Commands \ {c} : CommandOf(d)'
    BY <1>4, OthersStay DEF files
  <2> QED
    BY <1>2, <2>1, <2>2 DEF IInv, CommandTells, files
<1>8. JobTells'
  <2>1. \A q \in Actors \ {c} : Busy(q)' => MayRemove(q)' /\ Progress(q)'
    BY <1>3, <1>4, JobsStay DEF files
  <2> QED
    BY <1>3, <2>1 DEF JobTells
<1> QED
  BY <1>2, <1>5, <1>6, <1>7, <1>8 DEF IInv

(* cleanup_worker.py *)
LEMMA WorkerKeeps ==
  ASSUME Bounds, IInv, NEW c \in Commands, WorkerSteps(c) \/ WorkerDies(c)
  PROVE  IInv'
<1>1. /\ worker[c] \in {"check", "clean"} /\ kills' \in 0..MaxKills /\ UNCHANGED <<run, files, cmd>>
  BY DEF WorkerSteps, WorkerDies, Kill, Bounds, IInv, Processes
<1>2. /\ "worker" \in fds[c] /\ Settled /\ cmd[c].pc \in {"poll", "end"} /\ (~keep \/ cmd[c].op = "cleanup")
  BY <1>1 DEF IInv, CommandTells, CommandOf, LockTells, LockOf
<1>3. ASSUME worker[c] = "check", worker' = [worker EXCEPT ![c] = "clean"], Begin(c, "retain"), UNCHANGED locks
      PROVE  IInv'
  <2>1. Files' /\ StarterTells' /\ MarkerOutlivesContent' /\ (Settled <=> Settled')
    BY <1>1, FilesStay DEF IInv, Files, files
  <2>2. /\ job' \in [Actors -> Jobs] /\ job'[c].kind = "retain" /\ Progress(c)'
        /\ \A q \in Actors \ {c} : job'[q] = job[q]
    BY <1>3, BeginTells DEF IInv, Processes, Actors, Kinds
  <2>3. worker' \in [Commands -> WorkerPCs] /\ worker'[c] = "clean" /\ \A d \in Commands \ {c} : worker'[d] = worker[d]
    BY <1>3 DEF IInv, Processes, WorkerPCs
  <2>4. Processes' /\ LockTells'
    BY <1>1, <1>3, <2>2, <2>3 DEF IInv, Processes, LockTells, LockOf, run, locks
  <2>5. CommandTells'
    <3>1. CommandOf(c)'
      BY <1>1, <1>2, <1>3, <2>1, <2>3 DEF IInv, CommandTells, CommandOf, run, files, NoArtifacts, NoTrees
    <3>2. \A d \in Commands \ {c} : CommandOf(d)'
      BY <1>1, <2>3, OthersStay DEF files
    <3> QED
      BY <1>1, <2>1, <3>1, <3>2 DEF IInv, CommandTells, files
  <2>6. JobTells'
    <3>1. MayRemove(c)'
      BY <2>2, <2>3 DEF Bounds, MayRemove, Actors
    <3>2. \A q \in Actors \ {c} : Busy(q)' => MayRemove(q)' /\ Progress(q)'
      BY <1>1, <2>2, <2>3, JobsStay DEF files
    <3> QED
      BY <2>2, <3>1, <3>2 DEF JobTells
  <2> QED
    BY <2>1, <2>4, <2>5, <2>6 DEF IInv
<1>4. ASSUME worker[c] = "check", worker' = [worker EXCEPT ![c] = "failed"], Close(c, "worker"), UNCHANGED job
      PROVE  IInv'
  <2>1. ~Busy(c)
    BY <1>2, <1>4, IdleCommand
  <2> QED
    BY <1>1, <1>4, <2>1, WorkerEndsKeeps
<1>5. ASSUME worker[c] = "clean", Over(c), Close(c, "worker"),
             worker' = [worker EXCEPT ![c] = IF At(c, "done") THEN "ok" ELSE "failed"]
      PROVE  IInv'
  <2>1. At(c, "done") => NoArtifacts /\ NoTrees
    BY <1>5 DEF At, IInv, JobTells, Busy, MayRemove, Progress, Later, Actors
  <2>2. job' = [job EXCEPT ![c] = NoJob]
    BY <1>5 DEF Over
  <2> QED
    BY <1>1, <1>5, <2>1, <2>2, WorkerEndsKeeps
<1>6. ASSUME WorkerDies(c)
      PROVE  IInv'
  BY <1>1, <1>6, WorkerEndsKeeps DEF WorkerDies
<1> QED
  BY <1>3, <1>4, <1>5, <1>6 DEF WorkerSteps

LEMMA CommandDiesKeeps ==
  ASSUME Bounds, IInv, NEW c \in Commands, CommandDies(c)
  PROVE  IInv'
<1>1. /\ cmd \in [Commands -> Calls] /\ cmd[c].pc \in CommandPCs \ {"idle", "end"} /\ kills' \in 0..MaxKills
      /\ UNCHANGED <<run, files, worker>> /\ End(c, "killed") /\ Close(c, "self")
      /\ job' = IF Is(c, "job") THEN [job EXCEPT ![c] = NoJob] ELSE job
  BY DEF CommandDies, Kill, Bounds, IInv, Processes, Calls
<1>2. Turn(c, "end", "killed")
  BY <1>1, EndTells DEF Codes
<1>3. CASE cmd[c].pc \in {"load", "probe", "exit", "lock"}
  <2>1. worker[c] = "none" /\ fds[c] = {} /\ lock # c
    BY <1>3 DEF IInv, CommandTells, CommandOf, LockTells, LockOf, Processes
  <2>2. UNCHANGED locks /\ job' = job
    BY <1>1, <1>3, <2>1 DEF Close, Is, locks, IInv, Processes
  <2> QED
    BY <1>1, <1>2, <1>3, <2>2, MovesKeeps DEF Codes, CommandPCs, files
<1>4. CASE cmd[c].pc \in {"locked", "job"}
  <2>1. worker[c] = "none" /\ fds[c] = {"self"} /\ lock = c
    BY <1>4 DEF IInv, CommandTells, CommandOf, LockTells, LockOf, Processes
  <2>2. fds' = [fds EXCEPT ![c] = {}] /\ lock' = Nobody
    BY <1>1, <2>1 DEF Close, IInv, Processes
  <2>3. cmd[c].pc = "locked" => ~Busy(c)
    BY <2>1, IdleCommand
  <2> QED
    BY <1>1, <1>2, <1>4, <2>2, <2>3, UnlocksKeeps DEF Codes, Is, files
<1>5. CASE cmd[c].pc = "poll"
  BY <1>1, <1>2, <1>5, PollsKeeps DEF Codes, Is
<1> QED
  BY <1>1, <1>3, <1>4, <1>5 DEF CommandPCs

-----------------------------------------------------------------------------
LEMMA StepKeeps ==
  ASSUME Bounds, IInv, [Next]_vars
  PROVE  IInv'
<1>1. CASE UNCHANGED vars
  <2>1. UNCHANGED <<run, marker, record, box, art, receipts, tree, exit, sealed, lock, fds, cmd, worker, job, kills>>
    BY <1>1 DEF vars, files, locks
  <2>2. Files' /\ StarterTells' /\ MarkerOutlivesContent' /\ (Settled <=> Settled')
    BY <2>1, FilesStay DEF IInv, Files
  <2>3. Processes' /\ LockTells'
    BY <2>1 DEF IInv, Processes, LockTells, LockOf, run
  <2>4. CommandTells'
    BY <2>1, <2>2, OthersStay DEF IInv, CommandTells
  <2>5. JobTells'
    BY <2>1, JobsStay DEF JobTells
  <2> QED
    BY <2>2, <2>3, <2>4, <2>5 DEF IInv
<1>2. ASSUME NEW c \in Commands, CommandSteps(c) \/ WorkerSteps(c) \/ Call(c) \/ CommandDies(c) \/ WorkerDies(c)
      PROVE  IInv'
  BY <1>2, LoadKeeps, ProbeKeeps, ExitKeeps, AcquireKeeps, CleanKeeps, CleanedKeeps, PollKeeps, WorkerKeeps, CallKeeps,
     CommandDiesKeeps DEF CommandSteps
<1>3. ASSUME NEW p \in Actors, Remove(p)
      PROVE  IInv'
  BY <1>3, RemoveKeeps
<1> QED
  BY <1>1, <1>2, <1>3, StarterKeeps, RunnerKeeps, StarterDiesKeeps DEF Next, Steps

-----------------------------------------------------------------------------
(* What the invariant tells *)

LEMMA InvariantTells ==
  ASSUME Bounds, IInv
  PROVE  TypeOK /\ ReviewUndisturbed /\ OneCleaner /\ SuccessIsRemoval /\ MarkerOutlivesContent
<1>1. TypeOK
  BY DEF IInv, Files, Processes, LockTells, LockOf, TypeOK
<1>2. ReviewUndisturbed
  BY DEF IInv, StarterTells, CommandTells, Settled, ReviewUndisturbed, Reviewing, AllArtifacts, AllTrees
<1>3. OneCleaner
  BY OneBusy DEF OneCleaner, Active, Busy
<1>4. SuccessIsRemoval
  BY DEF IInv, CommandTells, CommandOf, SuccessIsRemoval, NoArtifacts, NoTrees, Forced
<1> QED
  BY <1>1, <1>2, <1>3, <1>4 DEF IInv

(* Only a command that found no exit code writes one. *)
LEMMA ExitStandsStep ==
  ASSUME Bounds, IInv, [Next]_vars
  PROVE  ExitStands
<1>1. CASE UNCHANGED vars \/ StarterSteps \/ StarterDies \/ RunnerDies
  BY <1>1 DEF ExitStands, vars, files, StarterSteps, Create, Accept, Build, Ready, Record, Spawn, Publish, UndoEnds,
     Foreground, StarterDies, RunnerDies
<1>2. CASE RunnerSteps
  BY <1>2 DEF ExitStands, RunnerSteps
<1>3. ASSUME NEW p \in Actors, Remove(p)
      PROVE  exit' = exit
  BY <1>3 DEF Remove, Removing, Scan, Pick, UnlinkArtifact, Receipt, Contents, Box, Workspace, Git, EnterDirectory,
     EmptyDirectory, RemoveDirectory, files
<1>4. ASSUME NEW c \in Commands, Exit(c) \/ Clean(c)
      PROVE  ExitStands
  BY <1>4 DEF ExitStands, Exit, Clean, Refuse, CleanUnrecorded, CleanRecorded
<1>5. ASSUME NEW c \in Commands,
             \/ Load(c) \/ Probe(c) \/ Acquire(c) \/ Cleaned(c) \/ Poll(c) \/ WorkerSteps(c)
             \/ Call(c) \/ CommandDies(c) \/ WorkerDies(c)
      PROVE  exit' = exit
  BY <1>5 DEF Load, Probe, Acquire, Cleaned, Poll, WorkerSteps, Call, CommandDies, WorkerDies, files
<1> QED
  BY <1>1, <1>2, <1>3, <1>4, <1>5 DEF ExitStands, Next, Steps, CommandSteps

(* What is being reviewed is whole, one process at a time removes, a       *)
(* command that reports success has removed everything, and the marker     *)
(* outlives the content it tells how to remove (state.py:3604,             *)
(* cleanup_worker.py:41), for any number of commands.                      *)
THEOREM RunIsSafe ==
  ASSUME Bounds
  PROVE  Spec => [](TypeOK /\ ReviewUndisturbed /\ OneCleaner /\ SuccessIsRemoval /\ MarkerOutlivesContent)
<1>1. Init => IInv
  BY InitHolds
<1>2. IInv /\ [Next]_vars => IInv'
  BY StepKeeps
<1>3. IInv => TypeOK /\ ReviewUndisturbed /\ OneCleaner /\ SuccessIsRemoval /\ MarkerOutlivesContent
  BY InvariantTells
<1> QED
  BY <1>1, <1>2, <1>3, PTL DEF Spec

(* The runner's exit code is never replaced by a command's. *)
THEOREM ExitIsKept ==
  ASSUME Bounds
  PROVE  Spec => ExitIsTheRunners
<1>1. Init => IInv
  BY InitHolds
<1>2. IInv /\ [Next]_vars => IInv'
  BY StepKeeps
<1>3. IInv /\ [Next]_vars => [ExitStands]_vars
  BY ExitStandsStep
<1> QED
  BY <1>1, <1>2, <1>3, PTL DEF Spec, ExitIsTheRunners

-----------------------------------------------------------------------------
(* The two refresh locks *)

LockBounds ==
  /\ MaxInodes \in Nat /\ MaxInterrupts \in Nat /\ Foreign \in BOOLEAN /\ OnSuccess \in BOOLEAN
  /\ Nil \notin Helpers \cup {Claude} \cup Lock!Names \cup {"main", "beat"}
  /\ Claude \notin Helpers

LockCalls == {"release", "abandon"}
Leases == [started : BOOLEAN, cleanup : BOOLEAN, released : BOOLEAN, prohibited : BOOLEAN,
           life : {"not-started", "resumable", "settled"}, pending : Lock!Names \cup {Nil},
           error : BOOLEAN, stop : BOOLEAN, diag : BOOLEAN, completed : BOOLEAN, attempt : {1, 2},
           failed : BOOLEAN, closing : SUBSET Lock!Descriptors, unsure : SUBSET Lock!Descriptors,
           residue : SUBSET Lock!Descriptors]
Handoffs == {"none", "acquired", "release-unknown"}
FaultRecord == [late : BOOLEAN, wrong : SUBSET Lock!Names, lapsed : SUBSET Lock!Names]
FaultRecords == [Helpers -> FaultRecord]

Typed ==
  /\ dir \in [Lock!Names -> [owner : Helpers \cup {Claude, Nil}, inode : Nat, fresh : BOOLEAN]]
  /\ inodes \in 0..MaxInodes
  /\ place \in [Helpers -> Lock!Labels] /\ agenda \in [Helpers -> Seq(LockCalls)]
  /\ hold \in [Helpers -> Leases] /\ adopted \in [Helpers -> [Lock!Names -> Nat]]
  /\ opened \in [Helpers -> SUBSET Lock!Descriptors]
  /\ beat \in [Helpers -> {"none", "wait", "lock", "renew", "dead"}]
  /\ operator \in [Helpers -> {Nil, "main", "beat"}] /\ handoff \in [Helpers -> Handoffs]
  /\ cleared \in [Helpers -> SUBSET Nat] /\ signals \in [Helpers -> Nat]
  /\ faults \in FaultRecords

(* What may go wrong: nothing, except where a directory was lost at the    *)
(* place the code goes by name, and that only beside Claude.               *)
Excepted ==
  \A h \in Helpers :
    /\ ~faults[h].late /\ faults[h].wrong \subseteq faults[h].lapsed
    /\ ~Foreign => faults[h].lapsed = {}

(* An inode is used once, and a directory that is there has one. *)
DirectoriesAreNew ==
  \A n \in Lock!Names : dir[n].inode <= inodes /\ (dir[n].inode = 0 => dir[n].owner = Nil)

(* Where the main thread can be. *)
Acquiring == {"mk-primary", "adopt-primary", "mk-legacy", "adopt-legacy", "start"}
Early == Acquiring \cup {"held"}
Destroying == {"check-legacy", "rm-legacy", "check-primary", "rm-primary", "close"}
Unreleased == {"join", "op", "mark"}
Releasing == {"rel", "free", "free-failed", "free-again"} \cup Unreleased \cup Destroying
Abandoning == {"ab-join", "ab-op", "ab-resume", "ab-close", "ab-free"}
Silent == {"op", "mark", "ab-op", "ab-resume", "ab-close"} \cup Destroying

Quiet(h) == beat[h] \in {"none", "dead"}
Untouched(l) == l.closing = {} /\ l.unsure = {} /\ l.residue = {}
Covered(l, f) == f \subseteq l.closing \cup l.unsure \cup l.residue

(* What the marks of a lease say of the place its main thread is at. *)
LeaseIsFresh(h) ==
  place[h] \in Early =>
    LET l == hold[h] IN
    /\ ~l.cleanup /\ ~l.released /\ ~l.prohibited /\ ~l.completed /\ Untouched(l)
    /\ l.life = "not-started"
    /\ place[h] \in Acquiring => beat[h] = "none"
    /\ place[h] \notin {"adopt-primary", "adopt-legacy"} => l.pending = Nil
    /\ \A n \in Lock!Names : place[h] = Lock!Adopting(n) => l.pending = n
    /\ place[h] \in {"mk-legacy", "adopt-legacy"} => adopted[h]["primary"] # 0
    /\ place[h] \in {"start", "held"} => \A n \in Lock!Names : adopted[h][n] # 0
MarksAgree(p, t, l) ==
  /\ p \notin Early \cup {"crashed"} /\ l.pending # Nil => l.prohibited
  /\ l.cleanup => l.diag \/ l.released
  /\ l.released => l.cleanup /\ ~l.prohibited
  /\ l.life = "settled" => l.cleanup
  /\ p \in Releasing => ~l.prohibited
  /\ p \in Unreleased => ~l.released /\ ~l.cleanup
  /\ p \in Destroying => l.cleanup /\ l.diag /\ ~l.released
  /\ p \in {"free", "free-again"} => l.cleanup
  /\ p \in Abandoning => l.cleanup /\ l.prohibited
  /\ p = "ab" => ~l.released
  /\ p = "done" \/ (p = "entry" /\ t = <<>>) => l.released \/ l.diag
HandoffKnown(h) == operator[h] = "main" => handoff[h] # "none"

(* The descriptors of a lease that was begun to be closed are named, and a *)
(* heartbeat that may still use them has them.                             *)
DescriptorsAreNamed(h) ==
  LET l == hold[h] IN
  /\ Untouched(l) \/ Covered(l, opened[h])
  /\ place[h] = "ab-close" => Covered(l, opened[h])
  /\ l.completed \/ l.released => opened[h] = {} /\ Quiet(h)
  /\ ~Quiet(h) => Lock!Names \subseteq opened[h] /\ place[h] \notin Silent
  /\ ~l.cleanup /\ place[h] # "crashed" => \A n \in Lock!Names : adopted[h][n] # 0 <=> n \in opened[h]

(* Which directories are the helper's, and that it knows. *)
Lost(h, n) == n \in faults[h].lapsed
Gone(h, n) ==
  /\ dir[n].owner # h
  /\ adopted[h][n] # 0 => dir[n].inode # adopted[h][n] /\ (adopted[h][n] \in cleared[h] \/ Lost(h, n))
Known(h, n) ==
  /\ adopted[h][n] <= inodes
  /\ Lock!Owns(h, n) => dir[n].owner = h \/ Lost(h, n)
  /\ dir[n].owner = h => hold[h].pending = n \/ Lock!Owns(h, n)
DirectoriesAreKnown(h) ==
  /\ \A n \in Lock!Names :
       /\ Known(h, n)
       /\ place[h] = Lock!Removing(n) => Lock!Owns(h, n) \/ Lost(h, n)
       /\ place[h] = Lock!Adopting(n) => dir[n].owner = h \/ Lost(h, n)
       /\ hold[h].released => Gone(h, n)
  /\ ~hold[h].failed =>
       /\ place[h] \in {"check-primary", "rm-primary", "close"} => Gone(h, "legacy")
       /\ place[h] = "close" => Gone(h, "primary")
  /\ ~Foreign /\ place[h] \in {"mk-legacy", "adopt-legacy", "start", "held"} => Lock!Owns(h, "primary")

HInv(h) ==
  /\ LeaseIsFresh(h) /\ MarksAgree(place[h], agenda[h], hold[h]) /\ HandoffKnown(h) /\ DescriptorsAreNamed(h)
  /\ DirectoriesAreKnown(h)

LockInv ==
  /\ Typed /\ DirectoriesAreNew /\ Excepted
  /\ \A h \in Helpers : HInv(h)

(* A step of one helper, as the others see it *)

SameOf(k) ==
  /\ place'[k] = place[k] /\ agenda'[k] = agenda[k] /\ hold'[k] = hold[k] /\ adopted'[k] = adopted[k]
  /\ opened'[k] = opened[k] /\ beat'[k] = beat[k] /\ operator'[k] = operator[k] /\ handoff'[k] = handoff[k]
  /\ cleared'[k] = cleared[k] /\ faults[k].lapsed \subseteq faults'[k].lapsed
Spared(k, n) ==
  \/ dir'[n].owner = dir[n].owner /\ dir'[n].inode = dir[n].inode
  \/ /\ dir'[n].owner # k /\ (dir'[n].inode = 0 \/ dir'[n].inode > inodes)
     /\ dir[n].owner = k =>
          Foreign /\ (place[k] \in {Lock!Adopting(n), Lock!Removing(n)} => Lost(k, n)')
Undisturbed(k) == SameOf(k) /\ \A n \in Lock!Names : Spared(k, n)

LEMMA OthersKeepInv ==
  ASSUME LockBounds, LockInv, NEW k \in Helpers, Undisturbed(k), inodes' \in Nat, inodes <= inodes',
         dir' \in [Lock!Names -> [owner : Helpers \cup {Claude, Nil}, inode : Nat, fresh : BOOLEAN]]
  PROVE  HInv(k)'
<1> USE DEF LockInv
<1>1. LeaseIsFresh(k)'
  BY DEF HInv, LeaseIsFresh, Undisturbed, SameOf, Untouched
<1>2. MarksAgree(place[k], agenda[k], hold[k])'
  BY DEF HInv, MarksAgree, Undisturbed, SameOf
<1>3. HandoffKnown(k)'
  BY DEF HInv, HandoffKnown, Undisturbed, SameOf
<1>4. DescriptorsAreNamed(k)'
  BY DEF HInv, DescriptorsAreNamed, Undisturbed, SameOf, Untouched, Covered, Quiet
<1>5. DirectoriesAreKnown(k)'
  <2>1. /\ place'[k] = place[k] /\ hold'[k] = hold[k] /\ adopted'[k] = adopted[k] /\ cleared'[k] = cleared[k]
        /\ inodes \in Nat /\ \A n \in Lock!Names : adopted[k][n] \in Nat /\ dir[n].inode \in Nat /\ dir'[n].inode \in Nat
    BY DEF Undisturbed, SameOf, Typed, LockBounds
  <2>2. ASSUME NEW n \in Lock!Names
        PROVE  /\ adopted'[k][n] <= inodes' /\ (Lost(k, n) => Lost(k, n)')
               /\ Lock!Owns(k, n)' => Lock!Owns(k, n) /\ (dir'[n].owner = k \/ Lost(k, n)')
               /\ dir'[n].owner = k => dir[n].owner = k /\ (Lock!Owns(k, n) => Lock!Owns(k, n)')
               /\ Lock!Owns(k, n) => Lock!Owns(k, n)' \/ (Foreign /\ (place[k] = Lock!Removing(n) => Lost(k, n)'))
               /\ place[k] = Lock!Adopting(n) => dir'[n].owner = k \/ Lost(k, n)'
               /\ Gone(k, n) => Gone(k, n)'
    <3>1. /\ Spared(k, n) /\ adopted[k][n] <= inodes /\ (Lock!Owns(k, n) => dir[n].owner = k \/ Lost(k, n))
          /\ place[k] = Lock!Adopting(n) => dir[n].owner = k \/ Lost(k, n)
      BY DEF Undisturbed, HInv, DirectoriesAreKnown, Known
    <3>2. (Lost(k, n) => Lost(k, n)') /\ (Lost(k, n) => Foreign)
      BY DEF Undisturbed, SameOf, Lost, Excepted
    <3> QED
      BY <2>1, <3>1, <3>2 DEF Spared, Lock!Owns, Gone
  <2> QED
    BY <2>1, <2>2 DEF HInv, DirectoriesAreKnown, Known, Lock!Names
<1> QED
  BY <1>1, <1>2, <1>3, <1>4, <1>5 DEF HInv

(* What a lemma about a step of h shows. *)
StepOf(h) ==
  /\ Typed' /\ DirectoriesAreNew' /\ Excepted' /\ inodes <= inodes'
  /\ HInv(h)'
  /\ \A k \in Helpers : k # h => Undisturbed(k)

LEMMA StepKeepsInv ==
  ASSUME LockBounds, LockInv, NEW h \in Helpers, StepOf(h)
  PROVE  LockInv'
<1>1. inodes' \in Nat
  BY DEF StepOf, Typed, LockBounds
<1>2. ASSUME NEW k \in Helpers, k # h PROVE HInv(k)'
  BY <1>1, <1>2, OthersKeepInv DEF StepOf, Typed
<1> QED
  BY <1>2 DEF StepOf, LockInv

(* Steps of the main thread that change its marks only *)

Calm == Lock!Labels \ (Early \cup {"rm-legacy", "check-primary", "rm-primary", "close", "ab-close", "crashed"})
Carried(a, b) ==
  /\ b.pending = a.pending \/ a.pending = Nil
  /\ b.closing = a.closing /\ b.unsure = a.unsure /\ b.residue = a.residue
  /\ b.completed = a.completed /\ b.released = a.released /\ (a.cleanup => b.cleanup)

LEMMA CalmDirectories ==
  ASSUME LockBounds, LockInv, NEW h \in Helpers, UNCHANGED <<Lock!Disk, adopted, faults>>,
         Carried(hold[h], hold'[h]), place'[h] \in Calm
  PROVE  DirectoriesAreKnown(h)'
<1>1. \A n \in Lock!Names : place'[h] # Lock!Removing(n) /\ place'[h] # Lock!Adopting(n)
  BY DEF Calm, Lock!Removing, Lock!Adopting, Lock!Names, Early, Acquiring
<1>2. \A n \in Lock!Names : /\ Lock!Owns(h, n) <=> Lock!Owns(h, n)'
                            /\ (Gone(h, n) <=> Gone(h, n)') /\ (Lost(h, n) <=> Lost(h, n)')
  BY DEF Lock!Owns, Gone, Lost, Lock!Disk
<1> QED
  BY <1>1, <1>2 DEF DirectoriesAreKnown, Known, LockInv, HInv, Calm, Lock!Disk, Carried, LockBounds,
     Early, Acquiring

(* To p, with the calls t, the marks l, the operation lock o and x. *)
LockTurn(h, p, t, l, o, x) ==
  /\ place[h] # "crashed" /\ Lock!Goto(h, p) /\ agenda' = [agenda EXCEPT ![h] = t] /\ Lock!Lease(h, l)
  /\ operator' = [operator EXCEPT ![h] = o] /\ handoff' = [handoff EXCEPT ![h] = x]
  /\ p \in Calm /\ t \in Seq(LockCalls) /\ l \in Leases /\ o \in {Nil, "main", "beat"} /\ x \in Handoffs
  /\ signals' \in [Helpers -> Nat] /\ UNCHANGED <<Lock!Disk, adopted, opened, beat, faults>>

LEMMA MarkStep ==
  ASSUME LockBounds, LockInv, NEW h \in Helpers, NEW p, NEW t, NEW l, NEW o, NEW x,
         LockTurn(h, p, t, l, o, x),
         Carried(hold[h], l), MarksAgree(p, t, l), o = "main" => x # "none",
         p \in Silent => Quiet(h)
  PROVE  StepOf(h)
<1> USE DEF LockInv, LockTurn
<1>1. /\ place'[h] = p /\ agenda'[h] = t /\ hold'[h] = l /\ operator'[h] = o /\ handoff'[h] = x
      /\ adopted'[h] = adopted[h] /\ opened'[h] = opened[h] /\ beat'[h] = beat[h] /\ cleared'[h] = cleared[h]
  BY DEF Typed, Lock!Goto, Lock!Lease, Lock!Disk
<1>2. Typed'
  <2>1. place' \in [Helpers -> Lock!Labels] /\ agenda' \in [Helpers -> Seq(LockCalls)]
    BY DEF Typed, Lock!Goto, Calm
  <2>2. hold' \in [Helpers -> Leases]
    BY DEF Typed, Lock!Lease
  <2>3. operator' \in [Helpers -> {Nil, "main", "beat"}] /\ handoff' \in [Helpers -> Handoffs]
    BY DEF Typed
  <2> QED
    BY <2>1, <2>2, <2>3 DEF Typed, Lock!Disk
<1>3. DirectoriesAreNew' /\ Excepted' /\ inodes <= inodes'
  BY DEF DirectoriesAreNew, Excepted, Lock!Disk, Typed, LockBounds
<1>4. \A k \in Helpers : k # h => Undisturbed(k)
  BY DEF Undisturbed, SameOf, Spared, Typed, Lock!Goto, Lock!Lease, Lock!Disk
<1>5. LeaseIsFresh(h)'
  BY <1>1 DEF LeaseIsFresh, Calm
<1>6. MarksAgree(place[h], agenda[h], hold[h])' /\ HandoffKnown(h)'
  BY <1>1 DEF HandoffKnown
<1>7. DescriptorsAreNamed(h)'
  BY <1>1 DEF HInv, DescriptorsAreNamed, Carried, Calm, Quiet, Untouched, Covered
<1>8. DirectoriesAreKnown(h)'
  BY <1>1, CalmDirectories
<1> QED
  BY <1>2, <1>3, <1>4, <1>5, <1>6, <1>7, <1>8 DEF StepOf, HInv

(* What is not written stays. *)
LEMMA Kept ==
  ASSUME LockInv, NEW h \in Helpers
  PROVE  /\ agenda = [agenda EXCEPT ![h] = agenda[h]] /\ hold = [hold EXCEPT ![h] = hold[h]]
         /\ operator = [operator EXCEPT ![h] = operator[h]] /\ handoff = [handoff EXCEPT ![h] = handoff[h]]
         /\ place = [place EXCEPT ![h] = place[h]]
         /\ place[h] \in Lock!Labels /\ agenda[h] \in Seq(LockCalls) /\ hold[h] \in Leases
         /\ operator[h] \in {Nil, "main", "beat"} /\ handoff[h] \in Handoffs
         /\ signals \in [Helpers -> Nat] /\ signals[h] \in Nat
BY DEF LockInv, Typed

LEMMA EntryStep ==
  ASSUME LockBounds, LockInv, NEW h \in Helpers, Lock!Entry(h)
  PROVE  StepOf(h)
<1> DEFINE l == hold[h]
<1> USE DEF Calm, Lock!Labels, Early, Acquiring, Releasing, Unreleased, Destroying, Abandoning, Silent
<1>1. /\ UNCHANGED <<Lock!Disk, adopted, opened, beat, faults, signals>> /\ place[h] = "entry"
      /\ MarksAgree(place[h], agenda[h], l) /\ l \in Leases
      /\ (operator[h] = "main" => handoff[h] # "none")
      /\ operator' = [operator EXCEPT ![h] = operator[h]] /\ handoff' = [handoff EXCEPT ![h] = handoff[h]]
  BY Kept DEF Lock!Entry, Lock!Guard, LockInv, HInv, HandoffKnown
<1>2. CASE agenda[h] = <<>> /\ Lock!Goto(h, "done") /\ UNCHANGED <<agenda, hold>>
  <2>1. LockTurn(h, "done", agenda[h], l, operator[h], handoff[h])
    BY <1>1, <1>2, Kept DEF LockTurn, Lock!Lease
  <2>2. MarksAgree("done", agenda[h], l) /\ Carried(l, l) /\ "done" \notin Silent
    BY <1>1, <1>2 DEF MarksAgree, Carried
  <2> QED
    BY <1>1, <2>1, <2>2, MarkStep
<1>3. CASE agenda[h] # <<>> /\ agenda' = [agenda EXCEPT ![h] = Tail(@)]
  <2> DEFINE t == Tail(agenda[h])
  <2>0. t \in Seq(LockCalls) /\ Head(agenda[h]) \in LockCalls /\ agenda' = [agenda EXCEPT ![h] = t]
    BY <1>3, Kept
  <2>1. CASE Lock!Resumes(l) /\ Lock!Goto(h, "ab") /\ Lock!Lease(h, [l EXCEPT !.life = "resumable"])
    <3> DEFINE m == [l EXCEPT !.life = "resumable"]
    <3>1. LockTurn(h, "ab", t, m, operator[h], handoff[h])
      BY <1>1, <2>0, <2>1, Kept DEF LockTurn, Leases
    <3>2. MarksAgree("ab", t, m) /\ Carried(l, m) /\ "ab" \notin Silent
      BY <1>1, <2>0, <2>1 DEF MarksAgree, Carried, Leases, Lock!Resumes
    <3> QED
      BY <1>1, <3>1, <3>2, MarkStep
  <2>2. CASE (l.diag \/ l.prohibited) /\ Lock!Goto(h, "entry") /\ Lock!Lease(h, [l EXCEPT !.diag = TRUE])
    <3> DEFINE m == [l EXCEPT !.diag = TRUE]
    <3>1. LockTurn(h, "entry", t, m, operator[h], handoff[h])
      BY <1>1, <2>0, <2>2, Kept DEF LockTurn, Leases
    <3>2. MarksAgree("entry", t, m) /\ Carried(l, m) /\ "entry" \notin Silent
      BY <1>1, <2>0, <2>2 DEF MarksAgree, Carried, Leases
    <3> QED
      BY <1>1, <3>1, <3>2, MarkStep
  <2>3. CASE ~l.diag /\ ~l.prohibited /\ Lock!Goto(h, "rel") /\ Lock!Lease(h, [l EXCEPT !.attempt = 1])
    <3> DEFINE m == [l EXCEPT !.attempt = 1]
    <3>1. LockTurn(h, "rel", t, m, operator[h], handoff[h])
      BY <1>1, <2>0, <2>3, Kept DEF LockTurn, Leases
    <3>2. MarksAgree("rel", t, m) /\ Carried(l, m) /\ "rel" \notin Silent
      BY <1>1, <2>0, <2>3 DEF MarksAgree, Carried, Leases
    <3> QED
      BY <1>1, <3>1, <3>2, MarkStep
  <2>4. CASE /\ l.released \/ l.life = "settled" \/ (l.life = "not-started" /\ l.cleanup)
            /\ Lock!Goto(h, "entry") /\ UNCHANGED hold
    <3>1. LockTurn(h, "entry", t, l, operator[h], handoff[h])
      BY <1>1, <2>0, <2>4, Kept DEF LockTurn, Leases, Lock!Lease
    <3>2. MarksAgree("entry", t, l) /\ Carried(l, l) /\ "entry" \notin Silent
      BY <1>1, <2>0, <2>4 DEF MarksAgree, Carried, Leases
    <3> QED
      BY <1>1, <3>1, <3>2, MarkStep
  <2>5. CASE ~l.released /\ Lock!Goto(h, "ab") /\ UNCHANGED hold
    <3>1. LockTurn(h, "ab", t, l, operator[h], handoff[h])
      BY <1>1, <2>0, <2>5, Kept DEF LockTurn, Leases, Lock!Lease
    <3>2. MarksAgree("ab", t, l) /\ Carried(l, l) /\ "ab" \notin Silent
      BY <1>1, <2>0, <2>5 DEF MarksAgree, Carried, Leases
    <3> QED
      BY <1>1, <3>1, <3>2, MarkStep
  <2> QED
    BY <1>1, <1>3, <2>1, <2>2, <2>3, <2>4, <2>5 DEF Lock!Entry
<1> QED
  BY <1>2, <1>3 DEF Lock!Entry

(* The bounded retry of a release that has not destroyed anything yet, or   *)
(* that failed.                                                            *)
LEMMA RetryStep ==
  ASSUME LockBounds, LockInv, NEW h \in Helpers, NEW o \in {Nil, "main", "beat"}, NEW x \in Handoffs,
         place[h] \in Releasing, Lock!Retry(h, hold[h]), UNCHANGED <<Lock!Disk, agenda, adopted, opened, beat, faults>>,
         signals' \in [Helpers -> Nat], operator' = [operator EXCEPT ![h] = o], handoff' = [handoff EXCEPT ![h] = x],
         o = "main" => x # "none"
  PROVE  StepOf(h)
<1> DEFINE l == hold[h]
<1> USE DEF Calm, Lock!Labels, Early, Acquiring, Releasing, Unreleased, Destroying, Abandoning, Silent
<1>1. /\ UNCHANGED <<Lock!Disk, adopted, opened, beat, faults>> /\ signals' \in [Helpers -> Nat]
      /\ MarksAgree(place[h], agenda[h], l) /\ l \in Leases
      /\ agenda' = [agenda EXCEPT ![h] = agenda[h]]
  BY Kept DEF LockInv, HInv
<1>2. CASE Lock!Goto(h, "rel") /\ Lock!Lease(h, [l EXCEPT !.attempt = 2])
  <2> DEFINE m == [l EXCEPT !.attempt = 2]
  <2>1. LockTurn(h, "rel", agenda[h], m, o, x)
    BY <1>1, <1>2, Kept DEF LockTurn, Leases
  <2>2. MarksAgree("rel", agenda[h], m) /\ Carried(l, m) /\ "rel" \notin Silent
    BY <1>1, <1>2 DEF MarksAgree, Carried, Leases
  <2> QED
    BY <1>1, <2>1, <2>2, MarkStep
<1>3. CASE Lock!Goto(h, "entry") /\ Lock!Lease(h, [l EXCEPT !.diag = TRUE])
  <2> DEFINE m == [l EXCEPT !.diag = TRUE]
  <2>1. LockTurn(h, "entry", agenda[h], m, o, x)
    BY <1>1, <1>3, Kept DEF LockTurn, Leases
  <2>2. MarksAgree("entry", agenda[h], m) /\ Carried(l, m) /\ "entry" \notin Silent
    BY <1>1, <1>3 DEF MarksAgree, Carried, Leases
  <2> QED
    BY <1>1, <2>1, <2>2, MarkStep
<1> QED
  BY <1>2, <1>3 DEF Lock!Retry

LEMMA ReleaseStartStep ==
  ASSUME LockBounds, LockInv, NEW h \in Helpers, Lock!ReleaseStart(h)
  PROVE  StepOf(h)
<1> DEFINE l == hold[h]
           o == IF operator[h] = "main" THEN Nil ELSE operator[h]
<1> USE DEF Calm, Lock!Labels, Early, Acquiring, Releasing, Unreleased, Destroying, Abandoning, Silent
<1>1. /\ UNCHANGED <<Lock!Disk, adopted, opened, beat, faults, signals>> /\ place[h] = "rel"
      /\ MarksAgree(place[h], agenda[h], l) /\ l \in Leases /\ signals' \in [Helpers -> Nat]
      /\ agenda' = [agenda EXCEPT ![h] = agenda[h]]
      /\ operator' = [operator EXCEPT ![h] = o] /\ handoff' = [handoff EXCEPT ![h] = "none"]
      /\ o # "main" /\ o \in {Nil, "main", "beat"} /\ "none" \in Handoffs
  BY Kept DEF Lock!ReleaseStart, Lock!Reconcile, LockInv, HInv, LockBounds, Handoffs
<1>2. CASE l.released /\ Lock!Goto(h, "entry") /\ UNCHANGED hold
  <2>1. LockTurn(h, "entry", agenda[h], l, o, "none")
    BY <1>1, <1>2, Kept DEF LockTurn, Lock!Lease
  <2>2. MarksAgree("entry", agenda[h], l) /\ Carried(l, l) /\ "entry" \notin Silent
    BY <1>1, <1>2 DEF MarksAgree, Carried
  <2> QED
    BY <1>1, <2>1, <2>2, MarkStep
<1>3. CASE l.cleanup /\ Lock!Goto(h, "entry") /\ Lock!Lease(h, [l EXCEPT !.diag = TRUE])
  <2> DEFINE m == [l EXCEPT !.diag = TRUE]
  <2>1. LockTurn(h, "entry", agenda[h], m, o, "none")
    BY <1>1, <1>3, Kept DEF LockTurn, Leases
  <2>2. MarksAgree("entry", agenda[h], m) /\ Carried(l, m) /\ "entry" \notin Silent
    BY <1>1, <1>3 DEF MarksAgree, Carried, Leases
  <2> QED
    BY <1>1, <2>1, <2>2, MarkStep
<1>4. CASE ~l.released /\ ~l.cleanup /\ Lock!Goto(h, "join") /\ Lock!Lease(h, [l EXCEPT !.started = TRUE, !.stop = TRUE])
  <2> DEFINE m == [l EXCEPT !.started = TRUE, !.stop = TRUE]
  <2>1. LockTurn(h, "join", agenda[h], m, o, "none")
    BY <1>1, <1>4, Kept DEF LockTurn, Leases
  <2>2. MarksAgree("join", agenda[h], m) /\ Carried(l, m) /\ "join" \notin Silent
    BY <1>1, <1>4 DEF MarksAgree, Carried, Leases
  <2> QED
    BY <1>1, <2>1, <2>2, MarkStep
<1> QED
  BY <1>2, <1>3, <1>4 DEF Lock!ReleaseStart

LEMMA FreeAfterFailureStep ==
  ASSUME LockBounds, LockInv, NEW h \in Helpers, Lock!FreeAfterFailure(h)
  PROVE  StepOf(h)
<1> DEFINE l == hold[h]
           o == IF operator[h] = "main" THEN Nil ELSE operator[h]
<1> USE DEF Calm, Lock!Labels, Early, Acquiring, Releasing, Unreleased, Destroying, Abandoning, Silent
<1>1. /\ UNCHANGED <<Lock!Disk, adopted, opened, beat, faults, signals>> /\ place[h] = "free-failed"
      /\ MarksAgree(place[h], agenda[h], l) /\ l \in Leases /\ signals' \in [Helpers -> Nat]
      /\ agenda' = [agenda EXCEPT ![h] = agenda[h]]
      /\ operator' = [operator EXCEPT ![h] = o] /\ handoff' = [handoff EXCEPT ![h] = "none"]
      /\ o # "main" /\ o \in {Nil, "main", "beat"} /\ "none" \in Handoffs
  BY Kept DEF Lock!FreeAfterFailure, Lock!Reconcile, LockInv, HInv, LockBounds, Handoffs
<1>2. CASE Lock!Retry(h, l)
  BY <1>1, <1>2, RetryStep DEF Lock!FreeAfterFailure
<1>3. CASE /\ l.released \/ l.cleanup \/ l.diag
          /\ Lock!Goto(h, "entry") /\ Lock!Lease(h, [l EXCEPT !.diag = @ \/ ~l.released])
  <2> DEFINE m == [l EXCEPT !.diag = l.diag \/ ~l.released]
  <2>1. LockTurn(h, "entry", agenda[h], m, o, "none")
    BY <1>1, <1>3, Kept DEF LockTurn, Leases
  <2>2. MarksAgree("entry", agenda[h], m) /\ Carried(l, m) /\ "entry" \notin Silent
    BY <1>1, <1>3 DEF MarksAgree, Carried, Leases
  <2> QED
    BY <1>1, <2>1, <2>2, MarkStep
<1> QED
  BY <1>2, <1>3 DEF Lock!FreeAfterFailure

LEMMA FreeOperationStep ==
  ASSUME LockBounds, LockInv, NEW h \in Helpers, Lock!FreeOperation(h)
  PROVE  StepOf(h)
<1> DEFINE l == hold[h]
           o == IF operator[h] = "main" THEN Nil ELSE operator[h]
<1> USE DEF Calm, Lock!Labels, Early, Acquiring, Releasing, Unreleased, Destroying, Abandoning, Silent
<1>1. /\ UNCHANGED <<Lock!Disk, adopted, opened, beat, faults, signals>> /\ place[h] \in {"free", "free-again", "ab-free"}
      /\ MarksAgree(place[h], agenda[h], l) /\ l \in Leases /\ signals' \in [Helpers -> Nat]
      /\ agenda' = [agenda EXCEPT ![h] = agenda[h]]
      /\ operator' = [operator EXCEPT ![h] = o] /\ handoff' = [handoff EXCEPT ![h] = "none"]
      /\ o # "main" /\ o \in {Nil, "main", "beat"} /\ "none" \in Handoffs
  BY Kept DEF Lock!FreeOperation, Lock!Reconcile, LockInv, HInv, LockBounds, Handoffs
<1>2. LockTurn(h, "entry", agenda[h], l, o, "none")
  BY <1>1, Kept DEF LockTurn, Lock!FreeOperation, Lock!Lease
<1>3. MarksAgree("entry", agenda[h], l) /\ Carried(l, l) /\ "entry" \notin Silent
  BY <1>1 DEF MarksAgree, Carried
<1> QED
  BY <1>1, <1>2, <1>3, MarkStep

LEMMA AbandonStep ==
  ASSUME LockBounds, LockInv, NEW h \in Helpers, Lock!Abandon(h)
  PROVE  StepOf(h)
<1> DEFINE l == hold[h]
           o == IF operator[h] = "main" THEN Nil ELSE operator[h]
<1> USE DEF Calm, Lock!Labels, Early, Acquiring, Releasing, Unreleased, Destroying, Abandoning, Silent
<1>1. /\ UNCHANGED <<Lock!Disk, adopted, opened, beat, faults, signals>> /\ place[h] = "ab"
      /\ MarksAgree(place[h], agenda[h], l) /\ l \in Leases /\ signals' \in [Helpers -> Nat]
      /\ agenda' = [agenda EXCEPT ![h] = agenda[h]]
      /\ operator' = [operator EXCEPT ![h] = o] /\ handoff' = [handoff EXCEPT ![h] = "none"]
      /\ o # "main" /\ o \in {Nil, "main", "beat"} /\ "none" \in Handoffs
  BY Kept DEF Lock!Abandon, Lock!Reconcile, LockInv, HInv, LockBounds, Handoffs
<1> DEFINE m == [l EXCEPT !.prohibited = TRUE, !.life = "resumable", !.started = TRUE,
                          !.cleanup = TRUE, !.stop = TRUE, !.diag = TRUE]
<1>2. LockTurn(h, "ab-join", agenda[h], m, o, "none")
  BY <1>1, Kept DEF LockTurn, Lock!Abandon, Leases
<1>3. MarksAgree("ab-join", agenda[h], m) /\ Carried(l, m) /\ "ab-join" \notin Silent
  BY <1>1 DEF MarksAgree, Carried, Leases
<1> QED
  BY <1>1, <1>2, <1>3, MarkStep

LEMMA JoinStep ==
  ASSUME LockBounds, LockInv, NEW h \in Helpers, Lock!Join(h)
  PROVE  StepOf(h)
<1> DEFINE l == hold[h]
<1> USE DEF Calm, Lock!Labels, Early, Acquiring, Releasing, Unreleased, Destroying, Abandoning, Silent
<1>1. /\ UNCHANGED <<Lock!Disk, adopted, opened, beat, faults, signals>> /\ place[h] = "join"
      /\ MarksAgree(place[h], agenda[h], l) /\ l \in Leases
      /\ (operator[h] = "main" => handoff[h] # "none")
      /\ operator' = [operator EXCEPT ![h] = operator[h]] /\ handoff' = [handoff EXCEPT ![h] = handoff[h]]
      /\ agenda' = [agenda EXCEPT ![h] = agenda[h]]
  BY Kept DEF Lock!Join, Lock!Guard, LockInv, HInv, HandoffKnown
<1>2. CASE Quiet(h) /\ Lock!Goto(h, "op") /\ UNCHANGED hold
  <2>1. LockTurn(h, "op", agenda[h], l, operator[h], handoff[h])
    BY <1>1, <1>2, Kept DEF LockTurn, Lock!Lease
  <2>2. MarksAgree("op", agenda[h], l) /\ Carried(l, l) /\ Quiet(h)
    BY <1>1, <1>2 DEF MarksAgree, Carried
  <2> QED
    BY <1>1, <2>1, <2>2, MarkStep
<1>3. CASE Lock!Retry(h, l)
  BY <1>1, <1>3, RetryStep, Kept DEF Lock!Join
<1> QED
  BY <1>2, <1>3 DEF Lock!Join, Quiet

LEMMA MarkedStep ==
  ASSUME LockBounds, LockInv, NEW h \in Helpers, Lock!Mark(h)
  PROVE  StepOf(h)
<1> DEFINE l == hold[h]
<1> USE DEF Calm, Lock!Labels, Early, Acquiring, Releasing, Unreleased, Destroying, Abandoning, Silent
<1>1. /\ UNCHANGED <<Lock!Disk, adopted, opened, beat, faults, signals>> /\ place[h] = "mark"
      /\ MarksAgree(place[h], agenda[h], l) /\ l \in Leases
      /\ (operator[h] = "main" => handoff[h] # "none")
      /\ operator' = [operator EXCEPT ![h] = operator[h]] /\ handoff' = [handoff EXCEPT ![h] = handoff[h]]
      /\ agenda' = [agenda EXCEPT ![h] = agenda[h]]
      /\ Quiet(h)
  BY Kept DEF Lock!Mark, DescriptorsAreNamed, Lock!Guard, LockInv, HInv, HandoffKnown
<1> DEFINE m == [l EXCEPT !.diag = TRUE, !.cleanup = TRUE, !.failed = FALSE]
<1>2. LockTurn(h, "check-legacy", agenda[h], m, operator[h], handoff[h])
  BY <1>1, Kept DEF LockTurn, Lock!Mark, Leases
<1>3. MarksAgree("check-legacy", agenda[h], m) /\ Carried(l, m)
  BY <1>1 DEF MarksAgree, Carried, Leases
<1> QED
  BY <1>1, <1>2, <1>3, MarkStep

LEMMA AbandonJoinStep ==
  ASSUME LockBounds, LockInv, NEW h \in Helpers, Lock!AbandonJoin(h)
  PROVE  StepOf(h)
<1> DEFINE l == hold[h]
<1> USE DEF Calm, Lock!Labels, Early, Acquiring, Releasing, Unreleased, Destroying, Abandoning, Silent
<1>1. /\ UNCHANGED <<Lock!Disk, adopted, opened, beat, faults, signals>> /\ place[h] = "ab-join"
      /\ MarksAgree(place[h], agenda[h], l) /\ l \in Leases
      /\ (operator[h] = "main" => handoff[h] # "none")
      /\ operator' = [operator EXCEPT ![h] = operator[h]] /\ handoff' = [handoff EXCEPT ![h] = handoff[h]]
      /\ agenda' = [agenda EXCEPT ![h] = agenda[h]]
  BY Kept DEF Lock!AbandonJoin, Lock!Guard, LockInv, HInv, HandoffKnown
<1>2. CASE Quiet(h) /\ Lock!Goto(h, "ab-op")
  <2>1. LockTurn(h, "ab-op", agenda[h], l, operator[h], handoff[h])
    BY <1>1, <1>2, Kept DEF LockTurn, Lock!Lease, Lock!AbandonJoin
  <2>2. MarksAgree("ab-op", agenda[h], l) /\ Carried(l, l) /\ Quiet(h)
    BY <1>1, <1>2 DEF MarksAgree, Carried
  <2> QED
    BY <1>1, <2>1, <2>2, MarkStep
<1>3. CASE Lock!Goto(h, "entry")
  <2>1. LockTurn(h, "entry", agenda[h], l, operator[h], handoff[h])
    BY <1>1, <1>3, Kept DEF LockTurn, Lock!Lease, Lock!AbandonJoin
  <2>2. MarksAgree("entry", agenda[h], l) /\ Carried(l, l) /\ "entry" \notin Silent
    BY <1>1, <1>3 DEF MarksAgree, Carried
  <2> QED
    BY <1>1, <2>1, <2>2, MarkStep
<1> QED
  BY <1>2, <1>3 DEF Lock!AbandonJoin, Quiet

LEMMA AcquireOperationStep ==
  ASSUME LockBounds, LockInv, NEW h \in Helpers, Lock!Acquire(h, "op", "mark")
  PROVE  StepOf(h)
<1> DEFINE l == hold[h]
<1> USE DEF Calm, Lock!Labels, Early, Acquiring, Releasing, Unreleased, Destroying, Abandoning, Silent
<1>1. /\ UNCHANGED <<Lock!Disk, adopted, opened, beat, faults, signals>> /\ place[h] = "op"
      /\ MarksAgree(place[h], agenda[h], l) /\ l \in Leases
      /\ (operator[h] = "main" => handoff[h] # "none")
      /\ agenda' = [agenda EXCEPT ![h] = agenda[h]]
      /\ Quiet(h)
  BY Kept DEF Lock!Acquire, DescriptorsAreNamed, Lock!Guard, LockInv, HInv, HandoffKnown
<1>2. CASE /\ operator' = [operator EXCEPT ![h] = "main"] /\ handoff' = [handoff EXCEPT ![h] = "acquired"]
          /\ Lock!Goto(h, "mark") /\ UNCHANGED hold
  <2>1. LockTurn(h, "mark", agenda[h], l, "main", "acquired")
    BY <1>1, <1>2, Kept DEF LockTurn, Lock!Lease, Handoffs
  <2>2. MarksAgree("mark", agenda[h], l) /\ Carried(l, l) /\ Quiet(h)
    BY <1>1, <1>2 DEF MarksAgree, Carried
  <2> QED
    BY <1>1, <2>1, <2>2, MarkStep
<1>3. CASE UNCHANGED Lock!Guard /\ Lock!Retry(h, l)
  BY <1>1, <1>3, RetryStep, Kept DEF Lock!Guard, Lock!Acquire
<1> QED
  BY <1>2, <1>3 DEF Lock!Acquire

LEMMA AcquireAbandonStep ==
  ASSUME LockBounds, LockInv, NEW h \in Helpers, Lock!Acquire(h, "ab-op", "ab-resume")
  PROVE  StepOf(h)
<1> DEFINE l == hold[h]
<1> USE DEF Calm, Lock!Labels, Early, Acquiring, Releasing, Unreleased, Destroying, Abandoning, Silent
<1>1. /\ UNCHANGED <<Lock!Disk, adopted, opened, beat, faults, signals>> /\ place[h] = "ab-op"
      /\ MarksAgree(place[h], agenda[h], l) /\ l \in Leases
      /\ (operator[h] = "main" => handoff[h] # "none")
      /\ agenda' = [agenda EXCEPT ![h] = agenda[h]]
      /\ Quiet(h)
  BY Kept DEF Lock!Acquire, DescriptorsAreNamed, Lock!Guard, LockInv, HInv, HandoffKnown
<1>2. CASE /\ operator' = [operator EXCEPT ![h] = "main"] /\ handoff' = [handoff EXCEPT ![h] = "acquired"]
          /\ Lock!Goto(h, "ab-resume") /\ UNCHANGED hold
  <2>1. LockTurn(h, "ab-resume", agenda[h], l, "main", "acquired")
    BY <1>1, <1>2, Kept DEF LockTurn, Lock!Lease, Handoffs
  <2>2. MarksAgree("ab-resume", agenda[h], l) /\ Carried(l, l) /\ Quiet(h)
    BY <1>1, <1>2 DEF MarksAgree, Carried
  <2> QED
    BY <1>1, <2>1, <2>2, MarkStep
<1>3. CASE UNCHANGED Lock!Guard /\ Lock!Goto(h, "entry") /\ UNCHANGED hold
  <2>1. LockTurn(h, "entry", agenda[h], l, operator[h], handoff[h])
    BY <1>1, <1>3, Kept DEF LockTurn, Lock!Lease, Lock!Guard
  <2>2. MarksAgree("entry", agenda[h], l) /\ Carried(l, l) /\ "entry" \notin Silent
    BY <1>1, <1>3 DEF MarksAgree, Carried
  <2> QED
    BY <1>1, <2>1, <2>2, MarkStep
<1> QED
  BY <1>2, <1>3 DEF Lock!Acquire

LEMMA BodyEndsStep ==
  ASSUME LockBounds, LockInv, NEW h \in Helpers, Lock!BodyEnds(h)
  PROVE  StepOf(h)
<1> DEFINE l == hold[h]
<1> USE DEF Calm, Lock!Labels, Early, Acquiring, Releasing, Unreleased, Destroying, Abandoning, Silent
<1>1. /\ UNCHANGED <<Lock!Disk, adopted, opened, beat, faults, signals>> /\ place[h] = "held"
      /\ MarksAgree(place[h], agenda[h], l) /\ l \in Leases
      /\ (operator[h] = "main" => handoff[h] # "none")
      /\ operator' = [operator EXCEPT ![h] = operator[h]] /\ handoff' = [handoff EXCEPT ![h] = handoff[h]]
      /\ ~l.cleanup /\ ~l.released /\ l.pending = Nil
  BY Kept DEF Lock!BodyEnds, LeaseIsFresh, Lock!Guard, LockInv, HInv, HandoffKnown
<1>2. CASE /\ UNCHANGED hold
          /\ agenda' = [agenda EXCEPT ![h] = IF OnSuccess THEN <<"release", "abandon">> ELSE <<"release">>]
  <2> DEFINE t == IF OnSuccess THEN <<"release", "abandon">> ELSE <<"release">>
  <2>0. t \in Seq(LockCalls) /\ t # <<>>
    <3>1. /\ <<"release", "abandon">> \in Seq(LockCalls) /\ <<"release", "abandon">> # <<>>
          /\ <<"release">> \in Seq(LockCalls) /\ <<"release">> # <<>>
      BY DEF LockCalls
    <3> QED
      BY <3>1
  <2>1. LockTurn(h, "entry", t, l, operator[h], handoff[h])
    BY <1>1, <1>2, <2>0, Kept DEF LockTurn, Lock!Lease, Lock!BodyEnds, LockCalls
  <2>2. MarksAgree("entry", t, l) /\ Carried(l, l) /\ "entry" \notin Silent
    BY <1>1, <1>2, <2>0 DEF MarksAgree, Carried
  <2> QED
    BY <1>1, <2>1, <2>2, MarkStep
<1>3. CASE /\ agenda' = [agenda EXCEPT ![h] = IF OnSuccess THEN <<"abandon">> ELSE <<"release">>]
          /\ Lock!Lease(h, IF OnSuccess THEN [l EXCEPT !.prohibited = TRUE, !.stop = TRUE] ELSE l)
  <2> DEFINE m == IF OnSuccess THEN [l EXCEPT !.prohibited = TRUE, !.stop = TRUE] ELSE l
  <2> DEFINE t == IF OnSuccess THEN <<"abandon">> ELSE <<"release">>
  <2>0. t \in Seq(LockCalls) /\ t # <<>> /\ m \in Leases
    <3>1. /\ <<"abandon">> \in Seq(LockCalls) /\ <<"abandon">> # <<>>
          /\ <<"release">> \in Seq(LockCalls) /\ <<"release">> # <<>>
      BY DEF LockCalls
    <3>2. [l EXCEPT !.prohibited = TRUE, !.stop = TRUE] \in Leases
      BY <1>1 DEF Leases
    <3> QED
      BY <1>1, <3>1, <3>2
  <2>1. LockTurn(h, "entry", t, m, operator[h], handoff[h])
    BY <1>1, <1>3, <2>0, Kept DEF LockTurn, Leases, Lock!BodyEnds
  <2>2. MarksAgree("entry", t, m) /\ Carried(l, m) /\ "entry" \notin Silent
    BY <1>1, <1>3, <2>0 DEF MarksAgree, Carried, Leases
  <2> QED
    BY <1>1, <2>1, <2>2, MarkStep
<1>4. CASE agenda' = [agenda EXCEPT ![h] = <<"abandon", "release">>] /\ UNCHANGED hold
  <2> DEFINE t == <<"abandon", "release">>
  <2>0. t \in Seq(LockCalls) /\ t # <<>>
    BY DEF LockCalls
  <2>1. LockTurn(h, "entry", t, l, operator[h], handoff[h])
    BY <1>1, <1>4, <2>0, Kept DEF LockTurn, Lock!Lease, Lock!BodyEnds
  <2>2. MarksAgree("entry", t, l) /\ Carried(l, l) /\ "entry" \notin Silent
    BY <1>1, <1>4, <2>0 DEF MarksAgree, Carried
  <2> QED
    BY <1>1, <2>1, <2>2, MarkStep
<1> QED
  BY <1>2, <1>3, <1>4 DEF Lock!BodyEnds

(* The acquisition *)

Fresh(l) ==
  /\ ~l.cleanup /\ ~l.released /\ ~l.prohibited /\ ~l.completed /\ Untouched(l)
  /\ l.life = "not-started"

(* What a step may do to the record of what went wrong. *)
Endured ==
  /\ faults' \in FaultRecords
  /\ Excepted' /\ \A k \in Helpers : faults[k].lapsed \subseteq faults'[k].lapsed

LEMMA Unfaulted == ASSUME LockInv, UNCHANGED faults PROVE Endured
BY DEF LockInv, Typed, Excepted, Endured

LEMMA FailStep ==
  ASSUME LockBounds, LockInv, NEW h \in Helpers, NEW l \in Leases, place[h] \in Acquiring,
         Lock!AcquireFails(h, l), Fresh(l), UNCHANGED <<adopted, opened, beat, Lock!Guard>>, Endured,
         signals' \in [Helpers -> Nat],
         dir' \in [Lock!Names -> [owner : Helpers \cup {Claude, Nil}, inode : Nat, fresh : BOOLEAN]],
         inodes' \in 0..MaxInodes, inodes <= inodes', DirectoriesAreNew',
         cleared' \in [Helpers -> SUBSET Nat],
         \A k \in Helpers : k # h => cleared'[k] = cleared[k] /\ \A n \in Lock!Names : Spared(k, n),
         \A n \in Lock!Names : Known(h, n)'
  PROVE  StepOf(h)
<1> USE DEF LockInv, Endured
<1> DEFINE t == IF l.pending # Nil THEN <<"abandon", "release">> ELSE <<"release", "release">>
           m == IF l.pending # Nil THEN [l EXCEPT !.prohibited = TRUE, !.stop = TRUE]
                                    ELSE [l EXCEPT !.stop = TRUE]
<1>1. t \in Seq(LockCalls) /\ t # <<>>
  <2>1. /\ <<"abandon", "release">> \in Seq(LockCalls) /\ <<"abandon", "release">> # <<>>
        /\ <<"release", "release">> \in Seq(LockCalls) /\ <<"release", "release">> # <<>>
    BY DEF LockCalls
  <2> QED
    BY <2>1
<1>2. /\ m \in Leases /\ ~m.cleanup /\ ~m.released /\ ~m.completed /\ Untouched(m)
      /\ m.life = "not-started" /\ m.pending = l.pending /\ (m.pending # Nil => m.prohibited)
  BY DEF Fresh, Leases, Untouched
<1>3. /\ place' = [place EXCEPT ![h] = "entry"] /\ agenda' = [agenda EXCEPT ![h] = t]
      /\ hold' = [hold EXCEPT ![h] = m]
  BY DEF Lock!AcquireFails, Lock!Goto, Lock!Lease
<1>4. /\ place'[h] = "entry" /\ agenda'[h] = t /\ hold'[h] = m /\ adopted'[h] = adopted[h] /\ opened'[h] = opened[h]
      /\ beat'[h] = "none" /\ operator'[h] = operator[h] /\ handoff'[h] = handoff[h]
  BY <1>3 DEF Typed, HInv, LeaseIsFresh, Early, Lock!Guard
<1>5. Typed'
  BY <1>1, <1>2, <1>3 DEF Typed, Lock!Guard, Lock!Labels
<1>6. \A k \in Helpers : k # h => Undisturbed(k)
  BY <1>3 DEF Undisturbed, SameOf, Typed, Lock!Guard
<1>7. LeaseIsFresh(h)' /\ HandoffKnown(h)'
  BY <1>4 DEF LeaseIsFresh, Early, Acquiring, HInv, HandoffKnown
<1>8. MarksAgree(place[h], agenda[h], hold[h])'
  BY <1>1, <1>2, <1>4 DEF MarksAgree, Early, Acquiring, Releasing, Unreleased, Destroying, Abandoning
<1>9. DescriptorsAreNamed(h)'
  <2>1. \A n \in Lock!Names : adopted[h][n] # 0 <=> n \in opened[h]
    BY DEF HInv, LeaseIsFresh, DescriptorsAreNamed, Early, Acquiring
  <2> QED
    BY <1>2, <1>4, <2>1 DEF DescriptorsAreNamed, Quiet
<1>10. DirectoriesAreKnown(h)'
  BY <1>2, <1>4 DEF DirectoriesAreKnown, Lock!Removing, Lock!Adopting
<1> QED
  BY <1>5, <1>6, <1>7, <1>8, <1>9, <1>10 DEF StepOf, HInv

LEMMA FailInPlace ==
  ASSUME LockBounds, LockInv, NEW h \in Helpers, NEW l \in Leases, place[h] \in Acquiring,
         Lock!AcquireFails(h, l), Fresh(l), UNCHANGED <<adopted, opened, beat, Lock!Guard, faults>>,
         signals' \in [Helpers -> Nat], UNCHANGED Lock!Disk,
         l.pending = hold[h].pending \/ hold[h].pending = Nil
  PROVE  StepOf(h)
<1> USE DEF LockInv
<1>1. UNCHANGED <<dir, inodes, cleared>> /\ inodes \in Nat /\ hold'[h].pending = l.pending
  BY DEF Lock!Disk, Typed, LockBounds, Lock!AcquireFails, Lock!Lease, Leases
<1>2. \A n \in Lock!Names : Known(h, n)'
  <2>1. \A n \in Lock!Names : Known(h, n)
    BY DEF HInv, DirectoriesAreKnown
  <2> QED
    BY <1>1, <2>1 DEF Known, Lock!Owns, LockBounds, Lost
<1>3. \A k \in Helpers, n \in Lock!Names : Spared(k, n)
  BY <1>1 DEF Spared
<1>4. /\ dir' \in [Lock!Names -> [owner : Helpers \cup {Claude, Nil}, inode : Nat, fresh : BOOLEAN]]
      /\ inodes' \in 0..MaxInodes /\ inodes <= inodes' /\ cleared' \in [Helpers -> SUBSET Nat]
      /\ \A k \in Helpers : cleared'[k] = cleared[k]
  BY <1>1 DEF Typed
<1>5. DirectoriesAreNew'
  BY <1>1 DEF DirectoriesAreNew
<1> QED
  BY <1>2, <1>3, <1>4, <1>5, Unfaulted, FailStep

(* A directory that is made is new to every helper. *)
LEMMA MadeDirectory ==
  ASSUME LockBounds, LockInv, NEW w \in Helpers \cup {Claude}, NEW n \in Lock!Names, Lock!Make(w, n), inodes < MaxInodes
  PROVE  /\ dir' \in [Lock!Names -> [owner : Helpers \cup {Claude, Nil}, inode : Nat, fresh : BOOLEAN]]
         /\ inodes' = inodes + 1 /\ inodes' \in 0..MaxInodes /\ inodes <= inodes' /\ inodes' > 0
         /\ dir'[n] = [owner |-> w, inode |-> inodes', fresh |-> TRUE]
         /\ \A m \in Lock!Names : m # n => dir'[m] = dir[m]
         /\ DirectoriesAreNew'
<1>1. /\ inodes' = inodes + 1 /\ inodes \in Nat /\ inodes' \in 0..MaxInodes /\ inodes' > 0 /\ inodes <= inodes'
  BY DEF Lock!Make, LockInv, Typed, LockBounds
<1>2. /\ dir' \in [Lock!Names -> [owner : Helpers \cup {Claude, Nil}, inode : Nat, fresh : BOOLEAN]]
      /\ dir'[n] = [owner |-> w, inode |-> inodes', fresh |-> TRUE]
      /\ \A m \in Lock!Names : m # n => dir'[m] = dir[m]
  BY <1>1 DEF Lock!Make, LockInv, Typed
<1>3. DirectoriesAreNew'
  <2>1. ASSUME NEW m \in Lock!Names
        PROVE  dir'[m].inode <= inodes' /\ (dir'[m].inode = 0 => dir'[m].owner = Nil)
    <3>1. CASE m = n
      BY <1>1, <1>2, <3>1
    <3>2. CASE m # n
      <4>1. /\ dir[m].inode \in Nat /\ dir[m].inode <= inodes /\ dir'[m] = dir[m]
            /\ (dir[m].inode = 0 => dir[m].owner = Nil)
        BY <1>2, <3>2 DEF DirectoriesAreNew, LockInv, Typed
      <4> QED
        BY <1>1, <4>1
    <3> QED
      BY <3>1, <3>2
  <2> QED
    BY <2>1 DEF DirectoriesAreNew
<1> QED
  BY <1>1, <1>2, <1>3

(* Who removes a directory made it, or lost its own where it goes by name. *)
LEMMA RemovedDirectory ==
  ASSUME LockBounds, LockInv, NEW h \in Helpers, NEW n \in Lock!Names, Lock!RemoveDirectory(h, n),
         place[h] \in {Lock!Adopting(n), Lock!Removing(n)}, inodes' = inodes
  PROVE  /\ dir' \in [Lock!Names -> [owner : Helpers \cup {Claude, Nil}, inode : Nat, fresh : BOOLEAN]]
         /\ dir'[n].owner = Nil /\ dir'[n].inode = 0 /\ \A o \in Lock!Names : o # n => dir'[o] = dir[o]
         /\ DirectoriesAreNew' /\ cleared' \in [Helpers -> SUBSET Nat] /\ Endured
         /\ cleared'[h] = cleared[h] \cup {dir[n].inode} /\ faults'[h].lapsed = faults[h].lapsed
         /\ \A k \in Helpers : k # h => cleared'[k] = cleared[k] /\ \A o \in Lock!Names : Spared(k, o)
<1> USE DEF LockInv
<1>1. /\ dir' \in [Lock!Names -> [owner : Helpers \cup {Claude, Nil}, inode : Nat, fresh : BOOLEAN]]
      /\ dir'[n].owner = Nil /\ dir'[n].inode = 0 /\ \A o \in Lock!Names : o # n => dir'[o] = dir[o]
      /\ cleared' \in [Helpers -> SUBSET Nat] /\ cleared'[h] = cleared[h] \cup {dir[n].inode}
      /\ \A k \in Helpers : k # h => cleared'[k] = cleared[k]
      /\ inodes \in Nat /\ Nil \notin Helpers
  BY DEF Lock!RemoveDirectory, Lock!Free, Typed, LockBounds
<1>2. DirectoriesAreNew'
  BY <1>1 DEF DirectoriesAreNew
<1>3. dir[n].owner = h \/ (Lost(h, n) /\ Foreign)
  BY DEF HInv, DirectoriesAreKnown, Known, Lost, Excepted
<1>4. ASSUME NEW k \in Helpers
      PROVE  /\ faults'[k] \in FaultRecord
             /\ ~faults'[k].late /\ faults'[k].wrong \subseteq faults'[k].lapsed
             /\ faults[k].lapsed \subseteq faults'[k].lapsed
             /\ ~Foreign => faults'[k].lapsed = {}
             /\ k = h => faults'[k].lapsed = faults[k].lapsed
             /\ k # h /\ dir[n].owner = k /\ place[k] \in {Lock!Adopting(n), Lock!Removing(n)} => Lost(k, n)'
  <2>1. /\ faults[k] \in FaultRecord
        /\ ~faults[k].late /\ faults[k].wrong \subseteq faults[k].lapsed
        /\ ~Foreign => faults[k].lapsed = {}
    BY DEF Typed, Excepted, FaultRecords
  <2>2. CASE k = h
    <3>1. \/ faults'[k] = faults[k]
          \/ faults'[k] = [faults[k] EXCEPT !.wrong = @ \cup {n}] /\ n \in faults[k].lapsed
      BY <1>3, <2>2 DEF Lock!RemoveDirectory, Lost
    <3> QED
      BY <2>1, <2>2, <3>1 DEF FaultRecord
  <2>3. CASE k # h
    <3>1. faults'[k] = Lock!Lapsed(k, n)
      BY <2>3 DEF Lock!RemoveDirectory
    <3>2. CASE dir[n].owner = k /\ place[k] \in {Lock!Adopting(n), Lock!Removing(n)}
      <4>1. faults'[k] = [faults[k] EXCEPT !.lapsed = @ \cup {n}] /\ Foreign
        BY <1>3, <2>3, <3>1, <3>2 DEF Lock!Lapsed
      <4> QED
        BY <2>1, <2>3, <4>1 DEF Lost, FaultRecord
    <3>3. CASE ~(dir[n].owner = k /\ place[k] \in {Lock!Adopting(n), Lock!Removing(n)})
      <4>1. faults'[k] = faults[k]
        BY <3>1, <3>3 DEF Lock!Lapsed
      <4> QED
        BY <2>1, <2>3, <3>3, <4>1
    <3> QED
      BY <3>2, <3>3
  <2> QED
    BY <2>2, <2>3
<1>5. Endured
  <2>1. faults' \in FaultRecords
    BY <1>4 DEF Lock!RemoveDirectory, FaultRecords
  <2> QED
    BY <1>4, <2>1 DEF Endured, Excepted
<1>6. ASSUME NEW k \in Helpers, k # h, NEW o \in Lock!Names PROVE Spared(k, o)
  <2>1. o = n => (dir[n].owner = k => Foreign)
    BY <1>3, <1>6
  <2> QED
    BY <1>1, <1>4, <1>6, <2>1 DEF Spared
<1> QED
  BY <1>1, <1>2, <1>4, <1>5, <1>6

LEMMA MakeLockStep ==
  ASSUME LockBounds, LockInv, NEW h \in Helpers, NEW n \in Lock!Names, Lock!MakeLock(h, n)
  PROVE  StepOf(h)
<1> USE DEF LockInv
<1> DEFINE l == hold[h]
           m == [l EXCEPT !.pending = n]
<1>1. /\ place[h] = Lock!Mk(n) /\ place[h] \in {"mk-primary", "mk-legacy"}
      /\ UNCHANGED <<adopted, opened, beat, Lock!Guard, cleared, faults, signals>>
      /\ l \in Leases /\ Fresh(l) /\ l.pending = Nil /\ beat[h] = "none"
      /\ n = "legacy" => adopted[h]["primary"] # 0
  BY DEF Lock!MakeLock, Typed, HInv, LeaseIsFresh, Early, Acquiring, Lock!Mk, Lock!Names, Fresh
<1>2. m \in Leases /\ Fresh(m) /\ m.pending = n
  BY <1>1 DEF Leases, Fresh, Untouched
<1>3. CASE /\ dir[n] = Lock!Free /\ inodes < MaxInodes /\ Lock!Make(h, n) /\ Lock!Goto(h, Lock!Adopting(n))
           /\ Lock!Lease(h, m) /\ UNCHANGED agenda
  <2>1. /\ dir' \in [Lock!Names -> [owner : Helpers \cup {Claude, Nil}, inode : Nat, fresh : BOOLEAN]]
        /\ inodes' \in 0..MaxInodes /\ inodes <= inodes' /\ inodes' = inodes + 1 /\ inodes' > 0
        /\ dir'[n].owner = h /\ dir'[n].inode = inodes' /\ inodes \in Nat
        /\ \A o \in Lock!Names : o # n => dir'[o] = dir[o]
        /\ DirectoriesAreNew'
    <3>1. h \in Helpers \cup {Claude} /\ inodes \in Nat
      BY DEF Typed, LockBounds
    <3>2. dir'[n] = [owner |-> h, inode |-> inodes', fresh |-> TRUE]
      BY <1>3, <3>1, MadeDirectory
    <3> QED
      BY <1>3, <3>1, <3>2, MadeDirectory
  <2>2. /\ place'[h] = Lock!Adopting(n) /\ agenda'[h] = agenda[h] /\ hold'[h] = m /\ adopted'[h] = adopted[h] /\ opened'[h] = opened[h]
        /\ beat'[h] = "none" /\ operator'[h] = operator[h] /\ handoff'[h] = handoff[h] /\ cleared'[h] = cleared[h]
        /\ Lock!Adopting(n) \in {"adopt-primary", "adopt-legacy"} /\ (Lock!Adopting(n) = "adopt-legacy" => n = "legacy")
    BY <1>1, <1>3 DEF Typed, Lock!Goto, Lock!Lease, Lock!Guard, Lock!Adopting, Lock!Names
  <2>3. Typed'
    BY <1>1, <1>2, <1>3, <2>1, <2>2 DEF Typed, Lock!Guard, Lock!Goto, Lock!Lease, Lock!Labels
  <2>4. \A k \in Helpers : k # h => Undisturbed(k)
    <3>1. ASSUME NEW k \in Helpers, k # h PROVE SameOf(k)
      BY <1>1, <1>3, <3>1 DEF SameOf, Typed, Lock!Guard, Lock!Goto, Lock!Lease
    <3>2. ASSUME NEW k \in Helpers, k # h, NEW o \in Lock!Names PROVE Spared(k, o)
      BY <1>3, <2>1, <3>2 DEF Spared, Lock!Free, LockBounds
    <3> QED
      BY <3>1, <3>2 DEF Undisturbed
  <2>5. LeaseIsFresh(h)' /\ HandoffKnown(h)'
    BY <1>1, <1>2, <2>2 DEF LeaseIsFresh, Early, Acquiring, HInv, HandoffKnown, Fresh,
       Lock!Adopting, Lock!Names
  <2>6. MarksAgree(place[h], agenda[h], hold[h])'
    BY <1>2, <2>2 DEF MarksAgree, Early, Acquiring, Releasing, Unreleased, Destroying, Abandoning, Fresh
  <2>7. DescriptorsAreNamed(h)'
    BY <1>1, <1>2, <2>2 DEF HInv, DescriptorsAreNamed, Fresh, Untouched, Quiet
  <2>8. DirectoriesAreKnown(h)'
    <3>1. \A o \in Lock!Names : Known(h, o) /\ adopted[h][o] \in Nat
      BY DEF HInv, DirectoriesAreKnown, Typed
    <3>2. \A o \in Lock!Names : Known(h, o)'
      BY <1>1, <1>2, <2>1, <2>2, <3>1 DEF Known, Lock!Owns, LockBounds, Lost
    <3>3. ~Foreign /\ n = "legacy" => Lock!Owns(h, "primary")
      BY <1>1 DEF HInv, DirectoriesAreKnown, Lock!Mk
    <3> QED
      BY <1>2, <2>1, <2>2, <3>2, <3>3 DEF DirectoriesAreKnown, Fresh, Lock!Removing, Lock!Adopting, Lock!Owns,
         Lock!Names
  <2> QED
    BY <2>1, <2>3, <2>4, <2>5, <2>6, <2>7, <2>8, <1>1, Unfaulted DEF StepOf, HInv, Endured
<1>4. CASE Lock!AcquireFails(h, l) /\ UNCHANGED <<dir, inodes>>
  BY <1>1, <1>4, FailInPlace DEF Lock!Disk, Acquiring, Typed
<1>5. CASE Lock!AcquireFails(h, m) /\ UNCHANGED <<dir, inodes>>
  BY <1>1, <1>2, <1>5, FailInPlace DEF Lock!Disk, Acquiring, Typed
<1> QED
  BY <1>3, <1>4, <1>5 DEF Lock!MakeLock

LEMMA AdoptStep ==
  ASSUME LockBounds, LockInv, NEW h \in Helpers, NEW n \in Lock!Names, NEW next,
         \/ n = "primary" /\ next = "mk-legacy"
         \/ n = "legacy" /\ next = "start",
         Lock!Adopt(h, n, next)
  PROVE  StepOf(h)
<1> USE DEF LockInv
<1> DEFINE l == hold[h]
           m == [l EXCEPT !.pending = Nil]
<1>1. /\ place[h] = Lock!Adopting(n) /\ place[h] \in {"adopt-primary", "adopt-legacy"}
      /\ UNCHANGED <<beat, Lock!Guard, signals>>
      /\ l \in Leases /\ Fresh(l) /\ l.pending = n /\ beat[h] = "none"
      /\ n = "legacy" => adopted[h]["primary"] # 0
      /\ h # Nil
  BY DEF Lock!Adopt, Typed, HInv, LeaseIsFresh, Early, Acquiring, Lock!Adopting, Lock!Names, Fresh,
     LockBounds
<1>2. m \in Leases /\ Fresh(m) /\ m.pending = Nil
  BY <1>1 DEF Leases, Fresh, Untouched
<1>3. \A o \in Lock!Names : /\ Known(h, o) /\ adopted[h][o] \in Nat /\ dir[o].inode \in Nat /\ dir[o].inode <= inodes
                             /\ (dir[o].owner # Nil => dir[o].inode # 0)
  BY <1>1 DEF HInv, DirectoriesAreKnown, Typed, DirectoriesAreNew
<1>4. CASE /\ dir[n].owner # Nil /\ adopted' = [adopted EXCEPT ![h][n] = dir[n].inode]
           /\ opened' = [opened EXCEPT ![h] = @ \cup {n}] /\ Lock!Lease(h, m) /\ Lock!Goto(h, next)
           /\ UNCHANGED <<agenda, Lock!Disk, faults>>
  <2>1. /\ place'[h] = next /\ agenda'[h] = agenda[h] /\ hold'[h] = m /\ opened'[h] = opened[h] \cup {n}
        /\ adopted'[h][n] = dir[n].inode /\ \A o \in Lock!Names : o # n => adopted'[h][o] = adopted[h][o]
        /\ beat'[h] = "none" /\ operator'[h] = operator[h] /\ handoff'[h] = handoff[h] /\ cleared'[h] = cleared[h]
        /\ UNCHANGED <<dir, inodes>>
    BY <1>1, <1>4 DEF Typed, Lock!Goto, Lock!Lease, Lock!Guard, Lock!Disk
  <2>2. Typed'
    <3>1. adopted' \in [Helpers -> [Lock!Names -> Nat]]
      BY <1>3, <1>4 DEF Typed
    <3>2. opened' \in [Helpers -> SUBSET Lock!Descriptors]
      BY <1>4 DEF Typed, Lock!Names, Lock!Descriptors
    <3> QED
      BY <1>1, <1>2, <1>4, <3>1, <3>2 DEF Typed, Lock!Guard, Lock!Goto, Lock!Lease, Lock!Labels,
         Lock!Disk
  <2>3. \A k \in Helpers : k # h => Undisturbed(k)
    BY <1>1, <1>4 DEF Undisturbed, SameOf, Spared, Typed, Lock!Guard, Lock!Goto, Lock!Lease, Lock!Disk
  <2>4. DirectoriesAreNew' /\ Excepted' /\ inodes <= inodes'
    BY <1>1, <1>4, <2>1 DEF DirectoriesAreNew, Excepted, Typed, LockBounds
  <2>5. LeaseIsFresh(h)' /\ HandoffKnown(h)'
    BY <1>1, <1>2, <1>3, <1>4, <2>1 DEF LeaseIsFresh, Early, Acquiring, HInv, HandoffKnown, Fresh,
       Lock!Names, Lock!Adopting
  <2>6. MarksAgree(place[h], agenda[h], hold[h])'
    BY <1>2, <2>1 DEF MarksAgree, Early, Acquiring, Releasing, Unreleased, Destroying, Abandoning, Fresh
  <2>7. DescriptorsAreNamed(h)'
    <3>1. \A o \in Lock!Names : adopted[h][o] # 0 <=> o \in opened[h]
      BY <1>1 DEF HInv, DescriptorsAreNamed, Fresh
    <3>2. \A o \in Lock!Names : adopted'[h][o] # 0 <=> o \in opened'[h]
      BY <1>3, <1>4, <2>1, <3>1
    <3> QED
      BY <1>2, <2>1, <3>2 DEF DescriptorsAreNamed, Fresh, Quiet
  <2>8. DirectoriesAreKnown(h)'
    <3>0. dir[n].owner = h \/ Lost(h, n)
      BY <1>1 DEF HInv, DirectoriesAreKnown
    <3>1. \A o \in Lock!Names : Known(h, o)'
      BY <1>1, <1>2, <1>3, <1>4, <2>1, <3>0 DEF Known, Lock!Owns, Lost
    <3>2. ~Foreign => Lock!Owns(h, "primary")'
      BY <1>1, <1>3, <1>4, <2>1 DEF HInv, DirectoriesAreKnown, Lock!Adopting, Lock!Owns, Lock!Names
    <3> QED
      BY <1>2, <2>1, <3>1, <3>2 DEF DirectoriesAreKnown, Fresh, Lock!Removing, Lock!Adopting
  <2> QED
    BY <2>2, <2>3, <2>4, <2>5, <2>6, <2>7, <2>8 DEF StepOf, HInv
<1>5. ASSUME NEW left \in {Nil, n}, Lock!RemoveDirectory(h, n), UNCHANGED <<inodes, adopted, opened>>,
             Lock!AcquireFails(h, [l EXCEPT !.pending = left])
      PROVE  StepOf(h)
  <2> DEFINE e == [l EXCEPT !.pending = left]
  <2>1. e \in Leases /\ Fresh(e) /\ hold'[h].pending = left
    BY <1>1, <1>5 DEF Leases, Fresh, Untouched, Typed, Lock!AcquireFails, Lock!Lease
  <2>2. /\ dir' \in [Lock!Names -> [owner : Helpers \cup {Claude, Nil}, inode : Nat, fresh : BOOLEAN]]
        /\ dir'[n].owner = Nil /\ dir'[n].inode = 0 /\ \A o \in Lock!Names : o # n => dir'[o] = dir[o]
        /\ DirectoriesAreNew' /\ cleared' \in [Helpers -> SUBSET Nat] /\ Endured
        /\ faults'[h].lapsed = faults[h].lapsed
        /\ \A k \in Helpers : k # h => cleared'[k] = cleared[k] /\ \A o \in Lock!Names : Spared(k, o)
    BY <1>1, <1>5, RemovedDirectory
  <2>3. \A o \in Lock!Names : Known(h, o)'
    BY <1>1, <1>3, <1>5, <2>1, <2>2 DEF Known, Lock!Owns, Lost
  <2>4. inodes' \in 0..MaxInodes /\ inodes <= inodes' /\ signals' \in [Helpers -> Nat]
    BY <1>1, <1>5 DEF Typed, LockBounds
  <2> QED
    BY <1>1, <1>5, <2>1, <2>2, <2>3, <2>4, FailStep DEF Acquiring
<1>6. CASE Lock!AcquireFails(h, l) /\ UNCHANGED <<Lock!Disk, adopted, opened, faults>>
  BY <1>1, <1>6, FailInPlace DEF Acquiring, Typed
<1> QED
  BY <1>4, <1>5, <1>6 DEF Lock!Adopt

LEMMA StartHeartbeatStep ==
  ASSUME LockBounds, LockInv, NEW h \in Helpers, Lock!StartHeartbeat(h)
  PROVE  StepOf(h)
<1> USE DEF LockInv
<1> DEFINE l == hold[h]
           m == [l EXCEPT !.error = TRUE]
<1>1. /\ place[h] = "start" /\ UNCHANGED <<Lock!Disk, adopted, opened, Lock!Guard, faults, signals>>
      /\ l \in Leases /\ Fresh(l) /\ l.pending = Nil
      /\ \A n \in Lock!Names : adopted[h][n] # 0
  BY DEF Lock!StartHeartbeat, Typed, HInv, LeaseIsFresh, Early, Acquiring, Fresh
<1>2. CASE Lock!Goto(h, "held") /\ beat' = [beat EXCEPT ![h] = "wait"] /\ UNCHANGED <<agenda, hold>>
  <2>1. /\ place'[h] = "held" /\ beat'[h] = "wait" /\ agenda'[h] = agenda[h] /\ hold'[h] = l
        /\ UNCHANGED <<dir, inodes, cleared, adopted, opened, operator, handoff, hold>>
    BY <1>1, <1>2 DEF Typed, Lock!Goto, Lock!Disk, Lock!Guard
  <2>2. Typed'
    BY <1>1, <1>2 DEF Typed, Lock!Goto, Lock!Labels, Lock!Disk, Lock!Guard
  <2>3. \A k \in Helpers : k # h => Undisturbed(k)
    BY <1>1, <1>2 DEF Undisturbed, SameOf, Spared, Typed, Lock!Guard, Lock!Goto, Lock!Disk
  <2>4. DirectoriesAreNew' /\ Excepted' /\ inodes <= inodes'
    BY <1>1, <2>1 DEF DirectoriesAreNew, Excepted, Typed, LockBounds
  <2>5. LeaseIsFresh(h)' /\ HandoffKnown(h)'
    BY <1>1, <2>1 DEF LeaseIsFresh, Early, Acquiring, HInv, HandoffKnown, Fresh, Lock!Adopting
  <2>6. MarksAgree(place[h], agenda[h], hold[h])'
    BY <1>1, <2>1 DEF MarksAgree, Early, Acquiring, Releasing, Unreleased, Destroying, Abandoning, Fresh
  <2>7. DescriptorsAreNamed(h)'
    BY <1>1, <2>1 DEF HInv, DescriptorsAreNamed, Fresh, Untouched, Silent, Destroying
  <2>8. DirectoriesAreKnown(h)'
    BY <1>1, <2>1 DEF HInv, DirectoriesAreKnown, Known, Gone, Lost, Lock!Owns, Fresh, Lock!Removing, Lock!Adopting
  <2> QED
    BY <2>2, <2>3, <2>4, <2>5, <2>6, <2>7, <2>8 DEF StepOf, HInv
<1>3. CASE Lock!AcquireFails(h, m) /\ UNCHANGED beat
  <2>1. m \in Leases /\ Fresh(m) /\ m.pending = l.pending
    BY <1>1 DEF Leases, Fresh, Untouched
  <2> QED
    BY <1>1, <1>3, <2>1, FailInPlace DEF Acquiring, Typed
<1> QED
  BY <1>2, <1>3 DEF Lock!StartHeartbeat

(* The removal *)

(* What is left to show of a step that goes on removing. *)
LEMMA DestroyStep ==
  ASSUME LockBounds, LockInv, NEW h \in Helpers, NEW p \in Destroying, NEW l \in Leases,
         place[h] \in Destroying, l = hold[h] \/ l = [hold[h] EXCEPT !.failed = TRUE],
         Lock!Goto(h, p), Lock!Lease(h, l), UNCHANGED <<inodes, agenda, adopted, opened, beat, Lock!Guard, signals>>, Endured,
         dir' \in [Lock!Names -> [owner : Helpers \cup {Claude, Nil}, inode : Nat, fresh : BOOLEAN]],
         cleared' \in [Helpers -> SUBSET Nat], DirectoriesAreNew',
         \A k \in Helpers : k # h => cleared'[k] = cleared[k] /\ \A n \in Lock!Names : Spared(k, n),
         \A n \in Lock!Names : Known(h, n)' /\ (p = Lock!Removing(n) => Lock!Owns(h, n)' \/ Lost(h, n)'),
         ~l.failed /\ p \in {"check-primary", "rm-primary", "close"} => Gone(h, "legacy")',
         ~l.failed /\ p = "close" => Gone(h, "primary")'
  PROVE  StepOf(h)
<1> USE DEF LockInv, Endured
<1>1. /\ place'[h] = p /\ hold'[h] = l /\ agenda'[h] = agenda[h] /\ adopted'[h] = adopted[h] /\ opened'[h] = opened[h]
      /\ beat'[h] = beat[h] /\ operator'[h] = operator[h] /\ handoff'[h] = handoff[h] /\ hold[h] \in Leases
      /\ Quiet(h) /\ p \notin Early /\ p \notin {"ab-close", "crashed"} /\ p \in Lock!Labels /\ place[h] # "crashed"
      /\ place[h] \notin Early
  BY DEF Typed, Lock!Goto, Lock!Lease, Lock!Guard, HInv, DescriptorsAreNamed, Silent, Destroying,
     Early, Acquiring, Lock!Labels
<1>2. /\ l.cleanup /\ l.diag /\ ~l.released /\ ~l.prohibited /\ l.pending = Nil
      /\ l.life # "settled" \/ l.cleanup
      /\ l.closing = hold[h].closing /\ l.unsure = hold[h].unsure /\ l.residue = hold[h].residue
      /\ l.completed = hold[h].completed
  BY <1>1 DEF HInv, MarksAgree, Releasing, Leases
<1>3. Typed'
  BY <1>1 DEF Typed, Lock!Goto, Lock!Lease, Lock!Guard
<1>4. \A k \in Helpers : k # h => Undisturbed(k)
  BY DEF Undisturbed, SameOf, Typed, Lock!Guard, Lock!Goto, Lock!Lease
<1>5. LeaseIsFresh(h)' /\ HandoffKnown(h)'
  BY <1>1 DEF LeaseIsFresh, HInv, HandoffKnown
<1>6. MarksAgree(place[h], agenda[h], hold[h])'
  BY <1>1, <1>2 DEF MarksAgree, Releasing, Unreleased, Destroying, Abandoning
<1>7. DescriptorsAreNamed(h)'
  BY <1>1, <1>2 DEF HInv, DescriptorsAreNamed, Untouched, Covered, Quiet
<1>8. DirectoriesAreKnown(h)'
  BY <1>1, <1>2 DEF DirectoriesAreKnown, Destroying, Lock!Adopting
<1>9. inodes <= inodes'
  BY DEF Typed, LockBounds
<1> QED
  BY <1>3, <1>4, <1>5, <1>6, <1>7, <1>8, <1>9 DEF StepOf, HInv

LEMMA CheckLockStep ==
  ASSUME LockBounds, LockInv, NEW h \in Helpers, NEW n \in Lock!Names, Lock!CheckLock(h, n)
  PROVE  StepOf(h)
<1> USE DEF LockInv
<1> DEFINE l == IF adopted[h][n] # 0 /\ ~Lock!Owns(h, n) THEN [hold[h] EXCEPT !.failed = TRUE] ELSE hold[h]
           p == IF Lock!Owns(h, n) THEN Lock!Removing(n) ELSE Lock!After(n)
<1>1. /\ place[h] = Lock!Checking(n) /\ place[h] \in Destroying /\ place[h] \notin Early \cup {"crashed"}
      /\ Lock!Goto(h, p) /\ Lock!Lease(h, l) /\ p \in Destroying /\ hold[h] \in Leases /\ l \in Leases
      /\ l = hold[h] \/ l = [hold[h] EXCEPT !.failed = TRUE]
      /\ UNCHANGED <<dir, cleared, inodes, agenda, adopted, opened, beat, Lock!Guard, faults, signals>>
  <2>1. hold[h] \in Leases /\ l \in Leases
    <3>1. hold[h] \in Leases
      BY DEF Typed
    <3>2. [hold[h] EXCEPT !.failed = TRUE] \in Leases
      BY <3>1 DEF Leases
    <3> QED
      BY <3>1, <3>2
  <2> QED
    BY <2>1 DEF Lock!CheckLock, Lock!Checking, Lock!Removing, Lock!After, Lock!Names, Destroying,
       Early, Acquiring, Lock!Disk
<1>2. hold[h].pending = Nil
  BY <1>1 DEF HInv, MarksAgree, Releasing
<1>3. /\ dir' \in [Lock!Names -> [owner : Helpers \cup {Claude, Nil}, inode : Nat, fresh : BOOLEAN]]
      /\ cleared' \in [Helpers -> SUBSET Nat] /\ DirectoriesAreNew'
      /\ \A k \in Helpers : k # h => cleared'[k] = cleared[k] /\ \A o \in Lock!Names : Spared(k, o)
  BY <1>1 DEF Typed, DirectoriesAreNew, Spared
<1>4. /\ hold'[h] = l /\ l.pending = Nil /\ (~l.failed => ~hold[h].failed)
      /\ ~l.failed /\ ~Lock!Owns(h, n) => adopted[h][n] = 0
  BY <1>1, <1>2 DEF Lock!Lease, Typed, Leases
<1>5. \A o \in Lock!Names : Known(h, o)' /\ (Lock!Owns(h, o) <=> Lock!Owns(h, o)') /\ (Gone(h, o) <=> Gone(h, o)')
  BY <1>1, <1>2, <1>4 DEF HInv, DirectoriesAreKnown, Known, Lock!Owns, Gone, Lost
<1>6. ~l.failed /\ ~Lock!Owns(h, n) => Gone(h, n)
  BY <1>2, <1>4 DEF HInv, DirectoriesAreKnown, Known, Gone, LockBounds
<1>7. ~l.failed /\ n = "primary" => Gone(h, "legacy")
  BY <1>1, <1>4 DEF HInv, DirectoriesAreKnown, Lock!Checking
<1>8. \A o \in Lock!Names : p = Lock!Removing(o) => Lock!Owns(h, o)'
  BY <1>5 DEF Lock!Removing, Lock!After, Lock!Names
<1>9. /\ ~l.failed /\ p \in {"check-primary", "rm-primary", "close"} => Gone(h, "legacy")'
      /\ ~l.failed /\ p = "close" => Gone(h, "primary")'
  BY <1>5, <1>6, <1>7 DEF Lock!Removing, Lock!After, Lock!Names
<1> QED
  BY <1>1, <1>3, <1>5, <1>8, <1>9, Unfaulted, DestroyStep

LEMMA RemoveLockStep ==
  ASSUME LockBounds, LockInv, NEW h \in Helpers, NEW n \in Lock!Names, Lock!RemoveLock(h, n)
  PROVE  StepOf(h)
<1> USE DEF LockInv
<1> DEFINE p == Lock!After(n)
<1>1. /\ place[h] = Lock!Removing(n) /\ place[h] \in Destroying /\ place[h] \notin Early \cup {"crashed"}
      /\ Lock!Goto(h, p) /\ p \in Destroying /\ hold[h] \in Leases
      /\ UNCHANGED <<inodes, agenda, adopted, opened, beat, Lock!Guard, signals>>
      /\ h # Nil /\ \A o \in Lock!Names : p # Lock!Removing(o)
  BY DEF Lock!RemoveLock, Lock!Removing, Lock!After, Lock!Names, Destroying, Early, Acquiring,
     Typed, LockBounds
<1>2. hold[h].pending = Nil
  BY <1>1 DEF HInv, MarksAgree, Releasing
<1>3. Lock!Owns(h, n) \/ Lost(h, n)
  BY <1>1 DEF HInv, DirectoriesAreKnown
<1>4. CASE Lock!RemoveDirectory(h, n) /\ UNCHANGED hold
  <2>1. /\ dir' \in [Lock!Names -> [owner : Helpers \cup {Claude, Nil}, inode : Nat, fresh : BOOLEAN]]
        /\ dir'[n].owner = Nil /\ dir'[n].inode = 0 /\ \A o \in Lock!Names : o # n => dir'[o] = dir[o]
        /\ DirectoriesAreNew' /\ cleared' \in [Helpers -> SUBSET Nat] /\ Endured
        /\ cleared'[h] = cleared[h] \cup {dir[n].inode} /\ faults'[h].lapsed = faults[h].lapsed
        /\ \A k \in Helpers : k # h => cleared'[k] = cleared[k] /\ \A o \in Lock!Names : Spared(k, o)
    BY <1>1, <1>4, RemovedDirectory
  <2>4. \A o \in Lock!Names : Known(h, o)'
    BY <1>1, <1>2, <1>4, <2>1 DEF HInv, DirectoriesAreKnown, Known, Lock!Owns, Lost
  <2>5. Gone(h, n)' /\ \A o \in Lock!Names : Gone(h, o) => Gone(h, o)'
    BY <1>1, <1>3, <2>1 DEF Gone, Lock!Owns, Lost
  <2>6. ~hold[h].failed /\ n = "primary" => Gone(h, "legacy")
    BY <1>1 DEF HInv, DirectoriesAreKnown, Lock!Removing
  <2>7. /\ ~hold[h].failed /\ p \in {"check-primary", "rm-primary", "close"} => Gone(h, "legacy")'
        /\ ~hold[h].failed /\ p = "close" => Gone(h, "primary")'
    BY <2>5, <2>6 DEF Lock!After, Lock!Names
  <2>8. Lock!Lease(h, hold[h])
    BY <1>4, Kept DEF Lock!Lease
  <2> QED
    BY <1>1, <2>1, <2>4, <2>7, <2>8, DestroyStep
<1>5. CASE Lock!Lease(h, [hold[h] EXCEPT !.failed = TRUE]) /\ UNCHANGED <<dir, cleared, faults>>
  <2> DEFINE l == [hold[h] EXCEPT !.failed = TRUE]
  <2>1. l \in Leases /\ l.failed /\ l.pending = Nil /\ hold'[h] = l
    BY <1>1, <1>2, <1>5 DEF Leases, Lock!Lease, Typed
  <2>2. /\ dir' \in [Lock!Names -> [owner : Helpers \cup {Claude, Nil}, inode : Nat, fresh : BOOLEAN]]
        /\ cleared' \in [Helpers -> SUBSET Nat] /\ DirectoriesAreNew'
        /\ \A k \in Helpers : k # h => cleared'[k] = cleared[k] /\ \A o \in Lock!Names : Spared(k, o)
    BY <1>1, <1>5 DEF Typed, DirectoriesAreNew, Spared
  <2>3. \A o \in Lock!Names : Known(h, o)'
    BY <1>1, <1>2, <1>5, <2>1 DEF HInv, DirectoriesAreKnown, Known, Lock!Owns, Lost
  <2> QED
    BY <1>1, <1>5, <2>1, <2>2, <2>3, Unfaulted, DestroyStep
<1> QED
  BY <1>4, <1>5 DEF Lock!RemoveLock

LEMMA CloseStep ==
  ASSUME LockBounds, LockInv, NEW h \in Helpers, Lock!Close(h)
  PROVE  StepOf(h)
<1> USE DEF LockInv
<1>1. PICK failed \in {hold[h].failed, TRUE} :
        Lock!Lease(h, [hold[h] EXCEPT !.released = ~failed, !.diag = failed, !.failed = failed])
  BY DEF Lock!Close
<1> DEFINE l == [hold[h] EXCEPT !.released = ~failed, !.diag = failed, !.failed = failed]
<1>2. /\ place[h] = "close" /\ Lock!Goto(h, "free") /\ opened' = [opened EXCEPT ![h] = {}]
      /\ UNCHANGED <<dir, inodes, cleared, agenda, adopted, beat, Lock!Guard, faults, signals>>
      /\ hold[h] \in Leases /\ failed \in BOOLEAN
  BY DEF Lock!Close, Lock!Disk, Typed, Leases
<1>3. /\ place'[h] = "free" /\ opened'[h] = {} /\ hold'[h] = l /\ agenda'[h] = agenda[h] /\ adopted'[h] = adopted[h]
      /\ beat'[h] = beat[h] /\ operator'[h] = operator[h] /\ handoff'[h] = handoff[h] /\ Quiet(h)
  BY <1>1, <1>2 DEF Typed, Lock!Goto, Lock!Lease, Lock!Guard, HInv, DescriptorsAreNamed, Silent,
     Destroying
<1>4. /\ l \in Leases /\ l.cleanup /\ l.released = ~failed /\ l.diag = failed /\ ~l.prohibited
      /\ l.pending = Nil /\ l.pending = hold[h].pending
      /\ l.closing = hold[h].closing /\ l.unsure = hold[h].unsure /\ l.residue = hold[h].residue
  BY <1>2 DEF HInv, MarksAgree, Releasing, Destroying, Early, Acquiring, Leases
<1>5. Typed'
  BY <1>1, <1>2, <1>4 DEF Typed, Lock!Goto, Lock!Lease, Lock!Guard, Lock!Labels
<1>6. \A k \in Helpers : k # h => Undisturbed(k)
  BY <1>1, <1>2 DEF Undisturbed, SameOf, Spared, Typed, Lock!Guard, Lock!Goto, Lock!Lease
<1>7. DirectoriesAreNew' /\ Excepted' /\ inodes <= inodes'
  BY <1>2 DEF DirectoriesAreNew, Excepted, Typed, LockBounds
<1>8. LeaseIsFresh(h)' /\ HandoffKnown(h)'
  BY <1>3 DEF LeaseIsFresh, Early, Acquiring, HInv, HandoffKnown
<1>9. MarksAgree(place[h], agenda[h], hold[h])'
  BY <1>3, <1>4 DEF MarksAgree, Early, Acquiring, Releasing, Unreleased, Destroying, Abandoning
<1>10. DescriptorsAreNamed(h)'
  BY <1>3, <1>4 DEF DescriptorsAreNamed, Covered, Quiet
<1>11. DirectoriesAreKnown(h)'
  <2>1. \A n \in Lock!Names : Known(h, n)' /\ (Gone(h, n) => Gone(h, n)')
    BY <1>2, <1>3, <1>4 DEF HInv, DirectoriesAreKnown, Known, Lock!Owns, Gone, Lost
  <2>2. l.released => \A n \in Lock!Names : Gone(h, n)
    BY <1>1, <1>2, <1>4 DEF HInv, DirectoriesAreKnown, Lock!Names
  <2> QED
    BY <1>3, <2>1, <2>2 DEF DirectoriesAreKnown, Lock!Removing, Lock!Adopting
<1> QED
  BY <1>5, <1>6, <1>7, <1>8, <1>9, <1>10, <1>11 DEF StepOf, HInv

(* The end of an abandonment *)

LEMMA CloseOneStep ==
  ASSUME LockBounds, LockInv, NEW h \in Helpers, NEW p \in {"ab-close", "ab-free"}, NEW l \in Leases,
         NEW f \in SUBSET Lock!Descriptors, place[h] \in {"ab-resume", "ab-close"},
         Lock!Goto(h, p), Lock!Lease(h, l), opened' = [opened EXCEPT ![h] = f],
         UNCHANGED <<Lock!Disk, agenda, adopted, beat, Lock!Guard, faults>>, signals' \in [Helpers -> Nat],
         l.cleanup = hold[h].cleanup, l.diag = hold[h].diag, l.released = hold[h].released,
         l.prohibited = hold[h].prohibited, l.pending = hold[h].pending,
         Covered(l, f), l.completed => f = {}
  PROVE  StepOf(h)
<1> USE DEF LockInv
<1>1. /\ place'[h] = p /\ opened'[h] = f /\ hold'[h] = l /\ agenda'[h] = agenda[h] /\ adopted'[h] = adopted[h]
      /\ beat'[h] = beat[h] /\ operator'[h] = operator[h] /\ handoff'[h] = handoff[h] /\ cleared'[h] = cleared[h]
      /\ Quiet(h) /\ UNCHANGED <<dir, inodes, cleared>>
  BY DEF Typed, Lock!Goto, Lock!Lease, Lock!Guard, HInv, DescriptorsAreNamed, Silent, Lock!Disk
<1>2. /\ l.cleanup /\ l.prohibited /\ ~l.released /\ l.diag
  BY DEF HInv, MarksAgree, Abandoning
<1>3. Typed'
  BY <1>1 DEF Typed, Lock!Goto, Lock!Lease, Lock!Guard, Lock!Labels
<1>4. \A k \in Helpers : k # h => Undisturbed(k)
  BY <1>1 DEF Undisturbed, SameOf, Spared, Typed, Lock!Guard, Lock!Goto, Lock!Lease
<1>5. DirectoriesAreNew' /\ Excepted' /\ inodes <= inodes'
  BY <1>1 DEF DirectoriesAreNew, Excepted, Typed, LockBounds
<1>6. LeaseIsFresh(h)' /\ HandoffKnown(h)'
  BY <1>1 DEF LeaseIsFresh, Early, Acquiring, HInv, HandoffKnown
<1>7. MarksAgree(place[h], agenda[h], hold[h])'
  BY <1>1, <1>2 DEF MarksAgree, Early, Acquiring, Releasing, Unreleased, Destroying, Abandoning
<1>8. DescriptorsAreNamed(h)'
  BY <1>1, <1>2 DEF DescriptorsAreNamed, Covered, Quiet
<1>9. DirectoriesAreKnown(h)'
  BY <1>1, <1>2 DEF HInv, DirectoriesAreKnown, Known, Lock!Owns, Lost, Lock!Removing, Lock!Adopting
<1> QED
  BY <1>3, <1>4, <1>5, <1>6, <1>7, <1>8, <1>9 DEF StepOf, HInv

LEMMA AbandonOpenStep ==
  ASSUME LockBounds, LockInv, NEW h \in Helpers, Lock!AbandonOpen(h)
  PROVE  StepOf(h)
<1> USE DEF LockInv
<1> DEFINE l == hold[h]
           c == IF l.closing = {} /\ l.unsure = {} /\ l.residue = {} THEN opened[h] ELSE l.closing \ l.unsure
           m == [l EXCEPT !.closing = c, !.residue = l.residue \cup (l.unsure \cap opened[h]), !.unsure = {}]
<1>1. /\ place[h] = "ab-resume" /\ Lock!Goto(h, "ab-close") /\ l \in Leases /\ opened[h] \in SUBSET Lock!Descriptors
      /\ UNCHANGED <<Lock!Disk, agenda, adopted, opened, beat, Lock!Guard, faults, signals>>
      /\ opened' = [opened EXCEPT ![h] = opened[h]] /\ signals' \in [Helpers -> Nat]
  BY DEF Lock!AbandonOpen, Typed
<1>2. Lock!Lease(h, m)
  BY <1>1 DEF Lock!AbandonOpen, Lock!Lease, Leases
<1>3. c \in SUBSET Lock!Descriptors
  BY <1>1 DEF Leases
<1>4. /\ m \in Leases /\ m.closing = c /\ m.residue = l.residue \cup (l.unsure \cap opened[h]) /\ m.unsure = {}
      /\ m.cleanup = l.cleanup /\ m.diag = l.diag /\ m.released = l.released /\ m.prohibited = l.prohibited
      /\ m.pending = l.pending /\ m.completed = l.completed
  BY <1>1, <1>3 DEF Leases
<1>5. Covered(m, opened[h]) /\ (m.completed => opened[h] = {})
  BY <1>4 DEF HInv, DescriptorsAreNamed, Untouched, Covered
<1> QED
  BY <1>1, <1>2, <1>4, <1>5, CloseOneStep

LEMMA AbandonCloseStep ==
  ASSUME LockBounds, LockInv, NEW h \in Helpers, Lock!AbandonClose(h)
  PROVE  StepOf(h)
<1> USE DEF LockInv
<1> DEFINE l == hold[h]
<1>1. /\ place[h] = "ab-close" /\ l \in Leases /\ opened[h] \in SUBSET Lock!Descriptors
      /\ UNCHANGED <<Lock!Disk, agenda, adopted, beat, Lock!Guard, faults>>
      /\ Covered(l, opened[h]) /\ (l.completed => opened[h] = {})
  BY DEF Lock!AbandonClose, Typed, HInv, DescriptorsAreNamed
<1>2. ASSUME NEW d \in l.closing, UNCHANGED place,
             signals' = [signals EXCEPT ![h] = IF d \in hold'[h].unsure THEN @ + 1 ELSE @],
             \/ opened' = [opened EXCEPT ![h] = @ \ {d}] /\ Lock!Lease(h, [l EXCEPT !.closing = @ \ {d}])
             \/ /\ opened' \in {opened, [opened EXCEPT ![h] = @ \ {d}]}
                /\ Lock!Lease(h, [l EXCEPT !.closing = @ \ {d}, !.unsure = @ \cup {d}])
      PROVE  StepOf(h)
  <2>1. signals' \in [Helpers -> Nat] /\ Lock!Goto(h, "ab-close")
    BY <1>1, <1>2, Kept DEF Lock!Goto
  <2>2. CASE opened' = [opened EXCEPT ![h] = @ \ {d}] /\ Lock!Lease(h, [l EXCEPT !.closing = @ \ {d}])
    <3> DEFINE m == [l EXCEPT !.closing = l.closing \ {d}]
               f == opened[h] \ {d}
    <3>1. /\ m \in Leases /\ m.closing = l.closing \ {d} /\ m.unsure = l.unsure /\ m.residue = l.residue
          /\ m.cleanup = l.cleanup /\ m.diag = l.diag /\ m.released = l.released
          /\ m.prohibited = l.prohibited /\ m.pending = l.pending /\ m.completed = l.completed
          /\ Lock!Lease(h, m) /\ opened' = [opened EXCEPT ![h] = f] /\ f \in SUBSET Lock!Descriptors
      BY <1>1, <2>2 DEF Leases
    <3>2. Covered(m, f) /\ (m.completed => f = {})
      BY <1>1, <3>1 DEF Covered
    <3> QED
      BY <1>1, <2>1, <3>1, <3>2, CloseOneStep
  <2>3. CASE /\ opened' \in {opened, [opened EXCEPT ![h] = @ \ {d}]}
             /\ Lock!Lease(h, [l EXCEPT !.closing = @ \ {d}, !.unsure = @ \cup {d}])
    <3> DEFINE m == [l EXCEPT !.closing = l.closing \ {d}, !.unsure = l.unsure \cup {d}]
    <3>1. PICK f \in SUBSET Lock!Descriptors : opened' = [opened EXCEPT ![h] = f] /\ f \subseteq opened[h]
      <4>1. opened = [opened EXCEPT ![h] = opened[h]]
        BY DEF Typed
      <4>2. opened[h] \ {d} \in SUBSET Lock!Descriptors
        BY <1>1
      <4> QED
        BY <1>1, <2>3, <4>1, <4>2
    <3>2. /\ m \in Leases /\ m.closing = l.closing \ {d} /\ m.unsure = l.unsure \cup {d} /\ m.residue = l.residue
          /\ m.cleanup = l.cleanup /\ m.diag = l.diag /\ m.released = l.released
          /\ m.prohibited = l.prohibited /\ m.pending = l.pending /\ m.completed = l.completed
          /\ Lock!Lease(h, m)
      BY <1>1, <2>3 DEF Leases
    <3>3. Covered(m, f) /\ (m.completed => f = {})
      BY <1>1, <3>1, <3>2 DEF Covered
    <3> QED
      BY <1>1, <2>1, <3>1, <3>2, <3>3, CloseOneStep
  <2> QED
    BY <1>2, <2>2, <2>3
<1>3. CASE /\ l.closing = {} /\ Lock!Goto(h, "ab-free") /\ UNCHANGED <<opened, signals>>
           /\ Lock!Lease(h, IF l.unsure = {} THEN [l EXCEPT !.life = "settled", !.completed = (l.residue = {})] ELSE l)
  <2>1. opened' = [opened EXCEPT ![h] = opened[h]] /\ signals' \in [Helpers -> Nat]
    BY <1>3 DEF Typed
  <2>2. CASE l.unsure = {}
    <3> DEFINE m == [l EXCEPT !.life = "settled", !.completed = (l.residue = {})]
    <3>1. /\ m \in Leases /\ m.closing = l.closing /\ m.unsure = l.unsure /\ m.residue = l.residue
          /\ m.cleanup = l.cleanup /\ m.diag = l.diag /\ m.released = l.released
          /\ m.prohibited = l.prohibited /\ m.pending = l.pending /\ m.completed = (l.residue = {})
      BY <1>1 DEF Leases
    <3>2. Covered(m, opened[h]) /\ (m.completed => opened[h] = {})
      BY <1>1, <1>3, <2>2, <3>1 DEF Covered
    <3>3. Lock!Lease(h, m)
      BY <1>3, <2>2
    <3> QED
      BY <1>1, <1>3, <2>1, <3>1, <3>2, <3>3, CloseOneStep
  <2>3. CASE l.unsure # {}
    <3>1. Lock!Lease(h, l)
      BY <1>3, <2>3
    <3> QED
      BY <1>1, <1>3, <2>1, <3>1, CloseOneStep
  <2> QED
    BY <2>2, <2>3
<1> QED
  BY <1>2, <1>3 DEF Lock!AbandonClose

(* The renewal *)

Faulted(a, b) == b = a \/ b = [a EXCEPT !.error = TRUE, !.stop = TRUE]
Renews(h, l) == Lock!Lease(h, l) /\ Faulted(hold[h], l)

LEMMA BeatStep ==
  ASSUME LockBounds, LockInv, NEW h \in Helpers, NEW b \in {"none", "wait", "lock", "renew", "dead"}, NEW l \in Leases,
         NEW o \in {Nil, "main", "beat"}, place[h] \notin Acquiring,
         b \in {"none", "dead"} \/ ~Quiet(h), o = "main" => operator[h] = "main",
         Renews(h, l), beat' = [beat EXCEPT ![h] = b], operator' = [operator EXCEPT ![h] = o],
         UNCHANGED <<inodes, place, agenda, adopted, opened, handoff, cleared, faults, signals>>,
         dir' \in [Lock!Names -> [owner : Helpers \cup {Claude, Nil}, inode : Nat, fresh : BOOLEAN]],
         \A n \in Lock!Names : dir'[n].owner = dir[n].owner /\ dir'[n].inode = dir[n].inode
  PROVE  StepOf(h)
<1> USE DEF LockInv
<1>1. /\ place'[h] = place[h] /\ opened'[h] = opened[h] /\ hold'[h] = l /\ agenda'[h] = agenda[h] /\ adopted'[h] = adopted[h]
      /\ beat'[h] = b /\ operator'[h] = o /\ handoff'[h] = handoff[h] /\ cleared'[h] = cleared[h] /\ inodes' = inodes
  BY DEF Typed, Lock!Lease, Renews
<1>2. /\ l.cleanup = hold[h].cleanup /\ l.diag = hold[h].diag /\ l.released = hold[h].released
      /\ l.prohibited = hold[h].prohibited /\ l.pending = hold[h].pending
      /\ l.completed = hold[h].completed /\ l.life = hold[h].life /\ l.failed = hold[h].failed
      /\ l.closing = hold[h].closing /\ l.unsure = hold[h].unsure /\ l.residue = hold[h].residue
  <2>1. CASE l = hold[h]
    BY <2>1
  <2>2. CASE l = [hold[h] EXCEPT !.error = TRUE, !.stop = TRUE]
    BY <2>2, Kept DEF Leases
  <2> QED
    BY <2>1, <2>2 DEF Renews, Faulted
<1>3. Typed'
  BY DEF Typed, Lock!Lease, Renews
<1>4. \A k \in Helpers : k # h => Undisturbed(k)
  BY DEF Undisturbed, SameOf, Spared, Typed, Lock!Lease, Renews
<1>5. DirectoriesAreNew' /\ Excepted' /\ inodes <= inodes'
  BY <1>1 DEF DirectoriesAreNew, Excepted, Typed, LockBounds
<1>6. LeaseIsFresh(h)' /\ HandoffKnown(h)'
  BY <1>1, <1>2 DEF LeaseIsFresh, HInv, HandoffKnown, Untouched
<1>7. MarksAgree(place[h], agenda[h], hold[h])'
  BY <1>1, <1>2 DEF HInv, MarksAgree
<1>8. DescriptorsAreNamed(h)'
  BY <1>1, <1>2 DEF HInv, DescriptorsAreNamed, Covered, Quiet, Untouched
<1>9. DirectoriesAreKnown(h)'
  <2>1. \A n \in Lock!Names : /\ Lock!Owns(h, n) <=> Lock!Owns(h, n)'
                              /\ Gone(h, n) <=> Gone(h, n)'
                              /\ Known(h, n) <=> Known(h, n)'
                              /\ Lost(h, n) <=> Lost(h, n)'
    BY <1>1, <1>2 DEF Known, Lock!Owns, Gone, Lost
  <2>2. "legacy" \in Lock!Names /\ "primary" \in Lock!Names
    BY DEF Lock!Names
  <2> QED
    BY <1>1, <1>2, <2>1, <2>2 DEF HInv, DirectoriesAreKnown
<1> QED
  BY <1>3, <1>4, <1>5, <1>6, <1>7, <1>8, <1>9 DEF StepOf, HInv

(* A renewal writes neither owner nor inode, and finds its descriptors. *)
LEMMA Renewal ==
  ASSUME LockBounds, LockInv, NEW h \in Helpers, Lock!Renew(h), Lock!Names \subseteq opened[h]
  PROVE  /\ dir' \in [Lock!Names -> [owner : Helpers \cup {Claude, Nil}, inode : Nat, fresh : BOOLEAN]]
         /\ \A n \in Lock!Names : dir'[n].owner = dir[n].owner /\ dir'[n].inode = dir[n].inode
         /\ faults' = faults
         /\ \E l \in Leases : Renews(h, l)
<1>1. \A n \in Lock!Names : /\ dir[n] \in [owner : Helpers \cup {Claude, Nil}, inode : Nat, fresh : BOOLEAN]
                             /\ (dir'[n] = dir[n] \/ dir'[n] = [dir[n] EXCEPT !.fresh = TRUE])
  BY DEF Lock!Renew, Lock!Renewed, LockInv, Typed
<1>2. dir' \in [Lock!Names -> [owner : Helpers \cup {Claude, Nil}, inode : Nat, fresh : BOOLEAN]]
  <2>1. \A n \in Lock!Names : dir'[n] \in [owner : Helpers \cup {Claude, Nil}, inode : Nat, fresh : BOOLEAN]
    BY <1>1
  <2> QED
    BY <2>1 DEF Lock!Renew, Lock!Renewed
<1>3. hold[h] \in Leases /\ [hold[h] EXCEPT !.error = TRUE, !.stop = TRUE] \in Leases
  <2>1. hold[h] \in Leases
    BY Kept
  <2> QED
    BY <2>1 DEF Leases
<1>4. \E l \in Leases : Renews(h, l)
  BY <1>3 DEF Lock!Renew, Renews, Faulted
<1> QED
  BY <1>1, <1>2, <1>4 DEF Lock!Renew, Lock!Late

LEMMA AssertHeldStep ==
  ASSUME LockBounds, LockInv, NEW h \in Helpers, Lock!AssertHeld(h)
  PROVE  StepOf(h)
<1> USE DEF LockInv
<1>1. /\ place[h] = "held" /\ place[h] \notin Acquiring /\ Lock!Renew(h)
      /\ UNCHANGED <<inodes, place, agenda, adopted, opened, beat, handoff, operator, cleared, signals>>
      /\ beat' = [beat EXCEPT ![h] = beat[h]] /\ operator' = [operator EXCEPT ![h] = operator[h]]
      /\ beat[h] \in {"none", "wait", "lock", "renew", "dead"} /\ operator[h] \in {Nil, "main", "beat"}
      /\ beat[h] \in {"none", "dead"} \/ ~Quiet(h)
  BY DEF Lock!AssertHeld, Typed, Acquiring, Lock!Guard, Quiet
<1>2. Lock!Names \subseteq opened[h]
  BY <1>1 DEF HInv, LeaseIsFresh, DescriptorsAreNamed, Early
<1> QED
  <2>1. /\ dir' \in [Lock!Names -> [owner : Helpers \cup {Claude, Nil}, inode : Nat, fresh : BOOLEAN]]
        /\ \A n \in Lock!Names : dir'[n].owner = dir[n].owner /\ dir'[n].inode = dir[n].inode
        /\ faults' = faults
    BY <1>1, <1>2, Renewal
  <2>2. PICK l \in Leases : Renews(h, l)
    BY <1>1, <1>2, Renewal
  <2> QED
    BY <1>1, <2>1, <2>2, BeatStep

LEMMA BeatsStep ==
  ASSUME LockBounds, LockInv, NEW h \in Helpers, Lock!BeatWakes(h) \/ Lock!BeatLocks(h) \/ Lock!BeatRenews(h)
  PROVE  StepOf(h)
<1> USE DEF LockInv
<1>1. ~Quiet(h) /\ Lock!Names \subseteq opened[h] /\ place[h] \notin Acquiring
  BY DEF Lock!BeatWakes, Lock!BeatLocks, Lock!BeatRenews, Quiet, HInv, DescriptorsAreNamed,
     LeaseIsFresh, Early
<1>2. CASE Lock!BeatWakes(h) \/ Lock!BeatLocks(h)
  <2>1. PICK b \in {"dead", "lock", "renew"}, o \in {operator[h], "beat"} :
          beat' = [beat EXCEPT ![h] = b] /\ operator' = [operator EXCEPT ![h] = o]
    <3>1. operator = [operator EXCEPT ![h] = operator[h]]
      BY Kept
    <3> QED
      BY <1>2, <3>1 DEF Lock!BeatWakes, Lock!BeatLocks, Lock!Guard
  <2>2. /\ UNCHANGED <<dir, inodes, place, agenda, hold, adopted, opened, handoff, cleared, faults, signals>>
        /\ Renews(h, hold[h]) /\ hold[h] \in Leases /\ o \in {Nil, "main", "beat"}
        /\ (o = "main" => operator[h] = "main")
        /\ dir' \in [Lock!Names -> [owner : Helpers \cup {Claude, Nil}, inode : Nat, fresh : BOOLEAN]]
    BY <1>2, Kept DEF Lock!BeatWakes, Lock!BeatLocks, Lock!Guard, Lock!Disk, Lock!Lease, Typed,
       Renews, Faulted
  <2> QED
    BY <1>1, <2>1, <2>2, BeatStep
<1>3. CASE Lock!BeatRenews(h)
  <2>1. PICK b \in {"dead", "wait"} : beat' = [beat EXCEPT ![h] = b]
    BY <1>3 DEF Lock!BeatRenews
  <2>2. /\ Lock!Renew(h) /\ operator' = [operator EXCEPT ![h] = Nil]
        /\ UNCHANGED <<inodes, place, agenda, adopted, opened, handoff, cleared, signals>>
    BY <1>3 DEF Lock!BeatRenews
  <2>3. "main" # Nil
    BY DEF LockBounds
  <2>4. /\ dir' \in [Lock!Names -> [owner : Helpers \cup {Claude, Nil}, inode : Nat, fresh : BOOLEAN]]
        /\ \A n \in Lock!Names : dir'[n].owner = dir[n].owner /\ dir'[n].inode = dir[n].inode
        /\ faults' = faults
    BY <1>1, <2>2, Renewal
  <2>5. PICK l \in Leases : Renews(h, l)
    BY <1>1, <2>2, Renewal
  <2> QED
    BY <1>1, <2>1, <2>2, <2>3, <2>4, <2>5, BeatStep
<1> QED
  BY <1>2, <1>3

(* Signals and crashes *)

LEMMA InterruptStep ==
  ASSUME LockBounds, LockInv, NEW h \in Helpers, Lock!Interrupt(h)
  PROVE  StepOf(h)
<1> USE DEF LockInv
<1> USE DEF Lock!Labels, Early, Acquiring, Releasing, Unreleased, Destroying, Abandoning, Silent
<1> DEFINE l == hold[h]
<1>1. /\ UNCHANGED <<adopted, opened, beat, cleared, faults>> /\ signals' \in [Helpers -> Nat]
      /\ l \in Leases /\ MarksAgree(place[h], agenda[h], l) /\ agenda[h] \in Seq(LockCalls)
      /\ operator = [operator EXCEPT ![h] = operator[h]] /\ handoff = [handoff EXCEPT ![h] = handoff[h]]
      /\ agenda = [agenda EXCEPT ![h] = agenda[h]] /\ hold = [hold EXCEPT ![h] = l]
      /\ operator[h] \in {Nil, "main", "beat"} /\ handoff[h] \in Handoffs
      /\ (operator[h] = "main" => handoff[h] # "none")
  BY Kept DEF Lock!Interrupt, HInv, HandoffKnown
<1>2. ASSUME NEW n \in Lock!Names, place[h] = Lock!Mk(n), Lock!AcquireFails(h, [l EXCEPT !.pending = n]), UNCHANGED Lock!Guard,
             \/ dir[n] = Lock!Free /\ inodes < MaxInodes /\ Lock!Make(h, n)
             \/ UNCHANGED <<dir, inodes>>
      PROVE  StepOf(h)
  <2> DEFINE m == [l EXCEPT !.pending = n]
  <2>1. /\ Fresh(l) /\ l.pending = Nil /\ place[h] \in Acquiring
    BY <1>2 DEF HInv, LeaseIsFresh, Lock!Mk, Lock!Names, Fresh
  <2>2. m \in Leases /\ Fresh(m) /\ m.pending = n
    BY <1>1, <2>1 DEF Leases, Fresh, Untouched
  <2>3. CASE UNCHANGED <<dir, inodes>>
    BY <1>1, <1>2, <2>1, <2>2, <2>3, FailInPlace DEF Lock!Disk
  <2>4. CASE dir[n] = Lock!Free /\ inodes < MaxInodes /\ Lock!Make(h, n)
    <3>1. h \in Helpers \cup {Claude} /\ inodes \in Nat
      BY DEF Typed, LockBounds
    <3>2. dir'[n] = [owner |-> h, inode |-> inodes', fresh |-> TRUE]
      BY <2>4, <3>1, MadeDirectory
    <3>3. /\ dir' \in [Lock!Names -> [owner : Helpers \cup {Claude, Nil}, inode : Nat, fresh : BOOLEAN]]
          /\ inodes' \in 0..MaxInodes /\ inodes <= inodes' /\ inodes' = inodes + 1 /\ inodes' > 0
          /\ dir'[n].owner = h /\ dir'[n].inode = inodes'
          /\ \A o \in Lock!Names : o # n => dir'[o] = dir[o]
          /\ DirectoriesAreNew' /\ cleared' \in [Helpers -> SUBSET Nat]
      BY <1>1, <2>4, <3>1, <3>2, MadeDirectory DEF Typed
    <3>4. ASSUME NEW k \in Helpers, k # h, NEW o \in Lock!Names PROVE Spared(k, o)
      BY <2>4, <3>1, <3>3, <3>4 DEF Spared, Lock!Free, LockBounds
    <3>5. hold'[h].pending = n
      BY <1>2, <2>2 DEF Lock!AcquireFails, Lock!Lease, Typed, Leases, LockBounds
    <3>6. \A o \in Lock!Names : Known(h, o) /\ adopted[h][o] \in Nat
      BY DEF HInv, DirectoriesAreKnown, Typed
    <3>7. \A o \in Lock!Names : Known(h, o)'
      <4>1. (\A o \in Lock!Names : Nil # o) /\ adopted' = adopted
        BY <1>1 DEF LockBounds
      <4> QED
        BY <1>1, <2>1, <3>1, <3>3, <3>5, <3>6, <4>1 DEF Known, Lock!Owns, Lost
    <3> QED
      BY <1>1, <1>2, <2>1, <2>2, <3>3, <3>4, <3>7, Unfaulted, FailStep
  <2> QED
    BY <1>2, <2>3, <2>4
<1>3. CASE /\ place[h] \in {"adopt-primary", "adopt-legacy", "start"} /\ Lock!AcquireFails(h, l)
           /\ UNCHANGED <<dir, inodes, Lock!Guard>>
  <2>1. Fresh(l)
    BY <1>3 DEF HInv, LeaseIsFresh, Fresh
  <2> QED
    BY <1>1, <1>3, <2>1, FailInPlace DEF Lock!Disk
<1>4. CASE /\ place[h] \in {"rel", "join", "op", "free-again"} /\ Lock!Retry(h, l)
           /\ UNCHANGED <<dir, inodes, agenda, Lock!Guard>>
  BY <1>1, <1>4, RetryStep DEF Lock!Guard, Lock!Disk
<1>5. CASE /\ place[h] \in {"mark"} \cup Destroying /\ Lock!Goto(h, "free-failed")
           /\ UNCHANGED <<dir, inodes, agenda, Lock!Guard>>
           /\ UNCHANGED hold \/ (place[h] = "mark" /\ Lock!Lease(h, [l EXCEPT !.diag = TRUE]))
  <2>1. PICK m \in Leases : Lock!Lease(h, m) /\ m \in {l, [l EXCEPT !.diag = TRUE]}
    <3>1. [l EXCEPT !.diag = TRUE] \in Leases
      BY <1>1 DEF Leases
    <3> QED
      BY <1>1, <1>5, <3>1 DEF Lock!Lease
  <2>2. LockTurn(h, "free-failed", agenda[h], m, operator[h], handoff[h])
    BY <1>1, <1>5, <2>1 DEF LockTurn, Calm, Lock!Guard, Lock!Disk
  <2>3. MarksAgree("free-failed", agenda[h], m) /\ Carried(l, m)
    BY <1>1, <1>5, <2>1 DEF MarksAgree, Carried, Leases
  <2> QED
    BY <1>1, <2>2, <2>3, MarkStep
<1>6. CASE /\ place[h] = "free" /\ Lock!Goto(h, "free-again") /\ UNCHANGED <<dir, inodes, agenda, hold>>
           /\ operator' \in {operator, [operator EXCEPT ![h] = Nil]} /\ handoff' = [handoff EXCEPT ![h] = "release-unknown"]
  <2>1. PICK o \in {Nil, "main", "beat"} : operator' = [operator EXCEPT ![h] = o]
    BY <1>1, <1>6
  <2>2. LockTurn(h, "free-again", agenda[h], l, o, "release-unknown")
    BY <1>1, <1>6, <2>1 DEF LockTurn, Calm, Handoffs, Lock!Disk, Lock!Lease
  <2>3. MarksAgree("free-again", agenda[h], l) /\ Carried(l, l)
    BY <1>1, <1>6 DEF MarksAgree, Carried
  <2> QED
    BY <2>2, <2>3, MarkStep
<1>7. CASE /\ place[h] = "free-again" /\ Lock!Goto(h, "entry") /\ UNCHANGED hold
           /\ UNCHANGED <<dir, inodes, agenda, Lock!Guard>>
  <2>1. LockTurn(h, "entry", agenda[h], l, operator[h], handoff[h])
    BY <1>1, <1>7 DEF LockTurn, Calm, Lock!Disk, Lock!Lease, Lock!Guard
  <2>2. MarksAgree("entry", agenda[h], l) /\ Carried(l, l)
    BY <1>1, <1>7 DEF MarksAgree, Carried
  <2> QED
    BY <1>1, <2>1, <2>2, MarkStep
<1>8. CASE /\ place[h] \in {"ab-op", "ab-resume"} /\ Lock!Goto(h, "ab-free")
           /\ UNCHANGED <<dir, inodes, agenda, hold, Lock!Guard>>
  <2>1. LockTurn(h, "ab-free", agenda[h], l, operator[h], handoff[h])
    BY <1>1, <1>8 DEF LockTurn, Calm, Lock!Disk, Lock!Lease, Lock!Guard
  <2>2. MarksAgree("ab-free", agenda[h], l) /\ Carried(l, l)
    BY <1>1, <1>8 DEF MarksAgree, Carried
  <2> QED
    BY <1>1, <2>1, <2>2, MarkStep
<1> QED
  BY <1>2, <1>3, <1>4, <1>5, <1>6, <1>7, <1>8 DEF Lock!Interrupt, Lock!Mk, Lock!Names

LEMMA CrashStep ==
  ASSUME LockBounds, LockInv, NEW h \in Helpers, Lock!Crash(h)
  PROVE  StepOf(h)
<1> USE DEF LockInv
<1>1. /\ place'[h] = "crashed" /\ opened'[h] = {} /\ beat'[h] = "dead" /\ agenda'[h] = agenda[h]
      /\ UNCHANGED <<dir, inodes, cleared, hold, adopted, operator, handoff, faults>> /\ place[h] # "crashed"
  BY DEF Lock!Crash, Typed, Lock!Goto, Lock!Disk, Lock!Guard
<1>2. Typed'
  BY <1>1, Kept DEF Lock!Crash, Typed, Lock!Goto, Lock!Labels
<1>3. \A k \in Helpers : k # h => Undisturbed(k)
  BY <1>1 DEF Lock!Crash, Undisturbed, SameOf, Spared, Typed, Lock!Goto
<1>4. DirectoriesAreNew' /\ Excepted' /\ inodes <= inodes'
  BY <1>1 DEF DirectoriesAreNew, Excepted, Typed, LockBounds
<1>5. LeaseIsFresh(h)' /\ HandoffKnown(h)'
  BY <1>1 DEF LeaseIsFresh, Early, Acquiring, HInv, HandoffKnown
<1>6. MarksAgree(place[h], agenda[h], hold[h])'
  BY <1>1 DEF HInv, MarksAgree, Early, Acquiring, Releasing, Unreleased, Destroying, Abandoning
<1>7. DescriptorsAreNamed(h)'
  BY <1>1 DEF DescriptorsAreNamed, Covered, Quiet
<1>8. DirectoriesAreKnown(h)'
  BY <1>1 DEF HInv, DirectoriesAreKnown, Known, Lock!Owns, Gone, Lost, Lock!Removing, Lock!Adopting
<1> QED
  BY <1>2, <1>3, <1>4, <1>5, <1>6, <1>7, <1>8 DEF StepOf, HInv

(* Claude and time *)

LEMMA OutsideKeepsInv ==
  ASSUME LockBounds, LockInv, NEW n \in Lock!Names, Lock!Age(n) \/ Lock!ClaudeTakes(n) \/ Lock!ClaudeLeaves(n)
  PROVE  LockInv'
<1> USE DEF LockInv
<1>1. /\ UNCHANGED <<place, agenda, hold, adopted, opened, beat, operator, handoff, cleared, signals>>
      /\ inodes \in Nat /\ Claude \notin Helpers /\ Nil \notin Helpers
  BY DEF Lock!Age, Lock!ClaudeTakes, Lock!ClaudeLeaves, Lock!Guard, Typed, LockBounds
<1>2. /\ dir' \in [Lock!Names -> [owner : Helpers \cup {Claude, Nil}, inode : Nat, fresh : BOOLEAN]]
      /\ inodes' \in 0..MaxInodes /\ inodes <= inodes' /\ DirectoriesAreNew'
      /\ Endured /\ \A k \in Helpers, o \in Lock!Names : Spared(k, o)
  <2>1. CASE Lock!Age(n)
    <3>1. /\ inodes' = inodes /\ dir' \in [Lock!Names -> [owner : Helpers \cup {Claude, Nil}, inode : Nat, fresh : BOOLEAN]]
          /\ \A o \in Lock!Names : dir'[o].owner = dir[o].owner /\ dir'[o].inode = dir[o].inode
      BY <2>1 DEF Lock!Age, Typed
    <3>2. \A k \in Helpers, o \in Lock!Names : Spared(k, o)
      BY <3>1 DEF Spared
    <3>3. DirectoriesAreNew'
      BY <3>1 DEF DirectoriesAreNew
    <3> QED
      BY <1>1, <2>1, <3>1, <3>2, <3>3, Unfaulted DEF Typed, Lock!Age
  <2>2. CASE Lock!ClaudeTakes(n)
    <3>1. Claude \in Helpers \cup {Claude} /\ Lock!Make(Claude, n) /\ inodes < MaxInodes
      BY <2>2 DEF Lock!ClaudeTakes
    <3>2. /\ dir' \in [Lock!Names -> [owner : Helpers \cup {Claude, Nil}, inode : Nat, fresh : BOOLEAN]]
          /\ inodes' \in 0..MaxInodes /\ inodes' = inodes + 1 /\ DirectoriesAreNew'
          /\ dir'[n] = [owner |-> Claude, inode |-> inodes', fresh |-> TRUE]
          /\ \A o \in Lock!Names : o # n => dir'[o] = dir[o]
      BY <3>1, MadeDirectory
    <3>3. ASSUME NEW k \in Helpers
          PROVE  /\ faults'[k] \in FaultRecord
                 /\ faults'[k].late = faults[k].late /\ faults'[k].wrong = faults[k].wrong
                 /\ faults[k].lapsed \subseteq faults'[k].lapsed
                 /\ dir[n].owner = k /\ place[k] \in {Lock!Adopting(n), Lock!Removing(n)} => Lost(k, n)'
      <4>1. faults[k] \in FaultRecord
        BY DEF Typed, FaultRecords
      <4>2. faults'[k] = Lock!Lapsed(k, n)
        BY <2>2 DEF Lock!ClaudeTakes
      <4> QED
        BY <4>1, <4>2 DEF Lock!Lapsed, Lost, FaultRecord
    <3>4. Endured
      <4>1. faults' \in FaultRecords
        BY <2>2, <3>3 DEF Lock!ClaudeTakes, FaultRecords
      <4>2. Foreign /\ Excepted
        BY <2>2 DEF Lock!ClaudeTakes
      <4> QED
        BY <3>3, <4>1, <4>2 DEF Endured, Excepted
    <3>5. ASSUME NEW k \in Helpers, NEW o \in Lock!Names PROVE Spared(k, o)
      BY <1>1, <2>2, <3>2, <3>3 DEF Spared, Lock!ClaudeTakes
    <3> QED
      BY <1>1, <3>2, <3>4, <3>5
  <2>3. CASE Lock!ClaudeLeaves(n)
    <3>1. /\ inodes' = inodes /\ dir' \in [Lock!Names -> [owner : Helpers \cup {Claude, Nil}, inode : Nat, fresh : BOOLEAN]]
          /\ dir'[n].owner = Nil /\ dir'[n].inode = 0 /\ dir[n].owner = Claude
          /\ \A o \in Lock!Names : o # n => dir'[o] = dir[o]
      BY <2>3 DEF Lock!ClaudeLeaves, Typed, Lock!Free
    <3>2. \A k \in Helpers, o \in Lock!Names : Spared(k, o)
      BY <1>1, <3>1 DEF Spared
    <3>3. DirectoriesAreNew'
      BY <1>1, <3>1 DEF DirectoriesAreNew
    <3> QED
      BY <1>1, <2>3, <3>1, <3>2, <3>3, Unfaulted DEF Typed, Lock!ClaudeLeaves
  <2> QED
    BY <2>1, <2>2, <2>3
<1>3. \A k \in Helpers : Undisturbed(k)
  BY <1>1, <1>2 DEF Undisturbed, SameOf, Endured
<1>4. inodes' \in Nat
  BY <1>2 DEF LockBounds
<1>5. \A k \in Helpers : HInv(k)'
  BY <1>2, <1>3, <1>4, OthersKeepInv
<1>6. Typed'
  BY <1>1, <1>2 DEF Typed, Endured
<1> QED
  BY <1>2, <1>5, <1>6 DEF Endured

(* The theorems *)

LEMMA LockInitHolds ==
  ASSUME LockBounds, Lock!Init
  PROVE  LockInv
<1>1. Lock!NewLease \in Leases
  BY DEF Lock!NewLease, Leases
<1>2. Typed
  <2>1. /\ dir \in [Lock!Names -> [owner : Helpers \cup {Claude, Nil}, inode : Nat, fresh : BOOLEAN]]
        /\ inodes \in 0..MaxInodes
    BY DEF Lock!Init, Lock!Free, LockBounds
  <2>2. agenda \in [Helpers -> Seq(LockCalls)] /\ place \in [Helpers -> Lock!Labels]
    BY DEF Lock!Init, Lock!Labels
  <2>3. /\ hold \in [Helpers -> Leases] /\ adopted \in [Helpers -> [Lock!Names -> Nat]]
        /\ opened \in [Helpers -> SUBSET Lock!Descriptors]
    BY <1>1 DEF Lock!Init, Lock!Descriptors
  <2>4. /\ beat \in [Helpers -> {"none", "wait", "lock", "renew", "dead"}]
        /\ operator \in [Helpers -> {Nil, "main", "beat"}] /\ handoff \in [Helpers -> Handoffs]
        /\ cleared \in [Helpers -> SUBSET Nat] /\ signals \in [Helpers -> Nat]
        /\ faults \in FaultRecords
    BY DEF Lock!Init, Lock!NoFault, Handoffs, FaultRecords, FaultRecord
  <2> QED
    BY <2>1, <2>2, <2>3, <2>4 DEF Typed
<1>3. DirectoriesAreNew /\ Excepted
  BY DEF Lock!Init, DirectoriesAreNew, Excepted, Lock!Free, Lock!NoFault
<1>4. ASSUME NEW h \in Helpers PROVE HInv(h)
  <2>1. /\ place[h] = "mk-primary" /\ hold[h] = Lock!NewLease /\ beat[h] = "none" /\ operator[h] = Nil /\ inodes = 0
        /\ opened[h] = {"anchors"}
        /\ \A n \in Lock!Names : adopted[h][n] = 0 /\ dir[n].owner = Nil /\ dir[n].inode = 0
    BY DEF Lock!Init, Lock!Free
  <2>2. LeaseIsFresh(h) /\ HandoffKnown(h)
    BY <2>1 DEF LeaseIsFresh, HandoffKnown, Lock!NewLease, Untouched, LockBounds, Lock!Adopting,
       Acquiring
  <2>3. MarksAgree(place[h], agenda[h], hold[h])
    BY <2>1 DEF MarksAgree, Lock!NewLease, Early, Acquiring, Releasing, Unreleased, Destroying,
       Abandoning
  <2>4. DescriptorsAreNamed(h)
    BY <2>1 DEF DescriptorsAreNamed, Lock!NewLease, Untouched, Quiet, Lock!Names
  <2>5. DirectoriesAreKnown(h)
    BY <2>1 DEF DirectoriesAreKnown, Known, Lock!Owns, Lock!NewLease, Lock!Removing, Lock!Adopting, LockBounds
  <2> QED
    BY <2>2, <2>3, <2>4, <2>5 DEF HInv
<1> QED
  BY <1>2, <1>3, <1>4 DEF LockInv

LEMMA LockStepKeeps ==
  ASSUME LockBounds, LockInv, [Lock!Next]_(Lock!vars)
  PROVE  LockInv'
<1>1. CASE UNCHANGED Lock!vars
  <2>1. UNCHANGED <<dir, inodes, place, agenda, hold, adopted, opened, beat, operator, handoff, cleared, faults, signals>>
    BY <1>1 DEF Lock!vars
  <2>2. ASSUME NEW h \in Helpers PROVE HInv(h)'
    <3>1. SameOf(h)
      BY <2>1 DEF SameOf
    <3>2. \A n \in Lock!Names : Spared(h, n)
      BY <2>1 DEF Spared
    <3>3. /\ inodes' \in Nat /\ inodes <= inodes'
          /\ dir' \in [Lock!Names -> [owner : Helpers \cup {Claude, Nil}, inode : Nat, fresh : BOOLEAN]]
      BY <2>1 DEF LockInv, Typed, LockBounds
    <3>4. Undisturbed(h)
      BY <3>1, <3>2 DEF Undisturbed
    <3> QED
      BY <3>3, <3>4, OthersKeepInv
  <2>3. Typed' /\ DirectoriesAreNew' /\ Excepted'
    BY <2>1 DEF LockInv, Typed, DirectoriesAreNew, Excepted
  <2> QED
    BY <2>2, <2>3 DEF LockInv
<1>2. ASSUME NEW h \in Helpers, Lock!Main(h)
      PROVE  LockInv'
  <2>0. "primary" \in Lock!Names /\ "legacy" \in Lock!Names
    BY DEF Lock!Names
  <2>1. CASE Lock!MakeLock(h, "primary") \/ Lock!MakeLock(h, "legacy")
    BY <2>0, <2>1, MakeLockStep, StepKeepsInv
  <2>2. CASE Lock!Adopt(h, "primary", "mk-legacy")
    BY <2>0, <2>2, AdoptStep, StepKeepsInv
  <2>3. CASE Lock!Adopt(h, "legacy", "start")
    BY <2>0, <2>3, AdoptStep, StepKeepsInv
  <2>4. CASE Lock!StartHeartbeat(h) \/ Lock!BodyEnds(h) \/ Lock!Entry(h) \/ Lock!ReleaseStart(h)
    BY <2>4, StartHeartbeatStep, BodyEndsStep, EntryStep, ReleaseStartStep, StepKeepsInv
  <2>5. CASE Lock!Join(h) \/ Lock!Acquire(h, "op", "mark") \/ Lock!Mark(h) \/ Lock!Close(h)
    BY <2>5, JoinStep, AcquireOperationStep, MarkedStep, CloseStep, StepKeepsInv
  <2>6. ASSUME NEW n \in Lock!Names, Lock!CheckLock(h, n) \/ Lock!RemoveLock(h, n)
        PROVE  LockInv'
    BY <2>6, CheckLockStep, RemoveLockStep, StepKeepsInv
  <2>7. CASE Lock!FreeOperation(h) \/ Lock!FreeAfterFailure(h)
    BY <2>7, FreeOperationStep, FreeAfterFailureStep, StepKeepsInv
  <2>8. CASE Lock!Abandon(h) \/ Lock!AbandonJoin(h) \/ Lock!Acquire(h, "ab-op", "ab-resume")
    BY <2>8, AbandonStep, AbandonJoinStep, AcquireAbandonStep, StepKeepsInv
  <2>9. CASE Lock!AbandonOpen(h) \/ Lock!AbandonClose(h)
    BY <2>9, AbandonOpenStep, AbandonCloseStep, StepKeepsInv
  <2> QED
    BY <1>2, <2>1, <2>2, <2>3, <2>4, <2>5, <2>6, <2>7, <2>8, <2>9 DEF Lock!Main
<1>3. ASSUME NEW h \in Helpers,
             Lock!AssertHeld(h) \/ Lock!BeatWakes(h) \/ Lock!BeatLocks(h) \/ Lock!BeatRenews(h) \/ Lock!Interrupt(h) \/ Lock!Crash(h)
      PROVE  LockInv'
  BY <1>3, AssertHeldStep, BeatsStep, InterruptStep, CrashStep, StepKeepsInv
<1>4. ASSUME NEW n \in Lock!Names, Lock!Age(n) \/ Lock!ClaudeTakes(n) \/ Lock!ClaudeLeaves(n)
      PROVE  LockInv'
  BY <1>4, OutsideKeepsInv
<1> QED
  BY <1>1, <1>2, <1>3, <1>4 DEF Lock!Next

(* The inductive invariant, for every number of helpers and signals. *)
THEOREM InvariantHolds == ASSUME LockBounds PROVE Lock!Spec => []LockInv
<1>1. Lock!Init => LockInv
  BY LockInitHolds
<1>2. LockInv /\ [Lock!Next]_(Lock!vars) => LockInv'
  BY LockStepKeeps
<1> QED
  BY <1>1, <1>2, PTL DEF Lock!Spec

(* What the lease promises of its directories and descriptors: only own    *)
(* directories are removed (but where one was lost by age between two      *)
(* system calls on its name), no closed descriptor is used, what stays is    *)
(* reported, and a lease that calls itself released or closed is.          *)
LockPromise ==
  Lock!TypeOK /\ Lock!RemovesOnlyOwn /\ Lock!NoLateUse /\ Lock!ResidueIsReported /\ Lock!ReleasedIsClean /\ Lock!VerifiedMeansClosed

LEMMA LockInvariantTells == ASSUME LockBounds, LockInv PROVE LockPromise
<1> USE DEF LockInv
<1>1. Lock!TypeOK
  <2>1. \A n \in Lock!Names : dir[n] \in [owner : Helpers \cup {Claude, Nil}, inode : 0..inodes, fresh : BOOLEAN]
    <3>1. ASSUME NEW n \in Lock!Names
          PROVE  dir[n] \in [owner : Helpers \cup {Claude, Nil}, inode : 0..inodes, fresh : BOOLEAN]
      <4>1. /\ dir[n] \in [owner : Helpers \cup {Claude, Nil}, inode : Nat, fresh : BOOLEAN]
            /\ dir[n].inode <= inodes /\ inodes \in Nat
        BY DEF Typed, DirectoriesAreNew, LockBounds
      <4>2. dir[n].inode \in 0..inodes
        BY <4>1
      <4> QED
        BY <4>1, <4>2
    <3> QED
      BY <3>1
  <2>2. \A h \in Helpers, n \in Lock!Names :
          ~hold[h].cleanup /\ place[h] # "crashed" => (adopted[h][n] # 0 <=> n \in opened[h])
    BY DEF HInv, DescriptorsAreNamed
  <2>3. \A h \in Helpers : hold[h].life \in {"not-started", "resumable", "settled"}
    BY DEF Typed, Leases
  <2> QED
    BY <2>1, <2>2, <2>3 DEF Lock!TypeOK, Typed, FaultRecords, FaultRecord
<1>2. Lock!RemovesOnlyOwn /\ Lock!NoLateUse
  BY DEF Lock!RemovesOnlyOwn, Lock!NoLateUse, Excepted
<1>3. Lock!ResidueIsReported
  BY DEF Lock!ResidueIsReported, HInv, MarksAgree, DirectoriesAreKnown, Gone
<1>4. Lock!ReleasedIsClean
  BY DEF Lock!ReleasedIsClean, HInv, MarksAgree, DescriptorsAreNamed, DirectoriesAreKnown, Gone, Lost, Quiet
<1>5. Lock!VerifiedMeansClosed
  BY DEF Lock!VerifiedMeansClosed, Lock!VerifiedClosed, HInv, HandoffKnown, DescriptorsAreNamed, Quiet
<1> QED
  BY <1>1, <1>2, <1>3, <1>4, <1>5 DEF LockPromise

(* The promise holds, beside Claude as well, which may take a lock over at *)
(* any step (claude_refresh_lock.py 94, 1125-1201, 1690-1693).             *)
THEOREM LockIsKept == ASSUME LockBounds PROVE Lock!Spec => []LockPromise
<1>1. LockInv => LockPromise
  BY LockInvariantTells
<1> QED
  BY <1>1, InvariantHolds, PTL

LEMMA HoldersDiffer == ASSUME LockInv, ~Foreign PROVE Lock!OneHolder
<1> SUFFICES ASSUME NEW h \in Helpers, NEW k \in Helpers, h # k, Lock!Holds(h), Lock!Holds(k)
             PROVE  FALSE
  BY DEF Lock!OneHolder
<1>1. Lock!Owns(h, "primary") /\ Lock!Owns(k, "primary") /\ "primary" \in Lock!Names
  BY DEF Lock!Holds, LockInv, HInv, DirectoriesAreKnown, Lock!Names
<1>2. dir["primary"].owner = h /\ dir["primary"].owner = k
  BY <1>1 DEF LockInv, HInv, DirectoriesAreKnown, Known, Lost, Excepted
<1> QED
  BY <1>2

(* Two helpers never hold the lease at once where only helpers take it:    *)
(* who holds it made the first directory and has it still.                 *)
THEOREM OneHolderHolds == ASSUME LockBounds, ~Foreign PROVE Lock!Spec => []Lock!OneHolder
<1>1. LockInv => Lock!OneHolder
  BY HoldersDiffer
<1> QED
  BY <1>1, InvariantHolds, PTL

(* A helper that may not delete any more removes nothing. *)
LEMMA FenceStep == ASSUME LockBounds, LockInv, [Lock!Next]_(Lock!vars) PROVE Lock!FencedStay
<1> USE DEF LockInv
<1> SUFFICES ASSUME NEW k \in Helpers, hold[k].prohibited
             PROVE  cleared'[k] = cleared[k]
  BY DEF Lock!FencedStay
<1>1. /\ place[k] \notin Early /\ place[k] \notin Releasing
  BY DEF HInv, LeaseIsFresh, MarksAgree
<1>2. ASSUME NEW h \in Helpers, NEW n \in Lock!Names, NEW next, Lock!Adopt(h, n, next) \/ Lock!RemoveLock(h, n)
      PROVE  cleared'[k] = cleared[k]
  <2>1. h # k
    BY <1>1, <1>2 DEF Lock!Adopt, Lock!RemoveLock, Lock!Adopting, Lock!Removing, Lock!Names, Early,
       Acquiring, Releasing, Destroying
  <2> QED
    BY <1>2, <2>1 DEF Lock!Adopt, Lock!RemoveLock, Lock!RemoveDirectory, Lock!Disk, Typed
<1>3. ASSUME NEW h \in Helpers, Lock!Main(h) PROVE cleared'[k] = cleared[k]
  <2>1. CASE \/ \E n \in Lock!Names : Lock!CheckLock(h, n) \/ Lock!RemoveLock(h, n)
             \/ Lock!Adopt(h, "primary", "mk-legacy") \/ Lock!Adopt(h, "legacy", "start")
    BY <1>2, <2>1 DEF Lock!CheckLock, Lock!Disk, Lock!Names
  <2>2. CASE UNCHANGED cleared
    BY <2>2
  <2> QED
    BY <1>3, <2>1, <2>2
       DEF Lock!Main, Lock!MakeLock, Lock!StartHeartbeat, Lock!BodyEnds, Lock!Entry, Lock!ReleaseStart, Lock!Join, Lock!Acquire, Lock!Mark, Lock!Close, Lock!FreeOperation,
           Lock!FreeAfterFailure, Lock!Abandon, Lock!AbandonJoin, Lock!AbandonOpen, Lock!AbandonClose, Lock!Disk
<1> QED
  BY <1>3 DEF Lock!Next, Lock!vars, Lock!AssertHeld, Lock!BeatWakes, Lock!BeatLocks,
     Lock!BeatRenews, Lock!Interrupt, Lock!Crash, Lock!Age, Lock!ClaudeTakes, Lock!ClaudeLeaves,
     Lock!Disk

THEOREM FenceHolds == ASSUME LockBounds PROVE Lock!Spec => Lock!FenceStays
<1>1. LockInv /\ [Lock!Next]_(Lock!vars) => [Lock!FencedStay]_(Lock!vars)
  BY FenceStep
<1> QED
  BY <1>1, InvariantHolds, PTL DEF Lock!Spec, Lock!FenceStays

-----------------------------------------------------------------------------
(* The range of a review *)

(* What a walk reaches *)

(* A walk stays in its commits and is closed under their edges, ... *)
LEMMA WalkIsClosed ==
  ASSUME NEW s, NEW from, NEW edges
  PROVE  /\ Scope!Walk(s, from, edges) \subseteq from
         /\ s \in from => s \in Scope!Walk(s, from, edges)
         /\ \A c \in Scope!Walk(s, from, edges) : edges[c] \cap from \subseteq Scope!Walk(s, from, edges)
BY DEF Scope!Walk

(* ... and is the least such set. *)
LEMMA WalkIsLeast ==
  ASSUME NEW s, NEW from, NEW edges, NEW T, s \in from => s \in T,
         \A c \in T \cap from : edges[c] \cap from \subseteq T
  PROVE  Scope!Walk(s, from, edges) \subseteq T
<1>1. T \cap from \in SUBSET from
  OBVIOUS
<1>2. /\ {s} \cap from \subseteq T \cap from
      /\ \A c \in T \cap from : edges[c] \cap from \subseteq T \cap from
  OBVIOUS
<1> QED
  BY <1>1, <1>2 DEF Scope!Walk

(* The history as it is: a parent is older than its child. *)
History ==
  /\ parents \in [Scope!Commits -> SUBSET Scope!Commits]
  /\ \A c \in Scope!Commits : parents[c] \subseteq 1..(c - 1)
  /\ present \subseteq Scope!Commits /\ trees \subseteq Scope!Commits /\ root \in Scope!Commits

ScopeBounds == N \in Nat /\ MaxDamage \in Nat

LEMMA HeadIsCommit == ASSUME ScopeBounds, History PROVE Scope!head \in Scope!Commits
BY DEF ScopeBounds, History, Scope!head, Scope!Commits

LEMMA KnownIsClosed ==
  ASSUME NEW s
  PROVE  /\ Scope!Known(s) \subseteq present
         /\ s \in present => s \in Scope!Known(s)
         /\ \A c \in Scope!Known(s) : parents[c] \cap present \subseteq Scope!Known(s)
BY WalkIsClosed DEF Scope!Known

LEMMA KnownIsLeast ==
  ASSUME NEW s, NEW T, s \in present => s \in T,
         \A c \in T \cap present : parents[c] \cap present \subseteq T
  PROVE  Scope!Known(s) \subseteq T
BY WalkIsLeast DEF Scope!Known

LEMMA ReachIsClosed ==
  ASSUME History, NEW s \in Scope!Commits
  PROVE  /\ Scope!TrueReach(s) \subseteq Scope!Commits /\ s \in Scope!TrueReach(s)
         /\ \A c \in Scope!TrueReach(s) : parents[c] \subseteq Scope!TrueReach(s)
<1>1. /\ Scope!TrueReach(s) \subseteq Scope!Commits /\ s \in Scope!TrueReach(s)
      /\ \A c \in Scope!TrueReach(s) : parents[c] \cap Scope!Commits \subseteq Scope!TrueReach(s)
  BY WalkIsClosed DEF Scope!TrueReach
<1> QED
  BY <1>1 DEF History

LEMMA ReachIsLeast ==
  ASSUME NEW s \in Scope!Commits, NEW T, s \in T, \A c \in T \cap Scope!Commits : parents[c] \cap Scope!Commits \subseteq T
  PROVE  Scope!TrueReach(s) \subseteq T
BY WalkIsLeast DEF Scope!TrueReach

(* What is known is a part of the truth. *)
LEMMA KnownIsReached ==
  ASSUME History, NEW s \in Scope!Commits
  PROVE  Scope!Known(s) \subseteq Scope!TrueReach(s)
BY ReachIsClosed, KnownIsLeast DEF History

LEMMA KnownOfKnown ==
  ASSUME NEW s, NEW a \in Scope!Known(s)
  PROVE  Scope!Known(a) \subseteq Scope!Known(s)
BY KnownIsClosed, KnownIsLeast

(* A commit reaches only what is as old. *)
LEMMA ReachIsOlder ==
  ASSUME ScopeBounds, History, NEW s \in Scope!Commits
  PROVE  \A c \in Scope!TrueReach(s) : c <= s
<1> DEFINE T == {c \in Scope!Commits : c <= s}
<1>1. s \in T
  BY DEF Scope!Commits
<1>2. \A c \in T \cap Scope!Commits : parents[c] \cap Scope!Commits \subseteq T
  BY DEF ScopeBounds, History, Scope!Commits
<1> QED
  BY <1>1, <1>2, ReachIsLeast

(* Where nothing is missing, what is known is the truth. *)
LEMMA NothingMissing ==
  ASSUME History, NEW s \in Scope!Commits, Scope!Frontier(s) = {}
  PROVE  Scope!TrueReach(s) = Scope!Known(s)
<1>1. s \in present /\ \A c \in Scope!Known(s) : parents[c] \subseteq present
  BY DEF Scope!Frontier
<1>2. Scope!TrueReach(s) \subseteq Scope!Known(s)
  BY <1>1, KnownIsClosed, ReachIsLeast
<1> QED
  BY <1>2, KnownIsReached

(* What the commits that are there decide *)

Decided == ~Scope!Incomplete /\ ~Scope!NotAncestor

LEMMA DecidedKnows ==
  ASSUME Decided
  PROVE  /\ {root, Scope!head} \subseteq present /\ root \in Scope!Known(Scope!head)
         /\ Scope!Frontier(Scope!head) \subseteq Scope!Frontier(root)
         /\ Scope!Frontier(Scope!head) = {} \/ Scope!Range \subseteq Scope!Descendants
         /\ \A c \in Scope!Range : parents[c] \subseteq present
         /\ Scope!External \subseteq Scope!Known(root)
         /\ \A c \in Scope!Boundary : parents[c] \cap present = {}
<1>1. {root, Scope!head} \subseteq present /\ root \in Scope!Known(Scope!head)
  BY DEF Decided, Scope!Incomplete, Scope!NotAncestor
<1>2. ~Scope!Unresolved /\ ~Scope!Ambiguous /\ Scope!MissingParents = {} /\ Scope!External \ Scope!Known(root) = {} /\ ~Scope!Torn
  BY <1>1 DEF Decided, Scope!Incomplete
<1>3. Scope!Range \subseteq present
  BY KnownIsClosed DEF Scope!Range
<1>4. \A c \in Scope!Range : \A p \in parents[c] : p \in Scope!Range \/ p \in Scope!ReviewParents
  BY DEF Scope!ReviewParents
<1>5. \A c \in Scope!Range : parents[c] \subseteq present
  BY <1>2, <1>3, <1>4 DEF Scope!MissingParents
<1> QED
  BY <1>1, <1>2, <1>5 DEF Scope!Unresolved, Scope!Ambiguous, Scope!Torn

(* No commit of the range is in base's history: either nothing of head's   *)
(* side is missing, or the commit descends from base.                      *)
LEMMA RangeIsOutside ==
  ASSUME ScopeBounds, History, Decided, NEW c \in Scope!Range
  PROVE  c \notin Scope!TrueReach(root)
<1>1. root \in Scope!Commits /\ Scope!head \in Scope!Commits /\ c \in Scope!Known(Scope!head) /\ c \notin Scope!Known(root) /\ c \in Scope!Commits
  BY HeadIsCommit, KnownIsClosed DEF History, Scope!Range
<1>2. CASE Scope!Frontier(Scope!head) = {}
  <2>1. Scope!Frontier(root) = {}
    BY <1>2, DecidedKnows, KnownOfKnown, KnownIsClosed DEF Scope!Frontier
  <2> QED
    BY <1>1, <2>1, NothingMissing
<1>3. CASE Scope!Range \subseteq Scope!Descendants
  <2>1. root \in Scope!TrueReach(c)
    BY <1>1, <1>3, KnownIsReached DEF Scope!Descendants
  <2>2. root <= c
    BY <1>1, <2>1, ReachIsOlder
  <2>3. c # root
    BY <1>1, DecidedKnows, KnownIsClosed
  <2> QED
    BY <1>1, <2>2, <2>3, ReachIsOlder DEF ScopeBounds, Scope!Commits
<1> QED
  BY <1>2, <1>3, DecidedKnows

(* What head reaches and is not known is in base's history: a way to it     *)
(* leaves the known commits at one that is missing for base as well.       *)
LEMMA MissingIsInside ==
  ASSUME ScopeBounds, History, Decided
  PROVE  Scope!TrueReach(Scope!head) \subseteq Scope!Known(Scope!head) \cup Scope!TrueReach(root)
<1> DEFINE T == Scope!Known(Scope!head) \cup Scope!TrueReach(root)
<1>1. root \in Scope!Commits /\ Scope!head \in Scope!Commits
  BY HeadIsCommit DEF History
<1>2. Scope!head \in T
  BY DecidedKnows, KnownIsClosed
<1>3. ASSUME NEW c \in Scope!Known(Scope!head), NEW p \in parents[c]
      PROVE  p \in T
  <2>1. CASE p \in present
    BY <1>3, <2>1, KnownIsClosed
  <2>2. CASE p \notin present
    <3>1. p \in Scope!Frontier(root)
      BY <1>3, <2>2, DecidedKnows DEF Scope!Frontier
    <3>2. PICK d \in Scope!Known(root) : p \in parents[d]
      BY <3>1, DecidedKnows DEF Scope!Frontier
    <3> QED
      BY <1>1, <3>2, KnownIsReached, ReachIsClosed
  <2> QED
    BY <2>1, <2>2
<1>4. \A c \in Scope!TrueReach(root) : parents[c] \subseteq T
  BY <1>1, ReachIsClosed
<1> QED
  BY <1>1, <1>2, <1>3, <1>4, ReachIsLeast

(* A range that is decided is the one of the history as it is. *)
LEMMA DecidedIsTrue ==
  ASSUME ScopeBounds, History, Decided
  PROVE  Scope!Range = Scope!TrueRange
<1>1. root \in Scope!Commits /\ Scope!head \in Scope!Commits
  BY HeadIsCommit DEF History
<1>2. Scope!Range \subseteq Scope!TrueRange
  BY <1>1, RangeIsOutside, KnownIsReached DEF Scope!Range, Scope!TrueRange
<1>3. Scope!TrueRange \subseteq Scope!Range
  BY <1>1, MissingIsInside, KnownIsReached DEF Scope!Range, Scope!TrueRange
<1> QED
  BY <1>2, <1>3

LEMMA RefusalIsTrue ==
  ASSUME ScopeBounds, History, Scope!NotAncestor
  PROVE  root \notin Scope!TrueReach(Scope!head)
BY HeadIsCommit, NothingMissing DEF Scope!NotAncestor

(* A history that is all there is always decided. *)
LEMMA WholeIsDecided ==
  ASSUME ScopeBounds, History, present = Scope!Commits, trees = Scope!Commits
  PROVE  ~Scope!Incomplete /\ (~Scope!NotAncestor => Scope!Snapshots \subseteq trees)
<1>1. root \in Scope!Commits /\ Scope!head \in Scope!Commits
  BY HeadIsCommit DEF History
<1>2. \A s \in Scope!Commits : Scope!Frontier(s) = {} /\ Scope!Known(s) \subseteq Scope!Commits
  BY KnownIsClosed DEF History, Scope!Frontier
<1>3. \A c \in Scope!Commits : parents[c] \subseteq Scope!Commits
  BY DEF History
<1>4. Scope!Range \subseteq Scope!Commits /\ Scope!ReviewParents \subseteq Scope!Commits
  BY <1>1, <1>2, <1>3 DEF Scope!Range, Scope!ReviewParents
<1>5. Scope!MissingParents = {} /\ ~Scope!Unresolved /\ ~Scope!Ambiguous
  BY <1>1, <1>2, <1>4 DEF Scope!MissingParents, Scope!Unresolved, Scope!Ambiguous
<1>6. ~Scope!Torn
  BY <1>1, <1>2, <1>3 DEF Scope!Torn, Scope!Boundary, Scope!Cut
<1>7. \A p \in Scope!ReviewParents : p \in Scope!Known(root)
  <2> SUFFICES ASSUME NEW c \in Scope!Range, NEW p \in parents[c], p \notin Scope!Range
               PROVE  p \in Scope!Known(root)
    BY DEF Scope!ReviewParents
  <2>1. c \in Scope!Known(Scope!head) /\ p \in present
    BY <1>3, <1>4 DEF Scope!Range
  <2> QED
    BY <2>1, KnownIsClosed DEF Scope!Range
<1>8. Scope!External \subseteq Scope!Known(root)
  BY <1>1, <1>7, KnownIsClosed DEF Scope!External
<1>9. ~Scope!Incomplete
  BY <1>1, <1>2, <1>5, <1>6, <1>8 DEF Scope!Incomplete
<1> QED
  BY <1>1, <1>4, <1>9 DEF Scope!Snapshots, Scope!External

(* What is imported, and what a validation accepts *)

Scoped == [range |-> Scope!Range, support |-> Scope!Known(root), external |-> Scope!External \ {root}, boundary |-> Scope!Boundary]
Imported ==
  [commits |-> scope.range \cup scope.support,
   trees |-> {root} \cup scope.range \cup scope.external,
   shallow |-> scope.boundary]

(* The commits imported are those that head is known to reach. *)
LEMMA ImportIsKnown ==
  ASSUME Decided
  PROVE  Scope!Range \cup Scope!Known(root) = Scope!Known(Scope!head)
BY DecidedKnows, KnownOfKnown DEF Scope!Range

(* Both walks in the private repository are those in the source: its cut   *)
(* edges lead to commits that are missing.                                 *)
LEMMA ImportShowsRange ==
  ASSUME History, Decided, scope = Scoped, store = Imported
  PROVE  Scope!VisibleRange = Scope!Range
<1>1. store.commits = Scope!Known(Scope!head) /\ store.shallow = Scope!Boundary
  BY ImportIsKnown DEF Scoped, Imported
<1>2. Scope!Known(Scope!head) \subseteq Scope!Commits /\ Scope!Known(root) \subseteq Scope!Known(Scope!head) /\ root \in Scope!Known(root)
      /\ Scope!head \in Scope!Known(Scope!head)
  BY DecidedKnows, KnownIsClosed, KnownOfKnown DEF History
<1>3. \A c \in Scope!Known(Scope!head) : Scope!VisibleParents[c] \cap present = parents[c] \cap present
  BY <1>1, <1>2, DecidedKnows DEF Scope!VisibleParents
<1>4. \A c \in Scope!Known(Scope!head) : parents[c] \cap present = parents[c] \cap Scope!Known(Scope!head)
  BY KnownIsClosed
<1>5. \A c \in Scope!Known(Scope!head) : Scope!VisibleParents[c] \cap Scope!Known(Scope!head) = parents[c] \cap Scope!Known(Scope!head)
  BY <1>3, <1>4, KnownIsClosed
<1>6. ASSUME NEW s \in Scope!Known(Scope!head)
      PROVE  Scope!Walk(s, Scope!Known(Scope!head), Scope!VisibleParents) = Scope!Known(s)
  <2>1. Scope!Known(s) \subseteq Scope!Known(Scope!head) /\ s \in Scope!Known(s)
    BY <1>6, KnownOfKnown, KnownIsClosed
  <2>2. Scope!Walk(s, Scope!Known(Scope!head), Scope!VisibleParents) \subseteq Scope!Known(s)
    <3>1. \A c \in Scope!Known(s) : Scope!VisibleParents[c] \cap Scope!Known(Scope!head) \subseteq Scope!Known(s)
      BY <1>4, <1>5, <2>1, KnownIsClosed
    <3> QED
      BY <2>1, <3>1, WalkIsLeast
  <2>3. Scope!Known(s) \subseteq Scope!Walk(s, Scope!Known(Scope!head), Scope!VisibleParents)
    <3> DEFINE W == Scope!Walk(s, Scope!Known(Scope!head), Scope!VisibleParents)
    <3>1. /\ W \subseteq Scope!Known(Scope!head) /\ s \in W
          /\ \A c \in W : Scope!VisibleParents[c] \cap Scope!Known(Scope!head) \subseteq W
      BY <1>6, WalkIsClosed
    <3>2. \A c \in W : parents[c] \cap present \subseteq W
      BY <1>4, <1>5, <3>1
    <3> QED
      BY <3>1, <3>2, KnownIsLeast
  <2> QED
    BY <2>2, <2>3
<1> QED
  BY <1>1, <1>2, <1>6 DEF Scope!VisibleRange, Scope!Range

(* Every parent of the range is imported, with its snapshot. *)
LEMMA ImportIsWhole ==
  ASSUME Decided, scope = Scoped, store = Imported, NEW c \in Scope!Range
  PROVE  parents[c] \subseteq store.commits \cap store.trees \cap Scope!Snapshots
<1>1. \A p \in parents[c] : p \in Scope!Range \/ p \in Scope!External
  BY DecidedKnows DEF Scope!External, Scope!ReviewParents
<1>2. Scope!External \subseteq Scope!Known(root)
  BY DecidedKnows
<1> QED
  BY <1>1, <1>2 DEF Scoped, Imported, Scope!Snapshots

Agreed == Scope!VisibleAgrees /\ Scope!GraphAgrees /\ Scope!FrontierAgrees /\ Scope!SnapshotsAgree

(* What preparation made passes validation. *)
LEMMA ImportAgrees ==
  ASSUME ScopeBounds, History, Decided, scope = Scoped, store = Imported
  PROVE  Agreed
<1>1. store.commits = Scope!Known(Scope!head) /\ store.shallow = Scope!Boundary
      /\ scope.range = Scope!Range /\ scope.support = Scope!Known(root)
  BY ImportIsKnown DEF Scoped, Imported
<1>2. Scope!Known(Scope!head) \subseteq Scope!Commits /\ Scope!Known(root) \subseteq Scope!Known(Scope!head) /\ Scope!Range \subseteq Scope!Known(Scope!head)
      /\ Scope!head \in Scope!Known(Scope!head) /\ root \in Scope!Known(root)
  BY DecidedKnows, KnownIsClosed, KnownOfKnown DEF History, Scope!Range
<1>3. Scope!Graph = Scope!Known(Scope!head)
  <2>1. Scope!Graph \subseteq Scope!Known(Scope!head)
    BY <1>1, WalkIsClosed DEF Scope!Graph
  <2>2. Scope!head \in Scope!Graph /\ \A c \in Scope!Graph : parents[c] \cap Scope!Known(Scope!head) \subseteq Scope!Graph
    BY <1>1, <1>2, WalkIsClosed DEF Scope!Graph
  <2>3. \A c \in Scope!Graph : parents[c] \cap present \subseteq Scope!Graph
    BY <2>1, <2>2, KnownIsClosed
  <2>4. Scope!Known(Scope!head) \subseteq Scope!Graph
    BY <2>2, <2>3, KnownIsLeast
  <2> QED
    BY <2>1, <2>4
<1>4. Scope!VisibleAgrees
  <2>1. \A c \in Scope!Range : c \notin Scope!Boundary
    BY DEF Scope!Range, Scope!Boundary
  <2> QED
    BY <1>1, <1>2, <2>1, ImportShowsRange DEF Scope!VisibleAgrees, Scope!VisibleParents
<1>5. Scope!GraphAgrees
  BY <1>1, <1>2, <1>3, ImportIsKnown DEF Scope!GraphAgrees
<1>6. \A c \in Scope!Range : parents[c] \subseteq Scope!Known(Scope!head)
  BY <1>1, ImportIsWhole
<1>7. \A c \in Scope!Known(root) : parents[c] \ Scope!Known(Scope!head) = parents[c] \ present
  BY <1>2, KnownIsClosed
<1>8. {c \in Scope!Graph : parents[c] \ store.commits # {}} = Scope!Boundary
  <2>1. \A c \in Scope!Known(Scope!head) : parents[c] \ Scope!Known(Scope!head) # {} <=> c \in Scope!Boundary
    BY <1>6, <1>7, KnownIsClosed DEF Scope!Range, Scope!Boundary, Scope!Cut
  <2> QED
    BY <1>1, <1>2, <1>3, <2>1 DEF Scope!Boundary
<1>9. Scope!FrontierAgrees
  <2>1. \A c \in Scope!Boundary : c \notin Scope!Range /\ parents[c] \cap Scope!Graph = {}
    BY <1>3, DecidedKnows, KnownIsClosed DEF Scope!Range, Scope!Boundary
  <2> QED
    BY <1>1, <1>8, <2>1 DEF Scope!FrontierAgrees
<1>10. Scope!SnapshotsAgree
  BY <1>1, ImportIsWhole DEF Scope!SnapshotsAgree, Scoped, Imported
<1> QED
  BY <1>4, <1>5, <1>9, <1>10 DEF Agreed

(* A repository that passes has the range of the history, with its edges,   *)
(* and all that the range rests on.                                        *)
LEMMA AgreedIsWhole ==
  ASSUME ScopeBounds, History, Decided, scope = Scoped, Agreed
  PROVE  /\ Scope!VisibleRange = Scope!TrueRange
         /\ \A c \in scope.range : /\ Scope!VisibleParents[c] = parents[c]
                                   /\ parents[c] \subseteq store.commits \cap store.trees
         /\ scope.support \subseteq store.commits
<1>1. Scope!VisibleRange = Scope!TrueRange /\ \A c \in scope.range : Scope!VisibleParents[c] = parents[c]
  BY DecidedIsTrue DEF Agreed, Scope!VisibleAgrees, Scoped
<1>2. Scope!Graph \subseteq store.commits /\ scope.range \cup scope.support \subseteq Scope!Graph
  BY WalkIsClosed DEF Scope!Graph, Agreed, Scope!GraphAgrees
<1>3. \A c \in scope.range : parents[c] \subseteq store.commits
  BY <1>2 DEF Agreed, Scope!FrontierAgrees
<1>4. \A c \in scope.range : parents[c] \subseteq store.trees
  BY DEF Agreed, Scope!SnapshotsAgree
<1> QED
  BY <1>1, <1>2, <1>3, <1>4

(* The invariant *)

ScopeType == [range : SUBSET Scope!Commits, support : SUBSET Scope!Commits, external : SUBSET Scope!Commits,
              boundary : SUBSET Scope!Commits]
StoreType == [commits : SUBSET Scope!Commits, trees : SUBSET Scope!Commits, shallow : SUBSET Scope!Commits]

ScopeTyped ==
  /\ verdict \in {"none", "frozen", "incomplete", "not-ancestor"}
  /\ scope \in ScopeType /\ store \in StoreType
  /\ damage \in 0..MaxDamage /\ valid \in {"none", "valid", "invalid"}

(* What a verdict says of the source, which no longer changes. *)
Frozen ==
  /\ verdict = "frozen" => Decided /\ Scope!Snapshots \subseteq trees /\ scope = Scoped
  /\ verdict = "not-ancestor" => Scope!NotAncestor
  /\ verdict = "incomplete" => Scope!Incomplete \/ (~Scope!NotAncestor /\ ~(Scope!Snapshots \subseteq trees))

(* What the private repository was made of, and what was seen of it. *)
Stored ==
  /\ store.commits # {} => verdict = "frozen"
  /\ store.commits # {} /\ damage = 0 => store = Imported
  /\ valid # "none" => store.commits # {}
  /\ valid = "valid" => Agreed
  /\ valid = "invalid" => ~Agreed

ScopeInv == History /\ ScopeTyped /\ Frozen /\ Stored

LEMMA ScopeInitHolds ==
  ASSUME ScopeBounds, Scope!Init
  PROVE  ScopeInv
<1>1. parents \in [Scope!Commits -> SUBSET Scope!Commits] /\ \A c \in Scope!Commits : parents[c] \subseteq 1..(c - 1)
  BY DEF Scope!Init
<1>2. History
  BY <1>1 DEF Scope!Init, History
<1>3. Scope!NoScope \in ScopeType /\ [commits |-> {}, trees |-> {}, shallow |-> {}] \in StoreType
  BY DEF Scope!NoScope, ScopeType, StoreType
<1>4. ScopeTyped
  BY <1>3 DEF ScopeBounds, Scope!Init, ScopeTyped
<1> QED
  BY <1>2, <1>4 DEF Scope!Init, ScopeInv, Frozen, Stored

(* What the source decides depends on nothing else. *)
LEMMA SourceDecides ==
  ASSUME Scope!source' = Scope!source
  PROVE  /\ (Decided' <=> Decided) /\ (Scope!Incomplete' <=> Scope!Incomplete) /\ (Scope!NotAncestor' <=> Scope!NotAncestor)
         /\ Scope!Snapshots' = Scope!Snapshots /\ Scoped' = Scoped /\ (History' <=> History)
<1>1. parents' = parents /\ present' = present /\ trees' = trees /\ root' = root
  BY DEF Scope!source
<1>2. \A s : Scope!Known(s)' = Scope!Known(s)
  BY <1>1 DEF Scope!Known
<1>3. \A s : Scope!Frontier(s)' = Scope!Frontier(s)
  BY <1>1, <1>2 DEF Scope!Frontier
<1>4. Scope!Range' = Scope!Range
  BY <1>1, <1>2 DEF Scope!Range, Scope!head
<1>5. Scope!ReviewParents' = Scope!ReviewParents
  BY <1>1, <1>4 DEF Scope!ReviewParents
<1>6. Scope!Boundary' = Scope!Boundary
  BY <1>1, <1>2 DEF Scope!Boundary, Scope!Cut
<1>7. Scope!Descendants' = Scope!Descendants
  BY <1>1, <1>2 DEF Scope!Descendants, Scope!head
<1>8. Scope!External' = Scope!External /\ Scope!MissingParents' = Scope!MissingParents
  BY <1>1, <1>5 DEF Scope!External, Scope!MissingParents
<1>9. (Scope!Torn' <=> Scope!Torn) /\ (Scope!Ambiguous' <=> Scope!Ambiguous) /\ (Scope!Unresolved' <=> Scope!Unresolved)
  BY <1>1, <1>3, <1>4, <1>6, <1>7 DEF Scope!Torn, Scope!Ambiguous, Scope!Unresolved, Scope!head
<1>10. (Scope!Incomplete' <=> Scope!Incomplete) /\ (Scope!NotAncestor' <=> Scope!NotAncestor)
  BY <1>1, <1>2, <1>3, <1>8, <1>9 DEF Scope!Incomplete, Scope!NotAncestor, Scope!head
<1>11. Scope!Snapshots' = Scope!Snapshots /\ Scoped' = Scoped
  BY <1>1, <1>2, <1>4, <1>6, <1>8 DEF Scope!Snapshots, Scoped
<1>12. History' <=> History
  BY <1>1 DEF History, Scope!Commits
<1> QED
  BY <1>10, <1>11, <1>12 DEF Decided

LEMMA FrozenKeeps ==
  ASSUME ScopeInv, Scope!source' = Scope!source, verdict' = verdict, scope' = scope
  PROVE  History' /\ Frozen'
<1>1. trees' = trees
  BY DEF Scope!source
<1>2. History'
  BY SourceDecides DEF ScopeInv
<1>3. Frozen'
  BY <1>1, SourceDecides DEF ScopeInv, Frozen
<1> QED
  BY <1>2, <1>3

LEMMA StoreTold ==
  ASSUME Scope!source' = Scope!source, scope' = scope, store' = store
  PROVE  Imported' = Imported /\ (Agreed' <=> Agreed)
<1>1. parents' = parents /\ root' = root
  BY DEF Scope!source
<1>2. Imported' = Imported
  BY <1>1 DEF Imported
<1>3. Scope!VisibleParents' = Scope!VisibleParents /\ Scope!Graph' = Scope!Graph
  BY <1>1 DEF Scope!VisibleParents, Scope!Graph, Scope!head
<1>4. Scope!VisibleRange' = Scope!VisibleRange
  BY <1>1, <1>3 DEF Scope!VisibleRange, Scope!head
<1>5. (Scope!VisibleAgrees' <=> Scope!VisibleAgrees) /\ (Scope!GraphAgrees' <=> Scope!GraphAgrees)
  BY <1>1, <1>3, <1>4 DEF Scope!VisibleAgrees, Scope!GraphAgrees
<1>6. (Scope!FrontierAgrees' <=> Scope!FrontierAgrees) /\ (Scope!SnapshotsAgree' <=> Scope!SnapshotsAgree)
  BY <1>1, <1>3 DEF Scope!FrontierAgrees, Scope!SnapshotsAgree
<1> QED
  BY <1>2, <1>5, <1>6 DEF Agreed

(* What is frozen and imported are sets of commits. *)
LEMMA ScopedTyped == ASSUME ScopeBounds, History PROVE Scoped \in ScopeType
<1>1. Scope!Range \subseteq Scope!Commits /\ Scope!Known(root) \subseteq Scope!Commits /\ Scope!Boundary \subseteq Scope!Commits
  BY KnownIsClosed DEF History, Scope!Range, Scope!Boundary
<1>2. Scope!External \subseteq Scope!Commits
  BY DEF Scope!External, History
<1> QED
  BY <1>1, <1>2 DEF Scoped, ScopeType

LEMMA ImportedTyped == ASSUME History, scope \in ScopeType PROVE Imported \in StoreType
BY DEF History, ScopeType, StoreType, Imported

LEMMA FreezeKeeps == ASSUME ScopeBounds, ScopeInv, Scope!Freeze PROVE ScopeInv'
<1>1. Scope!source' = Scope!source /\ store' = store /\ damage' = damage /\ valid' = valid /\ verdict = "none"
  BY DEF Scope!Freeze
<1>2. History' /\ store.commits = {} /\ valid = "none"
  BY <1>1, SourceDecides DEF ScopeInv, Stored, ScopeTyped
<1>3. /\ verdict' \in {"frozen", "incomplete", "not-ancestor"}
      /\ verdict' = "frozen" => ~Scope!Incomplete /\ ~Scope!NotAncestor /\ Scope!Snapshots \subseteq trees /\ scope' = Scoped
      /\ verdict' = "not-ancestor" => Scope!NotAncestor
      /\ verdict' = "incomplete" => Scope!Incomplete \/ (~Scope!NotAncestor /\ ~(Scope!Snapshots \subseteq trees))
  BY DEF Scope!Freeze, Scoped
<1>6. Frozen'
  <2>1. trees' = trees
    BY <1>1 DEF Scope!source
  <2> QED
    BY <1>1, <1>3, <2>1, SourceDecides DEF Frozen, Decided
<1>4. scope' \in ScopeType
  <2>1. Scope!NoScope \in ScopeType
    BY DEF Scope!NoScope, ScopeType
  <2>2. scope' \in {Scoped, Scope!NoScope}
    BY DEF Scope!Freeze, Scoped
  <2> QED
    BY <2>1, <2>2, ScopedTyped DEF ScopeInv
<1>5. ScopeTyped'
  BY <1>1, <1>3, <1>4 DEF ScopeInv, ScopeTyped, StoreType, ScopeType, Scope!Commits
<1> QED
  BY <1>1, <1>2, <1>5, <1>6 DEF ScopeInv, Stored

LEMMA ScopeStepKeeps ==
  ASSUME ScopeBounds, ScopeInv, [Scope!Next]_(Scope!vars)
  PROVE  ScopeInv'
<1>1. CASE Scope!LoseSnapshot
  <2>1. verdict = "none" /\ UNCHANGED <<parents, present, root, verdict, scope, store, damage, valid>>
        /\ trees' \subseteq trees
    BY <1>1 DEF Scope!LoseSnapshot
  <2>2. History'
    BY <2>1 DEF ScopeInv, History
  <2>3. Stored' /\ Frozen'
    BY <2>1 DEF ScopeInv, Stored, Frozen, ScopeTyped
  <2> QED
    BY <2>1, <2>2, <2>3 DEF ScopeInv, ScopeTyped, ScopeType, StoreType, Scope!Commits
<1>2. CASE Scope!Freeze
  BY <1>2, FreezeKeeps
<1>3. CASE Scope!Import
  <2>1. Scope!source' = Scope!source /\ UNCHANGED <<verdict, scope, damage, valid>> /\ verdict = "frozen"
        /\ store' = Imported
    BY <1>3 DEF Scope!Import, Imported
  <2>2. valid = "none"
    BY <1>3 DEF ScopeInv, ScopeTyped, Stored, Scope!Import
  <2>3. History' /\ Frozen'
    BY <2>1, FrozenKeeps
  <2>4. ScopeTyped'
    BY <2>1, ImportedTyped DEF ScopeInv, ScopeTyped, ScopeType, StoreType, Scope!Commits
  <2>5. Imported' = Imported
    BY <2>1 DEF Imported, Scope!source
  <2> QED
    BY <2>1, <2>2, <2>3, <2>4, <2>5 DEF ScopeInv, Stored
<1>4. CASE Scope!Damage
  <2>1. Scope!source' = Scope!source /\ UNCHANGED <<verdict, scope, valid>> /\ valid = "none"
        /\ store.commits # {} /\ damage' = damage + 1 /\ damage < MaxDamage
    BY <1>4 DEF Scope!Damage
  <2>2. History' /\ Frozen'
    BY <2>1, FrozenKeeps
  <2>3. store' \in StoreType
    <3>1. PICK c \in Scope!Commits :
            store' \in {[store EXCEPT !.commits = @ \ {c}], [store EXCEPT !.commits = @ \cup {c}],
                        [store EXCEPT !.trees = @ \ {c}],
                        [store EXCEPT !.shallow = @ \ {c}], [store EXCEPT !.shallow = @ \cup {c}]}
      BY <1>4 DEF Scope!Damage
    <3> QED
      BY <3>1 DEF ScopeInv, ScopeTyped, StoreType
  <2>4. damage' \in 0..MaxDamage /\ damage' # 0
    BY <2>1 DEF ScopeBounds, ScopeInv, ScopeTyped
  <2>5. ScopeTyped'
    BY <2>1, <2>3, <2>4 DEF ScopeInv, ScopeTyped, ScopeType, StoreType, Scope!Commits
  <2> QED
    BY <2>1, <2>2, <2>4, <2>5 DEF ScopeInv, Stored
<1>5. CASE Scope!Validate
  <2>1. Scope!source' = Scope!source /\ UNCHANGED <<verdict, scope, store, damage>> /\ store.commits # {}
        /\ valid' = IF Agreed THEN "valid" ELSE "invalid"
    BY <1>5 DEF Scope!Validate, Agreed
  <2>2. History' /\ Frozen'
    BY <2>1, FrozenKeeps
  <2>3. ScopeTyped'
    BY <2>1 DEF ScopeInv, ScopeTyped, ScopeType, StoreType, Scope!Commits
  <2> QED
    BY <2>1, <2>2, <2>3, StoreTold DEF ScopeInv, Stored
<1>6. CASE UNCHANGED Scope!vars
  <2>1. Scope!source' = Scope!source /\ UNCHANGED <<verdict, scope, store, damage, valid>>
    BY <1>6 DEF Scope!vars, Scope!source
  <2>2. ScopeTyped'
    BY <2>1 DEF ScopeInv, ScopeTyped, ScopeType, StoreType, Scope!Commits
  <2> QED
    BY <2>1, <2>2, FrozenKeeps, StoreTold DEF ScopeInv, Stored
<1> QED
  BY <1>1, <1>2, <1>3, <1>4, <1>5, <1>6 DEF Scope!Next

LEMMA ScopeInvariantTells ==
  ASSUME ScopeBounds, ScopeInv
  PROVE  Scope!TypeOK /\ Scope!RangeIsTrue /\ Scope!AnswerIsTrue /\ Scope!ImportIsSelfContained /\ Scope!OwnWorkIsValid /\ Scope!ValidIsWhole
<1>1. Scope!TypeOK
  BY DEF ScopeInv, History, ScopeTyped, ScopeType, StoreType, Scope!TypeOK
<1>2. Scope!RangeIsTrue
  BY DecidedIsTrue DEF ScopeInv, Frozen, Scoped, Scope!RangeIsTrue
<1>3. Scope!AnswerIsTrue
  BY RefusalIsTrue, WholeIsDecided DEF ScopeInv, Frozen, Scope!AnswerIsTrue
<1>4. Scope!ImportIsSelfContained
  BY ImportShowsRange, ImportIsWhole DEF ScopeInv, Frozen, Stored, Scoped, Scope!ImportIsSelfContained
<1>5. Scope!OwnWorkIsValid
  BY ImportAgrees DEF ScopeBounds, ScopeInv, Frozen, Stored, ScopeTyped, Scope!OwnWorkIsValid
<1>6. Scope!ValidIsWhole
  BY AgreedIsWhole DEF ScopeInv, Frozen, Stored, Scope!ValidIsWhole
<1> QED
  BY <1>1, <1>2, <1>3, <1>4, <1>5, <1>6

(* Whatever commits and snapshots are missing from a history of any size,   *)
(* a frozen range is the one of the history as it is, "not an ancestor" is  *)
(* true of it, a source that lacks nothing is decided, and what is imported *)
(* shows ordinary Git the same range; validation accepts it, and accepts a  *)
(* repository that was changed only if it still holds all of that           *)
(* (review_workspace.py:3387, 3447).                                        *)
THEOREM RangeIsExact ==
  ASSUME ScopeBounds
  PROVE  Scope!Spec => [](/\ Scope!TypeOK /\ Scope!RangeIsTrue /\ Scope!AnswerIsTrue
                          /\ Scope!ImportIsSelfContained /\ Scope!OwnWorkIsValid /\ Scope!ValidIsWhole)
<1>1. Scope!Init => ScopeInv
  BY ScopeInitHolds
<1>2. ScopeInv /\ [Scope!Next]_(Scope!vars) => ScopeInv'
  BY ScopeStepKeeps
<1>3. ScopeInv => /\ Scope!TypeOK /\ Scope!RangeIsTrue /\ Scope!AnswerIsTrue
                  /\ Scope!ImportIsSelfContained /\ Scope!OwnWorkIsValid /\ Scope!ValidIsWhole
  BY ScopeInvariantTells
<1> QED
  BY <1>1, <1>2, <1>3, PTL DEF Scope!Spec
=============================================================================
