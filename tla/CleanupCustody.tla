---------------------------- MODULE CleanupCustody ----------------------------
(***************************************************************************)
(* The targeted cleanup of recovery_cleanup.py.  build_custodied_manifest  *)
(* walks one or two roots, binds what it finds to open descriptors and     *)
(* writes a manifest; delete_custodied_roots moves each root to a          *)
(* quarantine name and deletes exactly what the manifest lists, every leaf *)
(* through a quarantine name of its own; the root descriptors are closed   *)
(* and the manifest removed.  Other processes may change anything under a  *)
(* public name meanwhile; a call may fail before or after its effect, and  *)
(* one interrupt may arrive outside the sections that mask it.  Whoever    *)
(* gets the error must learn of every descriptor still open and of every   *)
(* quarantine name.                                                        *)
(***************************************************************************)
EXTENDS Naturals, FiniteSets, SequencesExt

CONSTANTS
  Roots,     \* the roots, in the order given
  Tree,      \* [directory or root -> sequence of the entries in it]
  MaxFaults, \* calls that fail
  MaxMoves   \* changes made by other processes

RootSet == Range(Roots)
Dirs == DOMAIN Tree
Entries == UNION {Range(Tree[d]) : d \in Dirs}
Objects == RootSet \cup Entries
Leaves == Objects \ Dirs
Up(x) == CHOOSE d \in Dirs : x \in Range(Tree[d])

VARIABLES
  mode,     \* run, unwind, evidence, reconcile, done
  todo,     \* what is left to do, in the order of the recursion
  home,     \* what stands at an entry's own name: self, none, or another's file or empty directory
  aside,    \* the same of its quarantine name
  mark,     \* a leaf: same as recorded, edited or linked
  extra,    \* directories that have gained an entry
  recorded, \* what the manifest describes
  gone, lost,   \* manifest objects deleted; kinds of other processes' objects deleted
  dirty,    \* directories (or the roots' parent) with a removal not yet on disk
  fd,       \* none, owned, foreign, closed, unproven
  open,     \* descriptors truly open
  reclosed, \* a close of a descriptor that was not owned any more
  attached, \* owners an error carries
  manifest, \* none, file, owned (the caller has it), removed
  outcome,  \* per root: none, armed, unproven, complete
  evid,     \* roots whose quarantine name the error carries
  cur,      \* the root between its quarantine and its outcome
  blind,    \* an interrupt fell where a quarantine name had no owner
  err, hit, faults, moves, out

Names == <<home, aside, mark, extra, recorded, gone, lost, dirty>>
Fds == <<fd, open, reclosed, attached>>
Owners == <<manifest, outcome, evid, cur, blind>>
Control == <<mode, todo, err, hit, faults>>
vars == <<Names, Fds, Owners, Control, moves, out>>

Par == "parent"
Above(x) == IF x \in RootSet THEN Par ELSE Up(x)

-----------------------------------------------------------------------------
(* The order of the work *)

T(k, x) == <<<<k, x>>>>
Leaf(x) == T("open", x) \o T("aside", x) \o T("inspect", x) \o T("unlink", x) \o T("prove", x) \o T("shut", x)
Contents[d \in Dirs] ==
  T("list", d)
    \o FlattenSeq([i \in DOMAIN Tree[d] |->
               LET x == Tree[d][i]
               IN  T("check", x) \o IF x \in Leaves THEN Leaf(x)
                                    ELSE T("enter", x) \o Contents[x] \o T("leave", x) \o T("recheck", x) \o T("drop", x)])
Walk[d \in Dirs] ==
  T("record", d)
    \o FlattenSeq([i \in DOMAIN Tree[d] |->
               LET x == Tree[d][i]
               IN  IF x \in Leaves THEN T("open", x) \o T("shut", x) \o T("record", x)
                   ELSE T("enter", x) \o Walk[x] \o T("leave", x)])
Root(r) ==
  T("custody", r) \o T("rename", r) \o T("verify", r) \o T("handoff", r) \o Contents[r] \o T("sync", r)
    \o T("arm", r) \o T("empty", r) \o T("rmdir", r) \o T("complete", r)
Each(Op(_)) == FlattenSeq([i \in DOMAIN Roots |-> Op(Roots[i])])
Work ==
  LET Build(r) == T("enter", r) \o Walk[r]
      Close(r) == T("close", r)
  IN  Each(Build) \o T("seal", Par) \o T("own", Par) \o Each(Root) \o T("publish", Par) \o Each(Close) \o T("unseal", Par)

Init ==
  /\ mode = "run" /\ todo = Work
  /\ home = [x \in Objects |-> "self"] /\ aside = [x \in Objects |-> "none"] /\ mark = [x \in Objects |-> "same"]
  /\ extra = {} /\ recorded = {} /\ gone = {} /\ lost = {} /\ dirty = {}
  /\ fd = [x \in Objects |-> "none"] /\ open = {} /\ reclosed = FALSE /\ attached = {}
  /\ manifest = "none" /\ outcome = [r \in RootSet |-> "none"] /\ evid = {} /\ cur = "none" /\ blind = FALSE
  /\ err = "none" /\ hit = FALSE /\ faults = 0 /\ moves = 0 /\ out = "none"

-----------------------------------------------------------------------------
(* Other processes, once the manifest has recorded what they change *)

Others ==
  /\ mode = "run" /\ moves < MaxMoves /\ moves' = moves + 1
  /\ \/ \E x \in recorded : home[x] = "self" /\ home' = [home EXCEPT ![x] = "none"] /\ UNCHANGED <<mark, extra>>
     \/ /\ \E x \in recorded, k \in {"file", "empty"} :
             home[x] = "none" /\ Above(x) \notin gone /\ home' = [home EXCEPT ![x] = k]
        /\ UNCHANGED <<mark, extra>>
     \/ \E x \in recorded, k \in {"file", "empty"} : \* moved away and replaced at once
          home[x] = "self" /\ home' = [home EXCEPT ![x] = k] /\ UNCHANGED <<mark, extra>>
     \/ \E x \in (recorded \cap Leaves) \ gone : mark' = [mark EXCEPT ![x] = "edited"] /\ UNCHANGED <<home, extra>>
     \/ /\ \E x \in recorded \cap Leaves : home[x] = "self" /\ mark' = [mark EXCEPT ![x] = "linked"]
        /\ UNCHANGED <<home, extra>>
     \/ \E d \in (recorded \cap Dirs) \ gone : extra' = extra \cup {d} /\ UNCHANGED <<home, mark>>
  /\ UNCHANGED <<aside, recorded, gone, lost, dirty, Fds, Owners, Control, out>>

-----------------------------------------------------------------------------
(* Tasks, failures and descriptors *)

Task(k, x) == mode = "run" /\ todo # <<>> /\ Head(todo) = <<k, x>>
AnyEnd == {"error", "interrupt"}
\* _LeafCleanupErrorOwner.capture: the first error stands, unless an interrupt follows an error.
Worse(k) == err' = IF err = "none" \/ k = "interrupt" THEN k ELSE err

Continue == todo' = Tail(todo) /\ UNCHANGED <<mode, err, hit, faults>>
Strike(kinds) ==
  \E k \in kinds :
    /\ Worse(k)
    /\ \/ k = "interrupt" /\ ~hit /\ hit' = TRUE /\ UNCHANGED faults
       \/ k = "error" /\ faults < MaxFaults /\ faults' = faults + 1 /\ UNCHANGED hit
Unwinds == mode' = "unwind" /\ UNCHANGED todo
Fail(kinds) == Strike(kinds) /\ Unwinds
CustodyLost == Worse("error") /\ UNCHANGED <<hit, faults>>
Lose == CustodyLost /\ Unwinds

Take(x, s) == fd' = [fd EXCEPT ![x] = s] /\ open' = open \cup {x} /\ UNCHANGED <<reclosed, attached>>
\* A close is tried once; a descriptor that is another directory's is not closed at all.
Shuts(x) ==
  /\ fd' = [fd EXCEPT ![x] = "closed"] /\ open' = open \ {x} /\ reclosed' = (reclosed \/ fd[x] # "owned")
  /\ UNCHANGED attached
ShutFails(x) ==
  /\ fd' = [fd EXCEPT ![x] = "unproven"] /\ open' \in {open, open \ {x}} /\ reclosed' = (reclosed \/ fd[x] # "owned")
  /\ attached' = attached \cup {x}

-----------------------------------------------------------------------------
(* A leaf, inside the section that masks signals *)

Intact(x) == mark[x] = "same"
\* A failure inside the section closes the descriptor before it is raised.
ToShut(x) == todo' = T("shut", x) /\ UNCHANGED mode
LeafFails(x) == Strike({"error"}) /\ ToShut(x)
LeafLost(x) == CustodyLost /\ ToShut(x)

Open(x) ==
  /\ Task("open", x)
  /\ \/ home[x] = "self" /\ Intact(x) /\ Continue /\ Take(x, "owned")
     \/ home[x] = "none" /\ LeafLost(x) /\ UNCHANGED Fds
     \/ home[x] # "none" /\ ~(home[x] = "self" /\ Intact(x)) /\ LeafLost(x) /\ Take(x, "owned")
     \/ LeafFails(x) /\ (UNCHANGED Fds \/ Take(x, "owned"))
  /\ UNCHANGED <<Names, Owners, moves, out>>

SetAside(x) == home' = [home EXCEPT ![x] = "none"] /\ aside' = [aside EXCEPT ![x] = home[x]]
Aside(x) ==
  /\ Task("aside", x)
  /\ \/ home[x] # "none" /\ Continue /\ SetAside(x)
     \/ home[x] = "none" /\ LeafLost(x) /\ UNCHANGED <<home, aside>>
     \/ LeafFails(x) /\ (UNCHANGED <<home, aside>> \/ (home[x] # "none" /\ SetAside(x)))
  /\ UNCHANGED <<mark, extra, recorded, gone, lost, dirty, Fds, Owners, moves, out>>

\* Variant: the quarantine name is trusted to hold what was checked before the rename.
InspectNot(x) == Task("inspect", x) /\ Continue /\ UNCHANGED <<Names, Fds, Owners, moves, out>>
Inspect(x) ==
  /\ Task("inspect", x)
  /\ \/ Intact(x) /\ aside[x] = "self" /\ home[x] = "none" /\ Continue
     \/ ~(Intact(x) /\ aside[x] = "self" /\ home[x] = "none") /\ LeafLost(x)
     \/ LeafFails(x)
  /\ UNCHANGED <<Names, Fds, Owners, moves, out>>

Delete(x, names) ==
  /\ gone' = IF names[x] = "self" THEN gone \cup {x} ELSE gone
  /\ lost' = IF names[x] \in {"file", "empty"} THEN lost \cup {names[x]} ELSE lost
  /\ dirty' = dirty \cup {Above(x)}
  /\ UNCHANGED <<mark, extra, recorded>>
RemoveAside(x) == aside' = [aside EXCEPT ![x] = "none"] /\ UNCHANGED home /\ Delete(x, aside)

Unlink(x) ==
  /\ Task("unlink", x)
  /\ \/ Continue /\ RemoveAside(x)
     \/ LeafFails(x) /\ (UNCHANGED Names \/ RemoveAside(x))
  /\ UNCHANGED <<Fds, Owners, moves, out>>

\* The object is unlinked everywhere, nothing took a name of it, and the directory is on disk.
Prove(x) ==
  /\ Task("prove", x)
  /\ \/ Intact(x) /\ home[x] = "none" /\ Continue /\ dirty' = dirty \ {Up(x)}
     \/ ~(Intact(x) /\ home[x] = "none") /\ LeafLost(x) /\ UNCHANGED dirty
     \/ LeafFails(x) /\ UNCHANGED dirty
  /\ UNCHANGED <<home, aside, mark, extra, recorded, gone, lost, Fds, Owners, moves, out>>

\* Closed once; an interrupt that was held back is raised now.
Shut(x) ==
  /\ Task("shut", x)
  /\ \/ /\ IF err = "none" THEN Continue ELSE Unwinds /\ UNCHANGED <<err, hit, faults>>
        /\ IF fd[x] = "owned" THEN Shuts(x) ELSE UNCHANGED Fds
     \/ /\ Fail({"interrupt"}) /\ IF fd[x] = "owned" THEN Shuts(x) ELSE UNCHANGED Fds
     \/ fd[x] = "owned" /\ Fail({"error"}) /\ ShutFails(x)
  /\ UNCHANGED <<Names, Owners, moves, out>>

-----------------------------------------------------------------------------
(* A directory *)

\* The entry is the one recorded: its identity, and a leaf's policy.
Check(x) ==
  /\ Task("check", x)
  /\ \/ home[x] = "self" /\ Intact(x) /\ Continue
     \/ ~(home[x] = "self" /\ Intact(x)) /\ Lose
     \/ Fail(AnyEnd)
  /\ UNCHANGED <<Names, Fds, Owners, moves, out>>

Enter(d) ==
  /\ Task("enter", d)
  /\ \/ home[d] = "self" /\ Continue /\ Take(d, "owned")
     \/ home[d] = "empty" /\ Lose /\ Take(d, "foreign")
     \/ home[d] \in {"none", "file"} /\ Lose /\ UNCHANGED Fds
     \/ Fail(AnyEnd) /\ (UNCHANGED Fds \/ (home[d] = "self" /\ Take(d, "owned")))
  /\ UNCHANGED <<Names, Owners, moves, out>>

Record(x) ==
  /\ Task("record", x)
  /\ \/ Continue /\ recorded' = recorded \cup {x}
     \/ Fail(AnyEnd) /\ UNCHANGED recorded
  /\ UNCHANGED <<home, aside, mark, extra, gone, lost, dirty, Fds, Owners, moves, out>>

\* The names in the directory are those of the manifest.
List(d) ==
  LET same == d \notin extra /\ \A x \in Range(Tree[d]) : home[x] # "none"
  IN  /\ Task("list", d)
      /\ \/ same /\ Continue
         \/ ~same /\ Lose
         \/ Fail(AnyEnd)
      /\ UNCHANGED <<Names, Fds, Owners, moves, out>>

Leave(d) ==
  /\ Task("leave", d)
  /\ \/ Continue /\ dirty' = dirty \ {d} /\ Shuts(d)
     \/ Fail(AnyEnd) /\ UNCHANGED <<Fds, dirty>>
     \/ Fail({"error"}) /\ dirty' = dirty \ {d} /\ ShutFails(d)
  /\ UNCHANGED <<home, aside, mark, extra, recorded, gone, lost, Owners, moves, out>>

Recheck(d) ==
  /\ Task("recheck", d)
  /\ \/ home[d] = "self" /\ Continue
     \/ home[d] # "self" /\ Lose
     \/ Fail(AnyEnd)
  /\ UNCHANGED <<Names, Fds, Owners, moves, out>>

IsEmpty(d) == d \notin extra /\ \A x \in Range(Tree[d]) : home[x] = "none" /\ aside[x] = "none"
\* rmdir takes an empty directory and nothing else.
Removable(d, names) == (names[d] = "self" /\ IsEmpty(d)) \/ names[d] = "empty"
RemoveHome(d) == home' = [home EXCEPT ![d] = "none"] /\ UNCHANGED aside /\ Delete(d, home)
Drop(d) ==
  /\ Task("drop", d)
  /\ \/ Removable(d, home) /\ Continue /\ RemoveHome(d)
     \/ ~Removable(d, home) /\ Lose /\ UNCHANGED Names
     \/ Fail(AnyEnd) /\ (UNCHANGED Names \/ (Removable(d, home) /\ RemoveHome(d)))
  /\ UNCHANGED <<Fds, Owners, moves, out>>

-----------------------------------------------------------------------------
(* A root *)

\* The error carries the quarantine name.
Named(r) == evid' = evid \cup {r} /\ UNCHANGED <<manifest, outcome, cur, blind>>

Custody(r) ==
  /\ Task("custody", r)
  /\ \/ home[r] = "self" /\ Continue
     \/ home[r] # "self" /\ Lose
     \/ Fail(AnyEnd)
  /\ UNCHANGED <<Names, Fds, Owners, moves, out>>

\* The owner is armed before the rename, which may have happened though it fails.
Rename(r) ==
  /\ Task("rename", r)
  /\ \/ home[r] # "none" /\ Continue /\ SetAside(r) /\ UNCHANGED Owners
     \/ home[r] = "none" /\ Lose /\ Named(r) /\ UNCHANGED <<home, aside>>
     \/ Fail(AnyEnd) /\ Named(r) /\ (UNCHANGED <<home, aside>> \/ (home[r] # "none" /\ SetAside(r)))
  /\ UNCHANGED <<mark, extra, recorded, gone, lost, dirty, Fds, moves, out>>

AsideIsRoot(r) == aside[r] = "self" /\ home[r] = "none"
Verify(r) ==
  /\ Task("verify", r)
  /\ \/ AsideIsRoot(r) /\ Continue /\ UNCHANGED Owners
     \/ ~AsideIsRoot(r) /\ Lose /\ Named(r)
     \/ Fail(AnyEnd) /\ Named(r)
  /\ UNCHANGED <<Names, Fds, moves, out>>

\* From the transfer of the result to the next try no owner names the quarantine.
Handoff(r) ==
  /\ Task("handoff", r)
  /\ \/ Continue /\ cur' = r /\ UNCHANGED blind
     \/ Fail({"interrupt"}) /\ blind' = TRUE /\ UNCHANGED cur
  /\ UNCHANGED <<Names, Fds, manifest, outcome, evid, moves, out>>

Sync(r) ==
  /\ Task("sync", r)
  /\ \/ Continue /\ dirty' = dirty \ {r}
     \/ Fail(AnyEnd) /\ UNCHANGED dirty
  /\ UNCHANGED <<home, aside, mark, extra, recorded, gone, lost, Fds, Owners, moves, out>>

Arm(r) ==
  /\ Task("arm", r) /\ cur' = "none"
  /\ \/ Continue /\ outcome' = [outcome EXCEPT ![r] = "armed"] /\ UNCHANGED blind
     \/ Fail({"interrupt"}) /\ blind' = TRUE /\ UNCHANGED outcome
  /\ UNCHANGED <<Names, Fds, manifest, evid, moves, out>>

Empty(r) ==
  LET ready == AsideIsRoot(r) /\ IsEmpty(r)
  IN  /\ Task("empty", r)
      /\ \/ ready /\ Continue /\ outcome' = [outcome EXCEPT ![r] = "unproven"] /\ UNCHANGED <<manifest, evid, cur, blind>>
         \/ ~ready /\ Lose /\ Named(r)
         \/ Fail(AnyEnd) /\ Named(r)
      /\ UNCHANGED <<Names, Fds, moves, out>>

Rmdir(r) ==
  /\ Task("rmdir", r)
  /\ \/ Removable(r, aside) /\ Continue /\ RemoveAside(r) /\ UNCHANGED Owners
     \/ ~Removable(r, aside) /\ Lose /\ Named(r) /\ UNCHANGED Names
     \/ Fail(AnyEnd) /\ Named(r) /\ (UNCHANGED Names \/ (Removable(r, aside) /\ RemoveAside(r)))
  /\ UNCHANGED <<Fds, moves, out>>

Complete(r) ==
  /\ Task("complete", r)
  /\ \/ /\ home[r] = "none" /\ Continue /\ outcome' = [outcome EXCEPT ![r] = "complete"]
        /\ dirty' = dirty \ {Par} /\ UNCHANGED <<manifest, evid, cur, blind>>
     \/ home[r] # "none" /\ Lose /\ Named(r) /\ dirty' = dirty \ {Par}
     \/ Fail(AnyEnd) /\ Named(r) /\ dirty' \in {dirty, dirty \ {Par}}
  /\ UNCHANGED <<home, aside, mark, extra, recorded, gone, lost, Fds, moves, out>>

-----------------------------------------------------------------------------
(* The manifest *)

Seal ==
  /\ Task("seal", Par)
  /\ \/ Continue /\ manifest' = "file"
     \/ Fail(AnyEnd) /\ manifest' \in {"none", "file"}
  /\ UNCHANGED <<Names, Fds, outcome, evid, cur, blind, moves, out>>

\* Once the caller's owner has the manifest its roots' descriptors are not closed by the builder.
Own ==
  /\ Task("own", Par)
  /\ \/ Continue /\ manifest' = "owned" /\ UNCHANGED Fds
     \/ Fail(AnyEnd) /\ UNCHANGED <<manifest, Fds>>
     \/ /\ Fail({"interrupt"}) /\ manifest' = "owned" /\ attached' = attached \cup RootSet
        /\ UNCHANGED <<fd, open, reclosed>>
  /\ UNCHANGED <<Names, outcome, evid, cur, blind, moves, out>>

\* completed_root_proofs: every root, in its order.
Publish ==
  /\ Task("publish", Par)
  /\ \/ (\A r \in RootSet : outcome[r] = "complete") /\ Continue
     \/ Fail(AnyEnd)
  /\ UNCHANGED <<Names, Fds, Owners, moves, out>>

\* CustodiedManifest.close: a failure leaves the other roots to be closed.
Close(r) ==
  /\ Task("close", r) /\ todo' = Tail(todo) /\ UNCHANGED mode
  /\ \/ Shuts(r) /\ UNCHANGED <<err, hit, faults>>
     \/ Strike(AnyEnd) /\ ShutFails(r)
     \/ Strike({"error"}) /\ fd' = [fd EXCEPT ![r] = "unproven"] /\ attached' = attached \cup {r} /\ UNCHANGED <<open, reclosed>>
  /\ UNCHANGED <<Names, Owners, moves, out>>

Unseal ==
  /\ Task("unseal", Par) /\ mode' = "done" /\ todo' = <<>>
  /\ \/ err = "none" /\ manifest' = "removed" /\ out' = "done" /\ UNCHANGED <<err, hit, faults>>
     \/ err = "none" /\ Strike(AnyEnd) /\ manifest' \in {"owned", "removed"} /\ out' = "failed"
     \/ err # "none" /\ out' = "failed" /\ UNCHANGED <<manifest, err, hit, faults>>
  /\ UNCHANGED <<Names, Fds, outcome, evid, cur, blind, moves>>

-----------------------------------------------------------------------------
(* The way out *)

Inner == {d \in Dirs \ RootSet : fd[d] = "owned"}
Innermost(d) == d \in Inner /\ \A x \in Range(Tree[d]) : x \notin Inner

\* Each frame flushes what it removed from and closes its child.
UnwindOne(d) ==
  /\ mode = "unwind" /\ Innermost(d)
  /\ \/ UNCHANGED <<mode, err, hit, faults>> /\ dirty' = dirty \ {d} /\ Shuts(d)
     \/ Strike({"error"}) /\ UNCHANGED <<mode, dirty>> /\ ShutFails(d)
     \/ Strike({"interrupt"}) /\ mode' = "evidence" /\ UNCHANGED <<dirty, Fds>>
  /\ UNCHANGED <<todo, home, aside, mark, extra, recorded, gone, lost, Owners, moves, out>>

UnwindEnd ==
  /\ mode = "unwind" /\ Inner = {} /\ mode' = "evidence"
  /\ UNCHANGED <<todo, err, hit, faults, Names, Fds, Owners, moves, out>>

Evidence ==
  /\ mode = "evidence" /\ mode' = "reconcile"
  /\ \/ /\ UNCHANGED <<err, hit, faults>> /\ evid' = evid \cup ({cur} \cap RootSet) /\ UNCHANGED blind
     \/ cur # "none" /\ Strike({"interrupt"}) /\ blind' = TRUE /\ UNCHANGED evid
  /\ UNCHANGED <<todo, manifest, outcome, cur, Names, Fds, moves, out>>

\* A failed build closes its roots too; a failed deletion leaves them to the manifest.
Settled == IF manifest = "owned" THEN Dirs \ RootSet ELSE Dirs
ReconcileOne(d) ==
  /\ mode = "reconcile" /\ d \in Settled /\ fd[d] = "owned"
  /\ \/ UNCHANGED <<err, hit, faults>> /\ Shuts(d)
     \/ Strike(AnyEnd) /\ ShutFails(d)
  /\ UNCHANGED <<mode, todo, Names, Owners, moves, out>>

Unsettled == {x \in Settled : fd[x] \notin {"none", "closed"}}
ReconcileEnd ==
  /\ mode = "reconcile" /\ ~\E d \in Settled : fd[d] = "owned"
  /\ mode' = "done" /\ out' = "failed" /\ attached' = attached \cup Unsettled
  /\ UNCHANGED <<todo, err, hit, faults, Names, fd, open, reclosed, Owners, moves>>

Step ==
  \/ \E x \in Leaves : Open(x) \/ Aside(x) \/ Inspect(x) \/ Unlink(x) \/ Prove(x) \/ Shut(x)
  \/ \E x \in Entries : Check(x)
  \/ \E x \in Objects : Record(x)
  \/ \E d \in Dirs : Enter(d) \/ List(d) \/ ReconcileOne(d)
  \/ \E d \in Dirs \ RootSet : Leave(d) \/ Recheck(d) \/ Drop(d) \/ UnwindOne(d)
  \/ \E r \in RootSet :
       \/ Custody(r) \/ Rename(r) \/ Verify(r) \/ Handoff(r) \/ Sync(r) \/ Arm(r)
       \/ Empty(r) \/ Rmdir(r) \/ Complete(r) \/ Close(r)
  \/ Seal \/ Own \/ Publish \/ Unseal \/ UnwindEnd \/ Evidence \/ ReconcileEnd

Next == Step \/ Others
Spec == Init /\ [][Next]_vars
FairSpec == Spec /\ WF_vars(Step)

-----------------------------------------------------------------------------
(* What must hold *)

\* Every variable has its type; what is deleted was recorded first.
TypeOK ==
  /\ mode \in {"run", "unwind", "evidence", "reconcile", "done"}
  /\ home \in [Objects -> {"self", "none", "file", "empty"}]
  /\ aside \in [Objects -> {"self", "none", "file", "empty"}]
  /\ mark \in [Objects -> {"same", "edited", "linked"}]
  /\ extra \subseteq Dirs /\ recorded \subseteq Objects /\ gone \subseteq recorded
  /\ lost \subseteq {"file", "empty"} /\ dirty \subseteq Dirs \cup {Par}
  /\ fd \in [Objects -> {"none", "owned", "foreign", "closed", "unproven"}]
  /\ open \subseteq Objects /\ reclosed \in BOOLEAN /\ attached \subseteq Objects
  /\ manifest \in {"none", "file", "owned", "removed"}
  /\ outcome \in [RootSet -> {"none", "armed", "unproven", "complete"}]
  /\ evid \subseteq RootSet /\ cur \in RootSet \cup {"none"} /\ blind \in BOOLEAN
  /\ err \in {"none", "error", "interrupt"} /\ hit \in BOOLEAN
  /\ out \in {"none", "done", "failed"}

\* A file another process put at a name of the tree is never deleted, whenever it appeared.
ForeignFilesSurvive == "file" \notin lost

Under[x \in Objects] == {x} \cup IF x \in Dirs THEN UNION {Under[y] : y \in Range(Tree[x])} ELSE {}
\* A root is reported removed only when everything recorded below it is deleted, as it was recorded
\* and under no other name, nothing stands at its names, and the removals are on disk.  An empty
\* directory swapped in between the last look at a directory and its rmdir is the one exception.
CompleteMeansGone ==
  \A r \in RootSet :
    (outcome[r] = "complete" /\ lost = {}) =>
      /\ Under[r] \subseteq gone /\ aside[r] = "none"
      /\ \A x \in Under[r] : mark[x] = "same"
      /\ dirty \cap Under[r] = {} /\ (out = "done" => dirty = {})

\* When the call is over, whoever holds its result or its error knows of every open descriptor.
DescriptorsAccounted ==
  out # "none" =>
    \A x \in open : x \in attached \/ (x \in RootSet /\ manifest \in {"owned", "removed"})

\* No descriptor is closed twice: the number may be another's by then.
ClosedOnce == ~reclosed

\* A root left at its quarantine name is named by the error or by its outcome record.
QuarantineIsNamed ==
  (out = "failed" /\ ~blind) =>
    \A r \in RootSet : aside[r] # "none" => r \in evid \/ outcome[r] \in {"armed", "unproven"}

\* An interrupt is what the caller sees, whatever failed before or after it.
InterruptSurvives == (out = "failed" /\ hit) => err = "interrupt"

\* The call ends whatever the other processes do.
Ended == out # "none"
CleanupEnds == <>Ended
=============================================================================
