----------------------------- MODULE CommitScope -----------------------------
(***************************************************************************)
(* Which commits a review covers when the local repository may lack a part *)
(* of the history (review_runtime/review_workspace.py).  _freeze_range     *)
(* decides base..head from the commits that are there, or says that they   *)
(* do not decide it; the commits of the range and of base's history are    *)
(* imported into a private repository whose shallow file names the commits *)
(* with no parent there, and validate_workspace derives all of it again.   *)
(*                                                                         *)
(* The true history is a variable nobody reads: Git answers from "present" *)
(* alone.  Commits are numbered so that a parent is smaller than its       *)
(* child; head is the last.  A commit's tree and blobs are one snapshot.   *)
(***************************************************************************)
EXTENDS Naturals, FiniteSets

CONSTANTS N,            \* commits
          MaxDamage     \* changes made to the private repository

Commits == 1..N
head == N
NoScope == [range |-> {}, support |-> {}, external |-> {}, boundary |-> {}]

VARIABLES
  parents,    \* [Commits -> their true parents]
  present,    \* the commits in the source repository
  trees,      \* the commits whose snapshot is there
  base,
  verdict,    \* of the freezing: "none", "frozen", "incomplete", "not-ancestor"
  scope,      \* what was frozen
  store,      \* the private repository: commits, snapshots, shallow file
  damage, valid   \* valid: "none", "valid" or "invalid"

source == <<parents, present, trees, base>>
vars == <<parents, present, trees, base, verdict, scope, store, damage, valid>>

-----------------------------------------------------------------------------
(* Traversals *)

\* The commits of "from" reached from s through commits of "from": the least set that holds s and,
\* with a commit, its parents.
Walk(s, from, edges) ==
  LET Closed == {T \in SUBSET from : /\ {s} \cap from \subseteq T
                                     /\ \A c \in T : edges[c] \cap from \subseteq T}
  IN  {c \in from : \A T \in Closed : c \in T}

Known(s) == Walk(s, present, parents)
Frontier(s) == ({s} \cup UNION {parents[c] : c \in Known(s)}) \ present

TrueReach(s) == Walk(s, Commits, parents)
TrueRange == TrueReach(head) \ TrueReach(base)

Init ==
  /\ parents \in {f \in [Commits -> SUBSET Commits] : \A c \in Commits : f[c] \subseteq 1..(c - 1)}
  /\ present \in SUBSET Commits
  /\ trees = Commits
  /\ base \in Commits
  /\ verdict = "none" /\ scope = NoScope
  /\ store = [commits |-> {}, trees |-> {}, shallow |-> {}]
  /\ damage = 0 /\ valid = "none"

\* A snapshot of the source is incomplete.
LoseSnapshot ==
  /\ verdict = "none" /\ trees = Commits
  /\ \E c \in present : trees' = trees \ {c}
  /\ UNCHANGED <<parents, present, base, verdict, scope, store, damage, valid>>

-----------------------------------------------------------------------------
(* The scope *)

Range == Known(head) \ Known(base)

\* A missing commit of head's side that base is not known to reach as well.
Unresolved == Frontier(head) \ Frontier(base) # {}

\* Only a present path down to base proves that a commit is not in its history.
Descendants == {c \in Known(head) : base \in Known(c)}

\* Variant: no commit needs a proof of descent.
AmbiguousNever == FALSE
Ambiguous == Frontier(head) # {} /\ Range \ Descendants # {}

ReviewParents == (UNION {parents[c] : c \in Range}) \ Range
MissingParents == ReviewParents \ present
External == {base} \cup (ReviewParents \cap present)

Cut(c) == parents[c] \ present # {}
Boundary == {c \in Known(base) : Cut(c)}

\* A boundary is never made by cutting a parent edge that is there.
Torn == \E c \in Boundary : parents[c] \cap present # {}

Incomplete ==
  \/ {base, head} \ present # {}
  \/ base \notin Known(head) /\ Frontier(head) # {}
  \/ base \in Known(head) /\ (Unresolved \/ Ambiguous)
  \/ base \in Known(head) /\ (MissingParents # {} \/ External \ Known(base) # {} \/ Torn)

NotAncestor == {base, head} \subseteq present /\ base \notin Known(head) /\ Frontier(head) = {}

Snapshots == {base} \cup Range \cup External

\* The range, the support and the boundaries are frozen, with the snapshots of
\* base, of every commit of the range and of every parent outside of it.
Freeze ==
  /\ verdict = "none"
  /\ verdict' = IF Incomplete THEN "incomplete"
                ELSE IF NotAncestor THEN "not-ancestor"
                ELSE IF Snapshots \subseteq trees THEN "frozen" ELSE "incomplete"
  /\ scope' = IF verdict' = "frozen"
              THEN [range |-> Range, support |-> Known(base), external |-> External \ {base},
                    boundary |-> Boundary]
              ELSE NoScope
  /\ UNCHANGED <<source, store, damage, valid>>

\* The objects of the two manifests are packed, with the shallow file.
Import ==
  /\ verdict = "frozen" /\ store.commits = {}
  /\ store' = [commits |-> scope.range \cup scope.support,
               trees |-> {base} \cup scope.range \cup scope.external,
               shallow |-> scope.boundary]
  /\ UNCHANGED <<source, verdict, scope, damage, valid>>

\* The private repository changes: a commit is lost or comes in, a snapshot is
\* lost, the shallow file gains or loses a line.
Damage ==
  /\ store.commits # {} /\ damage < MaxDamage /\ valid = "none"
  /\ damage' = damage + 1
  /\ \E c \in Commits :
       store' \in {[store EXCEPT !.commits = @ \ {c}], [store EXCEPT !.commits = @ \cup {c}],
                   [store EXCEPT !.trees = @ \ {c}],
                   [store EXCEPT !.shallow = @ \ {c}], [store EXCEPT !.shallow = @ \cup {c}]}
  /\ UNCHANGED <<source, verdict, scope, valid>>

-----------------------------------------------------------------------------
(* Validation of the private repository *)

\* Ordinary Git takes a commit of the shallow file to have no parents.
VisibleParents == [c \in Commits |-> IF c \in store.shallow THEN {} ELSE parents[c]]
VisibleRange == Walk(head, store.commits, VisibleParents) \ Walk(base, store.commits, VisibleParents)

\* The raw probe ignores the shallow file.
Graph == Walk(head, store.commits, parents)

VisibleAgrees ==
  /\ VisibleRange = scope.range
  /\ \A c \in scope.range : VisibleParents[c] = parents[c]

GraphAgrees == Graph = scope.range \cup scope.support \cup {base}

FrontierAgrees ==
  LET cut == {c \in Graph : parents[c] \ store.commits # {}} IN
  /\ \A c \in cut : c \notin scope.range /\ parents[c] \cap Graph = {}
  /\ store.shallow = cut

SnapshotsAgree ==
  {base} \cup scope.range \cup {p \in UNION {parents[c] : c \in scope.range} :
                                p \notin scope.range /\ p # base} \subseteq store.trees

Validate ==
  /\ store.commits # {} /\ valid = "none"
  /\ valid' = IF VisibleAgrees /\ GraphAgrees /\ FrontierAgrees /\ SnapshotsAgree
              THEN "valid" ELSE "invalid"
  /\ UNCHANGED <<source, verdict, scope, store, damage>>

Next == LoseSnapshot \/ Freeze \/ Import \/ Damage \/ Validate

Spec == Init /\ [][Next]_vars

-----------------------------------------------------------------------------
TypeOK ==
  /\ parents \in [Commits -> SUBSET Commits] /\ base \in Commits
  /\ present \subseteq Commits /\ trees \subseteq Commits
  /\ verdict \in {"none", "frozen", "incomplete", "not-ancestor"}
  /\ \A f \in DOMAIN scope : scope[f] \subseteq Commits
  /\ \A f \in DOMAIN store : store[f] \subseteq Commits
  /\ damage \in 0..MaxDamage /\ valid \in {"none", "valid", "invalid"}

\* A frozen range is the range of the true history, whatever the commits that
\* are not there may be.
RangeIsTrue == verdict = "frozen" => scope.range = TrueRange

\* An answer that base is no ancestor is true of the true history as well, and a
\* source that lacks nothing is always decided.
AnswerIsTrue ==
  /\ verdict = "not-ancestor" => base \notin TrueReach(head)
  /\ present = Commits /\ trees = Commits => verdict # "incomplete"

\* The imported repository shows ordinary Git the same range, and every parent of
\* a reviewed commit is there with its snapshot.
ImportIsSelfContained ==
  store.commits # {} /\ damage = 0 =>
    /\ VisibleRange = scope.range
    /\ \A c \in scope.range : parents[c] \subseteq store.commits \cap store.trees \cap trees

\* Validation accepts what preparation made.
OwnWorkIsValid == valid = "invalid" => damage > 0

\* A repository that is accepted after it was damaged still has the whole range,
\* its edges, and the parents with their snapshots.
ValidIsWhole ==
  valid = "valid" =>
    /\ VisibleRange = TrueRange
    /\ \A c \in scope.range : /\ VisibleParents[c] = parents[c]
                              /\ parents[c] \subseteq store.commits \cap store.trees
    /\ scope.support \subseteq store.commits
=============================================================================
