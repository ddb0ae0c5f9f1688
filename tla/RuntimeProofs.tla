---------------------------- MODULE RuntimeProofs ----------------------------
(***************************************************************************)
(* What is proved of the components that RuntimeComponents puts side by     *)
(* side: each component's own proof is used as it stands, its variables in  *)
(* their slots.                                                             *)
(***************************************************************************)
EXTENDS RuntimeComponents, Naturals, TLAPS

RuntimeSpec == RuntimeInit /\ [][RuntimeNext]_All

(* No step changes which component runs. *)
LEMMA OneRuntime == ASSUME [RuntimeNext]_All PROVE which' = which
BY DEF RuntimeNext, All, Kept10, Kept11, Kept12, Kept13, Kept14, Kept15, Kept16, Kept17, Kept18, Kept19,
  Kept20, Kept21, Kept22, Kept23, Kept24, Kept25, Kept26, Kept27, Kept28, Kept29

-----------------------------------------------------------------------------
(* CommitScope: a whole history, then one that loses objects *)

ScopesBound == Bound.commits \in Nat /\ Bound.damage \in Nat

ScopeProof == INSTANCE RunCustodyProofs WITH mode <- s1, keep <- s2, starter <- s3,
  runner <- s4, marker <- s5, record <- s6, box <- s7, art <- s8, receipts <- s9, tree <- s10,
  exit <- s11, sealed <- s12, lock <- s13, fds <- s14, cmd <- s15, worker <- s16, job <- s17,
  kills <- s18, Commands <- {c1, c2}, Starter <- Starter, Nobody <- None, Artifacts <- {},
  MaxKills <- 0, dir <- s1, inodes <- s2, place <- s3, agenda <- s4, hold <- s5, adopted <- s6,
  opened <- s7, beat <- s8, operator <- s9, handoff <- s10, cleared <- s11, faults <- s12,
  signals <- s13, Nil <- None, Helpers <- {p1, p2}, Claude <- Claude, Foreign <- TRUE,
  OnSuccess <- TRUE, MaxInterrupts <- 1, MaxInodes <- 1, parents <- s1, present <- s2,
  trees <- s3, root <- s4, verdict <- s5, scope <- s6, store <- s7, damage <- s8, valid <- s9,
  N <- Bound.commits, MaxDamage <- 0

ScopeInv == which = "scope" => ScopeProof!ScopeInv

(* The component and the module it is proved in say the same. *)
LEMMA ScopeSame ==
  /\ Scope!Init = ScopeProof!Scope!Init /\ Scope!Next = ScopeProof!Scope!Next
  /\ Scope!TypeOK = ScopeProof!Scope!TypeOK
  /\ Scope!RangeIsTrue = ScopeProof!Scope!RangeIsTrue
  /\ Scope!AnswerIsTrue = ScopeProof!Scope!AnswerIsTrue
<1>1. Scope!Init = ScopeProof!Scope!Init
  BY DEF Scope!Init, ScopeProof!Scope!Init, Scope!Commits, ScopeProof!Scope!Commits,
     Scope!NoScope, ScopeProof!Scope!NoScope
<1>2. Scope!Next = ScopeProof!Scope!Next
  BY DEF Scope!Next, ScopeProof!Scope!Next, Scope!LoseSnapshot, ScopeProof!Scope!LoseSnapshot,
     Scope!Freeze, ScopeProof!Scope!Freeze, Scope!Import, ScopeProof!Scope!Import, Scope!Damage,
     ScopeProof!Scope!Damage, Scope!Validate, ScopeProof!Scope!Validate, Scope!Commits,
     ScopeProof!Scope!Commits, Scope!NoScope, ScopeProof!Scope!NoScope, Scope!head,
     ScopeProof!Scope!head, Scope!source, ScopeProof!Scope!source, Scope!Walk,
     ScopeProof!Scope!Walk, Scope!Known, ScopeProof!Scope!Known, Scope!Frontier,
     ScopeProof!Scope!Frontier, Scope!Range, ScopeProof!Scope!Range, Scope!Unresolved,
     ScopeProof!Scope!Unresolved, Scope!Descendants, ScopeProof!Scope!Descendants,
     Scope!Ambiguous, ScopeProof!Scope!Ambiguous, Scope!ReviewParents,
     ScopeProof!Scope!ReviewParents, Scope!MissingParents, ScopeProof!Scope!MissingParents,
     Scope!External, ScopeProof!Scope!External, Scope!Cut, ScopeProof!Scope!Cut, Scope!Boundary,
     ScopeProof!Scope!Boundary, Scope!Torn, ScopeProof!Scope!Torn, Scope!Incomplete,
     ScopeProof!Scope!Incomplete, Scope!NotAncestor, ScopeProof!Scope!NotAncestor,
     Scope!Snapshots, ScopeProof!Scope!Snapshots, Scope!VisibleParents,
     ScopeProof!Scope!VisibleParents, Scope!VisibleRange, ScopeProof!Scope!VisibleRange,
     Scope!Graph, ScopeProof!Scope!Graph, Scope!VisibleAgrees, ScopeProof!Scope!VisibleAgrees,
     Scope!GraphAgrees, ScopeProof!Scope!GraphAgrees, Scope!FrontierAgrees,
     ScopeProof!Scope!FrontierAgrees, Scope!SnapshotsAgree, ScopeProof!Scope!SnapshotsAgree
<1>3. /\ Scope!TypeOK = ScopeProof!Scope!TypeOK
      /\ Scope!RangeIsTrue = ScopeProof!Scope!RangeIsTrue
      /\ Scope!AnswerIsTrue = ScopeProof!Scope!AnswerIsTrue
  BY DEF Scope!TypeOK, ScopeProof!Scope!TypeOK, Scope!RangeIsTrue, ScopeProof!Scope!RangeIsTrue,
     Scope!AnswerIsTrue, ScopeProof!Scope!AnswerIsTrue, Scope!Commits, ScopeProof!Scope!Commits,
     Scope!head, ScopeProof!Scope!head, Scope!Walk, ScopeProof!Scope!Walk, Scope!TrueReach,
     ScopeProof!Scope!TrueReach, Scope!TrueRange, ScopeProof!Scope!TrueRange
<1> QED
  BY <1>1, <1>2, <1>3

LEMMA ScopeBounds == ASSUME ScopesBound PROVE ScopeProof!ScopeBounds
BY DEF ScopesBound, ScopeProof!ScopeBounds

LEMMA ScopeInit == ASSUME ScopesBound, RuntimeInit PROVE ScopeInv
BY ScopeBounds, ScopeSame, ScopeProof!ScopeInitHolds DEF RuntimeInit, ScopeInv

LEMMA ScopeKeeps == ASSUME ScopesBound, ScopeInv, [RuntimeNext]_All PROVE ScopeInv'
<1>1. CASE which = "scope"
  <2>1. [ScopeProof!Scope!Next]_(ScopeProof!Scope!vars)
    BY <1>1, ScopeSame DEF RuntimeNext, All, ScopeProof!Scope!vars
  <2>2. ScopeProof!ScopeInv'
    BY <1>1, <2>1, ScopeBounds, ScopeProof!ScopeStepKeeps DEF ScopeInv
  <2> QED
    BY <2>2 DEF ScopeInv
<1>2. CASE which # "scope"
  BY <1>2, OneRuntime DEF ScopeInv
<1> QED
  BY <1>1, <1>2

ImportProof == INSTANCE RunCustodyProofs WITH mode <- s1, keep <- s2, starter <- s3,
  runner <- s4, marker <- s5, record <- s6, box <- s7, art <- s8, receipts <- s9, tree <- s10,
  exit <- s11, sealed <- s12, lock <- s13, fds <- s14, cmd <- s15, worker <- s16, job <- s17,
  kills <- s18, Commands <- {c1, c2}, Starter <- Starter, Nobody <- None, Artifacts <- {},
  MaxKills <- 0, dir <- s1, inodes <- s2, place <- s3, agenda <- s4, hold <- s5, adopted <- s6,
  opened <- s7, beat <- s8, operator <- s9, handoff <- s10, cleared <- s11, faults <- s12,
  signals <- s13, Nil <- None, Helpers <- {p1, p2}, Claude <- Claude, Foreign <- TRUE,
  OnSuccess <- TRUE, MaxInterrupts <- 1, MaxInodes <- 1, parents <- s1, present <- s2,
  trees <- s3, root <- s4, verdict <- s5, scope <- s6, store <- s7, damage <- s8, valid <- s9,
  N <- 4, MaxDamage <- Bound.damage

ImportInv == which = "import" => ImportProof!ScopeInv

(* The component and the module it is proved in say the same. *)
LEMMA ImportSame ==
  /\ Import!Init = ImportProof!Scope!Init /\ Import!Next = ImportProof!Scope!Next
  /\ Import!TypeOK = ImportProof!Scope!TypeOK
  /\ Import!ImportIsSelfContained = ImportProof!Scope!ImportIsSelfContained
  /\ Import!OwnWorkIsValid = ImportProof!Scope!OwnWorkIsValid
  /\ Import!ValidIsWhole = ImportProof!Scope!ValidIsWhole
<1>1. Import!Init = ImportProof!Scope!Init
  BY DEF Import!Init, ImportProof!Scope!Init, Import!Commits, ImportProof!Scope!Commits,
     Import!NoScope, ImportProof!Scope!NoScope
<1>2. Import!Next = ImportProof!Scope!Next
  BY DEF Import!Next, ImportProof!Scope!Next, Import!LoseSnapshot, ImportProof!Scope!LoseSnapshot,
     Import!Freeze, ImportProof!Scope!Freeze, Import!Import, ImportProof!Scope!Import,
     Import!Damage, ImportProof!Scope!Damage, Import!Validate, ImportProof!Scope!Validate,
     Import!Commits, ImportProof!Scope!Commits, Import!NoScope, ImportProof!Scope!NoScope,
     Import!head, ImportProof!Scope!head, Import!source, ImportProof!Scope!source, Import!Walk,
     ImportProof!Scope!Walk, Import!Known, ImportProof!Scope!Known, Import!Frontier,
     ImportProof!Scope!Frontier, Import!Range, ImportProof!Scope!Range, Import!Unresolved,
     ImportProof!Scope!Unresolved, Import!Descendants, ImportProof!Scope!Descendants,
     Import!Ambiguous, ImportProof!Scope!Ambiguous, Import!ReviewParents,
     ImportProof!Scope!ReviewParents, Import!MissingParents, ImportProof!Scope!MissingParents,
     Import!External, ImportProof!Scope!External, Import!Cut, ImportProof!Scope!Cut,
     Import!Boundary, ImportProof!Scope!Boundary, Import!Torn, ImportProof!Scope!Torn,
     Import!Incomplete, ImportProof!Scope!Incomplete, Import!NotAncestor,
     ImportProof!Scope!NotAncestor, Import!Snapshots, ImportProof!Scope!Snapshots,
     Import!VisibleParents, ImportProof!Scope!VisibleParents, Import!VisibleRange,
     ImportProof!Scope!VisibleRange, Import!Graph, ImportProof!Scope!Graph, Import!VisibleAgrees,
     ImportProof!Scope!VisibleAgrees, Import!GraphAgrees, ImportProof!Scope!GraphAgrees,
     Import!FrontierAgrees, ImportProof!Scope!FrontierAgrees, Import!SnapshotsAgree,
     ImportProof!Scope!SnapshotsAgree
<1>3. /\ Import!TypeOK = ImportProof!Scope!TypeOK
      /\ Import!ImportIsSelfContained = ImportProof!Scope!ImportIsSelfContained
      /\ Import!OwnWorkIsValid = ImportProof!Scope!OwnWorkIsValid
      /\ Import!ValidIsWhole = ImportProof!Scope!ValidIsWhole
  BY DEF Import!TypeOK, ImportProof!Scope!TypeOK, Import!ImportIsSelfContained,
     ImportProof!Scope!ImportIsSelfContained, Import!OwnWorkIsValid,
     ImportProof!Scope!OwnWorkIsValid, Import!ValidIsWhole, ImportProof!Scope!ValidIsWhole,
     Import!Commits, ImportProof!Scope!Commits, Import!head, ImportProof!Scope!head, Import!Walk,
     ImportProof!Scope!Walk, Import!TrueReach, ImportProof!Scope!TrueReach, Import!TrueRange,
     ImportProof!Scope!TrueRange, Import!VisibleParents, ImportProof!Scope!VisibleParents,
     Import!VisibleRange, ImportProof!Scope!VisibleRange
<1> QED
  BY <1>1, <1>2, <1>3

LEMMA ImportBounds == ASSUME ScopesBound PROVE ImportProof!ScopeBounds
BY DEF ScopesBound, ImportProof!ScopeBounds

LEMMA ImportInit == ASSUME ScopesBound, RuntimeInit PROVE ImportInv
BY ImportBounds, ImportSame, ImportProof!ScopeInitHolds DEF RuntimeInit, ImportInv

LEMMA ImportKeeps == ASSUME ScopesBound, ImportInv, [RuntimeNext]_All PROVE ImportInv'
<1>1. CASE which = "import"
  <2>1. [ImportProof!Scope!Next]_(ImportProof!Scope!vars)
    BY <1>1, ImportSame DEF RuntimeNext, All, ImportProof!Scope!vars
  <2>2. ImportProof!ScopeInv'
    BY <1>1, <2>1, ImportBounds, ImportProof!ScopeStepKeeps DEF ImportInv
  <2> QED
    BY <2>2 DEF ImportInv
<1>2. CASE which # "import"
  BY <1>2, OneRuntime DEF ImportInv
<1> QED
  BY <1>1, <1>2

(* Whatever is missing from the history, a frozen range is the one of the   *)
(* whole history, a refusal is true of it, and a private repository that    *)
(* validation accepts holds all the range rests on, damaged or not          *)
(* (review_workspace.py:3387, 3447).                                        *)
THEOREM ScopesStayTrue ==
  ASSUME ScopesBound
  PROVE  RuntimeSpec => []ScopeIsTrue
<1> DEFINE Inv == ScopeInv /\ ImportInv
<1>1. RuntimeInit => Inv
  BY ScopeInit, ImportInit
<1>2. Inv /\ [RuntimeNext]_All => Inv'
  BY ScopeKeeps, ImportKeeps
<1>3. Inv => ScopeIsTrue
  <2>1. ASSUME Inv, which = "scope" PROVE Scope!TypeOK /\ Scope!RangeIsTrue /\ Scope!AnswerIsTrue
    BY <2>1, ScopeBounds, ScopeSame, ScopeProof!ScopeInvariantTells DEF ScopeInv
  <2>2. ASSUME Inv, which = "import"
        PROVE  /\ Import!TypeOK /\ Import!ImportIsSelfContained
               /\ Import!OwnWorkIsValid /\ Import!ValidIsWhole
    BY <2>2, ImportBounds, ImportSame, ImportProof!ScopeInvariantTells DEF ImportInv
  <2> QED
    BY <2>1, <2>2 DEF ScopeIsTrue
<1> QED
  BY <1>1, <1>2, <1>3, PTL DEF RuntimeSpec
=============================================================================
