-------------------------- MODULE MCRetentionLedger --------------------------
EXTENDS RetentionLedger, TLC

Symmetry == Permutations(Attempts)

(* The fair specification without restarts of the machine *)
OneBootSpec ==
  /\ Init
  /\ [][Start \/ Step \/ Crash
        \/ \E a \in Attempts : TtlElapses(a) \/ ResidueAges(a)]_vars
  /\ WF_vars(Step)
=============================================================================
