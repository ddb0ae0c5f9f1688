---------------------------- MODULE MCComponents ----------------------------
EXTENDS SupervisorComponents, RuntimeComponents, TLC

CONSTANTS v1

Init == which \in Cases /\ (SupervisorInit \/ RuntimeInit)
Next == SupervisorNext \/ RuntimeNext
Spec == Init /\ [][Next]_All
FairSpec == Spec /\ SupervisorFairness /\ RuntimeFairness

SafetyBound ==
  [own |-> 1, relay |-> 2, launch |-> 2, edits |-> 1, time |-> 2, preflight |-> 3, other |-> 2, tries |-> 3,
   onSuccess |-> FALSE, signals |-> 2, inodes |-> 3, shared |-> 4, versions |-> 3, logins |-> 2, stage |-> 2,
   cleanup |-> 6, stages |-> 2, keychain |-> 1, broker |-> 1, retained |-> 2, host |-> 3, journal |-> 0, commands |-> {c1},
   artifacts |-> {"a1"}, kills |-> 2, validators |-> {v1}, deaths |-> 2, recovery |-> 2,
   calls |-> 2, commits |-> 4, damage |-> 2, custody |-> 2, moves |-> 2, changes |-> 2, process |-> 3, verifier |-> 2, objects |-> 1, lane |-> 3, answer |-> 3, legacy |-> 1]

EndsBound ==
  [own |-> 0, relay |-> 1, launch |-> 1, edits |-> 0, time |-> 0, preflight |-> 2, other |-> 1, tries |-> 2,
   onSuccess |-> TRUE, signals |-> 1, inodes |-> 3, shared |-> 3, versions |-> 3, logins |-> 1, stage |-> 2,
   cleanup |-> 6, stages |-> 2, keychain |-> 0, broker |-> 0, retained |-> 0, host |-> 0, journal |-> 0, commands |-> {c1},
   artifacts |-> {"a1"}, kills |-> 1, validators |-> {v1}, deaths |-> 1, recovery |-> 2,
   calls |-> 2, commits |-> 3, damage |-> 0, custody |-> 1, moves |-> 1, changes |-> 0, process |-> 2, verifier |-> 1, objects |-> 1, lane |-> 1, answer |-> 2, legacy |-> 0]

(* Identifiers, commands and validators differ only in their names. *)
Symmetry == Permutations(Ids) \cup Permutations({c1, c2})
            \cup Permutations({p1, p2})

ASSUME SuiteAssumption ==
  /\ Cases \subseteq {"own", "fence", "relay", "launch", "session", "login", "carrier", "refresh",
                      "review", "staging", "preflight", "file", "lock", "locks", "stage",
                      "cleanup", "keychain", "journal", "retained", "host", "hosts", "broker", "struck", "brokers", "run", "runs", "workspace", "scope", "import",
                      "custody", "process", "verifier", "lane", "answer", "legacy", "names", "material"}
  /\ None \notin Ids
=============================================================================
