------------------------------ MODULE BoundedCall ------------------------------
(* What a supervised command promises to the code that called for it: whatever  *)
(* happens to the call, the caller may take the command's things away once it   *)
(* has been told that the command is quiet, and it is never told so too early.  *)
EXTENDS Naturals

VARIABLES call,    \* running, returned (with a result), failed
          alive,   \* something of the command may still act
          quiet    \* the caller has been told that nothing is left

vars == <<call, alive, quiet>>

Init == call = "running" /\ alive = FALSE /\ quiet = FALSE

(* a call that has failed without a proof may still see its command appear *)
Appear == ~quiet /\ call # "returned" /\ ~alive /\ alive' = TRUE /\ UNCHANGED <<call, quiet>>
Vanish == alive /\ alive' = FALSE /\ UNCHANGED <<call, quiet>>
Prove == call = "running" /\ ~alive /\ quiet' = TRUE /\ UNCHANGED <<call, alive>>
Return == call = "running" /\ quiet /\ call' = "returned" /\ UNCHANGED <<alive, quiet>>
Fail == call = "running" /\ call' = "failed" /\ UNCHANGED <<alive, quiet>>

Next == Appear \/ Vanish \/ Prove \/ Return \/ Fail
Spec == Init /\ [][Next]_vars

QuietMeansGone == quiet => ~alive
ResultIsProven == call = "returned" => quiet
================================================================================
