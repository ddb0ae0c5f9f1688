---------------------------- MODULE ReviewAttempt ----------------------------
(***************************************************************************)
(* What one review attempt promises, with every process, message, helper   *)
(* and crash abstracted away: a reviewer that runs at most once, an        *)
(* outcome that is concluded at most once and only while no reviewer runs, *)
(* and a result that is shown only from a final outcome.                   *)
(***************************************************************************)
VARIABLES outcome,   \* what the durable record says of the attempt
          reviewer,  \* the reviewer process
          checkout,  \* the private checkout exists
          shown      \* a result was handed to the user

avars == <<outcome, reviewer, checkout, shown>>

Outcomes == {"open", "authorized", "reviewed", "final", "failed"}

AInit == /\ outcome = "open" /\ reviewer = "none"
         /\ checkout = FALSE /\ shown = FALSE

(* Only an open attempt gets a checkout, and before its reviewer starts. *)
CreateCheckout ==
  /\ outcome = "open" /\ reviewer = "none" /\ checkout' = TRUE
  /\ UNCHANGED <<outcome, reviewer, shown>>

(* The checkout may go at any time: after a failure, too. *)
RemoveCheckout == /\ checkout /\ checkout' = FALSE
                  /\ UNCHANGED <<outcome, reviewer, shown>>

(* The reviewer starts once, on a checkout. *)
StartReviewer ==
  /\ outcome = "open" /\ reviewer = "none" /\ checkout
  /\ reviewer' = "running"
  /\ UNCHANGED <<outcome, checkout, shown>>

EndReviewer == /\ reviewer = "running" /\ reviewer' \in {"zero", "nonzero"}
               /\ UNCHANGED <<outcome, checkout, shown>>

(* Authorization needs a reviewer that succeeded; a verdict needs the      *)
(* authorization; the final authorization, a verdict and no checkout.      *)
Authorize == /\ outcome = "open" /\ reviewer = "zero"
             /\ outcome' = "authorized"
             /\ UNCHANGED <<reviewer, checkout, shown>>

Publish == /\ outcome = "authorized" /\ outcome' = "reviewed"
           /\ UNCHANGED <<reviewer, checkout, shown>>

Finalize == /\ outcome = "reviewed" /\ ~checkout /\ outcome' = "final"
            /\ UNCHANGED <<reviewer, checkout, shown>>

(* Until it is final an attempt may fail, but never under a running        *)
(* reviewer; failed and final are for ever.                                *)
Conclude == /\ outcome \in {"open", "authorized", "reviewed"}
            /\ reviewer # "running"
            /\ outcome' = "failed"
            /\ UNCHANGED <<reviewer, checkout, shown>>

Show == /\ outcome = "final" /\ shown' = TRUE
        /\ UNCHANGED <<outcome, reviewer, checkout>>

ANext == \/ CreateCheckout \/ RemoveCheckout \/ StartReviewer
         \/ EndReviewer \/ Authorize \/ Publish \/ Finalize \/ Conclude
         \/ Show

ASpec == AInit /\ [][ANext]_avars
=============================================================================
