------------------------- MODULE SubmissionWindow --------------------------
(***************************************************************************)
(* ApplicationPipeline with a history variable: for each request that is   *)
(* heading for a submission, the gates that have been satisfied at some    *)
(* moment since the request began.                                         *)
(*                                                                         *)
(* The six reads answer at different moments, so no moment need exist at   *)
(* which all of them would pass together, and what was read may have       *)
(* changed by the time of the update.  What remains true is stated here.   *)
(***************************************************************************)
EXTENDS ApplicationPipeline

VARIABLE held     \* [Req -> gates that held at some moment of the request]

windowVars == <<vars, held>>

\* The gates that hold now for the application of the request in slot r.
SatisfiedGates(r) == {g \in Gate : GatePassed(g, req[r].app)}

Submitting(r) ==
  /\ req[r] # Idle
  /\ req[r].op \in {"put", "submit"}
  /\ req[r].target = "submitted"
  /\ req[r].next = "write"

WindowInit == Init /\ held = [r \in Req |-> {}]

WindowNext ==
  /\ Next
  /\ held' = [r \in Req |->
       IF Submitting(r)'
       THEN (IF Submitting(r) THEN held[r] ELSE {}) \cup SatisfiedGates(r)'
       ELSE {}]

WindowSpec == WindowInit /\ [][WindowNext]_windowVars

\* A request about to write 'submitted' has had every gate satisfied at some
\* moment after it began: no answer is carried over from an earlier request, no
\* gate is skipped on either route, and a failed one stops the request
\* (ApplicationGateChecker.checkAll as both submit routes call it).
EveryGateHeldInWindow ==
  \A r \in Req : Submitting(r) /\ req[r].pending = {} => held[r] = Gate

\* An owner is KYC-verified only for a business with a KYB check on file,
\* whatever has been checked since and however the two verifications interleave
\* (the KYB-first rule of verifyKyc, tested long before its write).
VerifiedOwnersHadKyb ==
  (\E o \in Owner : ownerKyc[o] = "verified") => kyb # "none"

============================================================================
