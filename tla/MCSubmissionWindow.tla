------------------------- MODULE MCSubmissionWindow ------------------------
(* Instance of SubmissionWindow for TLC.                                   *)
EXTENDS SubmissionWindow, TLC

\* Users are interchangeable.
Symmetry == Permutations(User)

============================================================================
