----------------------- MODULE MCApplicationPipeline -----------------------
(* Instances of ApplicationPipeline for TLC.                               *)
EXTENDS ApplicationPipeline, TLC

\* Users and request slots are interchangeable: no action or invariant tells
\* one from another.
Symmetry == Permutations(User) \cup Permutations(Req)

============================================================================
