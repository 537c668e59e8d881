--------------------------- MODULE DisclosureShelf --------------------------
(***************************************************************************)
(* What the approval workflow promises about the disclosure templates of   *)
(* one state and category when its requests do not overlap: at most one is *)
(* in force, it has been reviewed and signed, and it leaves only to make   *)
(* room for another or to be edited.                                       *)
(***************************************************************************)

CONSTANT Template

VARIABLES
  stage,      \* per template: "none" or its status
  inForce,    \* the templates that may be rendered
  signed      \* the templates that carry an approval

shelfVars == <<stage, inForce, signed>>

ShelfInit ==
  /\ stage = [t \in Template |-> "none"]
  /\ inForce = {}
  /\ signed = {}

Add(t) ==
  /\ stage[t] = "none"
  /\ stage' = [stage EXCEPT ![t] = "draft"]
  /\ UNCHANGED <<inForce, signed>>

\* The first template of an empty shelf may come with its approval.
Furnish(t) ==
  /\ \A u \in Template : stage[u] = "none"
  /\ stage' = [stage EXCEPT ![t] = "draft"]
  /\ inForce' = inForce \cup {t}
  /\ signed' = signed \cup {t}

Submit(t) ==
  /\ stage[t] = "draft"
  /\ stage' = [stage EXCEPT ![t] = "pending_review"]
  /\ UNCHANGED <<inForce, signed>>

\* Room is made for a reviewed template...
MakeRoom(t) ==
  /\ stage[t] = "pending_review"
  /\ stage' = [u \in Template |-> IF u \in inForce \ {t} THEN "superseded" ELSE stage[u]]
  /\ inForce' = inForce \cap {t}
  /\ UNCHANGED signed

\* ... which comes into force once no other is.
Enforce(t) ==
  /\ stage[t] = "pending_review"
  /\ inForce \subseteq {t}
  /\ stage' = [stage EXCEPT ![t] = "approved"]
  /\ inForce' = {t}
  /\ signed' = signed \cup {t}

\* An edit takes the template out of force, and then its approval.
Withdraw(t) ==
  /\ t \in inForce
  /\ inForce' = inForce \ {t}
  /\ UNCHANGED <<stage, signed>>

Edit(t) ==
  /\ stage[t] # "none"
  /\ t \notin inForce
  /\ signed' = signed \ {t}
  /\ UNCHANGED <<stage, inForce>>

ShelfNext ==
  \E t \in Template :
    Add(t) \/ Furnish(t) \/ Submit(t) \/ MakeRoom(t) \/ Enforce(t) \/ Withdraw(t) \/ Edit(t)

ShelfSpec == ShelfInit /\ [][ShelfNext]_shelfVars

\* What the shelf keeps: one disclosure in force at most, and it is signed.
OneInForce ==
  /\ \A t, u \in inForce : t = u
  /\ inForce \subseteq signed

=============================================================================
