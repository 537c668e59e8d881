---------------------------- MODULE DocumentHold ----------------------------
(***************************************************************************)
(* What the document vault promises about one document when its requests   *)
(* do not overlap: while it is on legal hold nothing removes it, and what  *)
(* is noted on it says who placed a hold through the vault and whether     *)
(* that hold was lifted.                                                   *)
(***************************************************************************)

VARIABLES
  place,    \* "absent", "kept" or "gone"
  held,     \* whether it is on legal hold
  note      \* the hold noted last: "none", "placed", "lifted", or "lifted_only"
            \* if no placing was noted before

holdVars == <<place, held, note>>

HoldInit == place = "absent" /\ ~held /\ note = "none"

\* Some documents are stored on hold.
Store ==
  /\ place = "absent"
  /\ place' = "kept"
  /\ held' \in BOOLEAN
  /\ UNCHANGED note

Place ==
  /\ place = "kept"
  /\ held' = TRUE
  /\ note' = "placed"
  /\ UNCHANGED place

\* Lifting a hold keeps the note of who placed it.
Lift ==
  /\ place = "kept"
  /\ held' = FALSE
  /\ note' = IF note \in {"placed", "lifted"} THEN "lifted" ELSE "lifted_only"
  /\ UNCHANGED place

\* A hold placed for a regulator's inquiry is not noted on the document.
PlaceForInquiry ==
  /\ place = "kept"
  /\ held' = TRUE
  /\ UNCHANGED <<place, note>>

Destroy ==
  /\ place = "kept"
  /\ ~held
  /\ place' = "gone"
  /\ UNCHANGED <<held, note>>

HoldNext == Store \/ Place \/ Lift \/ PlaceForInquiry \/ Destroy

HoldSpec == HoldInit /\ [][HoldNext]_holdVars

\* What the hold is for: no document is gone that was on hold to the end.
HeldIsKept == held => place = "kept"

=============================================================================
