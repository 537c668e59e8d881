----------------------------- MODULE InvoiceBook ---------------------------
(***************************************************************************)
(* What is promised of one invoice.  The billing routes promise it of      *)
(* requests that do not overlap: credit notes never exceed what was        *)
(* billed, a paid invoice is never voided, and an invoice is dated as paid *)
(* when it is paid.  That a void invoice is never paid is the promise of   *)
(* payInvoice in revenue-ops.service.ts and of the comment on the void     *)
(* route, and that a settled one is not paid again follows them: the route *)
(* that takes payments does not keep it.                                   *)
(***************************************************************************)
EXTENDS Naturals

CONSTANT AMOUNT    \* what the invoice bills

VARIABLES
  status,     \* "issued", "paid", "refunded" or "void"
  paidAt,     \* whether it is dated as paid
  refunded    \* the total of its credit notes

bookVars == <<status, paidAt, refunded>>

BookInit == status = "issued" /\ ~paidAt /\ refunded = 0

\* Only what is owed is paid.
Pay ==
  /\ status = "issued"
  /\ status' = "paid"
  /\ paidAt' = TRUE
  /\ UNCHANGED refunded

Refund(amount) ==
  /\ status = "paid"
  /\ amount > 0
  /\ refunded + amount <= AMOUNT
  /\ refunded' = refunded + amount
  /\ status' = IF refunded' = AMOUNT THEN "refunded" ELSE "paid"
  /\ UNCHANGED paidAt

Void ==
  /\ status \notin {"void", "paid"}
  /\ status' = "void"
  /\ UNCHANGED <<paidAt, refunded>>

Unpay ==
  /\ status = "paid"
  /\ status' = "issued"
  /\ paidAt' = FALSE
  /\ UNCHANGED refunded

BookNext == Pay \/ Void \/ Unpay \/ \E amount \in 1..AMOUNT : Refund(amount)

BookSpec == BookInit /\ [][BookNext]_bookVars

\* The invariant the abstract book keeps: no more is credited than was billed, and
\* what stands paid is dated.
BookBalanced ==
  /\ refunded <= AMOUNT
  /\ status = "paid" => paidAt
  /\ status = "refunded" => refunded = AMOUNT

============================================================================
