------------------------------ MODULE Invoices -----------------------------
(***************************************************************************)
(* The billing routes on one invoice of a tenant, with the other invoices   *)
(* and credit notes of the tenant, which matter by their numbers: a number  *)
(* is the count of the tenant's rows plus one, behind a prefix, and the     *)
(* table refuses a second row with the same one.                            *)
(*                                                                         *)
(* Each request reads, decides, and writes in statements of its own; what   *)
(* a $transaction groups is one step.  Amounts are whole units: the code    *)
(* rounds to cents after every operation.                                   *)
(***************************************************************************)
EXTENDS Naturals

CONSTANTS
  AMOUNT,      \* what the invoice bills
  MaxRows,     \* bound: how many invoice rows the tenant ever has
  BillReq,     \* request slots
  NoBill

ASSUME AmountAssumption == AMOUNT \in Nat \ {0}
ASSUME MaxRowsAssumption == MaxRows \in Nat \ {0}

VARIABLES
  invoice,     \* the row: [status, paidAt]
  refunded,    \* the total of the credit notes on it
  rows,        \* how many invoice rows the tenant has, credit notes included
  numbers,     \* their numbers: [prefix, n]
  billReq,     \* per slot: NoBill or a request under way
  outdated     \* history: slots that read the invoice, or the notes on it,
               \* before another one wrote

invoiceVars == <<invoice, refunded, rows, numbers, billReq, outdated>>

\* The abstract book of the invoice.
Book == INSTANCE InvoiceBook WITH
  status <- invoice.status, paidAt <- invoice.paidAt, refunded <- refunded

InvoiceRow == [status : {"issued", "paid", "refunded", "void"}, paidAt : BOOLEAN]
Number == [prefix : {"INV", "CN"}, n : 1..MaxRows]

\* next is the statement the request is at; notes and count are what it has read.
BillOp == {"generate", "pay", "refund", "void", "unpay"}
BillRequest == [op : BillOp, next : {"notes", "count", "write"},
                amount : 0..AMOUNT, notes : Nat, count : 0..MaxRows]

InvoiceTypeOK ==
  /\ invoice \in InvoiceRow
  /\ refunded \in Nat
  /\ rows \in 1..MaxRows
  /\ numbers \subseteq Number
  /\ billReq \in [BillReq -> BillRequest \cup {NoBill}]
  /\ outdated \subseteq BillReq

InvoiceInit ==
  /\ invoice = [status |-> "issued", paidAt |-> FALSE]
  /\ refunded = 0
  /\ rows = 1
  /\ numbers = {[prefix |-> "INV", n |-> 1]}
  /\ billReq = [s \in BillReq |-> NoBill]
  /\ outdated = {}

-----------------------------------------------------------------------------
At(s, op, next) ==
  /\ billReq[s] # NoBill
  /\ billReq[s].op = op
  /\ billReq[s].next = next

Begin(s, op, next, amount) ==
  /\ billReq[s] = NoBill
  /\ billReq' = [billReq EXCEPT ![s] =
       [op |-> op, next |-> next, amount |-> amount, notes |-> 0, count |-> 0]]
  /\ UNCHANGED <<invoice, refunded, rows, numbers, outdated>>

EndBill(s) == billReq' = [billReq EXCEPT ![s] = NoBill]

\* What a write to the invoice or its notes by slot s makes of the others.
Outdates(s) == outdated' = {x \in BillReq : billReq[x] # NoBill} \ {s}

\* POST /businesses/:id/invoices counts the rows...
BeginGenerate(s) == Begin(s, "generate", "count", 0)

\* POST .../pay refuses a paid invoice, and that only: see RevivingPay.
BeginPay(s) == invoice.status # "paid" /\ Begin(s, "pay", "write", 0)

\* Mutant: a paid invoice may be voided.
BeginVoidPaid(s) == invoice.status # "void" /\ Begin(s, "void", "write", 0)

\* POST .../void refuses a void or a paid invoice.
BeginVoid(s) == invoice.status \notin {"void", "paid"} /\ Begin(s, "void", "write", 0)

\* POST .../unpay refuses an invoice that is not paid.
BeginUnpay(s) == invoice.status = "paid" /\ Begin(s, "unpay", "write", 0)

\* POST .../refund reads the invoice; that it must be paid is tested later, on what
\* was read here.
BeginRefund(s, amount) ==
  invoice.status = "paid" /\ Begin(s, "refund", "notes", amount)

\* ... sums the credit notes on it, and issueRefund refuses what exceeds the rest...
ReadNotes(s) ==
  /\ At(s, "refund", "notes")
  /\ IF refunded + billReq[s].amount <= AMOUNT
     THEN billReq' = [billReq EXCEPT ![s].notes = refunded, ![s].next = "count"]
     ELSE EndBill(s)
  /\ UNCHANGED <<invoice, refunded, rows, numbers, outdated>>

\* ... and counts the rows.
CountRows(s) ==
  /\ \E op \in {"generate", "refund"} : At(s, op, "count")
  /\ billReq' = [billReq EXCEPT ![s].count = rows, ![s].next = "write"]
  /\ UNCHANGED <<invoice, refunded, rows, numbers, outdated>>

NumberOf(s) == [prefix |-> IF billReq[s].op = "refund" THEN "CN" ELSE "INV",
                n |-> billReq[s].count + 1]

\* A row under the number counted, if the table has none with it.
InsertRow(s) ==
  /\ rows < MaxRows
  /\ NumberOf(s) \notin numbers
  /\ rows' = rows + 1
  /\ numbers' = numbers \cup {NumberOf(s)}

WriteGenerate(s) ==
  /\ At(s, "generate", "write")
  /\ InsertRow(s)
  /\ EndBill(s)
  /\ UNCHANGED <<invoice, refunded, outdated>>

\* Mutant: any refund makes the invoice refunded.
StatusAfterAnyRefund(total) == "refunded"

\* The credit note and the invoice's status, in one transaction.
StatusAfterRefund(total) == IF total >= AMOUNT THEN "refunded" ELSE "paid"

WriteRefund(s) ==
  /\ At(s, "refund", "write")
  /\ InsertRow(s)
  /\ refunded' = refunded + billReq[s].amount
  /\ invoice' = [invoice EXCEPT !.status =
       StatusAfterRefund(billReq[s].notes + billReq[s].amount)]
  /\ EndBill(s)
  /\ Outdates(s)

\* The unique index refuses the row: the request fails and writes nothing.
NumberTaken(s) ==
  /\ billReq[s] # NoBill
  /\ billReq[s].next = "write"
  /\ billReq[s].op \in {"generate", "refund"}
  /\ NumberOf(s) \in numbers
  /\ EndBill(s)
  /\ UNCHANGED <<invoice, refunded, rows, numbers, outdated>>

WriteStatus(s, op, row) ==
  /\ At(s, op, "write")
  /\ invoice' = row
  /\ EndBill(s)
  /\ Outdates(s)
  /\ UNCHANGED <<refunded, rows, numbers>>

WritePay(s) == WriteStatus(s, "pay", [status |-> "paid", paidAt |-> TRUE])
WriteVoid(s) == WriteStatus(s, "void", [invoice EXCEPT !.status = "void"])
WriteUnpay(s) == WriteStatus(s, "unpay", [status |-> "issued", paidAt |-> FALSE])

\* A client's offboarding adds an invoice row, whose number has a form of its own.
FinalInvoice ==
  /\ rows < MaxRows
  /\ rows' = rows + 1
  /\ UNCHANGED <<invoice, refunded, numbers, billReq, outdated>>

InvoiceNext ==
  \/ \E s \in BillReq :
       \/ BeginGenerate(s) \/ BeginPay(s) \/ BeginVoid(s) \/ BeginUnpay(s)
       \/ ReadNotes(s) \/ CountRows(s)
       \/ WriteGenerate(s) \/ WriteRefund(s) \/ NumberTaken(s)
       \/ WritePay(s) \/ WriteVoid(s) \/ WriteUnpay(s)
  \/ \E s \in BillReq, amount \in 1..AMOUNT : BeginRefund(s, amount)
  \/ FinalInvoice

InvoiceSpec == InvoiceInit /\ [][InvoiceNext]_invoiceVars

-----------------------------------------------------------------------------
\* An invoice that stands as refunded has been credited in full, even if refunds,
\* payments and reversals overlapped: the total a refund computed from the notes it
\* read is never more than what is on record when it writes.
RefundedInFull == invoice.status = "refunded" => refunded >= AMOUNT

\* A number is refused only to a request that counted before another row was
\* written; a request whose count still stands always finds its number free, credit
\* notes and final invoices included ("The number comes from the table, not from
\* the service's counter", billing.routes.ts:133).
CurrentCountIsFree ==
  \A s \in BillReq :
    /\ billReq[s] # NoBill
    /\ billReq[s].next = "write"
    /\ billReq[s].op \in {"generate", "refund"}
    /\ billReq[s].count = rows
    => NumberOf(s) \notin numbers

\* A write by a request that read the row, or the notes, before another one wrote.
OverlappingWrite ==
  \E s \in outdated : WriteRefund(s) \/ WritePay(s) \/ WriteVoid(s) \/ WriteUnpay(s)

\* The guard the pay route lacks: what is void or refunded is paid, whether or not
\* another request ran beside it.
RevivingPay ==
  \E s \in BillReq : WritePay(s) /\ invoice.status \in {"void", "refunded"}

\* The invoice and its credit notes change as the book promises but in two ways: by a
\* request that read before another one wrote (more is credited than was billed, a paid
\* invoice voided, a void one marked paid by its refund only so), and by a payment of
\* what is void or refunded, which the pay route takes without any overlap.
OnlyOverlapsAndRevivalsBreakBook ==
  Book!BookInit /\ [][OverlappingWrite \/ RevivingPay \/ Book!BookNext]_<<invoice, refunded>>

-----------------------------------------------------------------------------
(* What the repository says and the code does not do.                      *)

\* A void invoice is not paid: payInvoice of the service says that it "is void and
\* cannot be paid" (revenue-ops.service.ts:419), and the comment on the void route
\* calls a voided invoice that goes on being payable the defect it ended
\* (billing.routes.ts:1145).
VoidIsNotPaid == [][invoice.status = "void" => invoice'.status # "paid"]_invoice

============================================================================
