---------------------------- MODULE BillingProofs --------------------------
(***************************************************************************)
(* The safety properties of Invoices, for any amount and any requests, and *)
(* of Commissions, for any requests; and the balance of the invoice book,  *)
(* which the invoice keeps as long as no request overtakes another and     *)
(* nothing void or refunded is paid.                                       *)
(*                                                                         *)
(* A request's notes and count can only be older, and so smaller, than     *)
(* what is on record (Behind); one nobody overtook still holds what it     *)
(* tested (Standing).  One request at a time overtakes none, and never     *)
(* finds its number taken; a commission that no late write reaches is paid *)
(* once.                                                                   *)
(***************************************************************************)
EXTENDS Invoices, Commissions, TLAPS

\* What a request has read of the growing totals is no more than they are.
Behind(s) ==
  billReq[s] # NoBill => billReq[s].notes <= refunded /\ billReq[s].count <= rows

\* What a request that nobody overtook has tested still stands.
Standing(s) ==
  s \notin outdated /\ billReq[s] # NoBill =>
    /\ billReq[s].op = "pay" => invoice.status # "paid"
    /\ billReq[s].op = "void" => invoice.status \notin {"void", "paid"}
    /\ billReq[s].op = "unpay" => invoice.status = "paid"
    /\ billReq[s].op = "refund" =>
         /\ invoice.status = "paid"
         /\ billReq[s].amount > 0
         /\ billReq[s].next # "notes" => /\ billReq[s].notes = refunded
                                         /\ refunded + billReq[s].amount <= AMOUNT

InvoiceInv ==
  /\ InvoiceTypeOK
  /\ \A x \in numbers : x.n <= rows
  /\ \A s \in BillReq : Behind(s) /\ Standing(s)
  /\ RefundedInFull

-----------------------------------------------------------------------------
LEMMA InitInvoice == InvoiceInit => InvoiceInv
<1> SUFFICES ASSUME InvoiceInit PROVE InvoiceInv
  OBVIOUS
<1>1. InvoiceTypeOK
  BY MaxRowsAssumption DEF InvoiceInit, InvoiceTypeOK, InvoiceRow, Number
<1>2. \A x \in numbers : x.n <= rows
  BY DEF InvoiceInit
<1>3. \A s \in BillReq : Behind(s) /\ Standing(s)
  BY DEF InvoiceInit, Behind, Standing
<1>4. RefundedInFull
  BY DEF InvoiceInit, RefundedInFull
<1> QED
  BY <1>1, <1>2, <1>3, <1>4 DEF InvoiceInv

\* A request that moves on by itself, the rows and the invoice left alone.
LEMMA RequestMoves ==
  ASSUME InvoiceInv, NEW s \in BillReq, NEW request,
         billReq' = [billReq EXCEPT ![s] = request],
         UNCHANGED <<invoice, refunded, rows, numbers, outdated>>,
         request \in BillRequest \cup {NoBill},
         Behind(s)', Standing(s)'
  PROVE  InvoiceInv'
<1>1. \A x \in BillReq : x # s => billReq'[x] = billReq[x]
  BY DEF InvoiceInv, InvoiceTypeOK
<1>2. InvoiceTypeOK'
  BY DEF InvoiceInv, InvoiceTypeOK
<1>3. \A x \in BillReq : x # s => Behind(x)' /\ Standing(x)'
  BY <1>1 DEF InvoiceInv, Behind, Standing
<1> QED
  BY <1>2, <1>3 DEF InvoiceInv, RefundedInFull

\* A request that ends holds nothing.
LEMMA Ended ==
  ASSUME InvoiceTypeOK, NEW s \in BillReq, EndBill(s)
  PROVE  /\ billReq' = [billReq EXCEPT ![s] = NoBill]
         /\ billReq'[s] = NoBill
         /\ billReq' \in [BillReq -> BillRequest \cup {NoBill}]
         /\ \A x \in BillReq : x # s => billReq'[x] = billReq[x]
         /\ Behind(s)' /\ Standing(s)'
<1>1. billReq' = [billReq EXCEPT ![s] = NoBill] /\ billReq'[s] = NoBill
  BY DEF EndBill, InvoiceTypeOK
<1> QED
  BY <1>1 DEF InvoiceTypeOK, Behind, Standing

\* A request that begins has read nothing of the totals yet.
LEMMA BeginKeeps ==
  ASSUME InvoiceInv, NEW s \in BillReq, NEW op \in BillOp, NEW next \in {"notes", "count", "write"},
         NEW amount \in 0..AMOUNT,
         Begin(s, op, next, amount),
         op = "pay" => invoice.status # "paid",
         op = "void" => invoice.status \notin {"void", "paid"},
         op = "unpay" => invoice.status = "paid",
         op = "refund" => invoice.status = "paid" /\ amount > 0 /\ next = "notes"
  PROVE  InvoiceInv'
<1> DEFINE request == [op |-> op, next |-> next, amount |-> amount, notes |-> 0, count |-> 0]
<1>1. request \in BillRequest
  BY MaxRowsAssumption DEF BillRequest
<1>2. /\ billReq'[s] = request
      /\ billReq'[s].op = op /\ billReq'[s].next = next /\ billReq'[s].amount = amount
      /\ billReq'[s].notes = 0 /\ billReq'[s].count = 0
  BY DEF Begin, InvoiceInv, InvoiceTypeOK
<1>3. refunded \in Nat /\ rows \in Nat
  BY MaxRowsAssumption DEF InvoiceInv, InvoiceTypeOK
<1>4. Behind(s)'
  BY <1>2, <1>3 DEF Behind, Begin
<1>5. Standing(s)'
  BY <1>2 DEF Standing, Begin
<1> QED
  BY <1>1, <1>4, <1>5, RequestMoves DEF Begin

LEMMA BeginsKeep ==
  ASSUME InvoiceInv, NEW s \in BillReq,
         BeginGenerate(s) \/ BeginPay(s) \/ BeginVoid(s) \/ BeginUnpay(s)
  PROVE  InvoiceInv'
<1>1. 0 \in 0..AMOUNT
  BY AmountAssumption
<1>2. CASE BeginGenerate(s)
  BY <1>1, <1>2, BeginKeeps DEF BeginGenerate, BillOp
<1>3. CASE BeginPay(s)
  BY <1>1, <1>3, BeginKeeps DEF BeginPay, BillOp
<1>4. CASE BeginVoid(s)
  BY <1>1, <1>4, BeginKeeps DEF BeginVoid, BillOp
<1>5. CASE BeginUnpay(s)
  BY <1>1, <1>5, BeginKeeps DEF BeginUnpay, BillOp
<1> QED
  BY <1>2, <1>3, <1>4, <1>5

LEMMA BeginRefundKeeps ==
  ASSUME InvoiceInv, NEW s \in BillReq, NEW amount \in 1..AMOUNT, BeginRefund(s, amount)
  PROVE  InvoiceInv'
<1>1. amount \in 0..AMOUNT /\ amount > 0
  BY AmountAssumption
<1> QED
  BY <1>1, BeginKeeps DEF BeginRefund, BillOp

LEMMA ReadNotesKeeps ==
  ASSUME InvoiceInv, NEW s \in BillReq, ReadNotes(s)
  PROVE  InvoiceInv'
<1>1. billReq[s] \in BillRequest /\ billReq[s].op = "refund" /\ billReq[s].next = "notes"
  BY DEF ReadNotes, At, InvoiceInv, InvoiceTypeOK
<1>2. CASE ~(refunded + billReq[s].amount <= AMOUNT)
  <2>1. EndBill(s)
    BY <1>2 DEF ReadNotes
  <2> QED
    BY <2>1, Ended, RequestMoves DEF ReadNotes, InvoiceInv, EndBill
<1>3. CASE refunded + billReq[s].amount <= AMOUNT
  <2> DEFINE request == [billReq[s] EXCEPT !.notes = refunded, !.next = "count"]
  <2>1. billReq' = [billReq EXCEPT ![s] = request]
    BY <1>3 DEF ReadNotes
  <2>2. request \in BillRequest
    BY <1>1 DEF InvoiceInv, InvoiceTypeOK, BillRequest
  <2>3. /\ billReq'[s] = request
        /\ billReq'[s].op = "refund" /\ billReq'[s].next = "count"
        /\ billReq'[s].amount = billReq[s].amount
        /\ billReq'[s].notes = refunded /\ billReq'[s].count = billReq[s].count
    BY <1>1, <2>1 DEF InvoiceInv, InvoiceTypeOK, BillRequest
  <2>4. Behind(s)'
    BY <2>3 DEF Behind, InvoiceInv, InvoiceTypeOK, ReadNotes, At
  <2>5. Standing(s)'
    BY <1>1, <1>3, <2>3 DEF Standing, InvoiceInv, ReadNotes, At
  <2> HIDE DEF request
  <2> QED
    BY <2>1, <2>2, <2>4, <2>5, RequestMoves DEF ReadNotes
<1> QED
  BY <1>2, <1>3

LEMMA CountRowsKeeps ==
  ASSUME InvoiceInv, NEW s \in BillReq, CountRows(s)
  PROVE  InvoiceInv'
<1>1. /\ billReq[s] \in BillRequest /\ billReq[s] # NoBill
      /\ billReq[s].op \in {"generate", "refund"} /\ billReq[s].next = "count"
  BY DEF CountRows, At, InvoiceInv, InvoiceTypeOK
<1> DEFINE request == [billReq[s] EXCEPT !.count = rows, !.next = "write"]
<1>2. billReq' = [billReq EXCEPT ![s] = request]
  BY DEF CountRows
<1>3. rows \in 0..MaxRows /\ rows \in Nat
  BY MaxRowsAssumption DEF InvoiceInv, InvoiceTypeOK
<1>4. request \in BillRequest
  BY <1>1, <1>3 DEF BillRequest
<1>5. /\ billReq'[s] = request
      /\ billReq'[s].op = billReq[s].op /\ billReq'[s].next = "write"
      /\ billReq'[s].amount = billReq[s].amount
      /\ billReq'[s].notes = billReq[s].notes /\ billReq'[s].count = rows
  BY <1>1, <1>2 DEF InvoiceInv, InvoiceTypeOK, BillRequest
<1>6. Behind(s)'
  BY <1>1, <1>3, <1>5 DEF Behind, InvoiceInv, CountRows
<1>7. Standing(s)'
  BY <1>1, <1>5 DEF Standing, InvoiceInv, CountRows
<1> HIDE DEF request
<1> QED
  BY <1>2, <1>4, <1>6, <1>7, RequestMoves DEF CountRows

\* A row is inserted under a number within the new count.
LEMMA RowInserted ==
  ASSUME InvoiceInv, NEW s \in BillReq, billReq[s] # NoBill, InsertRow(s)
  PROVE  /\ rows' = rows + 1 /\ rows \in Nat /\ rows' \in 1..MaxRows
         /\ numbers' \subseteq Number
         /\ \A x \in numbers' : x.n <= rows'
<1>1. /\ rows' = rows + 1 /\ rows \in Nat /\ rows' \in 1..MaxRows
  BY MaxRowsAssumption DEF InvoiceInv, InvoiceTypeOK, InsertRow
<1>2. billReq[s].count \in Nat /\ billReq[s].count <= rows
  BY MaxRowsAssumption DEF InvoiceInv, InvoiceTypeOK, BillRequest, Behind
<1>3. /\ NumberOf(s) \in Number
      /\ NumberOf(s).n <= rows'
  BY <1>1, <1>2, MaxRowsAssumption DEF NumberOf, Number
<1>4. \A x \in numbers : x.n \in Nat /\ x.n <= rows /\ x \in Number
  BY MaxRowsAssumption DEF InvoiceInv, InvoiceTypeOK, Number
<1>5. numbers' = numbers \cup {NumberOf(s)}
  BY DEF InsertRow
<1> HIDE DEF NumberOf
<1>6. \A x \in numbers' : x \in Number /\ x.n <= rows'
  BY <1>1, <1>3, <1>4, <1>5
<1> QED
  BY <1>1, <1>6

\* More rows change nothing of what the requests hold.
LEMMA RowsGrow ==
  ASSUME InvoiceInv, NEW s \in BillReq, rows \in Nat, rows' = rows + 1,
         UNCHANGED <<invoice, refunded, outdated>>, billReq'[s] = billReq[s]
  PROVE  Behind(s)' /\ Standing(s)'
<1>1. billReq[s] # NoBill => billReq[s].count \in Nat
  BY MaxRowsAssumption DEF InvoiceInv, InvoiceTypeOK, BillRequest
<1> QED
  BY <1>1 DEF InvoiceInv, Behind, Standing

LEMMA WriteGenerateKeeps ==
  ASSUME InvoiceInv, NEW s \in BillReq, WriteGenerate(s)
  PROVE  InvoiceInv'
<1>1. /\ rows' = rows + 1 /\ rows \in Nat /\ rows' \in 1..MaxRows
      /\ numbers' \subseteq Number
      /\ \A x \in numbers' : x.n <= rows'
  BY RowInserted DEF WriteGenerate, At
<1>2. /\ billReq' \in [BillReq -> BillRequest \cup {NoBill}]
      /\ \A x \in BillReq : x # s => billReq'[x] = billReq[x]
      /\ Behind(s)' /\ Standing(s)'
  BY Ended DEF WriteGenerate, InvoiceInv
<1>3. \A x \in BillReq : x # s => Behind(x)' /\ Standing(x)'
  BY <1>1, <1>2, RowsGrow DEF WriteGenerate
<1>4. InvoiceTypeOK'
  BY <1>1, <1>2 DEF InvoiceInv, InvoiceTypeOK, WriteGenerate
<1> QED
  BY <1>1, <1>2, <1>3, <1>4 DEF InvoiceInv, RefundedInFull, WriteGenerate

LEMMA FinalInvoiceKeeps ==
  ASSUME InvoiceInv, FinalInvoice
  PROVE  InvoiceInv'
<1>1. rows' = rows + 1 /\ rows \in Nat /\ rows' \in 1..MaxRows
  BY MaxRowsAssumption DEF InvoiceInv, InvoiceTypeOK, FinalInvoice
<1>2. InvoiceTypeOK'
  BY <1>1 DEF InvoiceInv, InvoiceTypeOK, FinalInvoice
<1>3. \A x \in numbers' : x.n <= rows'
  <2>1. \A x \in numbers : x.n \in Nat /\ x.n <= rows
    BY DEF InvoiceInv, InvoiceTypeOK, Number
  <2> QED
    BY <1>1, <2>1 DEF FinalInvoice
<1>4. \A x \in BillReq : Behind(x)' /\ Standing(x)'
  BY <1>1, RowsGrow DEF FinalInvoice
<1> QED
  BY <1>2, <1>3, <1>4 DEF InvoiceInv, RefundedInFull, FinalInvoice

LEMMA NumberTakenKeeps ==
  ASSUME InvoiceInv, NEW s \in BillReq, NumberTaken(s)
  PROVE  InvoiceInv'
BY Ended, RequestMoves DEF NumberTaken, InvoiceInv, EndBill

\* A write to the invoice leaves whoever has read it overtaken.
LEMMA Overtakes ==
  ASSUME InvoiceInv, NEW s \in BillReq, EndBill(s), Outdates(s),
         refunded' \in Nat, refunded <= refunded', rows \in Nat, rows' \in Nat, rows <= rows'
  PROVE  /\ outdated' \subseteq BillReq
         /\ billReq' \in [BillReq -> BillRequest \cup {NoBill}]
         /\ \A x \in BillReq : Behind(x)' /\ Standing(x)'
<1>1. /\ billReq' \in [BillReq -> BillRequest \cup {NoBill}]
      /\ \A x \in BillReq : x # s => billReq'[x] = billReq[x]
      /\ Behind(s)' /\ Standing(s)'
  BY Ended DEF InvoiceInv
<1>2. ASSUME NEW x \in BillReq, x # s
      PROVE  Behind(x)' /\ Standing(x)'
  <2>1. billReq[x] # NoBill => /\ billReq[x].notes \in Nat /\ billReq[x].count \in Nat
                               /\ x \in outdated'
    BY <1>2, MaxRowsAssumption DEF InvoiceInv, InvoiceTypeOK, BillRequest, Outdates
  <2>2. refunded \in Nat
    BY DEF InvoiceInv, InvoiceTypeOK
  <2>3. Behind(x)'
    BY <1>1, <1>2, <2>1, <2>2 DEF InvoiceInv, Behind
  <2>4. Standing(x)'
    BY <1>1, <1>2, <2>1 DEF Standing
  <2> QED
    BY <2>3, <2>4
<1> QED
  BY <1>1, <1>2 DEF Outdates

LEMMA WriteRefundKeeps ==
  ASSUME InvoiceInv, NEW s \in BillReq, WriteRefund(s)
  PROVE  InvoiceInv'
<1>1. /\ rows' = rows + 1 /\ rows \in Nat /\ rows' \in 1..MaxRows
      /\ numbers' \subseteq Number
      /\ \A x \in numbers' : x.n <= rows'
  BY RowInserted DEF WriteRefund, At
<1>2. /\ billReq[s].amount \in Nat /\ billReq[s].notes \in Nat
      /\ billReq[s].notes <= refunded /\ refunded \in Nat
      /\ invoice \in InvoiceRow
  BY AmountAssumption DEF InvoiceInv, InvoiceTypeOK, BillRequest, Behind, WriteRefund, At
<1>3. refunded' = refunded + billReq[s].amount /\ refunded' \in Nat /\ refunded <= refunded'
  BY <1>2 DEF WriteRefund
<1>4. /\ outdated' \subseteq BillReq
      /\ billReq' \in [BillReq -> BillRequest \cup {NoBill}]
      /\ \A x \in BillReq : Behind(x)' /\ Standing(x)'
  <2>1. rows' \in Nat /\ rows <= rows'
    BY <1>1
  <2> QED
    BY <1>1, <1>3, <2>1, Overtakes DEF WriteRefund
<1> DEFINE status == StatusAfterRefund(billReq[s].notes + billReq[s].amount)
<1>5. invoice' = [invoice EXCEPT !.status = status]
  BY DEF WriteRefund
<1>6. /\ status \in {"refunded", "paid"}
      /\ status = "refunded" => billReq[s].notes + billReq[s].amount >= AMOUNT
  BY DEF StatusAfterRefund
<1> HIDE DEF status
<1>7. invoice' \in InvoiceRow /\ invoice'.status = status
  BY <1>2, <1>5, <1>6 DEF InvoiceRow
<1>8. InvoiceTypeOK'
  BY <1>1, <1>3, <1>4, <1>7 DEF InvoiceTypeOK
<1>9. RefundedInFull'
  BY <1>2, <1>3, <1>6, <1>7, AmountAssumption DEF RefundedInFull
<1> QED
  BY <1>1, <1>4, <1>8, <1>9 DEF InvoiceInv

LEMMA WriteStatusKeeps ==
  ASSUME InvoiceInv, NEW s \in BillReq, NEW op, NEW row \in InvoiceRow,
         row.status # "refunded", WriteStatus(s, op, row)
  PROVE  InvoiceInv'
<1>1. refunded \in Nat /\ rows \in Nat
  BY MaxRowsAssumption DEF InvoiceInv, InvoiceTypeOK
<1>2. /\ outdated' \subseteq BillReq
      /\ billReq' \in [BillReq -> BillRequest \cup {NoBill}]
      /\ \A x \in BillReq : Behind(x)' /\ Standing(x)'
  BY <1>1, Overtakes DEF WriteStatus
<1>3. InvoiceTypeOK'
  BY <1>2 DEF InvoiceInv, InvoiceTypeOK, WriteStatus
<1>4. RefundedInFull'
  BY DEF RefundedInFull, WriteStatus
<1> QED
  BY <1>2, <1>3, <1>4 DEF InvoiceInv, WriteStatus

LEMMA StatusWritesKeep ==
  ASSUME InvoiceInv, NEW s \in BillReq, WritePay(s) \/ WriteVoid(s) \/ WriteUnpay(s)
  PROVE  InvoiceInv'
<1>1. CASE WritePay(s)
  <2> DEFINE row == [status |-> "paid", paidAt |-> TRUE]
  <2>1. row \in InvoiceRow /\ row.status # "refunded"
    BY DEF InvoiceRow
  <2> QED
    BY <1>1, <2>1, WriteStatusKeeps DEF WritePay
<1>2. CASE WriteVoid(s)
  <2> DEFINE row == [invoice EXCEPT !.status = "void"]
  <2>1. row \in InvoiceRow /\ row.status # "refunded"
    BY DEF InvoiceInv, InvoiceTypeOK, InvoiceRow
  <2> QED
    BY <1>2, <2>1, WriteStatusKeeps DEF WriteVoid
<1>3. CASE WriteUnpay(s)
  <2> DEFINE row == [status |-> "issued", paidAt |-> FALSE]
  <2>1. row \in InvoiceRow /\ row.status # "refunded"
    BY DEF InvoiceRow
  <2> QED
    BY <1>3, <2>1, WriteStatusKeeps DEF WriteUnpay
<1> QED
  BY <1>1, <1>2, <1>3

LEMMA InvoiceInductive ==
  ASSUME InvoiceInv, [InvoiceNext]_invoiceVars
  PROVE  InvoiceInv'
<1>1. CASE UNCHANGED invoiceVars
  BY <1>1 DEF invoiceVars, InvoiceInv, InvoiceTypeOK, Behind, Standing, RefundedInFull
<1>2. CASE InvoiceNext
  BY <1>2, BeginsKeep, BeginRefundKeeps, ReadNotesKeeps, CountRowsKeeps, WriteGenerateKeeps,
     FinalInvoiceKeeps, NumberTakenKeeps, WriteRefundKeeps, StatusWritesKeep DEF InvoiceNext
<1> QED
  BY <1>1, <1>2

-----------------------------------------------------------------------------
(* A write that nobody overtook is a step of the book, or the payment of   *)
(* what is void or refunded.                                               *)

LEMMA RefundFollowsBook ==
  ASSUME InvoiceInv, NEW s \in BillReq, s \notin outdated, WriteRefund(s)
  PROVE  Book!BookNext
<1> DEFINE amount == billReq[s].amount
           notes == billReq[s].notes
<1>1. /\ billReq[s] \in BillRequest /\ billReq[s] # NoBill
      /\ billReq[s].op = "refund" /\ billReq[s].next = "write"
      /\ invoice \in InvoiceRow /\ refunded \in Nat
  BY DEF WriteRefund, At, InvoiceInv, InvoiceTypeOK
<1>2. /\ invoice.status = "paid" /\ amount > 0
      /\ notes = refunded /\ refunded + amount <= AMOUNT
  BY <1>1 DEF InvoiceInv, Standing
<1>3. amount \in 1..AMOUNT
  BY <1>1, <1>2, AmountAssumption DEF BillRequest
<1>4. refunded' = refunded + amount
  BY DEF WriteRefund
<1>5. invoice' = [invoice EXCEPT !.status = StatusAfterRefund(notes + amount)]
  BY DEF WriteRefund
<1>6. /\ invoice'.status = StatusAfterRefund(notes + amount)
      /\ invoice'.paidAt = invoice.paidAt
  BY <1>1, <1>5 DEF InvoiceRow
<1>7. StatusAfterRefund(notes + amount) = IF refunded' = AMOUNT THEN "refunded" ELSE "paid"
  BY <1>1, <1>2, <1>3, <1>4, AmountAssumption DEF StatusAfterRefund
<1> HIDE DEF amount, notes
<1>8. Book!Refund(amount)
  BY <1>2, <1>3, <1>4, <1>6, <1>7 DEF Book!Refund
<1> QED
  BY <1>3, <1>8 DEF Book!BookNext

LEMMA StatusFollowsBook ==
  ASSUME InvoiceInv, NEW s \in BillReq, s \notin outdated,
         WritePay(s) \/ WriteVoid(s) \/ WriteUnpay(s)
  PROVE  RevivingPay \/ Book!BookNext
<1>1. invoice \in InvoiceRow /\ Standing(s)
  BY DEF InvoiceInv, InvoiceTypeOK
<1>2. CASE WritePay(s)
  <2>1. invoice.status # "paid"
    BY <1>1, <1>2 DEF WritePay, WriteStatus, At, Standing
  <2>2. CASE invoice.status \in {"void", "refunded"}
    BY <1>2, <2>2 DEF RevivingPay
  <2>3. CASE invoice.status = "issued"
    BY <1>2, <2>3 DEF WritePay, WriteStatus, Book!Pay, Book!BookNext
  <2> QED
    BY <1>1, <2>1, <2>2, <2>3 DEF InvoiceRow
<1>3. CASE WriteVoid(s)
  <2>1. invoice'.status = "void" /\ invoice'.paidAt = invoice.paidAt /\ refunded' = refunded
    BY <1>1, <1>3 DEF WriteVoid, WriteStatus, InvoiceRow
  <2>2. invoice.status \notin {"void", "paid"}
    BY <1>1, <1>3 DEF WriteVoid, WriteStatus, At, Standing
  <2> QED
    BY <2>1, <2>2 DEF Book!Void, Book!BookNext
<1>4. CASE WriteUnpay(s)
  BY <1>1, <1>4 DEF WriteUnpay, WriteStatus, At, Standing, Book!Unpay, Book!BookNext
<1> QED
  BY <1>2, <1>3, <1>4

\* The strengthening is invariant.
THEOREM InvoiceInvariant == InvoiceSpec => []InvoiceInv
BY InitInvoice, InvoiceInductive, PTL DEF InvoiceSpec

\* Every reachable state is of the declared type.
THEOREM InvoiceTypeCorrect == InvoiceSpec => []InvoiceTypeOK
<1>1. InvoiceInv => InvoiceTypeOK
  BY DEF InvoiceInv
<1> QED
  BY <1>1, InvoiceInvariant, PTL

\* An invoice that stands as refunded has been credited in full.
THEOREM RefundsComplete == InvoiceSpec => []RefundedInFull
<1>1. InvoiceInv => RefundedInFull
  BY DEF InvoiceInv
<1> QED
  BY <1>1, InvoiceInvariant, PTL

\* A request whose count of the rows still stands finds its number free.
THEOREM NumbersFree == InvoiceSpec => []CurrentCountIsFree
<1>1. InvoiceInv => CurrentCountIsFree
  <2> SUFFICES ASSUME InvoiceInv, NEW s \in BillReq, billReq[s] # NoBill,
                      billReq[s].count = rows, NumberOf(s) \in numbers
               PROVE  FALSE
    BY DEF CurrentCountIsFree
  <2>1. NumberOf(s).n = rows + 1 /\ rows \in Nat
    BY MaxRowsAssumption DEF NumberOf, InvoiceInv, InvoiceTypeOK
  <2>2. NumberOf(s).n <= rows
    BY DEF InvoiceInv
  <2> QED
    BY <2>1, <2>2
<1> QED
  BY <1>1, InvoiceInvariant, PTL

\* The invoice implements the book, step by step, but for the writes of requests that
\* another overtook and the payments of what is void or refunded (the pay route tests
\* for paid alone).
THEOREM InvoiceFollowsBook == InvoiceSpec => OnlyOverlapsAndRevivalsBreakBook
<1>1. InvoiceInit => Book!BookInit
  BY DEF InvoiceInit, Book!BookInit
<1>2. ASSUME InvoiceInv, [InvoiceNext]_invoiceVars
      PROVE  [OverlappingWrite \/ RevivingPay \/ Book!BookNext]_<<invoice, refunded>>
  <2>1. CASE UNCHANGED invoiceVars
    BY <2>1 DEF invoiceVars
  <2>2. ASSUME NEW s \in BillReq,
               \/ BeginGenerate(s) \/ BeginPay(s) \/ BeginVoid(s) \/ BeginUnpay(s)
               \/ ReadNotes(s) \/ CountRows(s) \/ WriteGenerate(s) \/ NumberTaken(s)
               \/ \E amount \in 1..AMOUNT : BeginRefund(s, amount)
        PROVE  UNCHANGED <<invoice, refunded>>
    BY <2>2 DEF BeginGenerate, BeginPay, BeginVoid, BeginUnpay, ReadNotes, CountRows,
       WriteGenerate, NumberTaken, BeginRefund, Begin
  <2>3. ASSUME NEW s \in BillReq, WriteRefund(s)
        PROVE  OverlappingWrite \/ Book!BookNext
    BY <1>2, <2>3, RefundFollowsBook DEF OverlappingWrite
  <2>4. ASSUME NEW s \in BillReq, WritePay(s) \/ WriteVoid(s) \/ WriteUnpay(s)
        PROVE  OverlappingWrite \/ RevivingPay \/ Book!BookNext
    BY <1>2, <2>4, StatusFollowsBook DEF OverlappingWrite
  <2>5. CASE FinalInvoice
    BY <2>5 DEF FinalInvoice
  <2> QED
    BY <1>2, <2>1, <2>2, <2>3, <2>4, <2>5 DEF InvoiceNext
<1> QED
  BY <1>1, <1>2, InvoiceInvariant, PTL DEF InvoiceSpec, OnlyOverlapsAndRevivalsBreakBook

\* The book balances: no more is credited than was billed, what stands paid is dated,
\* and what stands refunded was credited in full.
THEOREM BookKeepsBalance == Book!BookSpec => []Book!BookBalanced
<1> DEFINE Balanced == /\ refunded \in Nat
                       /\ Book!BookBalanced
<1>1. Book!BookInit => Balanced
  BY AmountAssumption DEF Book!BookInit, Book!BookBalanced
<1>2. Balanced /\ [Book!BookNext]_Book!bookVars => Balanced'
  <2> SUFFICES ASSUME Balanced, [Book!BookNext]_Book!bookVars
               PROVE  Balanced'
    OBVIOUS
  <2>1. CASE UNCHANGED Book!bookVars
    BY <2>1 DEF Book!bookVars, Book!BookBalanced
  <2>2. CASE Book!Pay \/ Book!Void \/ Book!Unpay
    BY <2>2 DEF Book!Pay, Book!Void, Book!Unpay, Book!BookBalanced
  <2>3. ASSUME NEW amount \in 1..AMOUNT, Book!Refund(amount)
        PROVE  Balanced'
    BY <2>3, AmountAssumption DEF Book!Refund, Book!BookBalanced
  <2> QED
    BY <2>1, <2>2, <2>3 DEF Book!BookNext
<1>3. Balanced => Book!BookBalanced
  OBVIOUS
<1> HIDE DEF Balanced
<1> QED
  BY <1>1, <1>2, <1>3, PTL DEF Book!BookSpec

\* The guard that payInvoice and the void route speak of is all the pay route lacks
\* where no request overtakes another: were a void or refunded invoice never paid, and
\* a write refused whenever the invoice has been written since it was read, then the
\* invoice and its notes would be the book, balance, and a void one stay unpaid.
THEOREM CheckedInvoiceIsBook ==
  InvoiceSpec /\ [][~OverlappingWrite /\ ~RevivingPay]_invoiceVars =>
    Book!BookSpec /\ []Book!BookBalanced /\ VoidIsNotPaid
<1>1. [OverlappingWrite \/ RevivingPay \/ Book!BookNext]_<<invoice, refunded>>
      /\ [~OverlappingWrite /\ ~RevivingPay]_invoiceVars
        => [Book!BookNext]_(Book!bookVars)
  BY DEF invoiceVars, Book!bookVars
<1>2. InvoiceSpec /\ [][~OverlappingWrite /\ ~RevivingPay]_invoiceVars => Book!BookSpec
  BY <1>1, InvoiceFollowsBook, PTL DEF OnlyOverlapsAndRevivalsBreakBook, Book!BookSpec
<1>3. [OverlappingWrite \/ RevivingPay \/ Book!BookNext]_<<invoice, refunded>>
      /\ [~OverlappingWrite /\ ~RevivingPay]_invoiceVars
        => [invoice.status = "void" => invoice'.status # "paid"]_invoice
  BY DEF invoiceVars, Book!BookNext, Book!Pay, Book!Void, Book!Unpay, Book!Refund
<1>4. InvoiceSpec /\ [][~OverlappingWrite /\ ~RevivingPay]_invoiceVars => VoidIsNotPaid
  BY <1>3, InvoiceFollowsBook, PTL DEF OnlyOverlapsAndRevivalsBreakBook, VoidIsNotPaid
<1> QED
  BY <1>2, <1>4, BookKeepsBalance, PTL

\* One billing request at a time.
OneBill == \A s, t \in BillReq : s = t

\* Requests one at a time overtake none: were the guard in the pay route, and with
\* nothing else changed, the code would keep the book, and a void invoice unpaid.
THEOREM SerialInvoiceIsBook ==
  ASSUME OneBill
  PROVE  InvoiceSpec /\ [][~RevivingPay]_invoiceVars =>
           Book!BookSpec /\ []Book!BookBalanced /\ VoidIsNotPaid
<1> DEFINE NoneOutdated == outdated = {}
<1>1. InvoiceInit => NoneOutdated
  BY DEF InvoiceInit
<1>2. ASSUME NoneOutdated, [InvoiceNext]_invoiceVars
      PROVE  NoneOutdated'
  <2>1. ASSUME NEW s \in BillReq,
               \/ BeginGenerate(s) \/ BeginPay(s) \/ BeginVoid(s) \/ BeginUnpay(s)
               \/ ReadNotes(s) \/ CountRows(s) \/ WriteGenerate(s) \/ NumberTaken(s)
               \/ \E amount \in 1..AMOUNT : BeginRefund(s, amount)
        PROVE  UNCHANGED outdated
    BY <2>1 DEF BeginGenerate, BeginPay, BeginVoid, BeginUnpay, ReadNotes, CountRows,
       WriteGenerate, NumberTaken, BeginRefund, Begin
  <2>2. ASSUME NEW s \in BillReq,
               WriteRefund(s) \/ WritePay(s) \/ WriteVoid(s) \/ WriteUnpay(s)
        PROVE  outdated' = {}
    <3>1. Outdates(s)
      BY <2>2 DEF WriteRefund, WritePay, WriteVoid, WriteUnpay, WriteStatus
    <3> QED
      BY <3>1 DEF Outdates, OneBill
  <2>3. CASE FinalInvoice \/ UNCHANGED invoiceVars
    BY <1>2, <2>3 DEF FinalInvoice, invoiceVars
  <2> QED
    BY <1>2, <2>1, <2>2, <2>3 DEF InvoiceNext
<1>3. NoneOutdated /\ [~RevivingPay]_invoiceVars
        => [~OverlappingWrite /\ ~RevivingPay]_invoiceVars
  BY DEF OverlappingWrite
<1> HIDE DEF NoneOutdated
<1> QED
  BY <1>1, <1>2, <1>3, CheckedInvoiceIsBook, PTL DEF InvoiceSpec

\* A request that is to write its row counted every number there is.
CountedAll ==
  \A s \in BillReq :
    /\ billReq[s] # NoBill
    /\ billReq[s].op \in {"generate", "refund"}
    /\ billReq[s].next = "write"
    => \A x \in numbers : x.n <= billReq[s].count

LEMMA SerialCounts ==
  ASSUME OneBill, InvoiceInv, CountedAll, [InvoiceNext]_invoiceVars
  PROVE  CountedAll'
<1>1. billReq \in [BillReq -> BillRequest \cup {NoBill}]
  BY DEF InvoiceInv, InvoiceTypeOK
<1>2. ASSUME NEW s \in BillReq, NEW op \in BillOp, NEW next \in {"notes", "count"},
             NEW amount, Begin(s, op, next, amount)
      PROVE  CountedAll'
  <2>1. billReq'[s].next = next
    BY <1>1, <1>2 DEF Begin
  <2> QED
    BY <2>1 DEF CountedAll, OneBill
<1>3. ASSUME NEW s \in BillReq, NEW op \in {"pay", "void", "unpay"},
             Begin(s, op, "write", 0)
      PROVE  CountedAll'
  <2>1. billReq'[s].op = op
    BY <1>1, <1>3 DEF Begin
  <2> QED
    BY <2>1 DEF CountedAll, OneBill
<1>4. ASSUME NEW s \in BillReq, EndBill(s)
      PROVE  CountedAll'
  <2>1. billReq'[s] = NoBill
    BY <1>1, <1>4 DEF EndBill
  <2> QED
    BY <2>1 DEF CountedAll, OneBill
<1>5. ASSUME NEW s \in BillReq, ReadNotes(s)
      PROVE  CountedAll'
  <2>1. CASE EndBill(s)
    BY <1>4, <2>1
  <2>2. CASE billReq' = [billReq EXCEPT ![s].notes = refunded, ![s].next = "count"]
    <3>1. billReq[s] \in BillRequest
      BY <1>1, <1>5 DEF ReadNotes, At
    <3>2. billReq'[s].next = "count"
      BY <1>1, <2>2, <3>1 DEF BillRequest
    <3> QED
      BY <3>2 DEF CountedAll, OneBill
  <2> QED
    BY <1>5, <2>1, <2>2 DEF ReadNotes
<1>6. ASSUME NEW s \in BillReq, CountRows(s)
      PROVE  CountedAll'
  <2>1. billReq[s] \in BillRequest
    BY <1>1, <1>6 DEF CountRows, At
  <2>2. billReq'[s].count = rows /\ numbers' = numbers
    BY <1>1, <1>6, <2>1 DEF CountRows, BillRequest
  <2>3. \A x \in numbers : x.n <= rows
    BY DEF InvoiceInv
  <2> QED
    BY <2>2, <2>3 DEF CountedAll, OneBill
<1>7. CASE FinalInvoice \/ UNCHANGED invoiceVars
  BY <1>7 DEF FinalInvoice, invoiceVars, CountedAll
<1>8. ASSUME NEW s \in BillReq,
             \/ WriteGenerate(s) \/ WriteRefund(s) \/ NumberTaken(s)
             \/ WritePay(s) \/ WriteVoid(s) \/ WriteUnpay(s)
      PROVE  CountedAll'
  BY <1>4, <1>8 DEF WriteGenerate, WriteRefund, NumberTaken, WritePay, WriteVoid, WriteUnpay,
     WriteStatus
<1>9. ASSUME NEW s \in BillReq,
             \/ BeginGenerate(s) \/ BeginPay(s) \/ BeginVoid(s) \/ BeginUnpay(s)
             \/ \E amount \in 1..AMOUNT : BeginRefund(s, amount)
      PROVE  CountedAll'
  BY <1>2, <1>3, <1>9 DEF BeginGenerate, BeginPay, BeginVoid, BeginUnpay, BeginRefund, BillOp
<1> QED
  BY <1>5, <1>6, <1>7, <1>8, <1>9 DEF InvoiceNext

\* Requests one at a time are never refused a number, even when an offboarding adds
\* its final invoice between a count and the row that is written under it ("The number
\* comes from the table, not from the service's counter", billing.routes.ts:133).
THEOREM SerialNumbersNeverTaken ==
  ASSUME OneBill
  PROVE  InvoiceSpec => [][\A s \in BillReq : ~NumberTaken(s)]_invoiceVars
<1>1. InvoiceInit => CountedAll
  BY DEF InvoiceInit, CountedAll
<1>2. InvoiceInv /\ CountedAll /\ [InvoiceNext]_invoiceVars => CountedAll'
  BY SerialCounts
<1>3. InvoiceInv /\ CountedAll => \A s \in BillReq : ~NumberTaken(s)
  <2> SUFFICES ASSUME InvoiceInv, CountedAll, NEW s \in BillReq, NumberTaken(s)
               PROVE  FALSE
    OBVIOUS
  <2>1. NumberOf(s).n = billReq[s].count + 1 /\ NumberOf(s) \in numbers
    BY DEF NumberTaken, NumberOf
  <2>2. billReq[s].count \in Nat
    BY MaxRowsAssumption DEF NumberTaken, InvoiceInv, InvoiceTypeOK, BillRequest
  <2>3. NumberOf(s).n <= billReq[s].count
    BY <2>1 DEF CountedAll, NumberTaken
  <2> QED
    BY <2>1, <2>2, <2>3
<1>4. InvoiceInv /\ CountedAll => [\A s \in BillReq : ~NumberTaken(s)]_invoiceVars
  BY <1>3
<1> QED
  BY <1>1, <1>2, <1>4, InvoiceInvariant, PTL DEF InvoiceSpec

-----------------------------------------------------------------------------
(* Commissions.                                                            *)

PaidWas == Done("pay") /\ payments > 0

\* What an action under way found to be allowed has left its trace, and what a
\* request that nobody overtook has read is what the row still holds.
Grounded(s) ==
  LET q == commissionReq[s]
  IN  q # NoCommission =>
        /\ commission # NoCommission
        /\ q.action = "pay" => Done("approve")
        /\ q.action = "clawback" => q.dated /\ PaidWas
        /\ s \notin overtaken => /\ q.status = commission.status
                                 /\ q.dated = commission.dated
                                 /\ Allowed(q.action, commission.status)

RowGrounded ==
  commission # NoCommission =>
    /\ commission.status = "approved" => Done("approve")
    /\ commission.status \in {"paid", "clawed_back"} => commission.dated /\ PaidWas

CommissionInv ==
  /\ CommissionTypeOK
  /\ Done("pay") => Done("approve")
  /\ Done("clawback") => Done("pay")
  /\ RowGrounded
  /\ \A s \in CommissionReq : Grounded(s)

LEMMA InitCommission == CommissionInit => CommissionInv
<1> SUFFICES ASSUME CommissionInit PROVE CommissionInv
  OBVIOUS
<1>1. CommissionTypeOK
  BY PaymentsAssumption DEF CommissionInit, CommissionTypeOK
<1>2. \A action : ~Done(action)
  BY DEF CommissionInit, Done
<1> QED
  BY <1>1, <1>2 DEF CommissionInit, CommissionInv, RowGrounded, Grounded

LEMMA CreateKeeps ==
  ASSUME CommissionInv, CreateCommission
  PROVE  CommissionInv'
<1>1. /\ commission' \in Commission
      /\ commission'.status = "pending"
  BY DEF CreateCommission, Commission, CommissionStatus
<1>2. CommissionTypeOK'
  BY <1>1 DEF CommissionInv, CommissionTypeOK, CreateCommission
<1>3. \A action : Done(action)' = Done(action)
  BY DEF Done, CreateCommission
<1>4. \A s \in CommissionReq : commissionReq'[s] = NoCommission
  BY DEF CommissionInv, Grounded, CreateCommission
<1> QED
  BY <1>1, <1>2, <1>3, <1>4 DEF CommissionInv, RowGrounded, Grounded

LEMMA ReadCommissionKeeps ==
  ASSUME CommissionInv, NEW s \in CommissionReq, NEW action \in Action,
         ReadCommission(s, action)
  PROVE  CommissionInv'
<1> DEFINE request == [action |-> action, status |-> commission.status,
                       dated |-> commission.dated]
<1>1. commission \in Commission /\ commission # NoCommission
  BY DEF ReadCommission, CommissionInv, CommissionTypeOK
<1>2. request \in CommissionRequest
  BY <1>1 DEF Commission, CommissionRequest
<1>3. /\ commissionReq'[s] = request
      /\ \A x \in CommissionReq : x # s => commissionReq'[x] = commissionReq[x]
  BY DEF ReadCommission, CommissionInv, CommissionTypeOK
<1>4. CommissionTypeOK'
  BY <1>2 DEF CommissionInv, CommissionTypeOK, ReadCommission
<1>5. (\A a : Done(a)' = Done(a)) /\ PaidWas' = PaidWas
  BY DEF Done, PaidWas, ReadCommission
<1>6. Grounded(s)'
  <2>1. action = "pay" => Done("approve")
    BY <1>1 DEF ReadCommission, Allowed, CommissionInv, RowGrounded
  <2>2. action = "clawback" => commission.dated /\ PaidWas
    BY <1>1 DEF ReadCommission, Allowed, CommissionInv, RowGrounded
  <2>3. Allowed(action, commission.status) /\ commission' = commission
    BY DEF ReadCommission
  <2>4. /\ commissionReq'[s].action = action
        /\ commissionReq'[s].status = commission.status
        /\ commissionReq'[s].dated = commission.dated
    BY <1>3
  <2> HIDE DEF request
  <2> QED
    BY <1>1, <1>5, <2>1, <2>2, <2>3, <2>4 DEF Grounded
<1>7. \A x \in CommissionReq : x # s => Grounded(x)'
  BY <1>3, <1>5 DEF CommissionInv, Grounded, ReadCommission
<1>8. RowGrounded'
  BY <1>5 DEF CommissionInv, RowGrounded, ReadCommission
<1> QED
  BY <1>4, <1>5, <1>6, <1>7, <1>8 DEF CommissionInv

\* What a write does to the row, the trail and the payments.
LEMMA Written ==
  ASSUME CommissionInv, NEW s \in CommissionReq, WriteCommission(s)
  PROVE  /\ commissionReq[s] # NoCommission
         /\ commissionReq[s] \in CommissionRequest
         /\ commission' \in Commission
         /\ commission'.status = Target(commissionReq[s].action)
         /\ commission'.dated = DateWritten(s)
         /\ \A a : Done(a)' <=> Done(a) \/ a = commissionReq[s].action
         /\ payments \in Nat /\ payments' \in Nat /\ payments' >= payments
         /\ commissionReq[s].action = "pay" => payments' > 0
<1> DEFINE action == commissionReq[s].action
           entry == [action |-> action, from |-> commissionReq[s].status,
                     to |-> Target(action)]
<1>1. /\ commissionReq[s] # NoCommission
      /\ commissionReq[s] \in CommissionRequest
      /\ commission \in Commission
  BY DEF WriteCommission, CommissionInv, CommissionTypeOK, Grounded
<1>2. action \in Action /\ Target(action) \in CommissionStatus
  BY <1>1 DEF CommissionRequest, Action, Target, CommissionStatus
<1>3. DateWritten(s) \in BOOLEAN
  BY <1>1, <1>2 DEF DateWritten, CommissionRequest, Commission, Action
<1>4. commission' = [status |-> Target(action), dated |-> DateWritten(s)]
  BY DEF WriteCommission
<1>5. trail' = trail \cup {entry}
  BY DEF WriteCommission
<1>6. entry.action = action
  OBVIOUS
<1>7. \A a : Done(a)' <=> Done(a) \/ a = action
  <2> HIDE DEF entry, action
  <2> QED
    BY <1>5, <1>6 DEF Done
<1>8. /\ payments \in Nat /\ payments' \in Nat /\ payments' >= payments
      /\ action = "pay" => payments' > 0
  BY PaymentsAssumption DEF WriteCommission, CommissionInv, CommissionTypeOK
<1>9. /\ commission' \in Commission
      /\ commission'.status = Target(action)
      /\ commission'.dated = DateWritten(s)
  BY <1>2, <1>3, <1>4 DEF Commission
<1> QED
  BY <1>1, <1>7, <1>8, <1>9

LEMMA WriteCommissionKeeps ==
  ASSUME CommissionInv, NEW s \in CommissionReq, WriteCommission(s)
  PROVE  CommissionInv'
<1> DEFINE action == commissionReq[s].action
<1>1. /\ commissionReq[s] # NoCommission
      /\ commissionReq[s] \in CommissionRequest
      /\ commission' \in Commission
      /\ commission'.status = Target(action)
      /\ commission'.dated = DateWritten(s)
      /\ \A a : Done(a)' <=> Done(a) \/ a = action
      /\ payments \in Nat /\ payments' \in Nat /\ payments' >= payments
      /\ action = "pay" => payments' > 0
  BY Written
<1>2. action \in Action
  BY <1>1 DEF CommissionRequest
<1>3. /\ action = "pay" => Done("approve")
      /\ action = "clawback" => commissionReq[s].dated /\ PaidWas
  BY <1>1 DEF CommissionInv, Grounded
<1>4. PaidWas => PaidWas'
  BY <1>1 DEF PaidWas
<1>5. /\ commissionReq'[s] = NoCommission
      /\ \A x \in CommissionReq : x # s => commissionReq'[x] = commissionReq[x]
      /\ \A x \in CommissionReq : commissionReq'[x] # NoCommission => x \in overtaken'
  BY DEF WriteCommission, CommissionInv, CommissionTypeOK
<1>6. CommissionTypeOK'
  <2>1. trail' \subseteq AuditEntry
    <3>1. [action |-> action, from |-> commissionReq[s].status, to |-> Target(action)]
            \in AuditEntry
      BY <1>1, <1>2 DEF AuditEntry, CommissionRequest, Target, Action, CommissionStatus
    <3> QED
      BY <3>1 DEF WriteCommission, CommissionInv, CommissionTypeOK
  <2>2. payments' \in 0..MaxPayments
    BY <1>1, PaymentsAssumption DEF WriteCommission
  <2>3. /\ commissionReq' \in [CommissionReq -> CommissionRequest \cup {NoCommission}]
        /\ overtaken' \subseteq CommissionReq
    BY DEF WriteCommission, CommissionInv, CommissionTypeOK
  <2> QED
    BY <1>1, <2>1, <2>2, <2>3 DEF CommissionTypeOK
<1>7. /\ Done("pay")' => Done("approve")'
      /\ Done("clawback")' => Done("pay")'
  BY <1>1, <1>3 DEF CommissionInv, PaidWas
<1>8. RowGrounded'
  <2>1. CASE action = "approve"
    BY <1>1, <2>1 DEF RowGrounded, Target
  <2>2. CASE action = "pay"
    BY <1>1, <2>2 DEF RowGrounded, Target, DateWritten, PaidWas
  <2>3. CASE action = "clawback"
    BY <1>1, <1>3, <1>4, <2>3 DEF RowGrounded, Target, DateWritten
  <2>4. CASE action = "resolve"
    BY <1>1, <2>4 DEF RowGrounded, Target
  <2> QED
    BY <1>2, <2>1, <2>2, <2>3, <2>4 DEF Action
<1>9. \A x \in CommissionReq : Grounded(x)'
  <2> SUFFICES ASSUME NEW x \in CommissionReq, x # s, commissionReq'[x] # NoCommission
               PROVE  Grounded(x)'
    BY <1>5 DEF Grounded
  <2>1. Grounded(x) /\ commissionReq'[x] = commissionReq[x] /\ x \in overtaken'
    BY <1>5 DEF CommissionInv
  <2>2. commission' # NoCommission
    BY <1>1, NoCommissionAssumption
  <2> QED
    BY <1>1, <1>4, <2>1, <2>2 DEF Grounded
<1> QED
  BY <1>6, <1>7, <1>8, <1>9 DEF CommissionInv

LEMMA CommissionInductive ==
  ASSUME CommissionInv, [CommissionNext]_commissionVars
  PROVE  CommissionInv'
<1>1. CASE UNCHANGED commissionVars
  BY <1>1 DEF commissionVars, CommissionInv, CommissionTypeOK, RowGrounded, Grounded, PaidWas,
              Done
<1>2. CASE CommissionNext
  BY <1>2, CreateKeeps, ReadCommissionKeeps, WriteCommissionKeeps DEF CommissionNext
<1> QED
  BY <1>1, <1>2

\* The strengthening is invariant.
THEOREM CommissionInvariant == CommissionSpec => []CommissionInv
BY InitCommission, CommissionInductive, PTL DEF CommissionSpec

\* Every reachable state is of the declared type.
THEOREM CommissionTypeCorrect == CommissionSpec => []CommissionTypeOK
<1>1. CommissionInv => CommissionTypeOK
  BY DEF CommissionInv
<1> QED
  BY <1>1, CommissionInvariant, PTL

\* No payment without approval, no clawback without payment, no paid commission
\* without its date, whatever requests overlap.
THEOREM PaymentsAuthorised == CommissionSpec => []PaidOnAuthority
<1>1. CommissionInv => PaidOnAuthority
  BY DEF CommissionInv, RowGrounded, PaidWas, PaidOnAuthority
<1> QED
  BY <1>1, CommissionInvariant, PTL

\* A commission only moves forward, and is paid as it does, but for the writes of
\* requests that another overtook.
THEOREM CommissionsMoveForward == CommissionSpec => CommissionMovesForward
<1>1. ASSUME CommissionInv, [CommissionNext]_commissionVars
      PROVE  [commission = NoCommission \/ OvertakenWrite \/ Forward]_<<commission, payments>>
  <2>1. CASE UNCHANGED commissionVars
    BY <2>1 DEF commissionVars
  <2>2. CASE CreateCommission
    BY <2>2 DEF CreateCommission
  <2>3. ASSUME NEW s \in CommissionReq, NEW action \in Action, ReadCommission(s, action)
        PROVE  UNCHANGED <<commission, payments>>
    BY <2>3 DEF ReadCommission
  <2>4. ASSUME NEW s \in CommissionReq, WriteCommission(s), s \notin overtaken
        PROVE  Forward
    <3> DEFINE action == commissionReq[s].action
    <3>1. /\ commissionReq[s] # NoCommission
          /\ commissionReq[s] \in CommissionRequest
          /\ commission'.status = Target(action)
          /\ commission'.dated = DateWritten(s)
      BY <1>1, <2>4, Written
    <3>2. action \in Action
      BY <3>1 DEF CommissionRequest
    <3>3. /\ commission # NoCommission
          /\ commissionReq[s].status = commission.status
          /\ commissionReq[s].dated = commission.dated
          /\ Allowed(action, commission.status)
      BY <1>1, <2>4, <3>1 DEF CommissionInv, Grounded
    <3>4. [action |-> action, from |-> commission.status, to |-> Target(action)] \in trail'
      BY <2>4, <3>3 DEF WriteCommission
    <3>5. payments' = payments + (IF action = "pay" THEN 1 ELSE 0)
      BY <1>1, <2>4, PaymentsAssumption DEF WriteCommission, CommissionInv, CommissionTypeOK
    <3>6. commission.dated => commission'.dated
      BY <3>1, <3>3 DEF DateWritten
    <3> HIDE DEF action
    <3> QED
      BY <3>1, <3>2, <3>3, <3>4, <3>5, <3>6 DEF Forward
  <2> QED
    BY <1>1, <2>1, <2>2, <2>3, <2>4 DEF CommissionNext, OvertakenWrite
<1> QED
  BY <1>1, CommissionInvariant, PTL DEF CommissionSpec, CommissionMovesForward

\* A payment leaves the commission where no payment is allowed any more.
PaidOnce ==
  payments > 0 =>
    /\ payments = 1
    /\ commission # NoCommission
    /\ commission.status \notin {"pending", "approved"}

LEMMA PaidOnceStep ==
  ASSUME CommissionInv, PaidOnce, [CommissionNext]_commissionVars,
         [~OvertakenWrite]_commissionVars
  PROVE  PaidOnce'
<1>1. payments \in Nat
  BY PaymentsAssumption DEF CommissionInv, CommissionTypeOK
<1>2. CASE UNCHANGED commissionVars
  BY <1>2 DEF commissionVars, PaidOnce
<1>3. CASE CreateCommission
  BY <1>1, <1>3 DEF CreateCommission, PaidOnce
<1>4. ASSUME NEW s \in CommissionReq, NEW action \in Action, ReadCommission(s, action)
      PROVE  PaidOnce'
  BY <1>4 DEF ReadCommission, PaidOnce
<1>5. ASSUME NEW s \in CommissionReq, WriteCommission(s)
      PROVE  PaidOnce'
  <2> DEFINE action == commissionReq[s].action
  <2>1. /\ commissionReq[s] # NoCommission /\ commissionReq[s] \in CommissionRequest
        /\ commission' \in Commission /\ commission'.status = Target(action)
    BY <1>5, Written
  <2>2. action \in Action
    BY <2>1 DEF CommissionRequest
  <2>3. payments' = IF action = "pay" THEN payments + 1 ELSE payments
    BY <1>5 DEF WriteCommission
  <2>4. commissionReq' # commissionReq
    <3>1. commissionReq'[s] = NoCommission
      BY <1>5 DEF WriteCommission, CommissionInv, CommissionTypeOK
    <3> QED
      BY <2>1, <3>1
  <2>5. s \notin overtaken
    BY <1>5, <2>4 DEF OvertakenWrite, commissionVars
  <2>6. Allowed(action, commission.status) /\ commission # NoCommission
    BY <2>1, <2>5 DEF CommissionInv, Grounded
  <2>7. commission' # NoCommission
    BY <2>1, NoCommissionAssumption
  <2> HIDE DEF action
  <2>8. CASE action = "approve"
    BY <1>1, <2>3, <2>6, <2>8 DEF Allowed, PaidOnce
  <2>9. CASE action = "pay"
    BY <1>1, <2>1, <2>3, <2>6, <2>7, <2>9 DEF Allowed, Target, PaidOnce
  <2>10. CASE action \in {"clawback", "resolve"}
    BY <1>1, <2>1, <2>3, <2>7, <2>10 DEF Target, PaidOnce
  <2> QED
    BY <2>2, <2>8, <2>9, <2>10 DEF Action
<1> QED
  BY <1>2, <1>3, <1>4, <1>5 DEF CommissionNext

\* If a write is refused whenever the commission has been written since it was read,
\* it is paid at most once, disputes and clawbacks included: the payment written twice
\* is an overtaken request's and nothing else's (the approve, pay and clawback routes).
THEOREM CheckedCommissionPaidOnce ==
  CommissionSpec /\ [][~OvertakenWrite]_commissionVars => [](payments <= 1)
<1>1. CommissionInit => PaidOnce
  BY DEF CommissionInit, PaidOnce
<1>2. CommissionInv /\ PaidOnce /\ [CommissionNext]_commissionVars
      /\ [~OvertakenWrite]_commissionVars => PaidOnce'
  BY PaidOnceStep
<1>3. CommissionInv /\ PaidOnce => payments <= 1
  BY PaymentsAssumption DEF CommissionInv, CommissionTypeOK, PaidOnce
<1> QED
  BY <1>1, <1>2, <1>3, CommissionInvariant, PTL DEF CommissionSpec

============================================================================
