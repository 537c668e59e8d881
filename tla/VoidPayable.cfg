\* One billing request at a time on one invoice.
CONSTANTS
  AMOUNT = 2
  MaxRows = 2
  BillReq = {b1}
  NoBill = NoBill
SPECIFICATION InvoiceSpec
PROPERTY VoidIsNotPaid
\* The last row may have been written.
CHECK_DEADLOCK FALSE
