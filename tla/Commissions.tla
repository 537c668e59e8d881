---------------------------- MODULE Commissions ----------------------------
(***************************************************************************)
(* One commission record: its creation, the approve, pay and clawback      *)
(* routes, which decide by the transitions of revenue-ops.service, and the *)
(* resolution of a dispute, which decides nothing.  A request reads the    *)
(* row, and later writes status and paid date, with the audit entry, in a  *)
(* transaction of their own.                                               *)
(***************************************************************************)
EXTENDS Naturals

CONSTANTS
  CommissionReq,   \* request slots
  MaxPayments,     \* bound: how many payments are written
  NoCommission     \* no row, or no request in the slot

ASSUME PaymentsAssumption == MaxPayments \in Nat \ {0}

VARIABLES
  commission,      \* NoCommission or the row: [status, dated]
  trail,           \* the audit entries: [action, from, to]
  payments,        \* how many of them say that it was paid
  commissionReq,   \* per slot: NoCommission or the row it read and what it is to do
  overtaken        \* history: slots whose row was written since they read it

commissionVars == <<commission, trail, payments, commissionReq, overtaken>>

Action == {"approve", "pay", "clawback", "resolve"}
CommissionStatus == {"pending", "approved", "paid", "clawed_back", "resolved"}

Commission == [status : CommissionStatus, dated : BOOLEAN]
CommissionRequest == [action : Action, status : CommissionStatus, dated : BOOLEAN]
AuditEntry == [action : Action, from : CommissionStatus, to : CommissionStatus]

ASSUME NoCommissionAssumption == NoCommission \notin Commission

CommissionTypeOK ==
  /\ commission \in Commission \cup {NoCommission}
  /\ trail \subseteq AuditEntry
  /\ payments \in 0..MaxPayments
  /\ commissionReq \in [CommissionReq -> CommissionRequest \cup {NoCommission}]
  /\ overtaken \subseteq CommissionReq

CommissionInit ==
  /\ commission = NoCommission
  /\ trail = {}
  /\ payments = 0
  /\ commissionReq = [s \in CommissionReq |-> NoCommission]
  /\ overtaken = {}

-----------------------------------------------------------------------------
CreateCommission ==
  /\ commission = NoCommission
  /\ commission' = [status |-> "pending", dated |-> FALSE]
  /\ UNCHANGED <<trail, payments, commissionReq, overtaken>>

\* Mutant: a commission is paid without approval.
AllowedUnapproved(action, status) ==
  CASE action = "approve" -> status = "pending"
    [] action = "pay" -> status \in {"pending", "approved"}
    [] action = "clawback" -> status = "paid"
    [] action = "resolve" -> TRUE

\* The transitions: what an action may follow, and what it leads to.
Allowed(action, status) ==
  CASE action = "approve" -> status = "pending"
    [] action = "pay" -> status = "approved"
    [] action = "clawback" -> status = "paid"
    [] action = "resolve" -> TRUE

Target(action) ==
  CASE action = "approve" -> "approved"
    [] action = "pay" -> "paid"
    [] action = "clawback" -> "clawed_back"
    [] action = "resolve" -> "resolved"

\* The row is read, and what may not follow it is refused.
ReadCommission(s, action) ==
  /\ commissionReq[s] = NoCommission
  /\ commission # NoCommission
  /\ Allowed(action, commission.status)
  /\ commissionReq' = [commissionReq EXCEPT ![s] =
       [action |-> action, status |-> commission.status, dated |-> commission.dated]]
  /\ UNCHANGED <<commission, trail, payments, overtaken>>

\* Mutant: a resolution erases the date.
DateWrittenErased(s) ==
  CASE commissionReq[s].action = "pay" -> TRUE
    [] commissionReq[s].action = "resolve" -> FALSE
    [] OTHER -> commissionReq[s].dated

\* The date written with the status: now for a payment, otherwise the one that was
\* read.  A resolution leaves the date alone.
DateWritten(s) ==
  CASE commissionReq[s].action = "pay" -> TRUE
    [] commissionReq[s].action = "resolve" -> commission.dated
    [] OTHER -> commissionReq[s].dated

\* Status, date and audit entry, in one transaction.
WriteCommission(s) ==
  /\ commissionReq[s] # NoCommission
  /\ LET action == commissionReq[s].action
     IN  /\ payments' = IF action = "pay" THEN payments + 1 ELSE payments
         /\ payments' <= MaxPayments
         /\ commission' = [status |-> Target(action), dated |-> DateWritten(s)]
         /\ trail' = trail \cup
              {[action |-> action, from |-> commissionReq[s].status, to |-> Target(action)]}
  /\ commissionReq' = [commissionReq EXCEPT ![s] = NoCommission]
  /\ overtaken' = {x \in CommissionReq : commissionReq[x] # NoCommission} \ {s}

CommissionNext ==
  \/ CreateCommission
  \/ \E s \in CommissionReq, action \in Action : ReadCommission(s, action)
  \/ \E s \in CommissionReq : WriteCommission(s)

CommissionSpec == CommissionInit /\ [][CommissionNext]_commissionVars

-----------------------------------------------------------------------------
\* However requests overlap, no payment is without an approval behind it, no
\* clawback without a payment, and the paid date of a commission that stands paid
\* or clawed back is never erased by another's older copy of the row ("Paying an
\* unapproved commission is money out of the door on nobody's authority",
\* revenue-ops.service.ts:659).
Done(action) == \E entry \in trail : entry.action = action
PaidOnAuthority ==
  /\ Done("pay") => Done("approve")
  /\ Done("clawback") => Done("pay")
  /\ commission # NoCommission /\ commission.status \in {"paid", "clawed_back"}
       => commission.dated /\ payments > 0

\* A commission goes from pending to approved, paid and clawed back, or from
\* anywhere to resolved, is paid at most once on that way, and every step is in the
\* trail as the step it was: except by a request that read the row before another
\* one wrote, which can pay twice, or take a paid commission back to approved.
OvertakenWrite == \E s \in overtaken : WriteCommission(s)
Forward ==
  /\ commission # NoCommission
  /\ \E action \in Action :
       /\ Allowed(action, commission.status)
       /\ commission'.status = Target(action)
       /\ [action |-> action, from |-> commission.status, to |-> Target(action)] \in trail'
       /\ payments' = payments + (IF action = "pay" THEN 1 ELSE 0)
       /\ commission.dated => commission'.dated
CommissionMovesForward ==
  [][commission = NoCommission \/ OvertakenWrite \/ Forward]_<<commission, payments>>

============================================================================
