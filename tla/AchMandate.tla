----------------------------- MODULE AchMandate -----------------------------
(***************************************************************************)
(* What the ACH controls promise about one authorization when its requests *)
(* do not overlap: it is revoked once, at the moment its notice carries;   *)
(* every debit recorded after that is flagged; and the ledger tells of     *)
(* nothing that did not happen.                                            *)
(***************************************************************************)
EXTENDS Naturals

CONSTANTS
  Debit,      \* the debits that may be recorded
  NoDebit

VARIABLES
  standing,   \* "none", "active" or "revoked"
  notice,     \* how many times the moment of the revocation was written
  recorded,   \* per debit: NoDebit or [excess, flagged]
  told        \* the ledger: "authorized", "revoked" and the debits reported

mandateVars == <<standing, notice, recorded, told>>

MandateInit ==
  /\ standing = "none"
  /\ notice = 0
  /\ recorded = [d \in Debit |-> NoDebit]
  /\ told = {}

Authorize ==
  /\ standing = "none"
  /\ standing' = "active"
  /\ UNCHANGED <<notice, recorded, told>>

Revoke ==
  /\ standing = "active"
  /\ standing' = "revoked"
  /\ notice' = notice + 1
  /\ UNCHANGED <<recorded, told>>

Record(d, excess) ==
  /\ standing # "none"
  /\ recorded[d] = NoDebit
  /\ recorded' = [recorded EXCEPT ![d] =
       [excess |-> excess, flagged |-> excess \/ standing = "revoked"]]
  /\ UNCHANGED <<standing, notice, told>>

Flagged(d) == recorded[d] # NoDebit /\ recorded[d].flagged

Tell(event) ==
  /\ \/ event = "authorized" /\ standing # "none"
     \/ event = "revoked" /\ standing = "revoked"
     \/ event \in Debit /\ Flagged(event)
  /\ told' = told \cup {event}
  /\ UNCHANGED <<standing, notice, recorded>>

MandateNext ==
  \/ Authorize \/ Revoke
  \/ \E d \in Debit, excess \in BOOLEAN : Record(d, excess)
  \/ \E event \in {"authorized", "revoked"} \cup Debit : Tell(event)

MandateSpec == MandateInit /\ [][MandateNext]_mandateVars

\* What the mandate keeps: one moment of revocation, and no false report.
OneNotice == notice = IF standing = "revoked" THEN 1 ELSE 0

NoFalseReport ==
  /\ "revoked" \in told => standing = "revoked"
  /\ \A d \in told \cap Debit : Flagged(d)

=============================================================================
