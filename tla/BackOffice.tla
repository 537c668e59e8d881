----------------------------- MODULE BackOffice ----------------------------
(***************************************************************************)
(* The records a deal leaves with the back office: its committee review,   *)
(* the alerts of its funding round, its invoice, its commission, the       *)
(* disclosures it is shown, a document of its file, its debit              *)
(* authorization, and in the end the offboarding of its client.  They      *)
(* share no row and no request (a commission takes its invoice's amount    *)
(* when it is created and nothing after), so a behaviour works on one of   *)
(* them, chosen at the start, while the others rest in an initial state.   *)
(***************************************************************************)
EXTENDS DealCommittee, FundingRounds, Invoices, Commissions,
        DisclosureTemplates, DocumentVault, AchControls, Offboarding

VARIABLE desk    \* the record this behaviour works on

billingVars == <<invoiceVars, commissionVars>>
fileVars == <<cmsVars, vaultVars, achVars, offVars>>
officeVars == <<committeeVars, roundVars, billingVars, fileVars, desk>>

OfficeInit ==
  /\ desk \in {"review", "round", "invoice", "commission", "template", "document", "authorization",
               "offboarding"}
  /\ CommitteeInit
  /\ RoundInit
  /\ InvoiceInit
  /\ CommissionInit
  /\ CmsInit
  /\ VaultInit
  /\ AchInit
  /\ OffInit
  /\ desk # "review" => review.status = "pending"    \* one state of rest is enough

OfficeNext ==
  \/ /\ desk = "review" /\ CommitteeNext
     /\ UNCHANGED <<roundVars, billingVars, fileVars, desk>>
  \/ /\ desk = "round" /\ RoundNext
     /\ UNCHANGED <<committeeVars, billingVars, fileVars, desk>>
  \/ /\ desk = "invoice" /\ InvoiceNext
     /\ UNCHANGED <<committeeVars, roundVars, commissionVars, fileVars, desk>>
  \/ /\ desk = "commission" /\ CommissionNext
     /\ UNCHANGED <<committeeVars, roundVars, invoiceVars, fileVars, desk>>
  \/ /\ desk = "template" /\ CmsNext
     /\ UNCHANGED <<committeeVars, roundVars, billingVars, vaultVars, achVars, offVars, desk>>
  \/ /\ desk = "document" /\ VaultNext
     /\ UNCHANGED <<committeeVars, roundVars, billingVars, cmsVars, achVars, offVars, desk>>
  \/ /\ desk = "authorization" /\ AchNext
     /\ UNCHANGED <<committeeVars, roundVars, billingVars, cmsVars, vaultVars, offVars, desk>>
  \/ /\ desk = "offboarding" /\ OffNext
     /\ UNCHANGED <<committeeVars, roundVars, billingVars, cmsVars, vaultVars, achVars, desk>>

OfficeSpec == OfficeInit /\ [][OfficeNext]_officeVars

OfficeTypeOK ==
  /\ CommitteeTypeOK /\ RoundTypeOK /\ InvoiceTypeOK /\ CommissionTypeOK
  /\ CmsTypeOK /\ VaultTypeOK /\ AchTypeOK /\ OffTypeOK

============================================================================
