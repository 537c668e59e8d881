------------------------- MODULE ComplianceRecords -------------------------
(***************************************************************************)
(* The compliance records of one business, as the pre-submission gates of  *)
(* application-gates.ts read them: the product-reality acknowledgment, the *)
(* consent records of type 'application', the latest suitability check,    *)
(* the latest KYB compliance check and the KYC status of each owner.       *)
(* One action per operation of the services that write them.       *)
(*                                                                         *)
(* What is abstracted: texts, scores, evidence and history.  A suitability *)
(* check is the verdict the gate tells apart, a KYB check is its risk      *)
(* level together with whether it says 'verified', and of all rows of a    *)
(* kind only the latest (the one a gate reads) is kept.                    *)
(***************************************************************************)

CONSTANTS
  Channel,      \* consent channels
  Owner,        \* owners of the business, whatever their share
  OnFile,       \* what the business has been vetted for when the instance begins
  Ops           \* the operations the clients of this instance call

\* Owners are verified after the business is.
ASSUME OnFileAssumption ==
  /\ OnFile \subseteq {"suitability", "kyb", "owners"}
  /\ "owners" \in OnFile => "kyb" \in OnFile

VARIABLES
  acked,        \* a 'product_reality' acknowledgment has been signed
  appConsent,   \* channels with an active ConsentRecord of type 'application'
  suitability,  \* verdict of the latest SuitabilityCheck
  kyb,          \* latest ComplianceCheck of type 'kyb'
  sweep,        \* a clean compliance check is about to resolve open findings
  ownerKyc,     \* BusinessOwner.kycStatus, read with isBeneficialOwner
  kycRun        \* owners whose verifyKyc has passed its KYB test and not written

recordVars == <<acked, appConsent, suitability, kyb, sweep, ownerKyc, kycRun>>

Suitability == {"none", "clear", "nogo", "hardnogo", "overridden"}

(* "unflagged": riskLevel low or medium and status other than 'verified';  *)
(* "flagged": riskLevel high; "resolved": high or critical with resolvedAt *)
(* set.                                                                    *)
Kyb == {"none", "verified", "unflagged", "flagged", "critical", "resolved"}

(* "absent": not added yet; "minority": a row the gate does not read, for  *)
(* isBeneficialOwner is false, whatever its kycStatus.                     *)
Kyc == {"absent", "minority", "pending", "in_review", "sanctions_hold", "verified"}

RecordsTypeOK ==
  /\ acked \in BOOLEAN
  /\ appConsent \in SUBSET Channel
  /\ suitability \in Suitability
  /\ kyb \in Kyb
  /\ sweep \in BOOLEAN
  /\ ownerKyc \in [Owner -> Kyc]
  /\ kycRun \in SUBSET Owner

\* A business with nothing on file but the checks of OnFile, run and passed.
RecordsInit ==
  /\ acked = FALSE
  /\ appConsent = {}
  /\ suitability = IF "suitability" \in OnFile THEN "clear" ELSE "none"
  /\ kyb = IF "kyb" \in OnFile THEN "verified" ELSE "none"
  /\ sweep = FALSE
  /\ ownerKyc = [o \in Owner |-> IF "owners" \in OnFile THEN "verified" ELSE "absent"]
  /\ kycRun = {}

----------------------------------------------------------------------------
(* Acknowledgment and consent.                                             *)

\* Acknowledgments are immutable: sign creates a row and nothing deletes one.
SignProductReality ==
  /\ "sign" \in Ops
  /\ acked' = TRUE
  /\ UNCHANGED <<appConsent, suitability, kyb, sweep, ownerKyc, kycRun>>

GrantConsent(c) ==
  /\ "grant" \in Ops
  /\ appConsent' = appConsent \cup {c}
  /\ UNCHANGED <<acked, suitability, kyb, sweep, ownerKyc, kycRun>>

\* The service reads the active records and then revokes those; a consent granted
\* in between survives, as one granted after this step does.
RevokeConsent(c) ==
  /\ "revoke" \in Ops
  /\ appConsent' = appConsent \ {c}
  /\ UNCHANGED <<acked, suitability, kyb, sweep, ownerKyc, kycRun>>

----------------------------------------------------------------------------
(* Suitability.                                                            *)

RunSuitabilityCheck(verdict) ==
  /\ "assess" \in Ops
  /\ suitability' = verdict
  /\ UNCHANGED <<acked, appConsent, kyb, sweep, ownerKyc, kycRun>>

\* A score below HARD_NOGO cannot be overridden; the override of a check that
\* is no longer the latest leaves the latest as it is.
ApplyOverride ==
  /\ "override" \in Ops
  /\ suitability = "nogo"
  /\ suitability' = "overridden"
  /\ UNCHANGED <<acked, appConsent, kyb, sweep, ownerKyc, kycRun>>

----------------------------------------------------------------------------
(* KYB and KYC.                                                            *)

\* Verified, in review (medium), failed (high) or an OFAC hard stop (critical).
VerifyKyb(outcome) ==
  /\ "kyb" \in Ops
  /\ outcome \in {"verified", "unflagged", "flagged", "critical"}
  /\ kyb' = outcome
  /\ UNCHANGED <<acked, appConsent, suitability, sweep, ownerKyc, kycRun>>

\* The check row is created first; a low or medium one then resolves earlier
\* findings in a second statement.
RunComplianceCheck(level) ==
  /\ "compliance" \in Ops
  /\ level \in {"unflagged", "flagged", "critical"}
  /\ kyb' = level
  /\ sweep' = (sweep \/ level = "unflagged")
  /\ UNCHANGED <<acked, appConsent, suitability, ownerKyc, kycRun>>

\* updateMany over every open high or critical finding: the ones raised after
\* the clean check included.
ResolveClearedFindings ==
  /\ sweep
  /\ sweep' = FALSE
  /\ kyb' = IF kyb \in {"flagged", "critical"} THEN "resolved" ELSE kyb
  /\ UNCHANGED <<acked, appConsent, suitability, ownerKyc, kycRun>>

\* The caller says whether the owner is a beneficial one.
AddOwner(o, standing) ==
  /\ "owner" \in Ops
  /\ ownerKyc[o] = "absent"
  /\ standing \in {"pending", "minority"}
  /\ ownerKyc' = [ownerKyc EXCEPT ![o] = standing]
  /\ UNCHANGED <<acked, appConsent, suitability, kyb, sweep, kycRun>>

\* Mutant: KYC without KYB first.
StartKycNoKyb(o) ==
  /\ "kyc" \in Ops
  /\ ownerKyc[o] # "absent"
  /\ kycRun' = kycRun \cup {o}
  /\ UNCHANGED <<acked, appConsent, suitability, kyb, sweep, ownerKyc>>

\* KYB must be verified when verifyKyc starts; its answer is written later.
StartKyc(o) ==
  /\ "kyc" \in Ops
  /\ kyb = "verified"
  /\ ownerKyc[o] # "absent"
  /\ kycRun' = kycRun \cup {o}
  /\ UNCHANGED <<acked, appConsent, suitability, kyb, sweep, ownerKyc>>

\* A hold writes the status alone; any other answer rewrites the row, and with
\* it isBeneficialOwner, from the ownership share the request states.
FinishKyc(o, outcome) ==
  /\ o \in kycRun
  /\ outcome \in {"verified", "in_review", "minority", "sanctions_hold"}
  /\ ownerKyc' = [ownerKyc EXCEPT ![o] =
       IF outcome = "sanctions_hold" /\ @ = "minority" THEN @ ELSE outcome]
  /\ kycRun' = kycRun \ {o}
  /\ UNCHANGED <<acked, appConsent, suitability, kyb, sweep>>

RecordsNext ==
  \/ SignProductReality
  \/ \E c \in Channel : GrantConsent(c)
  \/ \E c \in Channel : RevokeConsent(c)
  \/ \E v \in {"clear", "nogo", "hardnogo"} : RunSuitabilityCheck(v)
  \/ ApplyOverride
  \/ \E s \in Kyb : VerifyKyb(s)
  \/ \E l \in Kyb : RunComplianceCheck(l)
  \/ ResolveClearedFindings
  \/ \E o \in Owner, k \in Kyc : AddOwner(o, k)
  \/ \E o \in Owner : StartKyc(o)
  \/ \E o \in Owner, k \in Kyc : FinishKyc(o, k)

----------------------------------------------------------------------------
(* What each database read of a gate answers.                              *)

SuitabilityPassed == suitability \in {"clear", "overridden"}

\* The latest KYB check exists and is not an unresolved critical one.
KybPassed == kyb \notin {"none", "critical"}

\* There are beneficial owners, and each is verified.
OwnersVerified ==
  LET beneficial == {o \in Owner : ownerKyc[o] \notin {"absent", "minority"}}
  IN  beneficial # {} /\ \A o \in beneficial : ownerKyc[o] = "verified"

============================================================================
