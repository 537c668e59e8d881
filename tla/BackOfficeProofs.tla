-------------------------- MODULE BackOfficeProofs --------------------------
(***************************************************************************)
(* The back office as one system.  A behaviour of the whole is, read desk  *)
(* by desk, a behaviour of each component: the desks share no variable,    *)
(* and each starts in an initial state of its own.  What is proved of a    *)
(* component therefore holds in the whole, for any committee, amounts,     *)
(* dates, rows and requests, and the properties of the back_office run are *)
(* theorems of the specification that run checks.                          *)
(***************************************************************************)
EXTENDS BackOffice, DealProofs, BillingProofs, FileProofs

-----------------------------------------------------------------------------
(* Every desk runs its own component.                                      *)

\* The deal's desks: a step of the office is a step of the committee and a step of
\* the round, or leaves them alone.
LEMMA DealSteps ==
  [OfficeNext]_officeVars => [CommitteeNext]_committeeVars /\ [RoundNext]_roundVars
BY DEF OfficeNext, officeVars

\* The same of the invoice and of the commission.
LEMMA BillingSteps ==
  [OfficeNext]_officeVars => [InvoiceNext]_invoiceVars /\ [CommissionNext]_commissionVars
BY DEF OfficeNext, officeVars, billingVars

\* The same of the client's file: templates, document, authorization, offboarding.
LEMMA FileSteps ==
  [OfficeNext]_officeVars => /\ [CmsNext]_cmsVars
                             /\ [VaultNext]_vaultVars
                             /\ [AchNext]_achVars
                             /\ [OffNext]_offVars
BY DEF OfficeNext, officeVars, fileVars

\* A behaviour of the office is a behaviour of each component at its desk: what one
\* component's requests do is never a step of another's that its own code would not
\* take.
THEOREM OfficeRunsDesks ==
  OfficeSpec => /\ CommitteeSpec /\ RoundSpec
                /\ InvoiceSpec /\ CommissionSpec
                /\ CmsSpec /\ VaultSpec /\ AchSpec /\ OffSpec
<1>1. OfficeInit => /\ CommitteeInit /\ RoundInit
                    /\ InvoiceInit /\ CommissionInit
                    /\ CmsInit /\ VaultInit /\ AchInit /\ OffInit
  BY DEF OfficeInit
<1> QED
  BY <1>1, DealSteps, BillingSteps, FileSteps, PTL
     DEF OfficeSpec, CommitteeSpec, RoundSpec, InvoiceSpec, CommissionSpec,
         CmsSpec, VaultSpec, AchSpec, OffSpec

-----------------------------------------------------------------------------
(* What the back_office run checks.                                        *)

\* Every variable of the office keeps its type.
THEOREM OfficeTypeCorrect == OfficeSpec => []OfficeTypeOK
<1>1. OfficeSpec => /\ []CommitteeTypeOK /\ []RoundTypeOK
                    /\ []InvoiceTypeOK /\ []CommissionTypeOK
                    /\ []CmsTypeOK /\ []VaultTypeOK /\ []AchTypeOK /\ []OffTypeOK
  BY OfficeRunsDesks, CommitteeTypeCorrect, RoundTypeCorrect, InvoiceTypeCorrect,
     CommissionTypeCorrect, CmsTypeCorrect, VaultTypeCorrect, AchTypeCorrect, OffTypeCorrect
<1>2. /\ CommitteeTypeOK /\ RoundTypeOK /\ InvoiceTypeOK /\ CommissionTypeOK
      /\ CmsTypeOK /\ VaultTypeOK /\ AchTypeOK /\ OffTypeOK
      => OfficeTypeOK
  BY DEF OfficeTypeOK
<1> QED
  BY <1>1, <1>2, PTL

\* What must hold of the office's rows at every moment, however requests overlap: the
\* tally agrees with the votes and both signoffs are announced, a window is announced
\* once per clearing of its flag, a refunded invoice is credited in full and a
\* commission paid on an approval, and a workflow reported complete has scrubbed, since
\* its deletion began, every row that was on record then.
THEOREM OfficeInvariants ==
  OfficeSpec => [](/\ StatusMatchesVotes /\ BothSignoffsNoticed
                   /\ AlertsAtMostOncePerReset
                   /\ RefundedInFull /\ PaidOnAuthority
                   /\ CompletedHasScrubbed)
BY OfficeRunsDesks, OneStory, SignoffsNoticed, AlertsBounded, RefundsComplete,
   PaymentsAuthorised, CompletedHaveScrubbed, PTL

\* What no request of the office does unless another changed the row it acts on since
\* it read it: leave the ballot, the book, the shelf, the hold or the mandate, or move a
\* commission backwards.  The book has one more exception, which needs no overlap: the
\* pay route takes a payment of a void or refunded invoice.
THEOREM OfficeRefinements ==
  OfficeSpec => /\ OnlyOverlapsBreakBallot
                /\ OnlyOverlapsAndRevivalsBreakBook
                /\ OnlyOverlapsBreakShelf
                /\ OnlyOverlapsBreakHold
                /\ OnlyOverlapsBreakMandate
                /\ CommissionMovesForward
BY OfficeRunsDesks, ReviewFollowsBallot, InvoiceFollowsBook, TemplatesFollowShelf,
   DocumentFollowsHold, AuthorizationFollowsMandate, CommissionsMoveForward

=============================================================================
