----------------------- MODULE SubmissionWindowProofs -----------------------
(***************************************************************************)
(* The safety properties of SubmissionWindow, for any number of requests   *)
(* and applications and any gates that are tracked.                        *)
(*                                                                         *)
(* A gate that answered yes held at that moment, and what holds at a moment*)
(* of the request is in held: WindowSound says both, and that is why the   *)
(* order of the six answers does not matter.                               *)
(***************************************************************************)
EXTENDS SubmissionWindow, ApplicationPipelineProofs

WindowSound ==
  /\ held \in [Req -> SUBSET Gate]
  /\ \A r \in Req : Submitting(r) =>
       /\ SatisfiedGates(r) \subseteq held[r]
       /\ Gate \ req[r].pending \subseteq held[r]

----------------------------------------------------------------------------
(* How a submission moves.                                                 *)

\* A request that has just begun waits for every gate; one that was under way
\* waits on, for no fewer gates than a passing answer explains.
SubmissionStep(r) ==
  \/ ~Submitting(r)'
  \/ ~Submitting(r) /\ req'[r].pending = Gate
  \/ Submitting(r) /\ req'[r] = req[r]
  \/ /\ Submitting(r)
     /\ \E g \in SatisfiedGates(r) : req'[r].pending = req[r].pending \ {g}

\* A slot whose request goes on to a record, or ends, is no longer submitting.
LEMMA ResumeEnds ==
  ASSUME TypeOK, NEW r \in Req, NEW k \in Kind \cup {"none"}, Resume(r, k)
  PROVE  ~Submitting(r)'
<1>1. k # "write"
  BY DEF Kind
<1>2. CASE k = "none"
  BY <1>2 DEF Resume, TypeOK, Submitting
<1>3. CASE k # "none" /\ req[r] # Idle
  BY <1>1, <1>3 DEF Resume, TypeOK, Submitting, Request
<1>4. CASE req[r] = Idle
  BY <1>1, <1>4 DEF Resume, TypeOK, Submitting, Request
<1> QED
  BY <1>2, <1>3, <1>4

\* A slot other than r is where it was, or submitting no more.
LEMMA OthersWait ==
  ASSUME NEW s \in Req, req'[s] = req[s]
  PROVE  SubmissionStep(s)
BY DEF SubmissionStep, Submitting

\* A slot that starts a request, with every gate to read or not for a submission.
LEMMA BeginSubmission ==
  ASSUME TypeOK, NEW r \in Req,
         NEW op, NEW a, NEW t, NEW u, NEW seen, NEW gates, NEW k,
         Begin(r, op, a, t, u, seen, gates, k),
         op \in {"put", "submit"} /\ t = "submitted" => gates = Gate
  PROVE  SubmissionStep(r)
<1>1. ~Submitting(r)
  BY DEF Begin, Submitting
<1>2. req'[r].op = op /\ req'[r].target = t /\ req'[r].pending = gates
  BY DEF Begin, TypeOK
<1> QED
  BY <1>1, <1>2 DEF SubmissionStep, Submitting

\* The answer of one gate: passed now, or the request is over.
LEMMA GateSubmission ==
  ASSUME TypeOK, NEW r \in Req, NEW g \in Gate, ReadGate(r, g)
  PROVE  SubmissionStep(r)
<1>1. req[r] \in Request
  BY DEF ReadGate, TypeOK
<1>2. CASE ~GatePassed(g, req[r].app)
  <2>1. req'[r] = Idle
    BY <1>2 DEF ReadGate, TypeOK
  <2> QED
    BY <2>1 DEF SubmissionStep, Submitting
<1>3. CASE GatePassed(g, req[r].app)
  <2>1. req'[r] = [req[r] EXCEPT !.pending = req[r].pending \ {g}]
    BY <1>3 DEF ReadGate, TypeOK
  <2>2. /\ req'[r].pending = req[r].pending \ {g}
        /\ req'[r].op = req[r].op
        /\ req'[r].target = req[r].target
        /\ req'[r].next = req[r].next
    BY <1>1, <2>1 DEF Request
  <2>3. g \in SatisfiedGates(r)
    BY <1>3 DEF SatisfiedGates
  <2>4. Submitting(r)' => Submitting(r)
    BY <2>2 DEF Submitting, ReadGate
  <2> QED
    BY <2>2, <2>3, <2>4 DEF SubmissionStep
<1> QED
  BY <1>2, <1>3

\* Every step of the pipeline moves every submission in one of these ways.
LEMMA NextSubmission ==
  ASSUME TypeOK, Next, NEW s \in Req
  PROVE  SubmissionStep(s)
<1>1. CASE UNCHANGED req
  BY <1>1, OthersWait
<1>2. ASSUME NEW r \in Req,
             \A t \in Req : t # r => req'[t] = req[t],
             SubmissionStep(r)
      PROVE  SubmissionStep(s)
  BY <1>2, OthersWait
<1>3. ASSUME NEW r \in Req, NEW a \in App, NEW cu \in BOOLEAN,
             CreateFromWizard(r, a, cu)
      PROVE  SubmissionStep(s)
  BY <1>2, <1>3, OtherSlots, BeginSubmission DEF CreateFromWizard
<1>4. ASSUME NEW r \in Req, NEW a \in App, ReadPatch(r, a)
      PROVE  SubmissionStep(s)
  BY <1>2, <1>4, OtherSlots, BeginSubmission DEF ReadPatch
<1>5. ASSUME NEW r \in Req, NEW k \in Kind \cup {"none"}, Resume(r, k)
      PROVE  SubmissionStep(s)
  BY <1>2, <1>5, OtherSlots, ResumeEnds DEF SubmissionStep
<1>6. ASSUME NEW r \in Req, NEW a \in App, NEW t \in Status,
             NEW u \in User \cup {NoUser}, ReadForTransition(r, a, t, u)
      PROVE  SubmissionStep(s)
  BY <1>2, <1>6, OtherSlots, BeginSubmission DEF ReadForTransition
<1>7. ASSUME NEW r \in Req, NEW a \in App, NEW u \in User, ReadForSubmit(r, a, u)
      PROVE  SubmissionStep(s)
  BY <1>2, <1>7, OtherSlots, BeginSubmission DEF ReadForSubmit
<1>8. ASSUME NEW r \in Req, NEW g \in Gate, ReadGate(r, g)
      PROVE  SubmissionStep(s)
  BY <1>2, <1>8, GateSubmission DEF ReadGate, TypeOK
<1>9. ASSUME NEW r \in Req, NEW a \in App, ReadForCancel(r, a)
      PROVE  SubmissionStep(s)
  BY <1>2, <1>9, OtherSlots, BeginSubmission DEF ReadForCancel
<1>10. ASSUME NEW r \in Req, NEW a \in App, NEW o \in {"won", "lost"},
              ResolveRecovery(r, a, o)
       PROVE  SubmissionStep(s)
  BY <1>1, <1>2, <1>10, OtherSlots, BeginSubmission DEF ResolveRecovery
<1>11. ASSUME NEW r \in Req, Abort(r)
       PROVE  SubmissionStep(s)
  BY <1>2, <1>11 DEF Abort, TypeOK, SubmissionStep, Submitting
<1>12. ASSUME NEW r \in Req,
              \/ WritePatch(r) \/ WriteTransition(r) \/ WriteSubmit(r)
              \/ AppendRecord(r) \/ WriteCancel(r) \/ WriteWon(r)
       PROVE  SubmissionStep(s)
  <2>1. \E k \in Kind \cup {"none"} : Resume(r, k)
    BY <1>12, RecordKinds DEF WritePatch, WriteTransition, WriteSubmit,
       AppendRecord, WriteCancel, WriteWon
  <2> QED
    BY <1>5, <2>1
<1>13. ASSUME \/ RecordsStep
              \/ \E a \in App, u \in User, cu \in BOOLEAN : CreateApplication(a, u, cu)
              \/ \E a \in App : CaptureConsent(a) \/ OpenRecovery(a)
              \/ \E a \in App, st \in Stage : AdvanceStage(a, st)
       PROVE  SubmissionStep(s)
  BY <1>1, <1>13 DEF RecordsStep, CreateApplication, CaptureConsent,
     OpenRecovery, AdvanceStage
<1> QED
  BY <1>3, <1>4, <1>6, <1>7, <1>8, <1>9, <1>10, <1>11, <1>12, <1>13 DEF Next

----------------------------------------------------------------------------
(* The gates of a submission.                                              *)

\* The window records every gate that has answered (WindowNext).
LEMMA WindowKept ==
  ASSUME TypeOK, WindowSound, WindowNext
  PROVE  WindowSound'
<1>1. \A r \in Req : SatisfiedGates(r)' \subseteq Gate
  BY DEF SatisfiedGates
<1>2. held' \in [Req -> SUBSET Gate]
  BY <1>1 DEF WindowNext, WindowSound
<1>3. ASSUME NEW r \in Req, Submitting(r)'
      PROVE  /\ SatisfiedGates(r)' \subseteq held'[r]
             /\ Gate \ req'[r].pending \subseteq held'[r]
  <2>1. held'[r] = (IF Submitting(r) THEN held[r] ELSE {}) \cup SatisfiedGates(r)'
    BY <1>3 DEF WindowNext
  <2>2. SubmissionStep(r)
    BY NextSubmission DEF WindowNext
  <2>3. CASE req'[r].pending = Gate
    BY <2>1, <2>3
  <2>4. CASE Submitting(r) /\ req'[r] = req[r]
    BY <2>1, <2>4 DEF WindowSound
  <2>5. ASSUME Submitting(r), NEW g \in SatisfiedGates(r),
               req'[r].pending = req[r].pending \ {g}
        PROVE  Gate \ req'[r].pending \subseteq held'[r]
    BY <2>1, <2>5 DEF WindowSound
  <2> QED
    BY <1>3, <2>1, <2>2, <2>3, <2>4, <2>5 DEF SubmissionStep
<1> QED
  BY <1>2, <1>3 DEF WindowSound

\* The window adds nothing to the pipeline: what is proved of Spec holds here.
THEOREM WindowOnlyWatches == WindowSpec => Spec
<1>1. WindowInit => Init
  BY DEF WindowInit
<1>2. [WindowNext]_windowVars => [Next]_vars
  BY DEF WindowNext, windowVars
<1> QED
  BY <1>1, <1>2, PTL DEF WindowSpec, Spec

\* The window is sound in every reachable state.
THEOREM WindowInvariant == WindowSpec => []WindowSound
<1>1. WindowInit => WindowSound
  BY DEF WindowInit, Init, WindowSound, Submitting
<1>2. TypeOK /\ WindowSound /\ [WindowNext]_windowVars => WindowSound'
  <2>1. SUFFICES ASSUME TypeOK, WindowSound, UNCHANGED windowVars
                 PROVE  WindowSound'
    BY WindowKept
  <2> QED
    BY <2>1 DEF windowVars, vars, rowVars, recordVars, WindowSound, Submitting,
       SatisfiedGates, GatePassed, SuitabilityPassed, KybPassed, OwnersVerified
<1> QED
  BY <1>1, <1>2, WindowOnlyWatches, TypeCorrect, PTL DEF WindowSpec

\* A request about to write 'submitted' has had every tracked gate satisfied at
\* some moment after it began, for any number of requests in flight
\* (ApplicationGateChecker.checkAll on both submit routes).
THEOREM GatesHeldInWindow == WindowSpec => []EveryGateHeldInWindow
<1>1. WindowSound => EveryGateHeldInWindow
  BY DEF WindowSound, EveryGateHeldInWindow
<1> QED
  BY <1>1, WindowInvariant, PTL

----------------------------------------------------------------------------
(* KYB before KYC.                                                         *)

\* Without a KYB check on file no owner is verified or being verified.
KybFirst ==
  kyb = "none" => kycRun = {} /\ \A o \in Owner : ownerKyc[o] # "verified"

\* No service goes back to having no KYB check, and verifyKyc starts with one.
LEMMA KybFirstKept ==
  ASSUME TypeOK, KybFirst, Next
  PROVE  KybFirst'
<1>1. CASE RecordsStep
  <2> USE DEF KybFirst, TypeOK, RecordsTypeOK
  <2>1. CASE UNCHANGED <<kyb, ownerKyc, kycRun>>
    BY <2>1
  <2>2. CASE \E k \in Kyb : VerifyKyb(k) \/ RunComplianceCheck(k)
    BY <2>2 DEF VerifyKyb, RunComplianceCheck
  <2>3. CASE ResolveClearedFindings
    BY <2>3 DEF ResolveClearedFindings
  <2>4. CASE \E o \in Owner, k \in Kyc : AddOwner(o, k)
    BY <2>4 DEF AddOwner
  <2>5. CASE \E o \in Owner : StartKyc(o)
    BY <2>5 DEF StartKyc
  <2>6. CASE \E o \in Owner, k \in Kyc : FinishKyc(o, k)
    BY <2>6 DEF FinishKyc
  <2>7. CASE \/ SignProductReality
             \/ \E c \in Channel : GrantConsent(c) \/ RevokeConsent(c)
             \/ \E v \in {"clear", "nogo", "hardnogo"} : RunSuitabilityCheck(v)
             \/ ApplyOverride
    BY <2>1, <2>7 DEF SignProductReality, GrantConsent, RevokeConsent,
       RunSuitabilityCheck, ApplyOverride
  <2> QED
    BY <1>1, <2>2, <2>3, <2>4, <2>5, <2>6, <2>7 DEF RecordsStep, RecordsNext
<1>2. CASE UNCHANGED recordVars
  BY <1>2 DEF recordVars, KybFirst
<1>3. Next => RecordsStep \/ UNCHANGED recordVars
  BY DEF Next, CreateApplication, CreateFromWizard, ReadPatch, WritePatch,
     CaptureConsent, ReadForTransition, ReadForSubmit, ReadGate, WriteTransition,
     WriteSubmit, AppendRecord, ReadForCancel, WriteCancel, OpenRecovery,
     AdvanceStage, ResolveRecovery, WriteWon, Abort
<1> QED
  BY <1>1, <1>2, <1>3

\* An owner is KYC-verified only for a business with a KYB check on file, for any
\* owners and however the two verifications interleave (verifyKyc).
THEOREM OwnersVerifiedAfterKyb == WindowSpec => []VerifiedOwnersHadKyb
<1>1. Init => KybFirst
  BY OnFileAssumption DEF Init, RecordsInit, KybFirst
<1>2. TypeOK /\ KybFirst /\ [Next]_vars => KybFirst'
  BY KybFirstKept DEF vars, recordVars, KybFirst
<1>3. KybFirst => VerifiedOwnersHadKyb
  BY DEF KybFirst, VerifiedOwnersHadKyb
<1> QED
  BY <1>1, <1>2, <1>3, WindowOnlyWatches, TypeCorrect, PTL DEF Spec

============================================================================
