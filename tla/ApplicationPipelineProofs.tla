--------------------- MODULE ApplicationPipelineProofs ---------------------
(***************************************************************************)
(* Type correctness of ApplicationPipeline and its three invariants, for   *)
(* any number of applications, users and requests in flight; what it takes *)
(* for the statements its code does not keep to hold; and, for requests    *)
(* that run one at a time, that it implements ApplicationLifecycle.        *)
(*                                                                         *)
(* The argument: what a request has found to be true when it read is never *)
(* taken back (Grows), so it is still true when the request writes.  An    *)
(* acknowledgment, a captured consent, a maker, a timestamp and a record   *)
(* of a created row only ever appear.  What each request has established   *)
(* so far is SoundRequest; with it the invariants become inductive.        *)
(***************************************************************************)
EXTENDS ApplicationPipeline, TLAPS

\* What every step keeps.
Grows ==
  /\ acked => acked'
  /\ \A a \in App :
       /\ status[a] # "none" => status'[a] # "none" /\ creator'[a] = creator[a]
       /\ consentAt[a] => consentAt'[a]
       /\ submittedAt[a] => submittedAt'[a]
       /\ decidedAt[a] => decidedAt'[a]
       /\ records[a] \subseteq records'[a]

\* A row that does not exist yet carries nothing.
BlankRows ==
  \A a \in App : status[a] = "none" =>
    approver[a] = NoUser /\ ~submittedAt[a] /\ recovery[a] = "none"

\* What a request that will write 'submitted' has established: the approver is
\* not the maker, and what the answered reads found.
SoundSubmission(q) ==
  q.op \in {"put", "submit"} /\ q.target = "submitted" /\ q.next = "write" =>
    /\ creator[q.app] # NoUser /\ q.approver # NoUser /\ q.approver # creator[q.app]
    /\ "acknowledgment" \in q.pending \/ acked
    /\ "consent_timestamp" \in q.pending \/ consentAt[q.app]

\* What a request that still has records to append has written before.
SoundRecord(q) ==
  /\ q.next \in {"audit.submitted", "application.submitted"} => submittedAt[q.app]
  /\ q.next \in {"decline_recovery.triggered", "card.declined",
                 "application.approved"} => decidedAt[q.app]
  /\ q.next = "card.declined" => "decline_recovery.triggered" \in records[q.app]

SoundRequest(q) ==
  /\ status[q.app] # "none"
  /\ q.op = "submit" => q.target = "submitted"
  /\ q.saw # NoUser => creator[q.app] # NoUser /\ q.saw # creator[q.app]
  /\ SoundSubmission(q)
  /\ SoundRecord(q)

SoundRequests == \A r \in Req : req[r] # Idle => SoundRequest(req[r])

\* The inductive invariant.
IInv ==
  /\ TypeOK
  /\ BlankRows
  /\ SoundRequests
  /\ SubmittedWithPrerequisites
  /\ FourEyes
  /\ LedgerSound

----------------------------------------------------------------------------
(* Types.                                                                  *)

\* Starting a request leaves every slot with a request or idle (Begin).
LEMMA BeginType ==
  ASSUME req \in [Req -> Request \cup {Idle}],
         NEW r \in Req, NEW a \in App, NEW t \in Status,
         NEW op \in {"put", "submit", "cancel", "patch", "resolve", "create"},
         NEW u \in User \cup {NoUser}, NEW seen \in User \cup {NoUser},
         NEW gates \in SUBSET Gate, NEW k \in {"write"} \cup Kind,
         Begin(r, op, a, t, u, seen, gates, k)
  PROVE  req' \in [Req -> Request \cup {Idle}]
BY DEF Begin, Request

\* Moving a request on to its next record, or freeing its slot (Resume).
LEMMA ResumeType ==
  ASSUME req \in [Req -> Request \cup {Idle}],
         NEW r \in Req, req[r] # Idle, NEW k \in Kind \cup {"none"},
         Resume(r, k)
  PROVE  req' \in [Req -> Request \cup {Idle}]
<1>1. req[r] \in Request
  OBVIOUS
<1>2. k # "none" => [req[r] EXCEPT !.next = k] \in Request
  BY <1>1 DEF Request
<1> QED
  BY <1>2 DEF Resume

\* The records a handler appends are ones the ledger and the audit log know.
LEMMA RecordKinds ==
  /\ \A op, t : FirstRecord(op, t) \in Kind \cup {"none"}
  /\ \A k : FollowingRecord(k) \in Kind \cup {"none"}
BY DEF FirstRecord, FollowingRecord, Kind

\* The services that write the compliance records keep their types.
LEMMA RecordsStepType ==
  ASSUME RecordsTypeOK, RecordsNext
  PROVE  RecordsTypeOK'
<1> USE DEF RecordsTypeOK, Suitability, Kyb, Kyc
<1>1. CASE SignProductReality
  BY <1>1 DEF SignProductReality
<1>2. CASE \E c \in Channel : GrantConsent(c)
  BY <1>2 DEF GrantConsent
<1>3. CASE \E c \in Channel : RevokeConsent(c)
  BY <1>3 DEF RevokeConsent
<1>4. CASE \E v \in {"clear", "nogo", "hardnogo"} : RunSuitabilityCheck(v)
  BY <1>4 DEF RunSuitabilityCheck
<1>5. CASE ApplyOverride
  BY <1>5 DEF ApplyOverride
<1>6. CASE \E s \in Kyb : VerifyKyb(s)
  BY <1>6 DEF VerifyKyb
<1>7. CASE \E l \in Kyb : RunComplianceCheck(l)
  BY <1>7 DEF RunComplianceCheck
<1>8. CASE ResolveClearedFindings
  BY <1>8 DEF ResolveClearedFindings
<1>9. CASE \E o \in Owner, k \in Kyc : AddOwner(o, k)
  BY <1>9 DEF AddOwner
<1>10. CASE \E o \in Owner : StartKyc(o)
  BY <1>10 DEF StartKyc
<1>11. CASE \E o \in Owner, k \in Kyc : FinishKyc(o, k)
  BY <1>11 DEF FinishKyc
<1> QED
  BY <1>1, <1>2, <1>3, <1>4, <1>5, <1>6, <1>7, <1>8, <1>9, <1>10, <1>11 DEF RecordsNext

LEMMA InitType == Init => TypeOK
<1> SUFFICES ASSUME Init PROVE TypeOK
  OBVIOUS
<1>1. RecordsTypeOK
  BY DEF Init, RecordsInit, RecordsTypeOK, Suitability, Kyb, Kyc
<1>2. req \in [Req -> Request \cup {Idle}] /\ records \in [App -> SUBSET Kind]
  BY DEF Init
<1> QED
  BY <1>1, <1>2 DEF Init, TypeOK

\* Every step of the pipeline keeps the types.
LEMMA NextType == ASSUME TypeOK, [Next]_vars PROVE TypeOK'
<1> USE DEF TypeOK
<1>1. CASE UNCHANGED vars
  BY <1>1 DEF vars, rowVars, recordVars, RecordsTypeOK
<1>2. CASE RecordsStep
  BY <1>2, RecordsStepType DEF RecordsStep, rowVars
<1>3. CASE Next /\ ~RecordsStep
  <2>0. UNCHANGED recordVars => RecordsTypeOK'
    BY DEF RecordsTypeOK, recordVars
  <2>1. ASSUME NEW a \in App, NEW u \in User, NEW cu \in BOOLEAN,
               CreateApplication(a, u, cu)
        PROVE  TypeOK'
    BY <2>1, <2>0 DEF CreateApplication, NewRow, Status
  <2>2. ASSUME NEW r \in Req, NEW a \in App, NEW cu \in BOOLEAN,
               CreateFromWizard(r, a, cu)
        PROVE  TypeOK'
    <3>1. req' \in [Req -> Request \cup {Idle}]
      BY <2>2, BeginType DEF CreateFromWizard, Kind, Status
    <3> QED
      BY <2>2, <2>0, <3>1 DEF CreateFromWizard, NewRow, Status
  <2>3. ASSUME NEW r \in Req, NEW a \in App, ReadPatch(r, a)
        PROVE  TypeOK'
    <3>1. req' \in [Req -> Request \cup {Idle}]
      BY <2>3, BeginType DEF ReadPatch, Status
    <3> QED
      BY <2>3, <2>0, <3>1 DEF ReadPatch, rowVars
  <2>4. ASSUME NEW r \in Req, WritePatch(r)
        PROVE  TypeOK'
    <3>1. req' \in [Req -> Request \cup {Idle}]
      BY <2>4, ResumeType DEF WritePatch, Writing
    <3> QED
      BY <2>4, <2>0, <3>1 DEF WritePatch
  <2>5. ASSUME NEW a \in App, CaptureConsent(a)
        PROVE  TypeOK'
    BY <2>5, <2>0 DEF CaptureConsent
  <2>6. ASSUME NEW r \in Req, NEW a \in App, NEW t \in Status,
               NEW u \in User \cup {NoUser}, ReadForTransition(r, a, t, u)
        PROVE  TypeOK'
    <3>1. req' \in [Req -> Request \cup {Idle}]
      <4>1. CASE t = "submitted"
        BY <2>6, <4>1, BeginType DEF ReadForTransition
      <4>2. CASE t # "submitted"
        BY <2>6, <4>2, BeginType DEF ReadForTransition
      <4> QED
        BY <4>1, <4>2
    <3> QED
      BY <2>6, <2>0, <3>1 DEF ReadForTransition, rowVars
  <2>7. ASSUME NEW r \in Req, NEW a \in App, NEW u \in User, ReadForSubmit(r, a, u)
        PROVE  TypeOK'
    <3>1. req' \in [Req -> Request \cup {Idle}]
      BY <2>7, BeginType DEF ReadForSubmit, Status
    <3> QED
      BY <2>7, <2>0, <3>1 DEF ReadForSubmit, rowVars
  <2>8. ASSUME NEW r \in Req, NEW g \in Gate, ReadGate(r, g)
        PROVE  TypeOK'
    <3>1. req[r] \in Request
      BY <2>8 DEF ReadGate
    <3>2. [req[r] EXCEPT !.pending = req[r].pending \ {g}] \in Request
      BY <3>1 DEF Request
    <3>3. req' \in [Req -> Request \cup {Idle}]
      BY <2>8, <3>2 DEF ReadGate
    <3> QED
      BY <2>8, <2>0, <3>3 DEF ReadGate, rowVars
  <2>9. ASSUME NEW r \in Req, WriteTransition(r)
        PROVE  TypeOK'
    <3>1. req[r] \in Request
      BY <2>9 DEF WriteTransition, Writing
    <3>2. req' \in [Req -> Request \cup {Idle}]
      BY <2>9, ResumeType, RecordKinds DEF WriteTransition, Writing
    <3> QED
      BY <2>9, <2>0, <3>1, <3>2 DEF WriteTransition, Request
  <2>10. ASSUME NEW r \in Req, WriteSubmit(r)
         PROVE  TypeOK'
    <3>1. req' \in [Req -> Request \cup {Idle}]
      BY <2>10, ResumeType, RecordKinds DEF WriteSubmit, Writing
    <3> QED
      BY <2>10, <2>0, <3>1 DEF WriteSubmit, Status
  <2>11. ASSUME NEW r \in Req, AppendRecord(r)
         PROVE  TypeOK'
    <3>1. req' \in [Req -> Request \cup {Idle}]
      BY <2>11, ResumeType, RecordKinds DEF AppendRecord
    <3> QED
      BY <2>11, <2>0, <3>1 DEF AppendRecord, rowVars
  <2>12. ASSUME NEW r \in Req, NEW a \in App, ReadForCancel(r, a)
         PROVE  TypeOK'
    <3>1. req' \in [Req -> Request \cup {Idle}]
      BY <2>12, BeginType DEF ReadForCancel, Status
    <3> QED
      BY <2>12, <2>0, <3>1 DEF ReadForCancel, rowVars
  <2>13. ASSUME NEW r \in Req, WriteCancel(r)
         PROVE  TypeOK'
    <3>1. req' \in [Req -> Request \cup {Idle}]
      BY <2>13, ResumeType DEF WriteCancel, Writing
    <3> QED
      BY <2>13, <2>0, <3>1 DEF WriteCancel, Status, Kind
  <2>14. ASSUME NEW a \in App, OpenRecovery(a)
         PROVE  TypeOK'
    BY <2>14, <2>0 DEF OpenRecovery, rowVars, Stage
  <2>15. ASSUME NEW a \in App, NEW st \in Stage, AdvanceStage(a, st)
         PROVE  TypeOK'
    BY <2>15, <2>0 DEF AdvanceStage, rowVars
  <2>16. ASSUME NEW r \in Req, NEW a \in App, NEW o \in {"won", "lost"},
                ResolveRecovery(r, a, o)
         PROVE  TypeOK'
    <3>1. req' \in [Req -> Request \cup {Idle}]
      BY <2>16, BeginType DEF ResolveRecovery, Status
    <3> QED
      BY <2>16, <2>0, <3>1 DEF ResolveRecovery, rowVars, Stage
  <2>17. ASSUME NEW r \in Req, WriteWon(r)
         PROVE  TypeOK'
    <3>1. req' \in [Req -> Request \cup {Idle}]
      BY <2>17, ResumeType DEF WriteWon, Writing
    <3> QED
      BY <2>17, <2>0, <3>1 DEF WriteWon, Status
  <2>18. ASSUME NEW r \in Req, Abort(r)
         PROVE  TypeOK'
    BY <2>18, <2>0 DEF Abort, rowVars
  <2> QED
    BY <1>3, <2>1, <2>2, <2>3, <2>4, <2>5, <2>6, <2>7, <2>8, <2>9, <2>10, <2>11,
       <2>12, <2>13, <2>14, <2>15, <2>16, <2>17, <2>18 DEF Next
<1> QED
  BY <1>1, <1>2, <1>3

\* Every reachable state of the pipeline is well typed, for any number of
\* applications, users and requests in flight.
THEOREM TypeCorrect == Spec => []TypeOK
<1>1. Init => TypeOK
  BY InitType
<1>2. TypeOK /\ [Next]_vars => TypeOK'
  BY NextType
<1> QED
  BY <1>1, <1>2, PTL DEF Spec

----------------------------------------------------------------------------
(* What a step keeps of the rows and of the requests.                      *)

\* The rows' part of the inductive invariant.
SoundRows ==
  /\ BlankRows
  /\ SubmittedWithPrerequisites
  /\ FourEyes
  /\ LedgerSound

\* A step that writes neither rows nor records, and does not lose the
\* acknowledgment, keeps what is said of them and grows (every read, every
\* gate, every aborted request).
LEMMA RowsKept ==
  ASSUME TypeOK, SoundRows, acked => acked', UNCHANGED <<rowVars, records>>,
         \A a \in App : status[a] = "none" => recovery'[a] = recovery[a]
  PROVE  SoundRows' /\ Grows
BY DEF SoundRows, BlankRows, SubmittedWithPrerequisites, FourEyes, LedgerSound,
       Grows, rowVars, TypeOK

\* A request that waits through a step stays sound when the step grows.
LEMMA RequestKept ==
  ASSUME TypeOK, Grows, NEW r \in Req, req[r] # Idle, SoundRequest(req[r]),
         req'[r] = req[r]
  PROVE  SoundRequest(req[r])'
<1>1. req[r].app \in App
  BY DEF TypeOK, Request
<1> QED
  BY <1>1 DEF Grows, SoundRequest, SoundSubmission, SoundRecord

\* The requests stay sound when each one waits, ends, or reaches a sound place.
LEMMA RequestsKept ==
  ASSUME TypeOK, SoundRequests, Grows,
         \A r \in Req : \/ req'[r] = req[r]
                       \/ req'[r] = Idle
                       \/ SoundRequest(req[r])'
  PROVE  SoundRequests'
<1>1. SUFFICES ASSUME NEW r \in Req, req'[r] # Idle
               PROVE  SoundRequest(req[r])'
  BY <1>1 DEF SoundRequests
<1>2. CASE req'[r] = req[r]
  BY <1>1, <1>2, RequestKept DEF SoundRequests
<1> QED
  BY <1>1, <1>2

\* Starting a request and resuming one change no other slot.
LEMMA OtherSlots ==
  ASSUME TypeOK, NEW r \in Req, NEW s \in Req, s # r
  PROVE  /\ \A op, a, t, u, seen, gates, k :
              Begin(r, op, a, t, u, seen, gates, k) => req'[s] = req[s]
         /\ \A k : Resume(r, k) => req'[s] = req[s]
BY DEF TypeOK, Begin, Resume

----------------------------------------------------------------------------
(* The inductive step, one action at a time.                               *)

\* Every step of the pipeline keeps the rows and the requests sound, and takes
\* nothing back.
LEMMA NextSound ==
  ASSUME TypeOK, SoundRows, SoundRequests, Next
  PROVE  SoundRows' /\ SoundRequests' /\ Grows
<1> DEFINE Goal == SoundRows' /\ SoundRequests' /\ Grows
<1>1. CASE RecordsStep
  <2>1. acked => acked'
    BY <1>1 DEF RecordsStep, RecordsNext, SignProductReality, GrantConsent,
       RevokeConsent, RunSuitabilityCheck, ApplyOverride, VerifyKyb,
       RunComplianceCheck, ResolveClearedFindings, AddOwner, StartKyc, FinishKyc
  <2> QED
    BY <1>1, <2>1, RowsKept, RequestsKept DEF RecordsStep
<1>2. CASE Next /\ ~RecordsStep
  <2>1. ASSUME NEW a \in App, NEW u \in User, NEW cu \in BOOLEAN,
               CreateApplication(a, u, cu)
        PROVE  Goal
    <3>1. Grows
      BY <2>1 DEF CreateApplication, NewRow, Grows, TypeOK, recordVars
    <3>2. SoundRows'
      BY <2>1 DEF CreateApplication, NewRow, TypeOK, recordVars, SoundRows,
         BlankRows, SubmittedWithPrerequisites, FourEyes, LedgerSound
    <3> QED
      BY <2>1, <3>1, <3>2, RequestsKept DEF CreateApplication
  <2>2. ASSUME NEW r \in Req, NEW a \in App, NEW cu \in BOOLEAN,
               CreateFromWizard(r, a, cu)
        PROVE  Goal
    <3>1. Grows
      BY <2>2 DEF CreateFromWizard, NewRow, Grows, TypeOK, recordVars
    <3>2. SoundRows'
      BY <2>2 DEF CreateFromWizard, NewRow, TypeOK, recordVars, SoundRows,
         BlankRows, SubmittedWithPrerequisites, FourEyes, LedgerSound
    <3>3. SoundRequest(req[r])'
      BY <2>2 DEF CreateFromWizard, NewRow, Begin, TypeOK,
         SoundRequest, SoundSubmission, SoundRecord
    <3> QED
      BY <2>2, <3>1, <3>2, <3>3, OtherSlots, RequestsKept DEF CreateFromWizard
  <2>3. ASSUME NEW r \in Req, NEW a \in App, ReadPatch(r, a)
        PROVE  Goal
    <3>1. SoundRows' /\ Grows
      BY <2>3, RowsKept DEF ReadPatch, recordVars
    <3>2. SoundRequest(req[r])'
      BY <2>3 DEF ReadPatch, Begin, rowVars, TypeOK, FourEyes, SoundRows,
         SoundRequest, SoundSubmission, SoundRecord
    <3> QED
      BY <2>3, <3>1, <3>2, OtherSlots, RequestsKept DEF ReadPatch
  <2>4. ASSUME NEW r \in Req, WritePatch(r)
        PROVE  Goal
    <3>0. req[r] \in Request /\ req[r] # Idle /\ SoundRequest(req[r])
      BY <2>4 DEF WritePatch, Writing, TypeOK, SoundRequests
    <3>1. Grows
      BY <2>4, <3>0 DEF WritePatch, Grows, TypeOK, Request, Status, recordVars
    <3>2. SoundRows'
      BY <2>4, <3>0 DEF WritePatch, Writing, TypeOK, Request, Status, recordVars,
         SoundRows, BlankRows, SubmittedWithPrerequisites, FourEyes, LedgerSound,
         SoundRequest, SoundSubmission, SoundRecord
    <3>3. req'[r] = Idle \/ SoundRequest(req[r])'
      BY <2>4, <3>0 DEF WritePatch, Writing, Resume, TypeOK, Request, recordVars,
         SoundRequest, SoundSubmission, SoundRecord, FirstRecord
    <3> QED
      BY <2>4, <3>1, <3>2, <3>3, OtherSlots, RequestsKept DEF WritePatch
  <2>5. ASSUME NEW a \in App, CaptureConsent(a)
        PROVE  Goal
    <3>1. Grows
      BY <2>5 DEF CaptureConsent, Grows, TypeOK, recordVars
    <3>2. SoundRows'
      BY <2>5 DEF CaptureConsent, TypeOK, recordVars, SoundRows, BlankRows,
         SubmittedWithPrerequisites, FourEyes, LedgerSound
    <3> QED
      BY <2>5, <3>1, <3>2, RequestsKept DEF CaptureConsent
  <2>6. ASSUME NEW r \in Req, NEW a \in App, NEW t \in Status,
               NEW u \in User \cup {NoUser}, ReadForTransition(r, a, t, u)
        PROVE  Goal
    <3>1. SoundRows' /\ Grows
      BY <2>6, RowsKept DEF ReadForTransition, recordVars
    <3>2. SoundRequest(req[r])'
      BY <2>6, GateAssumption DEF ReadForTransition, Begin, rowVars, TypeOK, FourEyes, SoundRows,
         SoundRequest, SoundSubmission, SoundRecord, GateAssumption, MakerChecker
    <3> QED
      BY <2>6, <3>1, <3>2, OtherSlots, RequestsKept DEF ReadForTransition
  <2>7. ASSUME NEW r \in Req, NEW a \in App, NEW u \in User,
               ReadForSubmit(r, a, u)
        PROVE  Goal
    <3>1. SoundRows' /\ Grows
      BY <2>7, RowsKept DEF ReadForSubmit, recordVars
    <3>2. SoundRequest(req[r])'
      BY <2>7, GateAssumption DEF ReadForSubmit, Begin, rowVars, TypeOK, FourEyes, SoundRows,
         SoundRequest, SoundSubmission, SoundRecord, GateAssumption, MakerChecker
    <3> QED
      BY <2>7, <3>1, <3>2, OtherSlots, RequestsKept DEF ReadForSubmit
  <2>8. ASSUME NEW r \in Req, NEW g \in Gate, ReadGate(r, g)
        PROVE  Goal
    <3>1. SoundRows' /\ Grows
      BY <2>8, RowsKept DEF ReadGate, recordVars
    <3>2. req[r] \in Request /\ SoundRequest(req[r])
      BY <2>8 DEF ReadGate, TypeOK, SoundRequests
    <3>3. CASE GatePassed(g, req[r].app)
      <4>1. req'[r] = [req[r] EXCEPT !.pending = req[r].pending \ {g}]
        BY <2>8, <3>3 DEF ReadGate, TypeOK
      <4>2. /\ req'[r].app = req[r].app /\ req'[r].op = req[r].op
            /\ req'[r].target = req[r].target /\ req'[r].next = req[r].next
            /\ req'[r].approver = req[r].approver /\ req'[r].saw = req[r].saw
            /\ req'[r].pending = req[r].pending \ {g}
        BY <3>2, <4>1 DEF Request
      <4>3. /\ g = "acknowledgment" => acked
            /\ g = "consent_timestamp" => consentAt[req[r].app]
        BY <3>3 DEF GatePassed
      <4>4. SoundRequest(req[r])'
        BY <2>8, <3>2, <4>2, <4>3 DEF ReadGate, rowVars, recordVars,
           SoundRequest, SoundSubmission, SoundRecord
      <4> QED
        BY <2>8, <3>1, <4>4, RequestsKept DEF ReadGate, TypeOK
    <3>4. CASE ~GatePassed(g, req[r].app)
      BY <2>8, <3>1, <3>4, RequestsKept DEF ReadGate, TypeOK
    <3> QED
      BY <3>3, <3>4
  <2>9. ASSUME NEW r \in Req, WriteTransition(r)
        PROVE  Goal
    <3>0. req[r] \in Request /\ req[r] # Idle /\ SoundRequest(req[r])
      BY <2>9 DEF WriteTransition, Writing, TypeOK, SoundRequests
    <3>1. Grows
      BY <2>9, <3>0 DEF WriteTransition, Grows, TypeOK, Request, Status, recordVars
    <3>2. SoundRows'
      BY <2>9, <3>0 DEF WriteTransition, Writing, TypeOK, Request, Status, recordVars,
         SoundRows, BlankRows, SubmittedWithPrerequisites, FourEyes, LedgerSound,
         SoundRequest, SoundSubmission, SoundRecord
    <3>3. req'[r] = Idle \/ SoundRequest(req[r])'
      BY <2>9, <3>0 DEF WriteTransition, Writing, Resume, TypeOK, Request, recordVars,
         SoundRequest, SoundSubmission, SoundRecord, FirstRecord
    <3> QED
      BY <2>9, <3>1, <3>2, <3>3, OtherSlots, RequestsKept DEF WriteTransition
  <2>10. ASSUME NEW r \in Req, WriteSubmit(r)
        PROVE  Goal
    <3>0. req[r] \in Request /\ req[r] # Idle /\ SoundRequest(req[r])
      BY <2>10 DEF WriteSubmit, Writing, TypeOK, SoundRequests
    <3>1. Grows
      BY <2>10, <3>0 DEF WriteSubmit, Grows, TypeOK, Request, Status, recordVars
    <3>2. SoundRows'
      BY <2>10, <3>0 DEF WriteSubmit, Writing, TypeOK, Request, Status, recordVars,
         SoundRows, BlankRows, SubmittedWithPrerequisites, FourEyes, LedgerSound,
         SoundRequest, SoundSubmission, SoundRecord
    <3>3. req'[r] = Idle \/ SoundRequest(req[r])'
      BY <2>10, <3>0 DEF WriteSubmit, Writing, Resume, TypeOK, Request, recordVars,
         SoundRequest, SoundSubmission, SoundRecord, FirstRecord
    <3> QED
      BY <2>10, <3>1, <3>2, <3>3, OtherSlots, RequestsKept DEF WriteSubmit
  <2>11. ASSUME NEW r \in Req, AppendRecord(r)
        PROVE  Goal
    <3>0. req[r] \in Request /\ req[r] # Idle /\ SoundRequest(req[r])
      BY <2>11 DEF AppendRecord, TypeOK, SoundRequests
    <3>1. Grows
      BY <2>11, <3>0 DEF AppendRecord, Grows, rowVars, TypeOK, Request, Status, recordVars
    <3>2. SoundRows'
      BY <2>11, <3>0 DEF AppendRecord, rowVars, Kind, TypeOK, Request, recordVars,
         SoundRows, BlankRows, SubmittedWithPrerequisites, FourEyes, LedgerSound,
         SoundRequest, SoundSubmission, SoundRecord
    <3>3. req'[r] = Idle \/ SoundRequest(req[r])'
      BY <2>11, <3>0 DEF AppendRecord, Resume, TypeOK, Request, recordVars,
         SoundRequest, SoundSubmission, SoundRecord, FollowingRecord, Kind, rowVars
    <3> QED
      BY <2>11, <3>1, <3>2, <3>3, OtherSlots, RequestsKept DEF AppendRecord
  <2>12. ASSUME NEW r \in Req, NEW a \in App, ReadForCancel(r, a)
        PROVE  Goal
    <3>1. SoundRows' /\ Grows
      BY <2>12, RowsKept DEF ReadForCancel, recordVars
    <3>2. SoundRequest(req[r])'
      BY <2>12 DEF ReadForCancel, Begin, rowVars, TypeOK, FourEyes, SoundRows,
         SoundRequest, SoundSubmission, SoundRecord
    <3> QED
      BY <2>12, <3>1, <3>2, OtherSlots, RequestsKept DEF ReadForCancel
  <2>13. ASSUME NEW r \in Req, WriteCancel(r)
        PROVE  Goal
    <3>0. req[r] \in Request /\ req[r] # Idle /\ SoundRequest(req[r])
      BY <2>13 DEF WriteCancel, Writing, TypeOK, SoundRequests
    <3>1. Grows
      BY <2>13, <3>0 DEF WriteCancel, Grows, TypeOK, Request, Status, recordVars
    <3>2. SoundRows'
      BY <2>13, <3>0 DEF WriteCancel, Writing, TypeOK, Request, Status, recordVars,
         SoundRows, BlankRows, SubmittedWithPrerequisites, FourEyes, LedgerSound,
         SoundRequest, SoundSubmission, SoundRecord
    <3>3. req'[r] = Idle \/ SoundRequest(req[r])'
      BY <2>13, <3>0 DEF WriteCancel, Writing, Resume, TypeOK, Request, recordVars,
         SoundRequest, SoundSubmission, SoundRecord
    <3> QED
      BY <2>13, <3>1, <3>2, <3>3, OtherSlots, RequestsKept DEF WriteCancel
  <2>14. ASSUME NEW a \in App, OpenRecovery(a)
         PROVE  Goal
    BY <2>14, RowsKept, RequestsKept DEF OpenRecovery, recordVars, TypeOK
  <2>15. ASSUME NEW a \in App, NEW st \in Stage, AdvanceStage(a, st)
         PROVE  Goal
    <3>1. SoundRows' /\ Grows
      BY <2>15, RowsKept DEF AdvanceStage, recordVars, TypeOK, SoundRows, BlankRows
    <3> QED
      BY <2>15, <3>1, RequestsKept DEF AdvanceStage
  <2>16. ASSUME NEW r \in Req, NEW a \in App, NEW o \in {"won", "lost"},
                ResolveRecovery(r, a, o)
         PROVE  Goal
    <3>1. status[a] # "none"
      BY <2>16 DEF ResolveRecovery, SoundRows, BlankRows
    <3>2. SoundRows' /\ Grows
      BY <2>16, <3>1, RowsKept DEF ResolveRecovery, recordVars, TypeOK
    <3>3. SoundRequest(req[r])' \/ UNCHANGED req
      BY <2>16, <3>1 DEF ResolveRecovery, Begin, rowVars, TypeOK,
         SoundRequest, SoundSubmission, SoundRecord
    <3> QED
      BY <2>16, <3>2, <3>3, OtherSlots, RequestsKept DEF ResolveRecovery
  <2>17. ASSUME NEW r \in Req, WriteWon(r)
        PROVE  Goal
    <3>0. req[r] \in Request /\ req[r] # Idle /\ SoundRequest(req[r])
      BY <2>17 DEF WriteWon, Writing, TypeOK, SoundRequests
    <3>1. Grows
      BY <2>17, <3>0 DEF WriteWon, Grows, TypeOK, Request, Status, recordVars
    <3>2. SoundRows'
      BY <2>17, <3>0 DEF WriteWon, Writing, TypeOK, Request, Status, recordVars,
         SoundRows, BlankRows, SubmittedWithPrerequisites, FourEyes, LedgerSound,
         SoundRequest, SoundSubmission, SoundRecord
    <3>3. req'[r] = Idle \/ SoundRequest(req[r])'
      BY <2>17, <3>0 DEF WriteWon, Writing, Resume, TypeOK, Request, recordVars,
         SoundRequest, SoundSubmission, SoundRecord
    <3> QED
      BY <2>17, <3>1, <3>2, <3>3, OtherSlots, RequestsKept DEF WriteWon
  <2>18. ASSUME NEW r \in Req, Abort(r)
         PROVE  Goal
    <3>1. SoundRows' /\ Grows
      BY <2>18, RowsKept DEF Abort, recordVars
    <3> QED
      BY <2>18, <3>1, RequestsKept DEF Abort, TypeOK
  <2> QED
    BY <1>2, <2>1, <2>2, <2>3, <2>4, <2>5, <2>6, <2>7, <2>8, <2>9, <2>10, <2>11,
       <2>12, <2>13, <2>14, <2>15, <2>16, <2>17, <2>18 DEF Next
<1> QED
  BY <1>1, <1>2

\* The inductive invariant holds in every reachable state.
THEOREM InductiveInvariant == Spec => []IInv
<1>1. Init => IInv
  BY InitType DEF Init, RecordsInit, IInv, BlankRows, SoundRequests,
     SubmittedWithPrerequisites, FourEyes, LedgerSound
<1>2. IInv /\ [Next]_vars => IInv'
  <2> SUFFICES ASSUME IInv, [Next]_vars PROVE IInv'
    OBVIOUS
  <2>1. TypeOK'
    BY NextType DEF IInv
  <2>2. CASE Next
    BY <2>1, <2>2, NextSound DEF IInv, SoundRows
  <2>3. CASE UNCHANGED vars
    <3>1. UNCHANGED <<acked, rowVars, recovery, records, req>>
      BY <2>3 DEF vars, recordVars
    <3> QED
      BY <2>1, <3>1, RowsKept, RequestsKept DEF IInv, SoundRows
  <2> QED
    BY <2>2, <2>3
<1> QED
  BY <1>1, <1>2, PTL DEF Spec

----------------------------------------------------------------------------
(* What follows.                                                           *)

\* No interleaving of requests leaves a submitted application without an
\* acknowledgment, a captured consent and a maker.
THEOREM SubmissionPrerequisites == Spec => []SubmittedWithPrerequisites
<1>1. IInv => SubmittedWithPrerequisites
  BY DEF IInv
<1> QED
  BY <1>1, InductiveInvariant, PTL

\* No interleaving of requests, and no metadata written back from an earlier
\* read, records the maker as the approver.
THEOREM MakerIsNeverApprover == Spec => []FourEyes
<1>1. IInv => FourEyes
  BY DEF IInv
<1> QED
  BY <1>1, InductiveInvariant, PTL

\* A record of a submission or a decision is never ahead of the row, and a
\* declined event never ahead of its recovery trigger.
THEOREM LedgerNeverAhead == Spec => []LedgerSound
<1>1. IInv => LedgerSound
  BY DEF IInv
<1> QED
  BY <1>1, InductiveInvariant, PTL

\* No step takes back an acknowledgment, or a consent, a maker, a timestamp or a
\* record of an application that exists: why what a request read is still true
\* when it writes.
THEOREM NothingTakenBack == Spec => [][Grows]_vars
<1>1. IInv /\ [Next]_vars => [Grows]_vars
  BY NextSound DEF IInv, SoundRows
<1> QED
  BY <1>1, InductiveInvariant, PTL DEF Spec

----------------------------------------------------------------------------
(* Granted limits.  The database keeps a row with a granted limit approved *)
(* by refusing writes; the write that refuses nothing, a recovery won,     *)
(* only ever approves.                                                     *)

\* The CHECK constraint approved_limit_requires_approval, as a state predicate.
LimitRequiresApproval == \A a \in App : granted[a] => status[a] = "approved"

\* A step that leaves granted limits alone, and the status of the rows that have one.
LEMMA LimitsKept ==
  ASSUME LimitRequiresApproval, UNCHANGED granted,
         \A a \in App : status'[a] = status[a] \/ status'[a] = "approved" \/ ~granted[a]
  PROVE  LimitRequiresApproval'
BY DEF LimitRequiresApproval

LEMMA LimitsStep ==
  ASSUME TypeOK, BlankRows, LimitRequiresApproval,
         \A a \in App : status[a] = "none" => ~granted[a],
         [Next]_vars
  PROVE  /\ LimitRequiresApproval'
         /\ \A a \in App : granted[a] => granted'[a]
         /\ \A a \in App : status'[a] = "none" => ~granted'[a]
<1> DEFINE Goal == /\ LimitRequiresApproval'
                   /\ \A a \in App : granted[a] => granted'[a]
                   /\ \A a \in App : status'[a] = "none" => ~granted'[a]
<1>1. CASE UNCHANGED <<status, granted>>
  BY <1>1 DEF LimitRequiresApproval
<1>2. ASSUME NEW a \in App, NEW u \in User \cup {NoUser}, NEW cu \in BOOLEAN, NewRow(a, u, cu)
      PROVE  Goal
  <2>1. /\ status[a] = "none" /\ status'[a] = "draft" /\ granted' = granted
        /\ \A x \in App : x # a => status'[x] = status[x]
    BY <1>2 DEF NewRow, TypeOK
  <2> QED
    BY <2>1, LimitsKept
<1>3. ASSUME NEW r \in Req, WriteTransition(r)
      PROVE  Goal
  <2> DEFINE a == req[r].app
             t == req[r].target
  <2>1. a \in App /\ t \in Status /\ (granted[a] => t = "approved")
    BY <1>3 DEF WriteTransition, Writing, Permitted, TypeOK, Request
  <2>2. PICK limit \in BOOLEAN : /\ limit => t = "approved"
                                 /\ granted' = [granted EXCEPT ![a] = @ \/ limit]
    BY <1>3 DEF WriteTransition
  <2>3. /\ status'[a] = t
        /\ \A x \in App : x # a => status'[x] = status[x]
    BY <1>3, <2>1 DEF WriteTransition, TypeOK
  <2>4. /\ granted'[a] = (granted[a] \/ limit)
        /\ \A x \in App : x # a => granted'[x] = granted[x]
    BY <2>1, <2>2 DEF TypeOK
  <2>5. t # "none"
    BY <2>1 DEF Status
  <2> HIDE DEF a, t
  <2> QED
    BY <2>1, <2>2, <2>3, <2>4, <2>5 DEF LimitRequiresApproval
<1>4. ASSUME NEW r \in Req, WriteSubmit(r) \/ WriteCancel(r)
      PROVE  Goal
  <2>1. req[r].app \in App /\ ~granted[req[r].app] /\ granted' = granted
    BY <1>4 DEF WriteSubmit, WriteCancel, Writing, Permitted, TypeOK, Request
  <2>2. \A x \in App : x # req[r].app => status'[x] = status[x]
    BY <1>4, <2>1 DEF WriteSubmit, WriteCancel, TypeOK
  <2> QED
    BY <2>1, <2>2 DEF LimitRequiresApproval
<1>5. ASSUME NEW r \in Req, WriteWon(r)
      PROVE  Goal
  <2>1. /\ req[r].app \in App /\ granted' = granted
        /\ status' = [status EXCEPT ![req[r].app] = "approved"]
    BY <1>5 DEF WriteWon, Writing, TypeOK, Request
  <2>2. \A x \in App : status'[x] = status[x] \/ status'[x] = "approved"
    BY <2>1 DEF TypeOK
  <2> QED
    BY <2>1, <2>2, LimitsKept
<1>6. CASE \/ RecordsStep
           \/ \E a \in App : CaptureConsent(a) \/ OpenRecovery(a) \/ \E st \in Stage : AdvanceStage(a, st)
           \/ \E r \in Req : \/ WritePatch(r) \/ AppendRecord(r) \/ Abort(r)
                             \/ \E g \in Gate : ReadGate(r, g)
           \/ \E r \in Req, a \in App :
                \/ ReadPatch(r, a) \/ ReadForCancel(r, a)
                \/ \E t \in Status, u \in User \cup {NoUser} : ReadForTransition(r, a, t, u)
                \/ \E u \in User : ReadForSubmit(r, a, u)
                \/ \E o \in {"won", "lost"} : ResolveRecovery(r, a, o)
  <2> UNCHANGED <<status, granted>>
    BY <1>6 DEF RecordsStep, CaptureConsent, OpenRecovery, AdvanceStage, WritePatch,
       AppendRecord, Abort, ReadGate, ReadPatch, ReadForCancel, ReadForTransition,
       ReadForSubmit, ResolveRecovery, rowVars
  <2> QED
    BY <1>1
<1>7. CASE UNCHANGED vars
  BY <1>1, <1>7 DEF vars, rowVars
<1> QED
  BY <1>2, <1>3, <1>4, <1>5, <1>6, <1>7 DEF Next, CreateApplication, CreateFromWizard

\* Whatever requests overlap, an application once granted a limit keeps it and is
\* approved from then on: no decline, no resubmission and no cancellation reaches it
\* (approved_limit_requires_approval against every writer of the status).
THEOREM GrantedStaysApproved ==
  Spec => []LimitRequiresApproval /\ [][\A a \in App : granted[a] => granted'[a]]_vars
<1> DEFINE Inv == LimitRequiresApproval /\ \A a \in App : status[a] = "none" => ~granted[a]
<1>1. Init => Inv
  BY DEF Init, LimitRequiresApproval
<1>2. IInv /\ Inv /\ [Next]_vars => Inv' /\ [\A a \in App : granted[a] => granted'[a]]_vars
  BY LimitsStep DEF IInv
<1>3. Inv => LimitRequiresApproval
  OBVIOUS
<1> HIDE DEF Inv
<1> QED
  BY <1>1, <1>2, <1>3, InductiveInvariant, PTL DEF Spec

----------------------------------------------------------------------------
(* Decisions on the ledger.  DecisionsLedgered fails in two ways, and in   *)
(* no other: a request dies between its status write and its event, or a   *)
(* recovery is resolved, which publishes nothing.                          *)

\* No request ends before the record it was about to append is there.
RecordsSurvive ==
  \A r \in Req :
    req[r] # Idle /\ req[r].next \in Kind /\ req'[r] = Idle
      => req[r].next \in records'[req[r].app]

\* A request has yet to append record k of application a.
Owed(a, k) == \E r \in Req : req[r] # Idle /\ req[r].app = a /\ req[r].next = k

\* A decision has its record or a request that owes it; so has a recovery trigger
\* the event that follows it.
DecisionsAccounted ==
  \A a \in App :
    /\ status[a] = "approved" =>
         "application.approved" \in records[a] \/ Owed(a, "application.approved")
    /\ status[a] = "declined" =>
         \/ "decline_recovery.triggered" \in records[a]
         \/ Owed(a, "decline_recovery.triggered")
    /\ "decline_recovery.triggered" \in records[a] =>
         "card.declined" \in records[a] \/ Owed(a, "card.declined")

\* What a step of another slot owed before it owes still.
LEMMA OwedKept ==
  ASSUME NEW r \in Req, NEW a \in App, NEW k \in Kind,
         \A x \in Req : x # r => req'[x] = req[x],
         Owed(a, k), req[r] = Idle \/ req[r].app # a \/ req[r].next # k
  PROVE  Owed(a, k)'
BY DEF Owed

\* A step keeps the account if it decides nothing and its slot, if it owed a record,
\* still does or has left it.
LEMMA AccountKept ==
  ASSUME TypeOK, DecisionsAccounted, NEW r \in Req,
         \A x \in Req : x # r => req'[x] = req[x],
         \A a \in App : /\ status'[a] \in {"approved", "declined"} => status'[a] = status[a]
                        /\ records[a] \subseteq records'[a]
                        /\ "decline_recovery.triggered" \in records'[a] \ records[a]
                             => Owed(a, "card.declined")',
         req[r] = Idle \/ req[r].next \notin Kind \/ req[r].next \in records'[req[r].app]
  PROVE  DecisionsAccounted'
<1>1. ASSUME NEW a \in App, NEW k \in Kind, k \in records[a] \/ Owed(a, k)
      PROVE  k \in records'[a] \/ Owed(a, k)'
  BY <1>1, OwedKept
<1>2. {"application.approved", "decline_recovery.triggered", "card.declined"} \subseteq Kind
  BY DEF Kind
<1> QED
  BY <1>1, <1>2 DEF DecisionsAccounted

LEMMA AccountStep ==
  ASSUME TypeOK, "resolve" \notin Ops, DecisionsAccounted,
         \A r \in Req : req[r] # Idle => req[r].op # "resolve",
         [Next]_vars, [RecordsSurvive]_vars
  PROVE  /\ DecisionsAccounted'
         /\ \A r \in Req : req'[r] # Idle => req'[r].op # "resolve"
<1> DEFINE NoneResolves == \A r \in Req : req'[r] # Idle => req'[r].op # "resolve"
           Goal == DecisionsAccounted' /\ NoneResolves
<1> SUFFICES Goal
  OBVIOUS
<1>1. CASE UNCHANGED <<status, req, records>>
  BY <1>1 DEF DecisionsAccounted, Owed
<1>2. CASE \E a \in App : \/ \E u \in User, cu \in BOOLEAN : CreateApplication(a, u, cu)
                          \/ CaptureConsent(a) \/ OpenRecovery(a)
                          \/ \E st \in Stage : AdvanceStage(a, st)
  <2>1. UNCHANGED <<req, records>>
    BY <1>2 DEF CreateApplication, CaptureConsent, OpenRecovery, AdvanceStage
  <2>2. \A a \in App : status'[a] \in {"approved", "declined"} => status'[a] = status[a]
    BY <1>2 DEF CreateApplication, NewRow, CaptureConsent, OpenRecovery, AdvanceStage, rowVars,
       TypeOK
  <2> QED
    BY <2>1, <2>2 DEF DecisionsAccounted, Owed
<1>3. ASSUME NEW r \in Req, NEW a \in App,
             \/ \E cu \in BOOLEAN : CreateFromWizard(r, a, cu)
             \/ ReadPatch(r, a) \/ ReadForCancel(r, a)
             \/ \E t \in Status, u \in User \cup {NoUser} : ReadForTransition(r, a, t, u)
             \/ \E u \in User : ReadForSubmit(r, a, u)
      PROVE  Goal
  <2>1. /\ req[r] = Idle /\ req'[r].op # "resolve"
        /\ \A x \in Req : x # r => req'[x] = req[x]
    BY <1>3 DEF CreateFromWizard, ReadPatch, ReadForCancel, ReadForTransition, ReadForSubmit,
       Begin, TypeOK
  <2>2. /\ records' = records
        /\ \A x \in App : status'[x] \in {"approved", "declined"} => status'[x] = status[x]
    BY <1>3 DEF CreateFromWizard, NewRow, ReadPatch, ReadForCancel, ReadForTransition,
       ReadForSubmit, rowVars, TypeOK
  <2>3. DecisionsAccounted'
    BY <2>1, <2>2, AccountKept
  <2> QED
    BY <2>1, <2>3
<1>4. ASSUME NEW r \in Req, WritePatch(r) \/ WriteSubmit(r) \/ WriteCancel(r)
      PROVE  Goal
  <2>1. req[r] # Idle /\ req[r] \in Request /\ req[r].next = "write"
    BY <1>4 DEF WritePatch, WriteSubmit, WriteCancel, Writing, TypeOK
  <2>2. /\ \A x \in Req : x # r => req'[x] = req[x]
        /\ req'[r] # Idle => req'[r].op = req[r].op
    BY <1>4, <2>1 DEF WritePatch, WriteSubmit, WriteCancel, Resume, TypeOK, Request
  <2>3. \A x \in App :
          /\ status'[x] \in {"approved", "declined"} => status'[x] = status[x]
          /\ records[x] \subseteq records'[x]
          /\ "decline_recovery.triggered" \notin records'[x] \ records[x]
    BY <1>4 DEF WritePatch, WriteSubmit, WriteCancel, TypeOK
  <2>4. DecisionsAccounted'
    BY <2>1, <2>2, <2>3, AccountKept DEF Kind
  <2> QED
    BY <2>1, <2>2, <2>4
<1>5. ASSUME NEW r \in Req, WriteTransition(r)
      PROVE  Goal
  <2>1. req[r] # Idle /\ req[r] \in Request /\ req[r].next = "write"
    BY <1>5 DEF WriteTransition, Writing, TypeOK
  <2>2. PICK a \in App, t \in Status : a = req[r].app /\ t = req[r].target
    BY <2>1 DEF Request
  <2>3. /\ \A x \in Req : x # r => req'[x] = req[x]
        /\ req'[r] = IF FirstRecord("put", t) = "none" THEN Idle
                     ELSE [req[r] EXCEPT !.next = FirstRecord("put", t)]
        /\ req'[r] # Idle => req'[r].op = req[r].op
    BY <1>5, <2>1, <2>2 DEF WriteTransition, Resume, TypeOK, Request
  <2>4. /\ status'[a] = t /\ records' = records
        /\ \A x \in App : x # a => status'[x] = status[x]
    BY <1>5, <2>2 DEF WriteTransition, TypeOK
  <2>5. ASSUME NEW x \in App, NEW k \in Kind, Owed(x, k)
        PROVE  Owed(x, k)'
    BY <2>1, <2>3, <2>5, OwedKept DEF Kind
  <2>6. {"application.approved", "decline_recovery.triggered", "card.declined"} \subseteq Kind
    BY DEF Kind
  <2>7. ASSUME NEW k \in Kind, FirstRecord("put", t) = k
        PROVE  Owed(a, k)'
    <3>1. k # "none"
      BY DEF Kind
    <3>2. req'[r] = [req[r] EXCEPT !.next = k]
      BY <2>3, <2>7, <3>1
    <3>3. req'[r] \in Request /\ req'[r].app = a /\ req'[r].next = k
      BY <2>1, <2>2, <3>2 DEF Request
    <3> QED
      BY <3>3, IdleAssumption DEF Owed
  <2>8. /\ t = "approved" => Owed(a, "application.approved")'
        /\ t = "declined" => Owed(a, "decline_recovery.triggered")'
    BY <2>6, <2>7 DEF FirstRecord
  <2>9. DecisionsAccounted'
    BY <2>4, <2>5, <2>6, <2>8 DEF DecisionsAccounted
  <2> QED
    BY <1>5, <2>1, <2>3, <2>9
<1>6. ASSUME NEW r \in Req, AppendRecord(r)
      PROVE  Goal
  <2>1. req[r] # Idle /\ req[r] \in Request
    BY <1>6 DEF AppendRecord, TypeOK
  <2>2. PICK a \in App, k \in Kind : a = req[r].app /\ k = req[r].next
    BY <1>6, <2>1 DEF AppendRecord, Request
  <2>3. /\ \A x \in Req : x # r => req'[x] = req[x]
        /\ req'[r] = IF FollowingRecord(k) = "none" THEN Idle
                     ELSE [req[r] EXCEPT !.next = FollowingRecord(k)]
        /\ req'[r] # Idle => req'[r].op = req[r].op
    BY <1>6, <2>1, <2>2 DEF AppendRecord, Resume, TypeOK, Request
  <2>4. /\ status' = status
        /\ records' = [records EXCEPT ![a] = @ \cup {k}]
    BY <1>6, <2>2 DEF AppendRecord, rowVars
  <2>5. \A x \in App : /\ records[x] \subseteq records'[x]
                       /\ records'[x] \ records[x] \subseteq IF x = a THEN {k} ELSE {}
    BY <2>4 DEF TypeOK
  <2>6. k \in records'[a]
    BY <2>4 DEF TypeOK
  <2>7. ASSUME k = "decline_recovery.triggered"
        PROVE  Owed(a, "card.declined")'
    <3>1. req'[r] = [req[r] EXCEPT !.next = "card.declined"]
      BY <2>3, <2>7 DEF FollowingRecord
    <3>2. req'[r] \in Request /\ req'[r].app = a /\ req'[r].next = "card.declined"
      BY <2>1, <2>2, <3>1 DEF Request, Kind
    <3> QED
      BY <3>2, IdleAssumption DEF Owed
  <2>8. \A x \in App : "decline_recovery.triggered" \in records'[x] \ records[x]
                         => Owed(x, "card.declined")'
    BY <2>5, <2>7
  <2>9. DecisionsAccounted'
    BY <2>2, <2>3, <2>4, <2>5, <2>6, <2>8, AccountKept
  <2> QED
    BY <1>6, <2>1, <2>3, <2>9
<1>7. ASSUME NEW r \in Req, NEW g \in Gate, ReadGate(r, g), req'[r] # Idle
      PROVE  Goal
  <2>1. /\ req[r] # Idle /\ UNCHANGED <<status, records>>
        /\ \A x \in Req : x # r => req'[x] = req[x]
        /\ req'[r] = [req[r] EXCEPT !.pending = req[r].pending \ {g}]
    BY <1>7 DEF ReadGate, rowVars, TypeOK
  <2>2. req'[r].app = req[r].app /\ req'[r].next = req[r].next /\ req'[r].op = req[r].op
    BY <2>1 DEF TypeOK, Request
  <2>3. \A x \in App, k \in Kind : Owed(x, k) => Owed(x, k)'
    BY <1>7, <2>1, <2>2 DEF Owed
  <2>4. {"application.approved", "decline_recovery.triggered", "card.declined"} \subseteq Kind
    BY DEF Kind
  <2> QED
    BY <2>1, <2>2, <2>3, <2>4 DEF DecisionsAccounted
<1>8. ASSUME NEW r \in Req, req'[r] = Idle, Abort(r) \/ \E g \in Gate : ReadGate(r, g)
      PROVE  Goal
  <2>1. /\ req[r] # Idle /\ UNCHANGED <<status, records>>
        /\ \A x \in Req : x # r => req'[x] = req[x]
    BY <1>8 DEF Abort, ReadGate, rowVars, TypeOK
  <2>2. req[r].next \in Kind => req[r].next \in records'[req[r].app]
    BY <1>8, <2>1 DEF RecordsSurvive, vars
  <2>3. DecisionsAccounted'
    BY <2>1, <2>2, AccountKept
  <2> QED
    BY <1>8, <2>1, <2>3
<1>9. ASSUME NEW r \in Req, Abort(r)
      PROVE  req'[r] = Idle
  BY <1>9 DEF Abort, TypeOK
<1>10. CASE RecordsStep
  BY <1>1, <1>10 DEF RecordsStep, rowVars
<1>11. CASE UNCHANGED vars
  BY <1>1, <1>11 DEF vars, rowVars
<1>12. /\ \A r \in Req, a \in App, o \in {"won", "lost"} : ~ResolveRecovery(r, a, o)
       /\ \A r \in Req : ~WriteWon(r)
  BY DEF ResolveRecovery, WriteWon, Writing
<1> HIDE DEF Goal
<1>13. Next => Goal
  BY <1>2, <1>3, <1>4, <1>5, <1>6, <1>7, <1>8, <1>9, <1>10, <1>12 DEF Next
<1> QED
  BY <1>11, <1>13

\* Where no recovery is resolved and no request dies before it has published, every
\* decision is on the ledger once nothing runs, whatever requests overlap: what
\* docs/security.md says holds but for those two (the event is persisted in a
\* statement after the update, and _publishStatusEvent is not called by the resolve
\* route).
THEOREM DecisionsLedgeredUnlessLost ==
  ASSUME "resolve" \notin Ops
  PROVE  Spec /\ [][RecordsSurvive]_vars => []DecisionsLedgered
<1> DEFINE Inv == /\ DecisionsAccounted
                  /\ \A r \in Req : req[r] # Idle => req[r].op # "resolve"
<1>1. Init => Inv
  BY DEF Init, DecisionsAccounted
<1>2. IInv /\ Inv /\ [Next]_vars /\ [RecordsSurvive]_vars => Inv'
  BY AccountStep DEF IInv
<1>3. Inv => DecisionsLedgered
  BY DEF DecisionsAccounted, DecisionsLedgered, Owed
<1> HIDE DEF Inv
<1> QED
  BY <1>1, <1>2, <1>3, InductiveInvariant, PTL DEF Spec

----------------------------------------------------------------------------
(* Requests one at a time.  With a single slot nothing else runs between   *)
(* the read of a request and its write, so the status the request tested   *)
(* is the status the row still has (FreshRequests).  Every update is then  *)
(* a move of ApplicationLifecycle and every other step stutters.           *)

\* What a request that is about to write read of the status still holds.
FreshRequest(q) ==
  /\ q.op # "resolve"
  /\ q.next = "write" =>
       /\ q.op = "put" => q.target \in ValidTransitions[status[q.app]]
       /\ q.op \in {"submit", "patch"} => status[q.app] \in {"draft", "pending_consent"}
       /\ q.op = "cancel" => status[q.app] \notin {"none", "cancelled"}

FreshRequests == \A r \in Req : req[r] # Idle => FreshRequest(req[r])

OneAtATime == \A r, s \in Req : r = s

\* A request stays fresh through a step that changes no status of an existing row.
LEMMA FreshKept ==
  ASSUME TypeOK, SoundRequests, FreshRequests,
         \A a \in App : status[a] # "none" => status'[a] = status[a],
         NEW r \in Req, req'[r] = req[r] \/ req'[r] = Idle \/ FreshRequest(req[r])',
         req'[r] # Idle
  PROVE  FreshRequest(req[r])'
<1>1. CASE req'[r] = req[r]
  <2>1. req[r].app \in App /\ status[req[r].app] # "none" /\ FreshRequest(req[r])
    BY <1>1 DEF TypeOK, Request, SoundRequests, SoundRequest, FreshRequests
  <2> QED
    BY <1>1, <2>1 DEF FreshRequest
<1> QED
  BY <1>1

\* With one slot, a slot that resumes is the only one, and its request has left
\* the write behind.
LEMMA ResumedIsFresh ==
  ASSUME TypeOK, OneAtATime, FreshRequests, NEW r \in Req, req[r] # Idle,
         NEW k \in Kind \cup {"none"}, Resume(r, k)
  PROVE  FreshRequests'
<1>1. req[r] \in Request /\ req[r].op # "resolve"
  BY DEF TypeOK, FreshRequests, FreshRequest
<1>2. req'[r] = Idle \/ (req'[r].op = req[r].op /\ req'[r].next # "write")
  BY <1>1 DEF Resume, TypeOK, Request, Kind
<1> QED
  BY <1>1, <1>2 DEF OneAtATime, FreshRequests, FreshRequest

\* Every step keeps the requests fresh when they run one at a time.
LEMMA NextFresh ==
  ASSUME TypeOK, OneAtATime, "resolve" \notin Ops, SoundRequests, FreshRequests, Next
  PROVE  FreshRequests'
<1>1. CASE RecordsStep \/ \E a \in App : OpenRecovery(a) \/ \E st \in Stage : AdvanceStage(a, st)
  <2>1. UNCHANGED <<status, req>>
    BY <1>1 DEF RecordsStep, OpenRecovery, AdvanceStage, rowVars
  <2> QED
    BY <2>1 DEF FreshRequests, FreshRequest
<1>2. CASE \E a \in App : \/ CaptureConsent(a)
                        \/ \E u \in User, cu \in BOOLEAN : CreateApplication(a, u, cu)
  <2>1. UNCHANGED req /\ \A a \in App : status[a] # "none" => status'[a] = status[a]
    BY <1>2 DEF CaptureConsent, CreateApplication, NewRow, TypeOK
  <2> QED
    BY <2>1, FreshKept DEF FreshRequests
<1>3. CASE \E r \in Req, a \in App :
              \/ \E cu \in BOOLEAN : CreateFromWizard(r, a, cu)
              \/ ReadPatch(r, a)
              \/ \E t \in Status, u \in User \cup {NoUser} : ReadForTransition(r, a, t, u)
              \/ \E u \in User : ReadForSubmit(r, a, u)
              \/ ReadForCancel(r, a)
  <2>1. ASSUME NEW r \in Req, NEW a \in App, NEW cu \in BOOLEAN,
               CreateFromWizard(r, a, cu)
        PROVE  FreshRequests'
    <3>1. FreshRequest(req[r])'
      BY <2>1 DEF CreateFromWizard, Begin, TypeOK, FreshRequest
    <3> QED
      BY <3>1 DEF OneAtATime, FreshRequests
  <2>2. ASSUME NEW r \in Req, NEW a \in App, ReadPatch(r, a)
        PROVE  FreshRequests'
    <3>1. FreshRequest(req[r])'
      BY <2>2 DEF ReadPatch, Begin, rowVars, TypeOK, FreshRequest
    <3> QED
      BY <3>1 DEF OneAtATime, FreshRequests
  <2>3. ASSUME NEW r \in Req, NEW a \in App, NEW t \in Status,
               NEW u \in User \cup {NoUser}, ReadForTransition(r, a, t, u)
        PROVE  FreshRequests'
    <3>1. FreshRequest(req[r])'
      BY <2>3 DEF ReadForTransition, Begin, rowVars, TypeOK, FreshRequest
    <3> QED
      BY <3>1 DEF OneAtATime, FreshRequests
  <2>4. ASSUME NEW r \in Req, NEW a \in App, NEW u \in User,
               ReadForSubmit(r, a, u)
        PROVE  FreshRequests'
    <3>1. FreshRequest(req[r])'
      BY <2>4 DEF ReadForSubmit, Begin, rowVars, TypeOK, FreshRequest
    <3> QED
      BY <3>1 DEF OneAtATime, FreshRequests
  <2>5. ASSUME NEW r \in Req, NEW a \in App, ReadForCancel(r, a)
        PROVE  FreshRequests'
    <3>1. FreshRequest(req[r])'
      BY <2>5 DEF ReadForCancel, Begin, rowVars, TypeOK, FreshRequest
    <3> QED
      BY <3>1 DEF OneAtATime, FreshRequests
  <2> QED
    BY <1>3, <2>1, <2>2, <2>3, <2>4, <2>5
<1>4. CASE \E r \in Req : \/ WritePatch(r) \/ WriteTransition(r) \/ WriteSubmit(r)
                        \/ AppendRecord(r) \/ WriteCancel(r)
  <2>1. ASSUME NEW r \in Req, WritePatch(r)
        PROVE  FreshRequests'
    BY <2>1, ResumedIsFresh, RecordKinds DEF WritePatch, Writing
  <2>2. ASSUME NEW r \in Req, WriteTransition(r)
        PROVE  FreshRequests'
    BY <2>2, ResumedIsFresh, RecordKinds DEF WriteTransition, Writing
  <2>3. ASSUME NEW r \in Req, WriteSubmit(r)
        PROVE  FreshRequests'
    BY <2>3, ResumedIsFresh, RecordKinds DEF WriteSubmit, Writing
  <2>4. ASSUME NEW r \in Req, AppendRecord(r)
        PROVE  FreshRequests'
    BY <2>4, ResumedIsFresh, RecordKinds DEF AppendRecord
  <2>5. ASSUME NEW r \in Req, WriteCancel(r)
        PROVE  FreshRequests'
    BY <2>5, ResumedIsFresh, RecordKinds DEF WriteCancel, Writing
  <2> QED
    BY <1>4, <2>1, <2>2, <2>3, <2>4, <2>5
<1>5. CASE \E r \in Req : WriteWon(r) \/ \E a \in App, o \in {"won", "lost"} : ResolveRecovery(r, a, o)
  BY <1>5 DEF WriteWon, Writing, ResolveRecovery, FreshRequests, FreshRequest
<1>6. CASE \E r \in Req : Abort(r) \/ \E g \in Gate : ReadGate(r, g)
  <2> PICK r \in Req : Abort(r) \/ \E g \in Gate : ReadGate(r, g)
    BY <1>6
  <2>1. req[r] # Idle /\ req[r] \in Request /\ FreshRequest(req[r]) /\ UNCHANGED status
    BY DEF Abort, ReadGate, rowVars, TypeOK, FreshRequests
  <2>2. \/ req'[r] = Idle
        \/ \E g \in Gate : req'[r] = [req[r] EXCEPT !.pending = req[r].pending \ {g}]
    BY DEF Abort, ReadGate, TypeOK
  <2>3. req'[r] = Idle \/ FreshRequest(req[r])'
    BY <2>1, <2>2 DEF Request, FreshRequest
  <2> QED
    BY <2>3 DEF OneAtATime, FreshRequests
<1> QED
  BY <1>1, <1>2, <1>3, <1>4, <1>5, <1>6 DEF Next

----------------------------------------------------------------------------
(* Steps of the pipeline are steps of the lifecycle.                       *)

\* The update of transitionStatus moves along the table.
LEMMA TransitionSimulates ==
  ASSUME TypeOK, SoundRequests, FreshRequests, NEW r \in Req, WriteTransition(r)
  PROVE  Lifecycle!LifecycleNext
<1> DEFINE a == req[r].app
           t == req[r].target
<1>1. /\ a \in App /\ t \in Status
      /\ status[a] # "none" /\ t \in ValidTransitions[status[a]]
      /\ t = "submitted" => consentAt[a]
  BY DEF WriteTransition, Writing, TypeOK, Request, SoundRequests, SoundRequest,
     SoundSubmission, FreshRequests, FreshRequest
<1>2. /\ status' = [status EXCEPT ![a] = t]
      /\ consentAt' = [consentAt EXCEPT ![a] = @ \/ t = "pending_consent"]
      /\ submittedAt' = [submittedAt EXCEPT ![a] = @ \/ t = "submitted"]
      /\ creditUnion' = creditUnion
  BY DEF WriteTransition
<1>3. status[a] \in Status
  BY <1>1 DEF TypeOK
<1>4. CASE t = "submitted"
  <2>1. status[a] \in {"pending_consent", "reconsideration"}
    BY <1>1, <1>3, <1>4 DEF ValidTransitions, Status
  <2>2. consentAt' = consentAt
    BY <1>1, <1>2, <1>4 DEF TypeOK
  <2>3. submittedAt' = [submittedAt EXCEPT ![a] = TRUE]
    BY <1>2, <1>4
  <2> QED
    BY <1>1, <1>2, <1>4, <2>1, <2>2, <2>3 DEF Lifecycle!LifecycleNext, Lifecycle!SubmitOnce
<1>5. CASE t # "submitted"
  <2>1. submittedAt' = submittedAt
    BY <1>1, <1>2, <1>5 DEF TypeOK
  <2>2. <<status[a], t>> \in Lifecycle!Moves
    BY <1>1, <1>3, <1>5 DEF ValidTransitions, Status, Lifecycle!Moves
  <2>3. t \in {"pending_consent", "draft", "approved", "declined", "reconsideration"}
    BY <1>1, <1>3, <1>5 DEF ValidTransitions, Status
  <2>4. Lifecycle!Move(a, t)
    BY <1>2, <2>1, <2>2 DEF Lifecycle!Move
  <2> QED
    BY <1>1, <2>3, <2>4 DEF Lifecycle!LifecycleNext
<1> QED
  BY <1>4, <1>5

\* The update of the submit route is a submission with a captured consent.
LEMMA SubmitSimulates ==
  ASSUME TypeOK, SoundRequests, FreshRequests, NEW r \in Req, WriteSubmit(r)
  PROVE  Lifecycle!LifecycleNext
<1>1. /\ req[r].app \in App
      /\ status[req[r].app] \in {"draft", "pending_consent"}
      /\ consentAt[req[r].app]
  BY DEF WriteSubmit, Writing, TypeOK, Request, SoundRequests, SoundRequest,
     SoundSubmission, FreshRequests, FreshRequest
<1>2. Lifecycle!SubmitOnce(req[r].app)
  BY <1>1 DEF WriteSubmit, Lifecycle!SubmitOnce
<1> QED
  BY <1>1, <1>2 DEF Lifecycle!LifecycleNext

\* Every step of the pipeline is a step of the lifecycle or leaves it unchanged.
LEMMA NextSimulates ==
  ASSUME TypeOK, SoundRequests, FreshRequests, Next
  PROVE  [Lifecycle!LifecycleNext]_(Lifecycle!lifecycleVars)
<1> DEFINE Stutter == UNCHANGED <<status, consentAt, submittedAt, creditUnion>>
<1>1. CASE \/ RecordsStep
           \/ \E a \in App : OpenRecovery(a) \/ \E st \in Stage : AdvanceStage(a, st)
  <2> Stutter
    BY <1>1 DEF RecordsStep, OpenRecovery, AdvanceStage, rowVars
  <2> QED
    BY DEF Lifecycle!lifecycleVars
<1>2. CASE \E a \in App, u \in User, cu \in BOOLEAN : CreateApplication(a, u, cu)
  <2> PICK a \in App, u \in User, cu \in BOOLEAN : CreateApplication(a, u, cu)
    BY <1>2
  <2>1. Lifecycle!Open(a, cu)
    BY DEF CreateApplication, NewRow, Lifecycle!Open
  <2> QED
    BY <2>1 DEF Lifecycle!LifecycleNext
<1>3. CASE \E r \in Req, a \in App, cu \in BOOLEAN : CreateFromWizard(r, a, cu)
  <2> PICK r \in Req, a \in App, cu \in BOOLEAN : CreateFromWizard(r, a, cu)
    BY <1>3
  <2>1. Lifecycle!Open(a, cu)
    BY DEF CreateFromWizard, NewRow, Lifecycle!Open
  <2> QED
    BY <2>1 DEF Lifecycle!LifecycleNext
<1>4. CASE \E a \in App : CaptureConsent(a)
  <2> PICK a \in App : CaptureConsent(a)
    BY <1>4
  <2>1. Lifecycle!Consent(a)
    BY DEF CaptureConsent, Lifecycle!Consent
  <2> QED
    BY <2>1 DEF Lifecycle!LifecycleNext
<1>5. CASE \E r \in Req, a \in App :
             \/ ReadPatch(r, a) \/ ReadForCancel(r, a)
             \/ \E t \in Status, u \in User \cup {NoUser} : ReadForTransition(r, a, t, u)
             \/ \E u \in User : ReadForSubmit(r, a, u)
             \/ \E o \in {"won", "lost"} : ResolveRecovery(r, a, o)
  <2> Stutter
    BY <1>5 DEF ReadPatch, ReadForCancel, ReadForTransition, ReadForSubmit,
       ResolveRecovery, rowVars
  <2> QED
    BY DEF Lifecycle!lifecycleVars
<1>6. CASE \E r \in Req : AppendRecord(r) \/ Abort(r) \/ \E g \in Gate : ReadGate(r, g)
  <2> Stutter
    BY <1>6 DEF AppendRecord, Abort, ReadGate, rowVars
  <2> QED
    BY DEF Lifecycle!lifecycleVars
<1>7. CASE \E r \in Req : WritePatch(r)
  <2> PICK r \in Req : WritePatch(r)
    BY <1>7
  <2>1. req[r].app \in App /\ status[req[r].app] \in {"draft", "pending_consent"}
    BY DEF WritePatch, Writing, TypeOK, Request, FreshRequests, FreshRequest
  <2>2. \E cu \in BOOLEAN : Lifecycle!Edit(req[r].app, cu)
    BY <2>1 DEF WritePatch, Lifecycle!Edit
  <2> QED
    BY <2>1, <2>2 DEF Lifecycle!LifecycleNext
<1>8. CASE \E r \in Req : WriteTransition(r) \/ WriteSubmit(r)
  BY <1>8, TransitionSimulates, SubmitSimulates
<1>9. CASE \E r \in Req : WriteCancel(r)
  <2> PICK r \in Req : WriteCancel(r)
    BY <1>9
  <2>1. req[r].app \in App /\ status[req[r].app] \notin {"none", "cancelled"}
    BY DEF WriteCancel, Writing, TypeOK, Request, FreshRequests, FreshRequest
  <2>2. Lifecycle!CancelCard(req[r].app)
    BY <2>1 DEF WriteCancel, Lifecycle!CancelCard
  <2> QED
    BY <2>1, <2>2 DEF Lifecycle!LifecycleNext
<1>10. CASE \E r \in Req : WriteWon(r)
  BY <1>10 DEF WriteWon, Writing, FreshRequests, FreshRequest
<1> QED
  BY <1>1, <1>2, <1>3, <1>4, <1>5, <1>6, <1>7, <1>8, <1>9, <1>10 DEF Next

\* With requests one at a time and no recovery resolved, the pipeline implements
\* the lifecycle of an application.
THEOREM SerialPipelineFollowsLifecycle ==
  ASSUME OneAtATime, "resolve" \notin Ops
  PROVE  Spec => FollowsLifecycle
<1>1. Init => Lifecycle!LifecycleInit /\ FreshRequests
  BY DEF Init, Lifecycle!LifecycleInit, FreshRequests
<1>2. IInv /\ FreshRequests /\ [Next]_vars =>
        FreshRequests' /\ [Lifecycle!LifecycleNext]_(Lifecycle!lifecycleVars)
  <2> SUFFICES ASSUME IInv, FreshRequests, [Next]_vars
               PROVE  /\ FreshRequests'
                      /\ [Lifecycle!LifecycleNext]_(Lifecycle!lifecycleVars)
    OBVIOUS
  <2>1. CASE Next
    BY <2>1, NextFresh, NextSimulates DEF IInv
  <2>2. CASE UNCHANGED vars
    BY <2>2 DEF vars, rowVars, FreshRequests, FreshRequest, Lifecycle!lifecycleVars
  <2> QED
    BY <2>1, <2>2
<1> QED
  BY <1>1, <1>2, InductiveInvariant, PTL DEF Spec, FollowsLifecycle, Lifecycle!LifecycleSpec

\* What the lifecycle keeps, whatever moves it makes: a consent behind every
\* submission, no way back to where terms are edited, and nothing after cancelled.
THEOREM LifecycleKeeps ==
  Lifecycle!LifecycleSpec =>
    []Lifecycle!SubmittedForGood /\ Lifecycle!TermsFrozen /\ Lifecycle!CancelledIsLast
<1> DEFINE Typed == /\ status \in [App -> Status \cup {"none"}]
                    /\ consentAt \in [App -> BOOLEAN]
                    /\ submittedAt \in [App -> BOOLEAN]
                    /\ creditUnion \in [App -> BOOLEAN]
           Inv == Typed /\ Lifecycle!SubmittedForGood
           Frozen == \A a \in App : submittedAt[a] => creditUnion'[a] = creditUnion[a]
           Last == \A a \in App : status[a] = "cancelled" => status'[a] = "cancelled"
<1>1. Lifecycle!LifecycleInit => Inv
  BY DEF Lifecycle!LifecycleInit, Lifecycle!SubmittedForGood
<1>2. ASSUME Inv, Lifecycle!LifecycleNext
      PROVE  Inv' /\ Frozen /\ Last
  <2>1. ASSUME NEW a \in App, NEW cu \in BOOLEAN, Lifecycle!Open(a, cu) \/ Lifecycle!Edit(a, cu)
        PROVE  Inv' /\ Frozen /\ Last
    BY <1>2, <2>1 DEF Lifecycle!Open, Lifecycle!Edit, Lifecycle!SubmittedForGood, Status
  <2>2. ASSUME NEW a \in App, Lifecycle!Consent(a)
        PROVE  Inv' /\ Frozen /\ Last
    BY <1>2, <2>2 DEF Lifecycle!Consent, Lifecycle!SubmittedForGood
  <2>3. ASSUME NEW a \in App,
               NEW t \in {"pending_consent", "draft", "approved", "declined", "reconsideration"},
               Lifecycle!Move(a, t)
        PROVE  Inv' /\ Frozen /\ Last
    <3>1. /\ status[a] # "cancelled"
          /\ status[a] \notin {"none", "draft", "pending_consent"}
               => t \notin {"none", "draft", "pending_consent"}
          /\ t \in Status
      BY <2>3 DEF Lifecycle!Move, Lifecycle!Moves, Status
    <3> QED
      BY <1>2, <2>3, <3>1 DEF Lifecycle!Move, Lifecycle!SubmittedForGood
  <2>4. ASSUME NEW a \in App, Lifecycle!SubmitOnce(a)
        PROVE  Inv' /\ Frozen /\ Last
    BY <1>2, <2>4 DEF Lifecycle!SubmitOnce, Lifecycle!SubmittedForGood, Status
  <2>5. ASSUME NEW a \in App, Lifecycle!CancelCard(a)
        PROVE  Inv' /\ Frozen /\ Last
    BY <1>2, <2>5 DEF Lifecycle!CancelCard, Lifecycle!SubmittedForGood, Status
  <2> HIDE DEF Inv, Frozen, Last
  <2> QED
    BY <1>2, <2>1, <2>2, <2>3, <2>4, <2>5 DEF Lifecycle!LifecycleNext
<1>3. Inv /\ [Lifecycle!LifecycleNext]_(Lifecycle!lifecycleVars) =>
        /\ Inv'
        /\ [Frozen]_(Lifecycle!lifecycleVars) /\ [Last]_(Lifecycle!lifecycleVars)
  BY <1>2 DEF Lifecycle!lifecycleVars, Lifecycle!SubmittedForGood
<1>4. Inv => Lifecycle!SubmittedForGood
  OBVIOUS
<1> HIDE DEF Inv
<1> QED
  BY <1>1, <1>3, <1>4, PTL
     DEF Lifecycle!LifecycleSpec, Lifecycle!TermsFrozen, Lifecycle!CancelledIsLast

\* With requests one at a time and no recovery resolved, 'cancelled' is terminal, as
\* the comment on VALID_TRANSITIONS has it.
THEOREM SerialCancelledIsTerminal ==
  ASSUME OneAtATime, "resolve" \notin Ops
  PROVE  Spec => CancelledIsTerminal
<1>1. Spec => Lifecycle!LifecycleSpec
  BY SerialPipelineFollowsLifecycle DEF FollowsLifecycle
<1>2. [\A a \in App : status[a] = "cancelled" => status'[a] = "cancelled"]_(Lifecycle!lifecycleVars)
      => [\A a \in App : status[a] = "cancelled" => status'[a] = "cancelled"]_vars
  BY DEF Lifecycle!lifecycleVars
<1> QED
  BY <1>1, <1>2, LifecycleKeeps, PTL DEF Lifecycle!CancelledIsLast, CancelledIsTerminal

\* ... and what was submitted keeps its consent and its terms, and never returns to
\* where they are edited (submit routes, PATCH /applications/:id, captureConsent).
THEOREM SerialSubmissionStands ==
  ASSUME OneAtATime, "resolve" \notin Ops
  PROVE  Spec => []Lifecycle!SubmittedForGood /\ Lifecycle!TermsFrozen
<1>1. Spec => Lifecycle!LifecycleSpec
  BY SerialPipelineFollowsLifecycle DEF FollowsLifecycle
<1> QED
  BY <1>1, LifecycleKeeps, PTL

============================================================================
