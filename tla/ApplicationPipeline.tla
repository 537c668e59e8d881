------------------------ MODULE ApplicationPipeline ------------------------
(***************************************************************************)
(* The card-application pipeline: CardApplication rows, the HTTP requests  *)
(* that read and then write them, and the durable records (audit log and   *)
(* canonical ledger) the requests leave behind.                            *)
(*                                                                         *)
(* Every handler of application-pipeline.service.ts, applications.routes,  *)
(* rewards.routes (cancel) and decline-recovery.routes is a read, checks   *)
(* on what was read, and an update by primary key with no condition on the *)
(* row; between the two other requests run.  A request in flight is        *)
(* therefore a value of req[r], and each await of the handler is a step.   *)
(* The six database reads behind the five gates are issued together by     *)
(* Promise.all and answer in any order (the consent record after the       *)
(* timestamp, the owners after the KYB check).                             *)
(*                                                                         *)
(* A request may end at any step: the process dies, the database or the    *)
(* ledger refuses.  Nothing is rolled back, no handler uses a transaction  *)
(* around its status write and its event.                                  *)
(***************************************************************************)
EXTENDS ComplianceRecords

CONSTANTS
  App,          \* card applications of the business
  Req,          \* slots for requests in flight
  User,         \* user ids
  NoUser,       \* a null or empty user id
  Idle,         \* a slot with no request
  Gate          \* the database reads of the gates that are tracked

\* The database reads of the four gates that query (the fifth is MakerChecker).
AllGates == {"acknowledgment", "consent_timestamp", "consent_record",
             "suitability", "kyb", "owners"}

ASSUME NoUserAssumption == NoUser \notin User

\* An instance may leave the suitability, KYB and owner reads out when they pass
\* throughout: they are on file and no operation of the instance changes
\* what they read.
ASSUME GateAssumption ==
  /\ Gate \subseteq AllGates
  /\ {"acknowledgment", "consent_timestamp", "consent_record"} \subseteq Gate
  /\ AllGates \ Gate \subseteq OnFile
  /\ "suitability" \notin Gate => "assess" \notin Ops
  /\ "kyb" \notin Gate => Ops \cap {"kyb", "compliance"} = {}
  /\ "owners" \notin Gate => Ops \cap {"owner", "kyc"} = {}

VARIABLES
  status,       \* CardApplication.status, "none" before the row exists
  consentAt,    \* consentCapturedAt is not null
  creator,      \* createdByUserId, column or Json
  approver,     \* approvedByUserId in the Json metadata
  submittedAt,  \* submittedAt is not null
  decidedAt,    \* decidedAt is not null
  granted,      \* approvedCreditLimit is not null
  creditUnion,  \* the free-text issuer names a credit union
  recovery,     \* DeclineRecovery.recoveryStage of the application
  records,      \* audit rows and ledger events written for the application
  req           \* the requests in flight

rowVars == <<status, consentAt, creator, approver, submittedAt, decidedAt,
             granted, creditUnion>>
vars == <<recordVars, rowVars, recovery, records, req>>

Status == {"draft", "pending_consent", "submitted", "approved", "declined",
           "reconsideration", "cancelled"}

Stage == {"open", "won", "lost"}

Kind == {"audit.created", "application.created", "audit.submitted",
         "application.submitted", "application.approved",
         "decline_recovery.triggered", "card.declined",
         "audit.cancelled"}

\* next: the await the request resumes from; saw: the metadata it has read.
Request ==
  [op : {"put", "submit", "cancel", "patch", "resolve", "create"},
   app : App, target : Status,
   approver : User \cup {NoUser}, saw : User \cup {NoUser},
   pending : SUBSET Gate, next : {"write"} \cup Kind]

ASSUME IdleAssumption == Idle \notin Request

TypeOK ==
  /\ RecordsTypeOK
  /\ status \in [App -> Status \cup {"none"}]
  /\ consentAt \in [App -> BOOLEAN]
  /\ creator \in [App -> User \cup {NoUser}]
  /\ approver \in [App -> User \cup {NoUser}]
  /\ submittedAt \in [App -> BOOLEAN]
  /\ decidedAt \in [App -> BOOLEAN]
  /\ granted \in [App -> BOOLEAN]
  /\ creditUnion \in [App -> BOOLEAN]
  /\ recovery \in [App -> Stage \cup {"none"}]
  /\ records \in [App -> SUBSET Kind]
  /\ req \in [Req -> Request \cup {Idle}]

Init ==
  /\ RecordsInit
  /\ status = [a \in App |-> "none"]
  /\ consentAt = [a \in App |-> FALSE]
  /\ creator = [a \in App |-> NoUser]
  /\ approver = [a \in App |-> NoUser]
  /\ submittedAt = [a \in App |-> FALSE]
  /\ decidedAt = [a \in App |-> FALSE]
  /\ granted = [a \in App |-> FALSE]
  /\ creditUnion = [a \in App |-> FALSE]
  /\ recovery = [a \in App |-> "none"]
  /\ records = [a \in App |-> {}]
  /\ req = [r \in Req |-> Idle]

----------------------------------------------------------------------------
(* The shared pieces of the handlers.                                      *)

ValidTransitions ==
  [draft           |-> {"pending_consent"},
   pending_consent |-> {"submitted", "draft"},
   submitted       |-> {"approved", "declined"},
   approved        |-> {},
   declined        |-> {"reconsideration"},
   reconsideration |-> {"submitted", "declined"},
   cancelled       |-> {}]

\* Mutant: self-approval is not compared.
MakerCheckerNoCompare(a, u) == creator[a] # NoUser /\ u # NoUser

\* The maker is the recorded creator; there is no fallback to the caller.
MakerChecker(a, u) ==
  /\ creator[a] # NoUser
  /\ u # NoUser
  /\ u # creator[a]

\* Mutant: the consent gate looks for the business-wide record only.
GatePassedNoTimestamp(g, a) ==
  CASE g = "acknowledgment" -> acked
    [] g \in {"consent_timestamp", "consent_record"} -> appConsent # {}
    [] g = "suitability"    -> SuitabilityPassed
    [] g = "kyb"            -> KybPassed
    [] g = "owners"         -> OwnersVerified

GatePassed(g, a) ==
  CASE g = "acknowledgment"    -> acked
    [] g = "consent_timestamp" -> consentAt[a]
    [] g = "consent_record"    -> appConsent # {}
    [] g = "suitability"       -> SuitabilityPassed
    [] g = "kyb"               -> KybPassed
    [] g = "owners"            -> OwnersVerified

\* Mutant: an event type EVENT_TYPES does not have.
FirstRecordUnknownType(op, t) ==
  CASE op = "submit"                 -> "audit.submitted"
    [] op = "put" /\ t = "submitted" -> "application.submitted"
    [] op = "put" /\ t = "approved"  -> "application.approved"
    [] op = "put" /\ t = "declined"  -> "application.denied"
    [] OTHER                         -> "none"

\* Mutant: the recovery trigger is not published before the decline.
FirstRecordDeclineFirst(op, t) ==
  CASE op = "submit"                 -> "audit.submitted"
    [] op = "put" /\ t = "submitted" -> "application.submitted"
    [] op = "put" /\ t = "approved"  -> "application.approved"
    [] op = "put" /\ t = "declined"  -> "card.declined"
    [] OTHER                         -> "none"

\* The first record a handler appends once its status write has committed.
FirstRecord(op, t) ==
  CASE op = "submit"                     -> "audit.submitted"
    [] op = "put" /\ t = "submitted"     -> "application.submitted"
    [] op = "put" /\ t = "approved"      -> "application.approved"
    [] op = "put" /\ t = "declined"      -> "decline_recovery.triggered"
    [] OTHER                             -> "none"

\* The record that follows another in the same handler.
FollowingRecord(k) ==
  CASE k = "audit.created"              -> "application.created"
    [] k = "audit.submitted"            -> "application.submitted"
    [] k = "decline_recovery.triggered" -> "card.declined"
    [] OTHER                            -> "none"

\* Slot r goes on to k, or is free when nothing is left to do.
Resume(r, k) ==
  req' = [req EXCEPT ![r] = IF k = "none" THEN Idle ELSE [@ EXCEPT !.next = k]]

Begin(r, op, a, t, u, seen, gates, k) ==
  /\ req[r] = Idle
  /\ req' = [req EXCEPT ![r] =
       [op |-> op, app |-> a, target |-> t, approver |-> u, saw |-> seen,
        pending |-> gates, next |-> k]]

\* The CHECK constraint approved_limit_requires_approval: a row with a granted
\* limit takes no status but 'approved'.
Permitted(a, t) == granted[a] => t = "approved"

\* Request r of kind op is about to make its update.
Writing(r, op) == req[r] # Idle /\ req[r].op = op /\ req[r].next = "write"

----------------------------------------------------------------------------
(* Creating and editing.                                                   *)

NewRow(a, u, cu) ==
  /\ status[a] = "none"
  /\ status' = [status EXCEPT ![a] = "draft"]
  /\ creator' = [creator EXCEPT ![a] = u]
  /\ creditUnion' = [creditUnion EXCEPT ![a] = cu]
  /\ UNCHANGED <<consentAt, approver, submittedAt, decidedAt, granted>>

\* POST /businesses/:id/applications: the caller is the maker; no event.
CreateApplication(a, u, cu) ==
  /\ "create" \in Ops
  /\ NewRow(a, u, cu)
  /\ UNCHANGED <<recordVars, recovery, records, req>>

\* POST /applications: no maker is stored; an audit row and an event follow.
CreateFromWizard(r, a, cu) ==
  /\ "wizard" \in Ops
  /\ NewRow(a, NoUser, cu)
  /\ Begin(r, "create", a, "draft", NoUser, NoUser, {}, "audit.created")
  /\ UNCHANGED <<recordVars, recovery, records>>

\* Mutant: the status is not tested.
ReadPatchAnyStatus(r, a) ==
  /\ "patch" \in Ops
  /\ status[a] # "none"
  /\ Begin(r, "patch", a, status[a], NoUser, NoUser, {}, "write")
  /\ UNCHANGED <<recordVars, rowVars, recovery, records>>

\* PATCH /applications/:id tests the status it has read.
ReadPatch(r, a) ==
  /\ "patch" \in Ops
  /\ status[a] \in {"draft", "pending_consent"}
  /\ Begin(r, "patch", a, status[a], NoUser, NoUser, {}, "write")
  /\ UNCHANGED <<recordVars, rowVars, recovery, records>>

\* The edited terms are reduced to what a control reads: the issuer's name.
WritePatch(r) ==
  /\ Writing(r, "patch")
  /\ \E cu \in BOOLEAN :
       creditUnion' = [creditUnion EXCEPT ![req[r].app] = cu]
  /\ Resume(r, "none")
  /\ UNCHANGED <<recordVars, status, consentAt, creator, approver, submittedAt,
                 decidedAt, granted, recovery, records>>

\* captureConsent updates whatever the status is.
CaptureConsent(a) ==
  /\ "capture" \in Ops
  /\ status[a] # "none"
  /\ consentAt' = [consentAt EXCEPT ![a] = TRUE]
  /\ UNCHANGED <<recordVars, status, creator, approver, submittedAt, decidedAt,
                 granted, creditUnion, recovery, records, req>>

----------------------------------------------------------------------------
(* The two routes that change the status through the gates.                *)

\* PUT /applications/:id/status: transitionStatus up to the gate reads.  An
\* approvedCreditLimit outside an approval is refused before any write and is
\* not distinguished from a request that never came.
ReadForTransition(r, a, t, u) ==
  /\ "put" \in Ops
  /\ status[a] # "none"
  /\ t \in ValidTransitions[status[a]]
  /\ IF t = "submitted"
     THEN /\ MakerChecker(a, u)
          /\ Begin(r, "put", a, t, u, approver[a], Gate, "write")
     ELSE /\ u = NoUser
          /\ Begin(r, "put", a, t, NoUser, approver[a], {}, "write")
  /\ UNCHANGED <<recordVars, rowVars, recovery, records>>

\* Mutant: three inline checks instead of checkAll.
ReadForSubmitInline(r, a, u) ==
  /\ "submit" \in Ops
  /\ status[a] \in {"draft", "pending_consent"}
  /\ ~creditUnion[a]
  /\ MakerChecker(a, u)
  /\ Begin(r, "submit", a, "submitted", u, NoUser,
           Gate \cap {"acknowledgment", "consent_record", "suitability"}, "write")
  /\ UNCHANGED <<recordVars, rowVars, recovery, records>>

\* POST /applications/:id/submit: from draft too, never for a credit union.
ReadForSubmit(r, a, u) ==
  /\ "submit" \in Ops
  /\ status[a] \in {"draft", "pending_consent"}
  /\ ~creditUnion[a]
  /\ MakerChecker(a, u)
  /\ Begin(r, "submit", a, "submitted", u, NoUser, Gate, "write")
  /\ UNCHANGED <<recordVars, rowVars, recovery, records>>

\* One database read of checkAll.  A gate that fails ends the request: the
\* answer is 422 and nothing is written.
ReadGate(r, g) ==
  /\ req[r] # Idle
  /\ g \in req[r].pending
  /\ g = "consent_record" => "consent_timestamp" \notin req[r].pending
  /\ g = "owners" => "kyb" \notin req[r].pending
  /\ req' = [req EXCEPT ![r] = IF GatePassed(g, req[r].app)
                                THEN [@ EXCEPT !.pending = req[r].pending \ {g}]
                                ELSE Idle]
  /\ UNCHANGED <<recordVars, rowVars, recovery, records>>

\* The update of transitionStatus: status, timestamps, on an approval the granted
\* limit if the caller gave one, and the whole metadata object as it was read.
WriteTransition(r) ==
  /\ Writing(r, "put")
  /\ req[r].pending = {}
  /\ LET a == req[r].app
         t == req[r].target
     IN /\ Permitted(a, t)
        /\ status' = [status EXCEPT ![a] = t]
        /\ consentAt' = [consentAt EXCEPT ![a] = @ \/ t = "pending_consent"]
        /\ submittedAt' = [submittedAt EXCEPT ![a] = @ \/ t = "submitted"]
        /\ decidedAt' = [decidedAt EXCEPT ![a] = @ \/ t \in {"approved", "declined"}]
        /\ approver' = [approver EXCEPT ![a] =
                          IF t = "submitted" THEN req[r].approver ELSE req[r].saw]
        /\ \E limit \in BOOLEAN :
             /\ limit => t = "approved"
             /\ granted' = [granted EXCEPT ![a] = @ \/ limit]
        /\ Resume(r, FirstRecord("put", t))
  /\ UNCHANGED <<recordVars, creator, creditUnion, recovery, records>>

\* The update of the submit route: the approver is not stored.
WriteSubmit(r) ==
  /\ Writing(r, "submit")
  /\ req[r].pending = {}
  /\ Permitted(req[r].app, "submitted")
  /\ status' = [status EXCEPT ![req[r].app] = "submitted"]
  /\ submittedAt' = [submittedAt EXCEPT ![req[r].app] = TRUE]
  /\ Resume(r, FirstRecord("submit", "submitted"))
  /\ UNCHANGED <<recordVars, consentAt, creator, approver, decidedAt, granted,
                 creditUnion, recovery, records>>

\* An audit row is created, or an event persisted to the ledger and dispatched.
\* registerDeclineAutoTrigger is called by no bootstrap code, so a declined
\* event opens no recovery.
AppendRecord(r) ==
  /\ req[r] # Idle
  /\ req[r].next \in Kind
  /\ records' = [records EXCEPT ![req[r].app] = @ \cup {req[r].next}]
  /\ Resume(r, FollowingRecord(req[r].next))
  /\ UNCHANGED <<recordVars, rowVars, recovery>>

----------------------------------------------------------------------------
(* The writers of status that run no transition check.                     *)

\* POST /cards/:id/cancel: any card not cancelled when it is read.
ReadForCancel(r, a) ==
  /\ "cancel" \in Ops
  /\ status[a] \notin {"none", "cancelled"}
  /\ Begin(r, "cancel", a, "cancelled", NoUser, NoUser, {}, "write")
  /\ UNCHANGED <<recordVars, rowVars, recovery, records>>

\* The status and its audit row, in one transaction.
WriteCancel(r) ==
  /\ Writing(r, "cancel")
  /\ Permitted(req[r].app, "cancelled")
  /\ status' = [status EXCEPT ![req[r].app] = "cancelled"]
  /\ records' = [records EXCEPT ![req[r].app] = @ \cup {"audit.cancelled"}]
  /\ Resume(r, "none")
  /\ UNCHANGED <<recordVars, consentAt, creator, approver, submittedAt, decidedAt,
                 granted, creditUnion, recovery>>

\* POST /declines: for any application, whatever its status (an id that names
\* none leads to no write of a row).  One recovery per application is kept.
OpenRecovery(a) ==
  /\ "decline" \in Ops
  /\ status[a] # "none"
  /\ recovery[a] = "none"
  /\ recovery' = [recovery EXCEPT ![a] = "open"]
  /\ UNCHANGED <<recordVars, rowVars, records, req>>

\* PATCH /declines/:id/stage: any stage, won and lost included.
AdvanceStage(a, s) ==
  /\ "stage" \in Ops
  /\ recovery[a] # "none"
  /\ recovery' = [recovery EXCEPT ![a] = s]
  /\ UNCHANGED <<recordVars, rowVars, records, req>>

\* PATCH /declines/:id/resolve, first write: the recovery.
ResolveRecovery(r, a, outcome) ==
  /\ "resolve" \in Ops
  /\ recovery[a] # "none"
  /\ outcome \in {"won", "lost"}
  /\ recovery' = [recovery EXCEPT ![a] = outcome]
  /\ IF outcome = "won"
     THEN Begin(r, "resolve", a, "approved", NoUser, NoUser, {}, "write")
     ELSE req[r] = Idle /\ UNCHANGED req
  /\ UNCHANGED <<recordVars, rowVars, records>>

\* Second write: updateMany on the id alone, whatever the status has become, and
\* no event is published.
WriteWon(r) ==
  /\ Writing(r, "resolve")
  /\ status' = [status EXCEPT ![req[r].app] = "approved"]
  /\ decidedAt' = [decidedAt EXCEPT ![req[r].app] = TRUE]
  /\ Resume(r, "none")
  /\ UNCHANGED <<recordVars, consentAt, creator, approver, submittedAt, granted,
                 creditUnion, recovery, records>>

\* A request ends where it stands: the process dies, or the database refuses
\* the write (always, where Permitted says no).
Abort(r) ==
  /\ req[r] # Idle
  /\ req' = [req EXCEPT ![r] = Idle]
  /\ UNCHANGED <<recordVars, rowVars, recovery, records>>

----------------------------------------------------------------------------
RecordsStep ==
  RecordsNext /\ UNCHANGED <<rowVars, recovery, records, req>>

Next ==
  \/ RecordsStep
  \/ \E a \in App, u \in User, cu \in BOOLEAN : CreateApplication(a, u, cu)
  \/ \E r \in Req, a \in App, cu \in BOOLEAN : CreateFromWizard(r, a, cu)
  \/ \E r \in Req, a \in App : ReadPatch(r, a)
  \/ \E r \in Req : WritePatch(r)
  \/ \E a \in App : CaptureConsent(a)
  \/ \E r \in Req, a \in App, t \in Status, u \in User \cup {NoUser} :
       ReadForTransition(r, a, t, u)
  \/ \E r \in Req, a \in App, u \in User : ReadForSubmit(r, a, u)
  \/ \E r \in Req, g \in Gate : ReadGate(r, g)
  \/ \E r \in Req : WriteTransition(r)
  \/ \E r \in Req : WriteSubmit(r)
  \/ \E r \in Req : AppendRecord(r)
  \/ \E r \in Req, a \in App : ReadForCancel(r, a)
  \/ \E r \in Req : WriteCancel(r)
  \/ \E a \in App : OpenRecovery(a)
  \/ \E a \in App, s \in Stage : AdvanceStage(a, s)
  \/ \E r \in Req, a \in App, o \in {"won", "lost"} : ResolveRecovery(r, a, o)
  \/ \E r \in Req : WriteWon(r)
  \/ \E r \in Req : Abort(r)

Spec == Init /\ [][Next]_vars

----------------------------------------------------------------------------
(* Properties of every interleaving.                                       *)

\* An application that was ever submitted has, at every later time, a signed
\* product-reality acknowledgment, a captured per-application consent and a
\* recorded maker: the gates read before the update, other requests run in
\* between, and these three must survive the gap (application-gates.ts checkAll
\* against the unconditional updates of both submit routes).
SubmittedWithPrerequisites ==
  \A a \in App : submittedAt[a] => acked /\ consentAt[a] /\ creator[a] # NoUser

\* The approver on record is never the maker, also after a transition that
\* writes back a metadata object it read before another request changed it
\* (checkMakerChecker; adverseActionNotice in transitionStatus).
FourEyes ==
  \A a \in App : approver[a] # NoUser => creator[a] # NoUser /\ approver[a] # creator[a]

\* The ledger never runs ahead of the rows: a submission or a decision event is
\* on the ledger only once the row carries its timestamp, and a declined event
\* only after the decline-recovery trigger (order in _publishStatusEvent).
LedgerSound ==
  \A a \in App :
    /\ records[a] \cap {"audit.submitted", "application.submitted"} # {} => submittedAt[a]
    /\ records[a] \cap {"application.approved", "card.declined"} # {} => decidedAt[a]
    /\ "card.declined" \in records[a] => "decline_recovery.triggered" \in records[a]

----------------------------------------------------------------------------
(* Properties of requests that run one at a time.                          *)

\* The columns the lifecycle keeps are the row's own; the requests in flight, the
\* ledger and the rest of the row are what it abstracts.
Lifecycle == INSTANCE ApplicationLifecycle WITH
  App <- App, status <- status, consentAt <- consentAt,
  submittedAt <- submittedAt, creditUnion <- creditUnion

\* With one request in flight and no decline recovery resolved, every behaviour
\* of the pipeline is one of the lifecycle: its table of transitions, consent
\* before submission, terms frozen on submission and cancelled as a final
\* status (VALID_TRANSITIONS and the routes that write around it).
FollowsLifecycle == Lifecycle!LifecycleSpec

----------------------------------------------------------------------------
(* What the repository says and the code does not do.                      *)

\* The comment on VALID_TRANSITIONS calls 'cancelled' terminal, reachable only
\* through the cancellation endpoint.
CancelledIsTerminal ==
  [][\A a \in App : status[a] = "cancelled" => status'[a] = "cancelled"]_vars

\* The cancellation endpoint records the cancellation of any card that is not
\* cancelled yet ("a card the client believes is cancelled, and the system still
\* counts as open credit, is the wrong way round"): one that has passed the
\* endpoint's checks is never refused by the database.
CancellationAccepted ==
  \A r \in Req : Writing(r, "cancel") => Permitted(req[r].app, "cancelled")

\* docs/security.md says that every application decision is a permanent ledger
\* record: once no request is running, an approved or declined application has
\* its event.
DecisionsLedgered ==
  \A a \in App :
    (\A r \in Req : req[r] # Idle => req[r].app # a) =>
      /\ status[a] = "approved" => "application.approved" \in records[a]
      /\ status[a] = "declined" => "card.declined" \in records[a]

============================================================================
