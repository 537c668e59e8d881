------------------------- MODULE DisclosureTemplates ------------------------
(***************************************************************************)
(* disclosure-cms.service behind the disclosure routes: the templates of   *)
(* one state and category of a tenant, which an approval replaces one by   *)
(* another.  A request reads a row, decides, and writes in one or two      *)
(* statements of its own.  Content, names and version numbers are left     *)
(* out: no decision looks at them.                                         *)
(*                                                                         *)
(* The event published after a submission or an approval goes to           *)
(* subscribers in memory only, and none listens to it.                     *)
(***************************************************************************)

CONSTANTS
  Template,   \* the rows, one per template id
  CmsReq,     \* request slots
  NoCms

VARIABLES
  template,   \* the rows: [status, active, signed], status "none" if there is none
  cmsReq,     \* per slot: NoCms or a request under way
  outpaced    \* history: slots that read before another request changed a row

cmsVars == <<template, cmsReq, outpaced>>

\* The abstract shelf.
Shelf == INSTANCE DisclosureShelf WITH
  stage <- [t \in Template |-> template[t].status],
  inForce <- {t \in Template : template[t].active},
  signed <- {t \in Template : template[t].signed}

TemplateStatus == {"draft", "pending_review", "approved", "superseded"}
TemplateRow == [status : TemplateStatus \cup {"none"}, active : BOOLEAN, signed : BOOLEAN]

\* next is the statement a request is at.
CmsRequest ==
  [op : {"edit", "submit", "approve"}, of : Template, next : {"first", "write"}]
    \cup [op : {"seed"}, autoApprove : BOOLEAN]

CmsTypeOK ==
  /\ template \in [Template -> TemplateRow]
  /\ cmsReq \in [CmsReq -> CmsRequest \cup {NoCms}]
  /\ outpaced \subseteq CmsReq

CmsInit ==
  /\ template = [t \in Template |-> [status |-> "none", active |-> FALSE, signed |-> FALSE]]
  /\ cmsReq = [s \in CmsReq |-> NoCms]
  /\ outpaced = {}

-----------------------------------------------------------------------------
OnShelf(t) == template[t].status # "none"

\* Slot s is in operation op, at statement next.
AtCms(s, op, next) ==
  /\ cmsReq[s] # NoCms
  /\ cmsReq[s].op = op
  /\ cmsReq[s].next = next

\* A change of the rows by the requests in own makes what the others under way have
\* read out of date.
Outpaces(own) ==
  outpaced' = {x \in CmsReq : /\ cmsReq'[x] # NoCms
                              /\ \/ x \in outpaced
                                 \/ template' # template /\ x \notin own}

BeginCms(s, request) ==
  /\ cmsReq[s] = NoCms
  /\ cmsReq' = [cmsReq EXCEPT ![s] = request]
  /\ UNCHANGED <<template, outpaced>>

EndCms(s) == cmsReq' = [cmsReq EXCEPT ![s] = NoCms]

\* POST /disclosures/templates inserts a draft, without reading anything.
CreateTemplate(t) ==
  /\ ~OnShelf(t)
  /\ template' = [template EXCEPT ![t].status = "draft"]
  /\ UNCHANGED cmsReq
  /\ Outpaces({})

\* updateTemplate reads the row.  One that is active is first taken out of service...
ReadEdit(s, t) ==
  /\ OnShelf(t)
  /\ BeginCms(s, [op |-> "edit", of |-> t,
                  next |-> IF template[t].active THEN "first" ELSE "write"])

WithdrawEdited(s) ==
  /\ AtCms(s, "edit", "first")
  /\ template' = [template EXCEPT ![cmsReq[s].of].active = FALSE]
  /\ cmsReq' = [cmsReq EXCEPT ![s].next = "write"]
  /\ Outpaces({s})

\* ... and then rewritten, inactive and without its approval.  The status is left.
WriteEdit(s) ==
  /\ AtCms(s, "edit", "write")
  /\ template' = [template EXCEPT ![cmsReq[s].of].active = FALSE,
                                  ![cmsReq[s].of].signed = FALSE]
  /\ EndCms(s)
  /\ Outpaces({s})

\* submitForApproval takes a draft, and only a draft...
ReadSubmit(s, t) ==
  /\ template[t].status = "draft"
  /\ BeginCms(s, [op |-> "submit", of |-> t, next |-> "write"])

WriteSubmit(s) ==
  /\ AtCms(s, "submit", "write")
  /\ template' = [template EXCEPT ![cmsReq[s].of].status = "pending_review"]
  /\ EndCms(s)
  /\ Outpaces({s})

\* approveTemplate takes what is in review...
ReadApproval(s, t) ==
  /\ template[t].status = "pending_review"
  /\ BeginCms(s, [op |-> "approve", of |-> t, next |-> "first"])

\* Mutant: the others stay active.
SupersedeNone(s) ==
  /\ AtCms(s, "approve", "first")
  /\ template' = template
  /\ cmsReq' = [cmsReq EXCEPT ![s].next = "write"]
  /\ Outpaces({s})

\* ... retires the others that are active, in one statement...
SupersedeOthers(s) ==
  /\ AtCms(s, "approve", "first")
  /\ template' = [t \in Template |->
       IF t # cmsReq[s].of /\ template[t].active
       THEN [template[t] EXCEPT !.active = FALSE, !.status = "superseded"]
       ELSE template[t]]
  /\ cmsReq' = [cmsReq EXCEPT ![s].next = "write"]
  /\ Outpaces({s})

\* ... and activates this one, in another.
Activate(s) ==
  /\ AtCms(s, "approve", "write")
  /\ template' = [template EXCEPT ![cmsReq[s].of] =
       [status |-> "approved", active |-> TRUE, signed |-> TRUE]]
  /\ EndCms(s)
  /\ Outpaces({s})

\* seedDefaultTemplates looks for any template of the state and category...
ReadSeed(s, autoApprove) ==
  /\ \A t \in Template : ~OnShelf(t)
  /\ BeginCms(s, [op |-> "seed", autoApprove |-> autoApprove])

\* ... and inserts one, a draft by its status, that may be active from the start.
WriteSeed(s, t) ==
  /\ cmsReq[s] # NoCms
  /\ cmsReq[s].op = "seed"
  /\ ~OnShelf(t)
  /\ template' = [template EXCEPT ![t] =
       [status |-> "draft", active |-> cmsReq[s].autoApprove, signed |-> cmsReq[s].autoApprove]]
  /\ EndCms(s)
  /\ Outpaces({s})

\* The process dies, or the database refuses, between two statements.
AbandonCms(s) ==
  /\ cmsReq[s] # NoCms
  /\ EndCms(s)
  /\ UNCHANGED template
  /\ Outpaces({s})

CmsNext ==
  \/ \E t \in Template : CreateTemplate(t)
  \/ \E s \in CmsReq, t \in Template : ReadEdit(s, t) \/ ReadSubmit(s, t) \/ ReadApproval(s, t)
  \/ \E s \in CmsReq, autoApprove \in BOOLEAN : ReadSeed(s, autoApprove)
  \/ \E s \in CmsReq :
       \/ WithdrawEdited(s) \/ WriteEdit(s) \/ WriteSubmit(s)
       \/ SupersedeOthers(s) \/ Activate(s) \/ AbandonCms(s)
  \/ \E s \in CmsReq, t \in Template : WriteSeed(s, t)

CmsSpec == CmsInit /\ [][CmsNext]_cmsVars

-----------------------------------------------------------------------------
\* The templates change as the shelf promises, wherever a process dies, except by a
\* request that read before another one changed a row: a second disclosure in force,
\* or one in force that was edited after its review, comes about only that way
\* (approveTemplate retires the others and activates its own in two statements, and
\* tests the status long before).
OutpacedWrite ==
  \E s \in outpaced :
    \/ WithdrawEdited(s) \/ WriteEdit(s) \/ WriteSubmit(s)
    \/ SupersedeOthers(s) \/ Activate(s) \/ \E t \in Template : WriteSeed(s, t)
OnlyOverlapsBreakShelf ==
  Shelf!ShelfInit /\ [][OutpacedWrite \/ Shelf!ShelfNext]_template

=============================================================================
