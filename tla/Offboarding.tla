---------------------------- MODULE Offboarding -----------------------------
(***************************************************************************)
(* offboarding.service behind the admin routes: the workflows of one       *)
(* tenant, and the deletion that takes the personal data out of the rows   *)
(* of its owners and users, row by row, and then calls the workflow        *)
(* completed.  The deletion of a client's workflow takes the same rows as  *)
(* that of the tenant's: all of them.  Personal data is what it nulls (an  *)
(* owner's ssn, date of birth and address, a user's email and secrets):    *)
(* names and the last four digits of an ssn stay.                          *)
(*                                                                         *)
(* Two requests beside it write such data by id and know of no deletion:   *)
(* verifyKyc, into an owner's row and long after it was read, and the      *)
(* enrolment of a second factor, into a user's.                            *)
(*                                                                         *)
(* What an offboarding writes elsewhere is with what it writes: the final  *)
(* invoice in Invoices, the tenant's deactivation in TenantAdmission.      *)
(* What a jurisdiction adds (demographic data under GDPR, revoked consents *)
(* under CCPA), the export flag, the interview and the audit rows are left *)
(* out: no decision here looks at them.                                    *)
(***************************************************************************)
CONSTANTS
  Workflow,   \* the offboarding workflows
  Owner,      \* rows with personal data: business owners,
  Account,    \* and users
  OffReq,     \* request slots
  NoOff

VARIABLES
  workflow,   \* the rows: [status, deletion, ofBusiness]
  personal,   \* per row with personal data: what it holds
  offReq,     \* per slot: NoOff or a request under way
  due         \* history: per workflow, the rows there were when its deletion was
              \* first begun and that no deletion has scrubbed since

offVars == <<workflow, personal, offReq, due>>

PersonalRow == Owner \cup Account

Personal == {"absent", "held", "scrubbed"}

WorkflowRow ==
  [status : {"none", "initiated", "in_progress", "completed"},
   deletion : {"pending", "in_progress", "completed"},
   ofBusiness : BOOLEAN]

\* at is the statement a deletion has reached, and todo the rows of the latest list
\* that it still has to scrub.
Deletion == [op : {"delete"}, of : Workflow, at : {"mark", "owners", "users", "finish"},
             todo : SUBSET PersonalRow]
Initiation == [op : {"initiate"}, ofBusiness : BOOLEAN, refunds : BOOLEAN]
Advance == [op : {"advance"}, of : Workflow]
Verification == [op : {"verify"}, of : Owner]

OffTypeOK ==
  /\ workflow \in [Workflow -> WorkflowRow]
  /\ personal \in [PersonalRow -> Personal]
  /\ offReq \in [OffReq -> Deletion \cup Initiation \cup Advance \cup Verification \cup {NoOff}]
  /\ due \in [Workflow -> SUBSET PersonalRow]

OffInit ==
  /\ workflow = [w \in Workflow |->
       [status |-> "none", deletion |-> "pending", ofBusiness |-> FALSE]]
  /\ personal = [x \in PersonalRow |-> "absent"]
  /\ offReq = [s \in OffReq |-> NoOff]
  /\ due = [w \in Workflow |-> {}]

-----------------------------------------------------------------------------
AtOff(s, op) == offReq[s] # NoOff /\ offReq[s].op = op

\* Slot s is a deletion at a statement, with nothing left to scrub before it.
AtStage(s, stage) == AtOff(s, "delete") /\ offReq[s].at = stage /\ offReq[s].todo = {}

Continue(s, request) == offReq' = [offReq EXCEPT ![s] = request]

Existing(rows) == {x \in rows : personal[x] # "absent"}

\* An owner is entered, a user registers.
EnterRow(x) ==
  /\ personal[x] = "absent"
  /\ personal' = [personal EXCEPT ![x] = "held"]
  /\ UNCHANGED <<workflow, offReq, due>>

\* beginEnrolment writes the user's row by its id and asks for an access token only,
\* which a user who was scrubbed may hold for its last minutes.
BeginEnrolment(x) ==
  /\ personal[x] = "scrubbed"
  /\ personal' = [personal EXCEPT ![x] = "held"]
  /\ UNCHANGED <<workflow, offReq, due>>

\* verifyKyc reads the owner (of a business whose KYB is verified), then screens...
BeginVerification(s, x) ==
  /\ offReq[s] = NoOff
  /\ personal[x] # "absent"
  /\ Continue(s, [op |-> "verify", of |-> x])
  /\ UNCHANGED <<workflow, personal, due>>

\* ... and writes ssn, date of birth and address from the request into the row with
\* that id, whatever has become of it.  One that ends with a sanctions hold writes the
\* status only: nothing here, so AbandonOff stands for it.
WriteVerification(s) ==
  /\ AtOff(s, "verify")
  /\ personal' = [personal EXCEPT ![offReq[s].of] = "held"]
  /\ Continue(s, NoOff)
  /\ UNCHANGED <<workflow, due>>

\* initiateOffboarding refuses a business with an active workflow, and where none is
\* named a tenant with any...
ReadActive(s, ofBusiness, refunds) ==
  /\ offReq[s] = NoOff
  /\ \A w \in Workflow :
       workflow[w].status \in {"initiated", "in_progress"}
         => ofBusiness /\ ~workflow[w].ofBusiness
  /\ refunds => ofBusiness
  /\ Continue(s, [op |-> "initiate", ofBusiness |-> ofBusiness, refunds |-> refunds])
  /\ UNCHANGED <<workflow, personal, due>>

\* ... inserts the row...
CreateWorkflow(s, w) ==
  /\ AtOff(s, "initiate")
  /\ workflow[w].status = "none"
  /\ workflow' = [workflow EXCEPT ![w].status = "initiated",
                                  ![w].ofBusiness = offReq[s].ofBusiness]
  /\ Continue(s, IF offReq[s].refunds
                 THEN [op |-> "advance", of |-> w] ELSE NoOff)
  /\ UNCHANGED <<personal, due>>

\* ... and for a client's business, once the refund is computed, writes its status again.
AdvanceWorkflow(s) ==
  /\ AtOff(s, "advance")
  /\ workflow' = [workflow EXCEPT ![offReq[s].of].status = "in_progress"]
  /\ Continue(s, NoOff)
  /\ UNCHANGED <<personal, due>>

\* deleteData refuses a workflow whose deletion is completed...
ReadWorkflow(s, w) ==
  /\ offReq[s] = NoOff
  /\ workflow[w].status # "none"
  /\ workflow[w].deletion # "completed"
  /\ Continue(s, [op |-> "delete", of |-> w, at |-> "mark", todo |-> {}])
  /\ UNCHANGED <<workflow, personal, due>>

MarkAndGoTo(s, stage) ==
  LET w == offReq[s].of
  IN  /\ workflow' = [workflow EXCEPT ![w].deletion = "in_progress"]
      /\ due' = IF workflow[w].deletion = "pending"
                THEN [due EXCEPT ![w] = Existing(PersonalRow)] ELSE due
      /\ Continue(s, [offReq[s] EXCEPT !.at = stage])
      /\ UNCHANGED personal

\* Mutant: a deletion found under way is not repeated.
MarkDeletionResumed(s) ==
  /\ AtStage(s, "mark")
  /\ MarkAndGoTo(s, IF workflow[offReq[s].of].deletion = "in_progress"
                    THEN "finish" ELSE "owners")

\* ... marks it as under way...
MarkDeletion(s) ==
  /\ AtStage(s, "mark")
  /\ MarkAndGoTo(s, "owners")

\* ... lists the owners, then the users...
ListAndGoTo(s, rows, stage) ==
  /\ Continue(s, [offReq[s] EXCEPT !.todo = Existing(rows), !.at = stage])
  /\ UNCHANGED <<workflow, personal, due>>

ListOwners(s) == AtStage(s, "owners") /\ ListAndGoTo(s, Owner, "users")

ListUsers(s) == AtStage(s, "users") /\ ListAndGoTo(s, Account, "finish")

\* ... scrubs each list to its end, a row at a time, before it goes on...
ScrubRow(s, x) ==
  /\ AtOff(s, "delete")
  /\ x \in offReq[s].todo
  /\ personal' = [personal EXCEPT ![x] = "scrubbed"]
  /\ Continue(s, [offReq[s] EXCEPT !.todo = @ \ {x}])
  /\ due' = [w \in Workflow |-> due[w] \ {x}]
  /\ UNCHANGED workflow

\* ... and completes deletion and workflow in one write.
CompleteWorkflow(s) ==
  /\ AtStage(s, "finish")
  /\ workflow' = [workflow EXCEPT ![offReq[s].of].deletion = "completed",
                                  ![offReq[s].of].status = "completed"]
  /\ Continue(s, NoOff)
  /\ UNCHANGED <<personal, due>>

\* The process dies, or the database refuses, between two statements, or a verification
\* ends without its write.  A deletion so left can be asked for again, and starts over.
AbandonOff(s) ==
  /\ offReq[s] # NoOff
  /\ Continue(s, NoOff)
  /\ UNCHANGED <<workflow, personal, due>>

OffNext ==
  \/ \E x \in PersonalRow : EnterRow(x)
  \/ \E x \in Account : BeginEnrolment(x)
  \/ \E s \in OffReq, ofBusiness \in BOOLEAN, refunds \in BOOLEAN : ReadActive(s, ofBusiness, refunds)
  \/ \E s \in OffReq, w \in Workflow : CreateWorkflow(s, w) \/ ReadWorkflow(s, w)
  \/ \E s \in OffReq, x \in Owner : BeginVerification(s, x)
  \/ \E s \in OffReq :
       \/ AdvanceWorkflow(s) \/ WriteVerification(s)
       \/ MarkDeletion(s) \/ ListOwners(s) \/ ListUsers(s)
       \/ CompleteWorkflow(s) \/ AbandonOff(s)
  \/ \E s \in OffReq, x \in PersonalRow : ScrubRow(s, x)

OffSpec == OffInit /\ [][OffNext]_offVars

-----------------------------------------------------------------------------
\* A workflow that says its data is deleted has had it deleted: every owner and user on
\* record when its deletion was first begun has been scrubbed since, however often the
\* deletion died and was asked for again, and whatever other deletion, initiation,
\* verification or enrolment ran beside it ("Advancing by hand is how a workflow claims
\* a deletion that never ran", docs/gaps.md:53; deleteData writes both columns last).
\* That it is still so is not claimed, and not true: a verification or an enrolment may
\* have written into the row after it was scrubbed.
CompletedHasScrubbed ==
  \A w \in Workflow :
    "completed" \in {workflow[w].status, workflow[w].deletion} => due[w] = {}

=============================================================================
