--------------------------- MODULE DocumentVault ----------------------------
(***************************************************************************)
(* One document of a business and the requests on it: document-vault       *)
(* behind the document routes, and the legal hold that                     *)
(* regulator-response places on every document of a business under         *)
(* inquiry.  A request reads the row and later writes it by its id.        *)
(*                                                                         *)
(* A document that carries a signature envelope is another case, left out: *)
(* the provider's callback replaces all that is noted on it.  The ledger   *)
(* event after an upload is left out too; nothing reads it back.           *)
(***************************************************************************)

CONSTANTS
  VaultReq,   \* request slots
  NoVault

VARIABLES
  document,   \* the row: [place, held, note], as they last were if it is deleted
  inquiry,    \* the inquiry's status: "open", "legal_hold" or "closed"
  vaultReq,   \* per slot: NoVault or what the request read and will write
  outrun      \* history: slots that read before another request changed the row

vaultVars == <<document, inquiry, vaultReq, outrun>>

Place == {"none", "placeholder", "stored", "deleted"}
Note == {"none", "placed", "lifted", "lifted_only"}
Document == [place : Place, held : BOOLEAN, note : Note]

\* The abstract hold on it.
Hold == INSTANCE DocumentHold WITH
  place <- CASE document.place = "none" -> "absent"
             [] document.place = "deleted" -> "gone"
             [] OTHER -> "kept",
  held <- document.held,
  note <- document.note

VaultRequest ==
  [op : {"hold", "release"}, note : Note]
    \cup [op : {"upload", "delete", "list", "preserve", "mark"}]

VaultTypeOK ==
  /\ document \in Document
  /\ inquiry \in {"open", "legal_hold", "closed"}
  /\ vaultReq \in [VaultReq -> VaultRequest \cup {NoVault}]
  /\ outrun \subseteq VaultReq

VaultInit ==
  /\ document = [place |-> "none", held |-> FALSE, note |-> "none"]
  /\ inquiry = "open"
  /\ vaultReq = [s \in VaultReq |-> NoVault]
  /\ outrun = {}

-----------------------------------------------------------------------------
Kept == document.place \in {"placeholder", "stored"}

\* Slot s is to carry out op next.
AtVault(s, op) == vaultReq[s] # NoVault /\ vaultReq[s].op = op

\* Slot s goes on to its next statement, or with NoVault ends.  A change of the hold
\* makes what the others under way have read out of date.
GoesOn(s, request) ==
  /\ vaultReq' = [vaultReq EXCEPT ![s] = request]
  /\ outrun' = (outrun \cup (IF document'.held # document.held \/ document'.note # document.note
                            THEN {x \in VaultReq : vaultReq[x] # NoVault} ELSE {})) \ {s}

\* upload inserts a row to have an id, stores the bytes under it...
BeginUpload(s) ==
  /\ vaultReq[s] = NoVault
  /\ document.place = "none"
  /\ document' = [document EXCEPT !.place = "placeholder"]
  /\ UNCHANGED inquiry
  /\ GoesOn(s, [op |-> "upload"])

\* ... and completes the row.
FinaliseUpload(s) ==
  /\ AtVault(s, "upload")
  /\ Kept
  /\ document' = [document EXCEPT !.place = "stored"]
  /\ UNCHANGED inquiry
  /\ GoesOn(s, NoVault)

\* POST /documents/upload and the services that file a document insert it whole, an
\* acknowledgment on hold from the start.
InsertDocument(s, hold) ==
  /\ vaultReq[s] = NoVault
  /\ document.place = "none"
  /\ document' = [document EXCEPT !.place = "stored", !.held = hold]
  /\ UNCHANGED inquiry
  /\ GoesOn(s, NoVault)

\* setLegalHold reads what is noted on the row...
ReadHold(s, op) ==
  /\ vaultReq[s] = NoVault
  /\ Kept
  /\ UNCHANGED <<document, inquiry>>
  /\ GoesOn(s, [op |-> op, note |-> document.note])

\* Releasing keeps who placed the hold.
NoteAfter(op, note) ==
  IF op = "hold" THEN "placed"
  ELSE IF note \in {"placed", "lifted"} THEN "lifted" ELSE "lifted_only"

\* ... and writes the hold, with that and one entry more.
WriteHold(s, op) ==
  /\ AtVault(s, op)
  /\ Kept
  /\ document' = [document EXCEPT !.held = (op = "hold"),
                                  !.note = NoteAfter(op, vaultReq[s].note)]
  /\ UNCHANGED inquiry
  /\ GoesOn(s, NoVault)

\* Mutant: no hold stops a deletion.
ReadDeleteUnguarded(s) ==
  /\ vaultReq[s] = NoVault
  /\ Kept
  /\ UNCHANGED <<document, inquiry>>
  /\ GoesOn(s, [op |-> "delete"])

\* delete refuses a row on hold...
ReadDelete(s) ==
  /\ vaultReq[s] = NoVault
  /\ Kept
  /\ ~document.held
  /\ UNCHANGED <<document, inquiry>>
  /\ GoesOn(s, [op |-> "delete"])

\* ... and deletes the other, by its id.
WriteDelete(s) ==
  /\ AtVault(s, "delete")
  /\ Kept
  /\ document' = [document EXCEPT !.place = "deleted"]
  /\ UNCHANGED inquiry
  /\ GoesOn(s, NoVault)

\* PUT /regulator/inquiries/:id writes the status; for a legal hold, activateLegalHold
\* follows.
PutInquiry(s, status) ==
  /\ vaultReq[s] = NoVault
  /\ inquiry' = status
  /\ UNCHANGED document
  /\ GoesOn(s, IF status = "legal_hold" THEN [op |-> "list"] ELSE NoVault)

\* It lists the documents of the business...
ListDocuments(s) ==
  /\ AtVault(s, "list")
  /\ UNCHANGED <<document, inquiry>>
  /\ GoesOn(s, IF Kept THEN [op |-> "preserve"] ELSE [op |-> "mark"])

\* ... holds those of the list that are still there...
PreserveDocuments(s) ==
  /\ AtVault(s, "preserve")
  /\ document' = IF Kept THEN [document EXCEPT !.held = TRUE] ELSE document
  /\ UNCHANGED inquiry
  /\ GoesOn(s, [op |-> "mark"])

\* ... and writes the inquiry once more.
MarkInquiry(s) ==
  /\ AtVault(s, "mark")
  /\ inquiry' = "legal_hold"
  /\ UNCHANGED document
  /\ GoesOn(s, NoVault)

\* The process dies between two statements; or a write by id finds no row.
AbandonVault(s) ==
  /\ vaultReq[s] # NoVault
  /\ UNCHANGED <<document, inquiry>>
  /\ GoesOn(s, NoVault)

VaultNext ==
  \/ \E s \in VaultReq :
       \/ BeginUpload(s) \/ FinaliseUpload(s)
       \/ ReadDelete(s) \/ WriteDelete(s)
       \/ ListDocuments(s) \/ PreserveDocuments(s) \/ MarkInquiry(s)
       \/ AbandonVault(s)
  \/ \E s \in VaultReq, hold \in BOOLEAN : InsertDocument(s, hold)
  \/ \E s \in VaultReq, op \in {"hold", "release"} : ReadHold(s, op) \/ WriteHold(s, op)
  \/ \E s \in VaultReq, status \in {"open", "legal_hold", "closed"} : PutInquiry(s, status)

VaultSpec == VaultInit /\ [][VaultNext]_vaultVars

-----------------------------------------------------------------------------
\* The document changes as its hold promises, except by a request that read the row
\* before another one changed it: a document on hold is deleted, or a note of who
\* placed a hold lost, only that way ("The document cannot be deleted by any actor",
\* document-vault.service.ts:329, which delete tests on a row read before).
OutrunWrite ==
  \E s \in outrun : WriteDelete(s) \/ \E op \in {"hold", "release"} : WriteHold(s, op)
OnlyOverlapsBreakHold ==
  Hold!HoldInit /\ [][OutrunWrite \/ Hold!HoldNext]_(Hold!holdVars)

=============================================================================
