----------------------------- MODULE FileProofs -----------------------------
(***************************************************************************)
(* That the disclosure templates, a document on legal hold and an ACH      *)
(* authorization implement what is promised of each, except by requests    *)
(* that acted on a row another request has changed since, and what those   *)
(* promises come to when no write comes too late or requests come one at a *)
(* time: for any number of rows and of requests.  At the end, that an      *)
(* offboarding called completed has scrubbed what it found.                *)
(*                                                                         *)
(* The first three arguments are alike.  The history of a component names  *)
(* the requests whose reading is out of date; the invariant says that what *)
(* any other request has read still holds, so its write is a step of the   *)
(* abstract specification.                                                 *)
(***************************************************************************)
EXTENDS DisclosureTemplates, DocumentVault, AchControls, Offboarding, TLAPS

-----------------------------------------------------------------------------
(* Disclosure templates.                                                   *)

\* What a request that nobody outpaced has read still holds.
InTime(s) ==
  LET q == cmsReq[s]
  IN  q # NoCms /\ s \notin outpaced =>
        /\ q.op = "edit" => /\ OnShelf(q.of)
                            /\ q.next = "first" <=> template[q.of].active
        /\ q.op = "submit" => template[q.of].status = "draft"
        /\ q.op = "approve" => /\ template[q.of].status = "pending_review"
                               /\ q.next = "write" =>
                                    \A t \in Template : template[t].active => t = q.of
        /\ q.op = "seed" => \A t \in Template : ~OnShelf(t)

\* Where there is no row, nothing is in force or signed.
Blank == \A t \in Template : ~OnShelf(t) => ~template[t].active /\ ~template[t].signed

RowsSound == template \in [Template -> TemplateRow] /\ Blank

CmsInv == CmsTypeOK /\ Blank /\ \A s \in CmsReq : InTime(s)

LEMMA InitCms == CmsInit => CmsInv
BY DEF CmsInit, CmsInv, CmsTypeOK, TemplateRow, Blank, InTime

\* A request whose slot did not move is in time after a step if no row changed or its
\* reading was declared out of date.
LEMMA OthersInTime ==
  ASSUME CmsInv, NEW s \in CmsReq, InTime(s), cmsReq'[s] = cmsReq[s],
         template' = template \/ cmsReq[s] = NoCms \/ s \in outpaced',
         s \in outpaced => s \in outpaced' \/ cmsReq[s] = NoCms
  PROVE  InTime(s)'
BY DEF InTime, OnShelf

\* The same of all the slots but that of the writer.
LEMMA WritersOutpace ==
  ASSUME CmsInv, NEW own \in SUBSET CmsReq, Outpaces(own),
         \A x \in CmsReq \ own : cmsReq'[x] = cmsReq[x]
  PROVE  /\ outpaced' \subseteq CmsReq
         /\ \A x \in CmsReq \ own : InTime(x)'
<1>1. outpaced' \subseteq CmsReq
  BY DEF Outpaces
<1>2. ASSUME NEW x \in CmsReq \ own
      PROVE  InTime(x)'
  BY <1>2, OthersInTime DEF CmsInv, Outpaces
<1> QED
  BY <1>1, <1>2

LEMMA BeginCmsKeeps ==
  ASSUME CmsInv, NEW s \in CmsReq, NEW request \in CmsRequest, BeginCms(s, request),
         s \notin outpaced' => InTime(s)'
  PROVE  CmsInv'
<1>1. CmsTypeOK' /\ Blank'
  BY DEF CmsInv, CmsTypeOK, Blank, OnShelf, BeginCms
<1>2. ASSUME NEW x \in CmsReq \ {s}
      PROVE  InTime(x)'
  <2>1. cmsReq'[x] = cmsReq[x]
    BY <1>2 DEF CmsInv, CmsTypeOK, BeginCms
  <2> QED
    BY <2>1, <1>2, OthersInTime DEF CmsInv, BeginCms
<1>3. s \in outpaced' => InTime(s)'
  BY DEF InTime
<1> QED
  BY <1>1, <1>2, <1>3 DEF CmsInv

LEMMA CreateTemplateKeeps ==
  ASSUME CmsInv, NEW t \in Template, CreateTemplate(t)
  PROVE  CmsInv'
<1>1. \A x \in CmsReq \ {} : cmsReq'[x] = cmsReq[x]
  BY DEF CreateTemplate
<1>2. RowsSound'
  BY DEF CmsInv, CmsTypeOK, RowsSound, Blank, OnShelf, CreateTemplate, TemplateRow, TemplateStatus
<1> QED
  BY <1>1, <1>2, WritersOutpace DEF CmsInv, CmsTypeOK, RowsSound, CreateTemplate

LEMMA ReadsKeep ==
  ASSUME CmsInv, NEW s \in CmsReq, NEW t \in Template,
         ReadEdit(s, t) \/ ReadSubmit(s, t) \/ ReadApproval(s, t)
  PROVE  CmsInv'
<1>1. CASE ReadEdit(s, t)
  <2> DEFINE q == [op |-> "edit", of |-> t,
                   next |-> IF template[t].active THEN "first" ELSE "write"]
  <2>1. q \in CmsRequest /\ BeginCms(s, q)
    BY <1>1 DEF ReadEdit, CmsRequest
  <2>2. cmsReq'[s] = q /\ template' = template
    BY <2>1 DEF CmsInv, CmsTypeOK, BeginCms
  <2>3. template[t].active \in BOOLEAN
    BY DEF CmsInv, CmsTypeOK, TemplateRow
  <2>4. InTime(s)'
    BY <1>1, <2>2, <2>3 DEF InTime, ReadEdit, OnShelf
  <2> QED
    BY <2>1, <2>4, BeginCmsKeeps
<1>2. CASE ReadSubmit(s, t)
  <2> DEFINE q == [op |-> "submit", of |-> t, next |-> "write"]
  <2>1. q \in CmsRequest /\ BeginCms(s, q)
    BY <1>2 DEF ReadSubmit, CmsRequest
  <2>2. cmsReq'[s] = q /\ template' = template
    BY <2>1 DEF CmsInv, CmsTypeOK, BeginCms
  <2>3. InTime(s)'
    BY <1>2, <2>2 DEF InTime, ReadSubmit
  <2> QED
    BY <2>1, <2>3, BeginCmsKeeps
<1>3. CASE ReadApproval(s, t)
  <2> DEFINE q == [op |-> "approve", of |-> t, next |-> "first"]
  <2>1. q \in CmsRequest /\ BeginCms(s, q)
    BY <1>3 DEF ReadApproval, CmsRequest
  <2>2. cmsReq'[s] = q /\ template' = template
    BY <2>1 DEF CmsInv, CmsTypeOK, BeginCms
  <2>3. InTime(s)'
    BY <1>3, <2>2 DEF InTime, ReadApproval
  <2> QED
    BY <2>1, <2>3, BeginCmsKeeps
<1> QED
  BY <1>1, <1>2, <1>3

LEMMA ReadSeedKeeps ==
  ASSUME CmsInv, NEW s \in CmsReq, NEW autoApprove \in BOOLEAN, ReadSeed(s, autoApprove)
  PROVE  CmsInv'
<1> DEFINE q == [op |-> "seed", autoApprove |-> autoApprove]
<1>1. q \in CmsRequest /\ BeginCms(s, q)
  BY DEF ReadSeed, CmsRequest
<1>2. cmsReq'[s] = q /\ template' = template
  BY <1>1 DEF CmsInv, CmsTypeOK, BeginCms
<1>3. InTime(s)'
  BY <1>2 DEF InTime, ReadSeed, OnShelf
<1> QED
  BY <1>1, <1>3, BeginCmsKeeps

\* A request that ends leaves nothing to be in time.
LEMMA EndKeeps ==
  ASSUME CmsInv, NEW s \in CmsReq, EndCms(s), Outpaces({s}),
         RowsSound'
  PROVE  CmsInv'
<1>1. /\ cmsReq'[s] = NoCms
      /\ \A x \in CmsReq \ {s} : cmsReq'[x] = cmsReq[x]
      /\ cmsReq' \in [CmsReq -> CmsRequest \cup {NoCms}]
  BY DEF CmsInv, CmsTypeOK, EndCms
<1>2. InTime(s)'
  BY <1>1 DEF InTime
<1> QED
  BY <1>1, <1>2, WritersOutpace DEF CmsInv, CmsTypeOK, RowsSound

LEMMA EndingWritesKeep ==
  ASSUME CmsInv, NEW s \in CmsReq,
         \/ WriteEdit(s) \/ WriteSubmit(s) \/ Activate(s) \/ AbandonCms(s)
         \/ \E t \in Template : WriteSeed(s, t)
  PROVE  CmsInv'
<1>1. RowsSound'
  <2>1. RowsSound /\ cmsReq[s] \in CmsRequest \cup {NoCms}
    BY DEF CmsInv, CmsTypeOK, RowsSound
  <2>2. CASE WriteEdit(s)
    BY <2>1, <2>2 DEF WriteEdit, AtCms, RowsSound, Blank, OnShelf, TemplateRow
  <2>3. CASE WriteSubmit(s)
    BY <2>1, <2>3 DEF WriteSubmit, AtCms, RowsSound, Blank, OnShelf, TemplateRow, TemplateStatus
  <2>4. CASE Activate(s)
    BY <2>1, <2>4 DEF Activate, AtCms, RowsSound, Blank, OnShelf, TemplateRow, TemplateStatus
  <2>5. CASE AbandonCms(s)
    BY <2>1, <2>5 DEF AbandonCms, RowsSound, Blank, OnShelf
  <2>6. ASSUME NEW t \in Template, WriteSeed(s, t)
        PROVE  RowsSound'
    <3>1. cmsReq[s].autoApprove \in BOOLEAN
      BY <2>1, <2>6 DEF WriteSeed, CmsRequest
    <3> QED
      BY <2>1, <2>6, <3>1 DEF WriteSeed, RowsSound, Blank, OnShelf, TemplateRow, TemplateStatus
  <2> QED
    BY <2>2, <2>3, <2>4, <2>5, <2>6
<1> QED
  BY <1>1, EndKeeps DEF WriteEdit, WriteSubmit, Activate, AbandonCms, WriteSeed

LEMMA WithdrawEditedKeeps ==
  ASSUME CmsInv, NEW s \in CmsReq, WithdrawEdited(s)
  PROVE  CmsInv'
<1> DEFINE q == cmsReq[s]
<1>1. /\ q \in CmsRequest
      /\ q.op = "edit"
      /\ q.next = "first"
      /\ q.of \in Template
  BY DEF CmsInv, CmsTypeOK, WithdrawEdited, AtCms, CmsRequest
<1>2. /\ cmsReq'[s] = [q EXCEPT !.next = "write"]
      /\ \A x \in CmsReq \ {s} : cmsReq'[x] = cmsReq[x]
  BY DEF CmsInv, CmsTypeOK, WithdrawEdited
<1>3. [q EXCEPT !.next = "write"] \in CmsRequest
  BY <1>1 DEF CmsRequest
<1>4. cmsReq' \in [CmsReq -> CmsRequest \cup {NoCms}]
  BY <1>3 DEF CmsInv, CmsTypeOK, WithdrawEdited
<1>5. RowsSound'
  BY <1>1 DEF CmsInv, CmsTypeOK, RowsSound, Blank, OnShelf, WithdrawEdited, TemplateRow
<1>6. InTime(s)'
  <2>1. SUFFICES ASSUME cmsReq'[s] # NoCms, s \notin outpaced'
                 PROVE  InTime(s)'
    BY DEF InTime
  <2>2. s \notin outpaced
    BY <2>1 DEF WithdrawEdited, Outpaces
  <2>3. OnShelf(q.of)
    BY <1>1, <2>2 DEF CmsInv, InTime, WithdrawEdited, AtCms
  <2>4. ~template'[q.of].active /\ template'[q.of].status = template[q.of].status
    BY <1>1 DEF CmsInv, CmsTypeOK, WithdrawEdited, TemplateRow
  <2>5. cmsReq'[s].op = "edit" /\ cmsReq'[s].next = "write" /\ cmsReq'[s].of = q.of
    BY <1>1, <1>2 DEF CmsRequest
  <2> QED
    BY <2>3, <2>4, <2>5 DEF InTime, OnShelf
<1> QED
  BY <1>2, <1>4, <1>5, <1>6, WritersOutpace DEF CmsInv, CmsTypeOK, RowsSound, WithdrawEdited

LEMMA SupersedeOthersKeeps ==
  ASSUME CmsInv, NEW s \in CmsReq, SupersedeOthers(s)
  PROVE  CmsInv'
<1> DEFINE q == cmsReq[s]
<1>1. /\ q \in CmsRequest
      /\ q.op = "approve"
      /\ q.next = "first"
      /\ q.of \in Template
  BY DEF CmsInv, CmsTypeOK, SupersedeOthers, AtCms, CmsRequest
<1>2. /\ cmsReq'[s] = [q EXCEPT !.next = "write"]
      /\ \A x \in CmsReq \ {s} : cmsReq'[x] = cmsReq[x]
  BY DEF CmsInv, CmsTypeOK, SupersedeOthers
<1>3. [q EXCEPT !.next = "write"] \in CmsRequest
  BY <1>1 DEF CmsRequest
<1>4. cmsReq' \in [CmsReq -> CmsRequest \cup {NoCms}]
  BY <1>3 DEF CmsInv, CmsTypeOK, SupersedeOthers
<1>5. RowsSound'
  BY DEF CmsInv, CmsTypeOK, RowsSound, Blank, OnShelf, SupersedeOthers, TemplateRow,
     TemplateStatus
<1>6. InTime(s)'
  <2>1. SUFFICES ASSUME cmsReq'[s] # NoCms, s \notin outpaced'
                 PROVE  InTime(s)'
    BY DEF InTime
  <2>2. s \notin outpaced
    BY <2>1 DEF SupersedeOthers, Outpaces
  <2>3. template[q.of].status = "pending_review"
    BY <1>1, <2>2 DEF CmsInv, InTime, SupersedeOthers, AtCms
  <2>4. template'[q.of] = template[q.of]
    BY <1>1 DEF SupersedeOthers
  <2>5. \A t \in Template : template'[t].active => t = q.of
    BY DEF CmsInv, CmsTypeOK, SupersedeOthers, TemplateRow
  <2>6. cmsReq'[s].op = "approve" /\ cmsReq'[s].next = "write" /\ cmsReq'[s].of = q.of
    BY <1>1, <1>2 DEF CmsRequest
  <2> QED
    BY <2>3, <2>4, <2>5, <2>6 DEF InTime
<1>7. /\ outpaced' \subseteq CmsReq
      /\ \A x \in CmsReq \ {s} : InTime(x)'
  BY <1>2, WritersOutpace DEF SupersedeOthers
<1> QED
  BY <1>4, <1>5, <1>6, <1>7 DEF CmsInv, CmsTypeOK, RowsSound

LEMMA CmsInductive == CmsInv /\ [CmsNext]_cmsVars => CmsInv'
<1> SUFFICES ASSUME CmsInv, [CmsNext]_cmsVars PROVE CmsInv'
  OBVIOUS
<1>1. CASE UNCHANGED cmsVars
  BY <1>1 DEF cmsVars, CmsInv, CmsTypeOK, Blank, InTime, OnShelf
<1> QED
  BY <1>1, CreateTemplateKeeps, ReadsKeep, ReadSeedKeeps, EndingWritesKeep,
     WithdrawEditedKeeps, SupersedeOthersKeeps DEF CmsNext

\* The write of a request that nobody outpaced is a step of the shelf.
LEMMA TimelyWrites ==
  ASSUME CmsInv, NEW s \in CmsReq, s \notin outpaced,
         \/ WithdrawEdited(s) \/ WriteEdit(s) \/ WriteSubmit(s)
         \/ SupersedeOthers(s) \/ Activate(s) \/ \E t \in Template : WriteSeed(s, t)
  PROVE  Shelf!ShelfNext
<1> DEFINE q == cmsReq[s]
           inForce == {t \in Template : template[t].active}
           signed == {t \in Template : template[t].signed}
<1>1. /\ q \in CmsRequest /\ q # NoCms
      /\ template \in [Template -> TemplateRow]
      /\ InTime(s)
  BY DEF CmsInv, CmsTypeOK, WithdrawEdited, WriteEdit, WriteSubmit, SupersedeOthers,
     Activate, WriteSeed, AtCms
<1>2. q.op # "seed" => q.of \in Template
  BY <1>1 DEF CmsRequest
<1>3. ASSUME NEW t \in Template, q.of = t, WithdrawEdited(s)
      PROVE  Shelf!ShelfNext
  <2>1. q.op = "edit" /\ q.next = "first"
    BY <1>3 DEF WithdrawEdited, AtCms
  <2>2. template' = [template EXCEPT ![t].active = FALSE]
    BY <1>3 DEF WithdrawEdited
  <2>3. template[t].active
    BY <1>1, <1>3, <2>1 DEF InTime
  <2>4. Shelf!Withdraw(t)
    BY <1>1, <2>1, <2>2, <2>3 DEF Shelf!Withdraw, TemplateRow
  <2> QED
    BY <2>1, <2>4 DEF Shelf!ShelfNext
<1>4. ASSUME NEW t \in Template, q.of = t, WriteEdit(s)
      PROVE  Shelf!ShelfNext
  <2>1. q.op = "edit" /\ q.next = "write"
    BY <1>4 DEF WriteEdit, AtCms
  <2>2. template' = [template EXCEPT ![t].active = FALSE, ![t].signed = FALSE]
    BY <1>4 DEF WriteEdit
  <2>3. ~template[t].active /\ template[t].status # "none"
    BY <1>1, <1>4, <2>1 DEF InTime, OnShelf
  <2>4. Shelf!Edit(t)
    BY <1>1, <2>1, <2>2, <2>3 DEF Shelf!Edit, TemplateRow
  <2> QED
    BY <2>1, <2>4 DEF Shelf!ShelfNext
<1>5. ASSUME NEW t \in Template, q.of = t, WriteSubmit(s)
      PROVE  Shelf!ShelfNext
  <2>1. q.op = "submit"
    BY <1>5 DEF WriteSubmit, AtCms
  <2>2. template' = [template EXCEPT ![t].status = "pending_review"]
    BY <1>5 DEF WriteSubmit
  <2>3. template[t].status = "draft"
    BY <1>1, <1>5, <2>1 DEF InTime
  <2>4. Shelf!Submit(t)
    BY <1>1, <2>1, <2>2, <2>3 DEF Shelf!Submit, TemplateRow
  <2> QED
    BY <2>1, <2>4 DEF Shelf!ShelfNext
<1>6. ASSUME NEW t \in Template, q.of = t, SupersedeOthers(s)
      PROVE  Shelf!ShelfNext
  <2>1. q.op = "approve"
    BY <1>6 DEF SupersedeOthers, AtCms
  <2>2. template' = [u \in Template |->
          IF u # t /\ template[u].active
          THEN [template[u] EXCEPT !.active = FALSE, !.status = "superseded"]
          ELSE template[u]]
    BY <1>6 DEF SupersedeOthers
  <2>3. template[t].status = "pending_review"
    BY <1>1, <1>6, <2>1 DEF InTime
  <2>4. Shelf!MakeRoom(t)
    BY <1>1, <2>1, <2>2, <2>3 DEF Shelf!MakeRoom, TemplateRow
  <2> QED
    BY <2>1, <2>4 DEF Shelf!ShelfNext
<1>7. ASSUME NEW t \in Template, q.of = t, Activate(s)
      PROVE  Shelf!ShelfNext
  <2>1. q.op = "approve" /\ q.next = "write"
    BY <1>7 DEF Activate, AtCms
  <2>2. template' = [template EXCEPT ![t] =
          [status |-> "approved", active |-> TRUE, signed |-> TRUE]]
    BY <1>7 DEF Activate
  <2>3. /\ template[t].status = "pending_review"
        /\ \A u \in Template : template[u].active => u = t
    BY <1>1, <1>7, <2>1 DEF InTime
  <2>4. Shelf!Enforce(t)
    BY <1>1, <2>1, <2>2, <2>3 DEF Shelf!Enforce, TemplateRow
  <2> QED
    BY <2>1, <2>4 DEF Shelf!ShelfNext
<1>8. ASSUME NEW t \in Template, WriteSeed(s, t)
      PROVE  Shelf!ShelfNext
  <2>1. q.op = "seed" /\ q.autoApprove \in BOOLEAN
    BY <1>1, <1>8 DEF WriteSeed, CmsRequest
  <2>2. template' = [template EXCEPT ![t] =
          [status |-> "draft", active |-> q.autoApprove, signed |-> q.autoApprove]]
    BY <1>8 DEF WriteSeed
  <2>3. \A u \in Template : template[u].status = "none"
    BY <1>1, <2>1 DEF InTime, OnShelf
  <2>4. CASE q.autoApprove
    <3>1. Shelf!Furnish(t)
      BY <1>1, <2>2, <2>3, <2>4 DEF Shelf!Furnish, TemplateRow
    <3> QED
      BY <3>1 DEF Shelf!ShelfNext
  <2>5. CASE ~q.autoApprove
    <3>1. ~template[t].active /\ ~template[t].signed
      BY <2>3 DEF CmsInv, Blank, OnShelf
    <3>2. Shelf!Add(t)
      BY <1>1, <2>2, <2>3, <2>5, <3>1 DEF Shelf!Add, TemplateRow
    <3> QED
      BY <3>2 DEF Shelf!ShelfNext
  <2> QED
    BY <2>1, <2>4, <2>5
<1>9. /\ WithdrawEdited(s) \/ WriteEdit(s) => q.op = "edit"
      /\ WriteSubmit(s) => q.op = "submit"
      /\ SupersedeOthers(s) \/ Activate(s) => q.op = "approve"
  BY DEF WithdrawEdited, WriteEdit, WriteSubmit, SupersedeOthers, Activate, AtCms
<1> QED
  BY <1>2, <1>3, <1>4, <1>5, <1>6, <1>7, <1>8, <1>9

\* The invariant of the disclosure templates: their types, and what every request that
\* nobody outpaced has read.
THEOREM CmsInvariant == CmsSpec => []CmsInv
BY InitCms, CmsInductive, PTL DEF CmsSpec

\* The templates keep their types (disclosure-cms.service, the template row).
THEOREM CmsTypeCorrect == CmsSpec => []CmsTypeOK
<1>1. CmsInv => CmsTypeOK
  BY DEF CmsInv
<1> QED
  BY <1>1, CmsInvariant, PTL

\* The templates implement the shelf but for the writes of outpaced requests
\* (updateTemplate, submitForApproval, approveTemplate and seedDefaultTemplates).
THEOREM TemplatesFollowShelf == CmsSpec => OnlyOverlapsBreakShelf
<1>1. CmsInit => Shelf!ShelfInit
  BY DEF CmsInit, Shelf!ShelfInit
<1>2. ASSUME CmsInv, [CmsNext]_cmsVars
      PROVE  [OutpacedWrite \/ Shelf!ShelfNext]_template
  <2>1. CASE UNCHANGED cmsVars
    BY <2>1 DEF cmsVars
  <2>2. ASSUME NEW t \in Template, CreateTemplate(t)
        PROVE  Shelf!ShelfNext
    <3>1. /\ template \in [Template -> TemplateRow]
          /\ template[t].status = "none"
          /\ template' = [template EXCEPT ![t].status = "draft"]
      BY <1>2, <2>2 DEF CmsInv, CmsTypeOK, CreateTemplate, OnShelf
    <3>2. Shelf!Add(t)
      BY <3>1 DEF Shelf!Add, TemplateRow
    <3> QED
      BY <3>2 DEF Shelf!ShelfNext
  <2>3. ASSUME NEW s \in CmsReq,
               \/ \E t \in Template : ReadEdit(s, t) \/ ReadSubmit(s, t) \/ ReadApproval(s, t)
               \/ \E autoApprove \in BOOLEAN : ReadSeed(s, autoApprove)
               \/ AbandonCms(s)
        PROVE  UNCHANGED template
    BY <2>3 DEF ReadEdit, ReadSubmit, ReadApproval, ReadSeed, BeginCms, AbandonCms
  <2>4. ASSUME NEW s \in CmsReq,
               \/ WithdrawEdited(s) \/ WriteEdit(s) \/ WriteSubmit(s)
               \/ SupersedeOthers(s) \/ Activate(s) \/ \E t \in Template : WriteSeed(s, t)
        PROVE  OutpacedWrite \/ Shelf!ShelfNext
    BY <1>2, <2>4, TimelyWrites DEF OutpacedWrite
  <2> QED
    BY <1>2, <2>1, <2>2, <2>3, <2>4 DEF CmsNext
<1> QED
  BY <1>1, <1>2, CmsInvariant, PTL DEF CmsSpec, OnlyOverlapsBreakShelf

\* The shelf never has two disclosures in force, nor one that nobody signed.
THEOREM ShelfKeepsOne == Shelf!ShelfSpec => []Shelf!OneInForce
<1> DEFINE stage == [t \in Template |-> template[t].status]
           inForce == {t \in Template : template[t].active}
           signed == {t \in Template : template[t].signed}
           Sound == /\ \A t, u \in inForce : t = u
                    /\ inForce \subseteq signed
                    /\ \A t \in Template : stage[t] = "none" => t \notin signed
<1>1. Shelf!ShelfInit => Sound
  BY DEF Shelf!ShelfInit
<1>2. Sound /\ [Shelf!ShelfNext]_Shelf!shelfVars => Sound'
  <2> SUFFICES ASSUME Sound, [Shelf!ShelfNext]_Shelf!shelfVars
               PROVE  Sound'
    OBVIOUS
  <2>1. CASE UNCHANGED Shelf!shelfVars
    <3>1. stage' = stage /\ inForce' = inForce /\ signed' = signed
      BY <2>1 DEF Shelf!shelfVars
    <3> QED
      BY <3>1
  <2>2. ASSUME NEW t \in Template, Shelf!Add(t) \/ Shelf!Submit(t)
        PROVE  Sound'
    <3>1. /\ \E status \in {"draft", "pending_review"} : stage' = [stage EXCEPT ![t] = status]
          /\ inForce' = inForce /\ signed' = signed
      BY <2>2 DEF Shelf!Add, Shelf!Submit
    <3> QED
      BY <3>1
  <2>3. ASSUME NEW t \in Template, Shelf!Furnish(t)
        PROVE  Sound'
    <3>1. /\ \A u \in Template : stage[u] = "none"
          /\ stage' = [stage EXCEPT ![t] = "draft"]
          /\ inForce' = inForce \cup {t} /\ signed' = signed \cup {t}
      BY <2>3 DEF Shelf!Furnish
    <3>2. signed = {} /\ inForce = {}
      BY <3>1
    <3>3. inForce' = {t} /\ signed' = {t}
      BY <3>1, <3>2
    <3> QED
      BY <3>1, <3>3
  <2>4. ASSUME NEW t \in Template, Shelf!MakeRoom(t)
        PROVE  Sound'
    <3>1. /\ stage[t] = "pending_review"
          /\ stage' = [u \in Template |->
               IF u \in inForce \ {t} THEN "superseded" ELSE stage[u]]
          /\ inForce' = inForce \cap {t} /\ signed' = signed
      BY <2>4 DEF Shelf!MakeRoom
    <3> HIDE DEF stage, inForce, signed
    <3> QED
      BY <3>1
  <2>5. ASSUME NEW t \in Template, Shelf!Withdraw(t)
        PROVE  Sound'
    <3>1. stage' = stage /\ inForce' = inForce \ {t} /\ signed' = signed
      BY <2>5 DEF Shelf!Withdraw
    <3> HIDE DEF stage, inForce, signed
    <3> QED
      BY <3>1
  <2>6. ASSUME NEW t \in Template, Shelf!Enforce(t)
        PROVE  Sound'
    <3>1. /\ stage' = [stage EXCEPT ![t] = "approved"]
          /\ inForce' = {t} /\ signed' = signed \cup {t}
      BY <2>6 DEF Shelf!Enforce
    <3>2. \A u \in Template : stage'[u] = "none" => u # t /\ stage[u] = "none"
      BY <3>1
    <3> HIDE DEF stage, inForce, signed
    <3> QED
      BY <3>1, <3>2
  <2>7. ASSUME NEW t \in Template, Shelf!Edit(t)
        PROVE  Sound'
    <3>1. /\ t \notin inForce
          /\ stage' = stage /\ inForce' = inForce /\ signed' = signed \ {t}
      BY <2>7 DEF Shelf!Edit
    <3> HIDE DEF stage, inForce, signed
    <3> QED
      BY <3>1
  <2> HIDE DEF Sound
  <2> QED
    BY <2>1, <2>2, <2>3, <2>4, <2>5, <2>6, <2>7 DEF Shelf!ShelfNext
<1>3. Sound => Shelf!OneInForce
  BY DEF Shelf!OneInForce
<1> HIDE DEF Sound
<1> QED
  BY <1>1, <1>2, <1>3, PTL DEF Shelf!ShelfSpec

\* If a write is refused whenever a row has been written since it was read, the
\* templates are the shelf, and keep one disclosure in force: approveTemplate's two
\* statements and updateTemplate's need nothing else.
THEOREM CheckedTemplatesAreShelf ==
  CmsSpec /\ [][~OutpacedWrite]_cmsVars => Shelf!ShelfSpec /\ []Shelf!OneInForce
<1>1. [OutpacedWrite \/ Shelf!ShelfNext]_template /\ [~OutpacedWrite]_cmsVars
        => [Shelf!ShelfNext]_(Shelf!shelfVars)
  BY DEF cmsVars, Shelf!shelfVars
<1>2. CmsSpec /\ [][~OutpacedWrite]_cmsVars => Shelf!ShelfSpec
  BY <1>1, TemplatesFollowShelf, PTL DEF OnlyOverlapsBreakShelf, Shelf!ShelfSpec
<1> QED
  BY <1>2, ShelfKeepsOne, PTL

\* An approved or superseded template that is not in force, be it because it was edited.
Retired(t) == template[t].status \in {"approved", "superseded"} /\ ~template[t].active

\* With no overlap at all, what was approved once and is out of force never comes back
\* into it: an edit takes the approval and leaves the status, and only a draft can be
\* submitted, so the re-approval that updateTemplate announces (its comment on isActive)
\* is out of reach.
THEOREM RetiredForGood ==
  CmsSpec /\ [][~OutpacedWrite]_cmsVars =>
    [][\A t \in Template : Retired(t) => Retired(t)']_template
<1> DEFINE stage == [t \in Template |-> template[t].status]
           inForce == {t \in Template : template[t].active}
           Stays == \A t \in Template : stage[t] \in {"approved", "superseded"} /\ t \notin inForce
                      => stage'[t] \in {"approved", "superseded"} /\ t \notin inForce'
<1>1. Shelf!ShelfNext => Stays
  <2> SUFFICES ASSUME NEW t \in Template,
                      \/ Shelf!Add(t) \/ Shelf!Furnish(t) \/ Shelf!Submit(t) \/ Shelf!MakeRoom(t)
                      \/ Shelf!Enforce(t) \/ Shelf!Withdraw(t) \/ Shelf!Edit(t)
               PROVE  Stays
    BY DEF Shelf!ShelfNext
  <2>1. CASE Shelf!Add(t) \/ Shelf!Submit(t) \/ Shelf!Furnish(t)
    <3>1. /\ stage[t] \in {"none", "draft"}
          /\ \E status \in {"draft", "pending_review"} : stage' = [stage EXCEPT ![t] = status]
          /\ inForce' \in {inForce, inForce \cup {t}}
      BY <2>1 DEF Shelf!Add, Shelf!Submit, Shelf!Furnish
    <3>2. DOMAIN stage = Template
      OBVIOUS
    <3> HIDE DEF stage, inForce
    <3> QED
      BY <3>1, <3>2
  <2>2. CASE Shelf!MakeRoom(t)
    <3>1. /\ stage' = [u \in Template |-> IF u \in inForce \ {t} THEN "superseded" ELSE stage[u]]
          /\ inForce' = inForce \cap {t}
      BY <2>2 DEF Shelf!MakeRoom
    <3> HIDE DEF stage, inForce
    <3> QED
      BY <3>1
  <2>3. CASE Shelf!Enforce(t)
    <3>1. /\ stage[t] = "pending_review"
          /\ stage' = [stage EXCEPT ![t] = "approved"]
          /\ inForce' = {t}
      BY <2>3 DEF Shelf!Enforce
    <3>2. DOMAIN stage = Template
      OBVIOUS
    <3> HIDE DEF stage, inForce
    <3> QED
      BY <3>1, <3>2
  <2>4. CASE Shelf!Withdraw(t) \/ Shelf!Edit(t)
    <3>1. stage' = stage /\ inForce' \in {inForce, inForce \ {t}}
      BY <2>4 DEF Shelf!Withdraw, Shelf!Edit
    <3> HIDE DEF stage, inForce
    <3> QED
      BY <3>1
  <2> QED
    BY <2>1, <2>2, <2>3, <2>4
<1>2. UNCHANGED Shelf!shelfVars => Stays
  BY DEF Shelf!shelfVars
<1>3. Stays => \A t \in Template : Retired(t) => Retired(t)'
  BY DEF Retired
<1>4. [Shelf!ShelfNext]_(Shelf!shelfVars)
        => [\A t \in Template : Retired(t) => Retired(t)']_template
  BY <1>1, <1>2, <1>3
<1> QED
  BY <1>4, CheckedTemplatesAreShelf, PTL DEF Shelf!ShelfSpec

\* One approval, edit, submission or seeding at a time; templates may be created all
\* the while.
OneCms == \A s, t \in CmsReq : s = t

OneActive ==
  \A t \in Template :
    template[t].active => template[t].signed /\ \A u \in Template : template[u].active => t = u

\* What the request under way has made room for is still free.
Poised ==
  \A s \in CmsReq :
    cmsReq[s] # NoCms =>
      /\ cmsReq[s].op = "edit" /\ cmsReq[s].next = "write" => ~template[cmsReq[s].of].active
      /\ cmsReq[s].op = "approve" /\ cmsReq[s].next = "write" =>
           \A t \in Template : template[t].active => t = cmsReq[s].of
      /\ cmsReq[s].op = "seed" => \A t \in Template : ~template[t].active

\* A step that activates nothing keeps OneActive, if what stays active stays signed.
LEMMA NothingActivated ==
  ASSUME OneActive,
         \A t \in Template : template'[t].active => template[t].active,
         \A t \in Template : template'[t].active /\ template[t].signed => template'[t].signed
  PROVE  OneActive'
BY DEF OneActive

LEMMA EndsPoised ==
  ASSUME OneCms, CmsInv, NEW s \in CmsReq, EndCms(s)
  PROVE  Poised'
<1>1. cmsReq'[s] = NoCms
  BY DEF EndCms, CmsInv, CmsTypeOK
<1> QED
  BY <1>1 DEF Poised, OneCms

LEMMA SerialShelfStep ==
  ASSUME OneCms, CmsInv, OneActive, Poised, [CmsNext]_cmsVars
  PROVE  OneActive' /\ Poised'
<1>1. /\ template \in [Template -> TemplateRow]
      /\ cmsReq \in [CmsReq -> CmsRequest \cup {NoCms}]
      /\ Blank
  BY DEF CmsInv, CmsTypeOK
<1>2. CASE UNCHANGED cmsVars
  BY <1>2 DEF cmsVars, OneActive, Poised
<1>3. ASSUME NEW t \in Template, CreateTemplate(t)
      PROVE  OneActive' /\ Poised'
  <2>1. /\ cmsReq' = cmsReq
        /\ \A u \in Template : /\ template'[u].active = template[u].active
                               /\ template'[u].signed = template[u].signed
    BY <1>1, <1>3 DEF CreateTemplate, TemplateRow
  <2>2. OneActive'
    BY <2>1, NothingActivated
  <2>3. \A s \in CmsReq : cmsReq[s] # NoCms /\ cmsReq[s].op \in {"edit", "approve"}
                            => cmsReq[s].of \in Template
    BY <1>1 DEF CmsRequest
  <2> QED
    BY <2>1, <2>2, <2>3 DEF Poised
<1>4. ASSUME NEW s \in CmsReq, NEW t \in Template,
             ReadEdit(s, t) \/ ReadSubmit(s, t) \/ ReadApproval(s, t)
      PROVE  OneActive' /\ Poised'
  <2>1. template' = template /\ OneActive'
    BY <1>4 DEF ReadEdit, ReadSubmit, ReadApproval, BeginCms, OneActive
  <2>2. CASE ReadEdit(s, t)
    <3>1. cmsReq'[s] = [op |-> "edit", of |-> t,
                        next |-> IF template[t].active THEN "first" ELSE "write"]
      BY <1>1, <2>2 DEF ReadEdit, BeginCms
    <3> QED
      BY <2>1, <3>1 DEF Poised, OneCms
  <2>3. CASE ReadSubmit(s, t)
    <3>1. cmsReq'[s] = [op |-> "submit", of |-> t, next |-> "write"]
      BY <1>1, <2>3 DEF ReadSubmit, BeginCms
    <3> QED
      BY <2>1, <3>1 DEF Poised, OneCms
  <2>4. CASE ReadApproval(s, t)
    <3>1. cmsReq'[s] = [op |-> "approve", of |-> t, next |-> "first"]
      BY <1>1, <2>4 DEF ReadApproval, BeginCms
    <3> QED
      BY <2>1, <3>1 DEF Poised, OneCms
  <2> QED
    BY <1>4, <2>2, <2>3, <2>4
<1>5. ASSUME NEW s \in CmsReq, NEW autoApprove \in BOOLEAN, ReadSeed(s, autoApprove)
      PROVE  OneActive' /\ Poised'
  <2>1. /\ template' = template
        /\ cmsReq'[s] = [op |-> "seed", autoApprove |-> autoApprove]
    BY <1>1, <1>5 DEF ReadSeed, BeginCms
  <2>2. \A t \in Template : ~template[t].active
    BY <1>1, <1>5 DEF ReadSeed, Blank
  <2> QED
    BY <2>1, <2>2 DEF OneActive, Poised, OneCms
<1>6. ASSUME NEW s \in CmsReq, WithdrawEdited(s)
      PROVE  OneActive' /\ Poised'
  <2>1. cmsReq[s] \in CmsRequest /\ cmsReq[s].op = "edit" /\ cmsReq[s].of \in Template
    BY <1>1, <1>6 DEF WithdrawEdited, AtCms, CmsRequest
  <2>2. \A t \in Template : /\ template'[t].active <=> template[t].active /\ t # cmsReq[s].of
                            /\ template'[t].signed = template[t].signed
    BY <1>1, <1>6, <2>1 DEF WithdrawEdited, TemplateRow
  <2>3. cmsReq'[s].op = "edit" /\ cmsReq'[s].of = cmsReq[s].of
    BY <1>1, <1>6, <2>1 DEF WithdrawEdited, CmsRequest
  <2>4. OneActive'
    BY <2>2, NothingActivated
  <2> QED
    BY <2>1, <2>2, <2>3, <2>4 DEF Poised, OneCms
<1>7. ASSUME NEW s \in CmsReq, SupersedeOthers(s)
      PROVE  OneActive' /\ Poised'
  <2>1. cmsReq[s] \in CmsRequest /\ cmsReq[s].op = "approve" /\ cmsReq[s].of \in Template
    BY <1>1, <1>7 DEF SupersedeOthers, AtCms, CmsRequest
  <2>2. \A t \in Template : /\ template'[t].active <=> template[t].active /\ t = cmsReq[s].of
                            /\ template'[t].signed = template[t].signed
    BY <1>1, <1>7, <2>1 DEF SupersedeOthers, TemplateRow
  <2>3. cmsReq'[s].op = "approve" /\ cmsReq'[s].of = cmsReq[s].of
    BY <1>1, <1>7, <2>1 DEF SupersedeOthers, CmsRequest
  <2>4. OneActive'
    BY <2>2, NothingActivated
  <2> QED
    BY <2>1, <2>2, <2>3, <2>4 DEF Poised, OneCms
<1>8. ASSUME NEW s \in CmsReq, WriteEdit(s)
      PROVE  OneActive'
  <2>1. cmsReq[s].of \in Template
    BY <1>1, <1>8 DEF WriteEdit, AtCms, CmsRequest
  <2>2. \A t \in Template : template'[t].active =>
          /\ template[t].active
          /\ template'[t].signed = template[t].signed
    BY <1>1, <1>8, <2>1 DEF WriteEdit, TemplateRow
  <2> QED
    BY <2>2, NothingActivated
<1>9. ASSUME NEW s \in CmsReq, WriteSubmit(s)
      PROVE  OneActive'
  <2>1. cmsReq[s].of \in Template
    BY <1>1, <1>9 DEF WriteSubmit, AtCms, CmsRequest
  <2>2. \A t \in Template : /\ template'[t].active = template[t].active
                            /\ template'[t].signed = template[t].signed
    BY <1>1, <1>9, <2>1 DEF WriteSubmit, TemplateRow
  <2> QED
    BY <2>2, NothingActivated
<1>10. ASSUME NEW s \in CmsReq, Activate(s)
       PROVE  OneActive'
  <2>1. cmsReq[s].of \in Template
    BY <1>1, <1>10 DEF Activate, AtCms, CmsRequest
  <2>2. \A t \in Template : template[t].active => t = cmsReq[s].of
    BY <1>10 DEF Activate, AtCms, Poised
  <2>3. template' = [template EXCEPT ![cmsReq[s].of] =
          [status |-> "approved", active |-> TRUE, signed |-> TRUE]]
    BY <1>10 DEF Activate
  <2>4. /\ template'[cmsReq[s].of].signed
        /\ \A t \in Template : template'[t].active => t = cmsReq[s].of
    BY <1>1, <2>1, <2>2, <2>3
  <2> QED
    BY <2>4 DEF OneActive
<1>11. ASSUME NEW s \in CmsReq, NEW t \in Template, WriteSeed(s, t)
       PROVE  OneActive'
  <2>1. \A u \in Template : ~template[u].active
    BY <1>11 DEF WriteSeed, Poised
  <2>2. /\ template'[t].active => template'[t].signed
        /\ \A u \in Template : template'[u].active => u = t
    BY <1>1, <1>11, <2>1 DEF WriteSeed
  <2> QED
    BY <2>2 DEF OneActive
<1>12. ASSUME NEW s \in CmsReq, AbandonCms(s)
       PROVE  OneActive'
  BY <1>12 DEF AbandonCms, OneActive
<1>13. ASSUME NEW s \in CmsReq,
              \/ WriteEdit(s) \/ WriteSubmit(s) \/ Activate(s) \/ AbandonCms(s)
              \/ \E t \in Template : WriteSeed(s, t)
       PROVE  Poised'
  BY <1>13, EndsPoised DEF WriteEdit, WriteSubmit, Activate, AbandonCms, WriteSeed
<1> QED
  BY <1>2, <1>3, <1>4, <1>5, <1>6, <1>7, <1>8, <1>9, <1>10, <1>11, <1>12, <1>13 DEF CmsNext

\* Approvals, edits, submissions and seedings one at a time leave at most one
\* disclosure in force, and that one signed, whatever is created meanwhile and
\* wherever the process dies: the two statements of an approval are safe in
\* themselves, and the order they come in is why (the others are retired first).
THEOREM SerialTemplatesKeepOne ==
  ASSUME OneCms
  PROVE  CmsSpec => []Shelf!OneInForce
<1>1. CmsInit => OneActive /\ Poised
  BY DEF CmsInit, OneActive, Poised
<1>2. CmsInv /\ OneActive /\ Poised /\ [CmsNext]_cmsVars => OneActive' /\ Poised'
  BY SerialShelfStep
<1>3. OneActive => Shelf!OneInForce
  BY DEF OneActive, Shelf!OneInForce
<1> QED
  BY <1>1, <1>2, <1>3, CmsInvariant, PTL DEF CmsSpec

-----------------------------------------------------------------------------
(* A document on legal hold.                                               *)

\* What a request that nobody outran has read still holds.
Abreast(s) ==
  LET q == vaultReq[s]
  IN  q # NoVault /\ s \notin outrun =>
        /\ q.op \in {"hold", "release"} => q.note = document.note
        /\ q.op = "delete" => ~document.held

VaultInv == VaultTypeOK /\ \A s \in VaultReq : Abreast(s)

LEMMA InitVault == VaultInit => VaultInv
BY DEF VaultInit, VaultInv, VaultTypeOK, Document, Place, Note, Abreast

\* A step of slot s keeps the others abreast or declares them outrun.
LEMMA GoesOnKeeps ==
  ASSUME VaultInv, NEW s \in VaultReq, NEW request \in VaultRequest \cup {NoVault},
         GoesOn(s, request), document' \in Document,
         inquiry' \in {"open", "legal_hold", "closed"},
         request # NoVault /\ request.op \in {"hold", "release"}
           => request.note = document'.note,
         request # NoVault /\ request.op = "delete" => ~document'.held
  PROVE  VaultInv'
<1>1. /\ vaultReq' \in [VaultReq -> VaultRequest \cup {NoVault}]
      /\ vaultReq'[s] = request
      /\ \A x \in VaultReq \ {s} : vaultReq'[x] = vaultReq[x]
  BY DEF VaultInv, VaultTypeOK, GoesOn
<1>2. outrun' \subseteq VaultReq
  BY DEF VaultInv, VaultTypeOK, GoesOn
<1>3. Abreast(s)'
  BY <1>1 DEF Abreast
<1>4. ASSUME NEW x \in VaultReq \ {s}
      PROVE  Abreast(x)'
  <2>1. SUFFICES ASSUME vaultReq'[x] # NoVault, x \notin outrun'
                 PROVE  Abreast(x)'
    BY DEF Abreast
  <2>2. /\ vaultReq'[x] = vaultReq[x]
        /\ x \notin outrun
        /\ document'.held = document.held /\ document'.note = document.note
    BY <1>1, <1>4, <2>1 DEF GoesOn
  <2> QED
    BY <2>1, <2>2 DEF VaultInv, Abreast
<1> QED
  BY <1>1, <1>2, <1>3, <1>4 DEF VaultInv, VaultTypeOK

LEMMA NoteAfterNote == \A op, note : NoteAfter(op, note) \in Note
BY DEF NoteAfter, Note

LEMMA VaultInductive == VaultInv /\ [VaultNext]_vaultVars => VaultInv'
<1> SUFFICES ASSUME VaultInv, [VaultNext]_vaultVars PROVE VaultInv'
  OBVIOUS
<1>1. /\ document \in Document
      /\ inquiry \in {"open", "legal_hold", "closed"}
  BY DEF VaultInv, VaultTypeOK
<1>2. CASE UNCHANGED vaultVars
  BY <1>2 DEF vaultVars, VaultInv, VaultTypeOK, Abreast
<1>3. ASSUME NEW s \in VaultReq, BeginUpload(s)
      PROVE  VaultInv'
  <2>1. [op |-> "upload"] \in VaultRequest
    BY DEF VaultRequest
  <2>2. document' \in Document
    BY <1>1, <1>3 DEF BeginUpload, Document, Place
  <2> QED
    BY <1>1, <1>3, <2>1, <2>2, GoesOnKeeps DEF BeginUpload
<1>4. ASSUME NEW s \in VaultReq,
             \/ FinaliseUpload(s) \/ WriteDelete(s)
             \/ \E hold \in BOOLEAN : InsertDocument(s, hold)
      PROVE  VaultInv'
  <2>1. document' \in Document
    BY <1>1, <1>4 DEF FinaliseUpload, WriteDelete, InsertDocument, Document, Place
  <2> QED
    BY <1>1, <1>4, <2>1, GoesOnKeeps DEF FinaliseUpload, WriteDelete, InsertDocument
<1>5. ASSUME NEW s \in VaultReq, NEW op \in {"hold", "release"}, ReadHold(s, op)
      PROVE  VaultInv'
  <2> DEFINE q == [op |-> op, note |-> document.note]
  <2>1. q \in VaultRequest
    BY <1>1 DEF VaultRequest, Document
  <2> QED
    BY <1>1, <1>5, <2>1, GoesOnKeeps DEF ReadHold
<1>6. ASSUME NEW s \in VaultReq, NEW op \in {"hold", "release"}, WriteHold(s, op)
      PROVE  VaultInv'
  <2>1. document' \in Document
    BY <1>1, <1>6, NoteAfterNote DEF WriteHold, Document
  <2> QED
    BY <1>1, <1>6, <2>1, GoesOnKeeps DEF WriteHold
<1>7. ASSUME NEW s \in VaultReq, ReadDelete(s)
      PROVE  VaultInv'
  <2>1. [op |-> "delete"] \in VaultRequest
    BY DEF VaultRequest
  <2> QED
    BY <1>1, <1>7, <2>1, GoesOnKeeps DEF ReadDelete
<1>8. ASSUME NEW s \in VaultReq, NEW status \in {"open", "legal_hold", "closed"},
             PutInquiry(s, status)
      PROVE  VaultInv'
  <2>1. [op |-> "list"] \in VaultRequest
    BY DEF VaultRequest
  <2> QED
    BY <1>1, <1>8, <2>1, GoesOnKeeps DEF PutInquiry
<1>9. ASSUME NEW s \in VaultReq,
             ListDocuments(s) \/ PreserveDocuments(s) \/ MarkInquiry(s) \/ AbandonVault(s)
      PROVE  VaultInv'
  <2>1. /\ [op |-> "preserve"] \in VaultRequest
        /\ [op |-> "mark"] \in VaultRequest
    BY DEF VaultRequest
  <2>2. CASE ListDocuments(s)
    BY <1>1, <2>1, <2>2, GoesOnKeeps DEF ListDocuments
  <2>3. CASE PreserveDocuments(s)
    <3>1. document' \in Document
      BY <1>1, <2>3 DEF PreserveDocuments, Document
    <3> QED
      BY <1>1, <2>1, <2>3, <3>1, GoesOnKeeps DEF PreserveDocuments
  <2>4. CASE MarkInquiry(s) \/ AbandonVault(s)
    BY <1>1, <2>4, GoesOnKeeps DEF MarkInquiry, AbandonVault
  <2> QED
    BY <1>9, <2>2, <2>3, <2>4
<1> QED
  BY <1>2, <1>3, <1>4, <1>5, <1>6, <1>7, <1>8, <1>9 DEF VaultNext

\* The invariant of the document: its type, and what every request that nobody outran
\* has read.
THEOREM VaultInvariant == VaultSpec => []VaultInv
BY InitVault, VaultInductive, PTL DEF VaultSpec

\* The document, the inquiry and the requests keep their types (document-vault.service,
\* regulator-response.service).
THEOREM VaultTypeCorrect == VaultSpec => []VaultTypeOK
<1>1. VaultInv => VaultTypeOK
  BY DEF VaultInv
<1> QED
  BY <1>1, VaultInvariant, PTL

\* The document follows its hold but for the writes of outrun requests (upload,
\* setLegalHold, delete and activateLegalHold).
THEOREM DocumentFollowsHold == VaultSpec => OnlyOverlapsBreakHold
<1>1. VaultInit => Hold!HoldInit
  BY DEF VaultInit, Hold!HoldInit
<1>2. ASSUME VaultInv, [VaultNext]_vaultVars
      PROVE  [OutrunWrite \/ Hold!HoldNext]_(Hold!holdVars)
  <2>1. document \in Document
    BY <1>2 DEF VaultInv, VaultTypeOK
  <2>2. CASE UNCHANGED document
    BY <2>2 DEF Hold!holdVars
  <2>3. ASSUME NEW s \in VaultReq,
               BeginUpload(s) \/ \E hold \in BOOLEAN : InsertDocument(s, hold)
        PROVE  Hold!Store
    BY <2>1, <2>3 DEF BeginUpload, InsertDocument, Document, Hold!Store
  <2>4. ASSUME NEW s \in VaultReq, FinaliseUpload(s)
        PROVE  UNCHANGED Hold!holdVars
    BY <2>1, <2>4 DEF FinaliseUpload, Kept, Document, Hold!holdVars
  <2>5. ASSUME NEW s \in VaultReq, NEW op \in {"hold", "release"}, WriteHold(s, op),
               s \notin outrun
        PROVE  Hold!Place \/ Hold!Lift
    <3>1. vaultReq[s].note = document.note
      BY <1>2, <2>5 DEF VaultInv, Abreast, WriteHold, AtVault
    <3>2. CASE op = "hold"
      BY <2>1, <2>5, <3>2 DEF WriteHold, Kept, NoteAfter, Document, Hold!Place
    <3>3. CASE op = "release"
      BY <2>1, <2>5, <3>1, <3>3 DEF WriteHold, Kept, NoteAfter, Document, Hold!Lift
    <3> QED
      BY <3>2, <3>3
  <2>6. ASSUME NEW s \in VaultReq, WriteDelete(s), s \notin outrun
        PROVE  Hold!Destroy
    <3>1. ~document.held
      BY <1>2, <2>6 DEF VaultInv, Abreast, WriteDelete, AtVault
    <3> QED
      BY <2>1, <2>6, <3>1 DEF WriteDelete, Kept, Document, Hold!Destroy
  <2>7. ASSUME NEW s \in VaultReq, PreserveDocuments(s)
        PROVE  Hold!PlaceForInquiry \/ UNCHANGED document
    BY <2>1, <2>7 DEF PreserveDocuments, Kept, Document, Hold!PlaceForInquiry
  <2>8. ASSUME NEW s \in VaultReq,
               \/ ReadDelete(s) \/ ListDocuments(s) \/ MarkInquiry(s) \/ AbandonVault(s)
               \/ \E op \in {"hold", "release"} : ReadHold(s, op)
               \/ \E status \in {"open", "legal_hold", "closed"} : PutInquiry(s, status)
        PROVE  UNCHANGED document
    BY <2>8 DEF ReadDelete, ListDocuments, MarkInquiry, AbandonVault, ReadHold, PutInquiry
  <2> QED
    BY <1>2, <2>2, <2>3, <2>4, <2>5, <2>6, <2>7, <2>8
       DEF VaultNext, vaultVars, OutrunWrite, Hold!HoldNext
<1> QED
  BY <1>1, <1>2, VaultInvariant, PTL DEF VaultSpec, OnlyOverlapsBreakHold

\* No document is gone that was on hold to the end.
THEOREM HoldKeeps == Hold!HoldSpec => []Hold!HeldIsKept
<1>1. Hold!HoldInit => Hold!HeldIsKept
  BY DEF Hold!HoldInit, Hold!HeldIsKept
<1>2. Hold!HeldIsKept /\ [Hold!HoldNext]_Hold!holdVars => Hold!HeldIsKept'
  BY DEF Hold!HeldIsKept, Hold!HoldNext, Hold!holdVars, Hold!Store, Hold!Place, Hold!Lift,
     Hold!PlaceForInquiry, Hold!Destroy
<1> QED
  BY <1>1, <1>2, PTL DEF Hold!HoldSpec

\* If a write is refused whenever the row has been written since it was read, the
\* document is on hold as promised, and none is gone that was on hold to the end:
\* delete and setLegalHold need nothing else.
THEOREM CheckedDocumentIsHeld ==
  VaultSpec /\ [][~OutrunWrite]_vaultVars => Hold!HoldSpec /\ []Hold!HeldIsKept
<1>1. [OutrunWrite \/ Hold!HoldNext]_(Hold!holdVars) /\ [~OutrunWrite]_vaultVars
        => [Hold!HoldNext]_(Hold!holdVars)
  BY DEF vaultVars, Hold!holdVars
<1>2. VaultSpec /\ [][~OutrunWrite]_vaultVars => Hold!HoldSpec
  BY <1>1, DocumentFollowsHold, PTL DEF OnlyOverlapsBreakHold, Hold!HoldSpec
<1> QED
  BY <1>2, HoldKeeps, PTL

\* One request at a time on the document.
OneVault == \A s, t \in VaultReq : s = t

\* Requests one at a time outrun none, so no document on hold is deleted ("The document
\* cannot be deleted by any actor", document-vault.service.ts:329), be the hold placed
\* through the vault or for an inquiry, and wherever the process dies.
THEOREM SerialDocumentIsHeld ==
  ASSUME OneVault
  PROVE  VaultSpec => Hold!HoldSpec /\ []Hold!HeldIsKept
<1> DEFINE NoneOutrun == outrun = {}
<1>1. VaultInit => NoneOutrun
  BY DEF VaultInit
<1>2. ASSUME NoneOutrun, [VaultNext]_vaultVars
      PROVE  NoneOutrun'
  <2>1. ASSUME NEW s \in VaultReq, NEW request, GoesOn(s, request)
        PROVE  NoneOutrun'
    BY <1>2, <2>1 DEF GoesOn, OneVault
  <2>2. CASE UNCHANGED vaultVars
    BY <1>2, <2>2 DEF vaultVars
  <2>4. ASSUME NEW s \in VaultReq,
               \/ BeginUpload(s) \/ FinaliseUpload(s) \/ ReadDelete(s) \/ WriteDelete(s)
               \/ ListDocuments(s) \/ PreserveDocuments(s) \/ MarkInquiry(s)
               \/ AbandonVault(s)
        PROVE  NoneOutrun'
    BY <2>1, <2>4 DEF BeginUpload, FinaliseUpload, ReadDelete, WriteDelete, ListDocuments,
       PreserveDocuments, MarkInquiry, AbandonVault
  <2>5. ASSUME NEW s \in VaultReq,
               \/ \E hold \in BOOLEAN : InsertDocument(s, hold)
               \/ \E op \in {"hold", "release"} : ReadHold(s, op) \/ WriteHold(s, op)
               \/ \E status \in {"open", "legal_hold", "closed"} : PutInquiry(s, status)
        PROVE  NoneOutrun'
    BY <2>1, <2>5 DEF InsertDocument, ReadHold, WriteHold, PutInquiry
  <2> HIDE DEF NoneOutrun
  <2> QED
    BY <1>2, <2>2, <2>4, <2>5 DEF VaultNext
<1>3. NoneOutrun => [~OutrunWrite]_vaultVars
  BY DEF OutrunWrite
<1> HIDE DEF NoneOutrun
<1> QED
  BY <1>1, <1>2, <1>3, CheckedDocumentIsHeld, PTL DEF VaultSpec

-----------------------------------------------------------------------------
(* An ACH authorization.                                                   *)

\* An event that waits to be persisted tells of what has happened, and what a request
\* that no revocation overran has read still holds.
Truthful(s) ==
  LET q == achReq[s]
  IN  q # NoAch =>
        /\ q.op = "publish" =>
             /\ q.event = "authorized" => auth.status # "none"
             /\ q.event = "revoked" => auth.status = "revoked"
             /\ q.event \in Debit => debit[q.event] # NoDebit /\ debit[q.event].flagged
        /\ s \notin overrun =>
             /\ q.op = "revoke" => auth.status = "active"
             /\ q.op = "debit" =>
                  /\ auth.status # "none"
                  /\ q.flagged = (q.excess \/ auth.status = "revoked")

AchInv == AchTypeOK /\ \A s \in AchReq : Truthful(s)

LEMMA InitAch == AchInit => AchInv
BY DEF AchInit, AchInv, AchTypeOK, Truthful

\* What has happened stays so: the status does not go back, and a row once written is
\* not written again.
Onward ==
  /\ auth.status # "none" => auth'.status # "none"
  /\ auth.status = "revoked" => auth'.status = "revoked"
  /\ \A d \in Debit : debit[d] # NoDebit => debit'[d] = debit[d]

\* A step of slot s keeps the others truthful or declares them overrun.
LEMMA ProceedsKeeps ==
  ASSUME AchInv, NEW s \in AchReq, NEW request \in AchRequest \cup {NoAch},
         Proceeds(s, request), Onward,
         auth' \in [status : {"none", "active", "revoked"}, notice : Nat],
         debit' \in [Debit -> DebitRow \cup {NoDebit}],
         ledger' \subseteq AchEvent,
         achReq'[s] = request => Truthful(s)'
  PROVE  AchInv'
<1>1. /\ achReq' \in [AchReq -> AchRequest \cup {NoAch}]
      /\ achReq'[s] = request
      /\ \A x \in AchReq \ {s} : achReq'[x] = achReq[x]
  BY DEF AchInv, AchTypeOK, Proceeds
<1>2. overrun' \subseteq AchReq
  BY DEF AchInv, AchTypeOK, Proceeds
<1>3. ASSUME NEW x \in AchReq \ {s}
      PROVE  Truthful(x)'
  <2>1. SUFFICES ASSUME achReq[x] # NoAch
                 PROVE  Truthful(x)'
    BY <1>1 DEF Truthful
  <2>2. Truthful(x) /\ achReq'[x] = achReq[x]
    BY <1>1 DEF AchInv
  <2>3. x \notin overrun' => x \notin overrun /\ auth' = auth
    BY <2>1 DEF Proceeds
  <2> QED
    BY <2>1, <2>2, <2>3 DEF Truthful, Onward
<1> QED
  BY <1>1, <1>2, <1>3 DEF AchInv, AchTypeOK

LEMMA OnwardStep == ASSUME AchTypeOK, AchNext PROVE Onward
<1>1. ASSUME NEW s \in AchReq, CreateAuthorization(s) \/ WriteRevoke(s)
      PROVE  Onward
  BY <1>1 DEF AchTypeOK, CreateAuthorization, WriteRevoke, Onward
<1>2. ASSUME NEW s \in AchReq, NEW d \in Debit, WriteDebit(s, d)
      PROVE  Onward
  BY <1>2 DEF AchTypeOK, WriteDebit, Onward
<1>3. CASE UNCHANGED <<auth, debit>>
  BY <1>3 DEF Onward
<1> QED
  BY <1>1, <1>2, <1>3 DEF AchNext, ReadRevoke, PersistEvent, AbandonAch, ReadDebit

LEMMA AchInductive == AchInv /\ [AchNext]_achVars => AchInv'
<1> SUFFICES ASSUME AchInv, [AchNext]_achVars PROVE AchInv'
  OBVIOUS
<1>1. AchTypeOK
  BY DEF AchInv
<1>2. CASE UNCHANGED achVars
  BY <1>2 DEF achVars, AchInv, AchTypeOK, Truthful
<1>3. ASSUME NEW s \in AchReq, CreateAuthorization(s)
      PROVE  AchInv'
  <2> DEFINE q == [op |-> "publish", event |-> "authorized"]
  <2>1. q \in AchRequest
    BY DEF AchRequest, AchEvent
  <2>2. /\ auth' \in [status : {"none", "active", "revoked"}, notice : Nat]
        /\ auth'.status = "active" /\ auth.status = "none"
    BY <1>1, <1>3 DEF CreateAuthorization, AchTypeOK
  <2>3. achReq'[s] = q => Truthful(s)'
    BY <2>2, DebitAssumption DEF Truthful
  <2> QED
    BY <1>1, <1>3, <2>1, <2>2, <2>3, ProceedsKeeps DEF CreateAuthorization, AchTypeOK, Onward
<1>4. ASSUME NEW s \in AchReq, ReadRevoke(s)
      PROVE  AchInv'
  <2>1. [op |-> "revoke"] \in AchRequest
    BY DEF AchRequest
  <2>2. achReq'[s] = [op |-> "revoke"] => Truthful(s)'
    BY <1>4 DEF Truthful, ReadRevoke
  <2> QED
    BY <1>1, <1>4, <2>1, <2>2, ProceedsKeeps DEF ReadRevoke, AchTypeOK, Onward
<1>5. ASSUME NEW s \in AchReq, WriteRevoke(s)
      PROVE  AchInv'
  <2> DEFINE q == [op |-> "publish", event |-> "revoked"]
  <2>1. q \in AchRequest
    BY DEF AchRequest, AchEvent
  <2>2. /\ auth' \in [status : {"none", "active", "revoked"}, notice : Nat]
        /\ auth'.status = "revoked"
    BY <1>1, <1>5 DEF WriteRevoke, AchTypeOK
  <2>3. achReq'[s] = q => Truthful(s)'
    BY <2>2, DebitAssumption DEF Truthful
  <2> QED
    BY <1>1, <1>5, <2>1, <2>2, <2>3, ProceedsKeeps DEF WriteRevoke, AchTypeOK, Onward
<1>6. ASSUME NEW s \in AchReq, NEW excess \in BOOLEAN, ReadDebit(s, excess)
      PROVE  AchInv'
  <2> DEFINE q == [op |-> "debit", excess |-> excess,
                   flagged |-> excess \/ auth.status = "revoked"]
  <2>1. q \in AchRequest
    BY DEF AchRequest
  <2>2. achReq'[s] = q => Truthful(s)'
    BY <1>6 DEF Truthful, ReadDebit
  <2> QED
    BY <1>1, <1>6, <2>1, <2>2, ProceedsKeeps DEF ReadDebit, AchTypeOK, Onward
<1>7. ASSUME NEW s \in AchReq, NEW d \in Debit, WriteDebit(s, d)
      PROVE  AchInv'
  <2> DEFINE row == [excess |-> achReq[s].excess, flagged |-> achReq[s].flagged]
             q == IF achReq[s].flagged THEN [op |-> "publish", event |-> d] ELSE NoAch
  <2>1. row \in DebitRow /\ row # NoDebit
    BY <1>1, <1>7, DebitAssumption DEF WriteDebit, AtAch, AchTypeOK, AchRequest, DebitRow
  <2>2. q \in AchRequest \cup {NoAch}
    BY DEF AchRequest, AchEvent
  <2>3. /\ debit' \in [Debit -> DebitRow \cup {NoDebit}]
        /\ debit'[d] = row
        /\ \A x \in Debit : debit[x] # NoDebit => debit'[x] = debit[x]
    BY <1>1, <1>7, <2>1 DEF WriteDebit, AchTypeOK
  <2>4. achReq'[s] = q => Truthful(s)'
    <3>1. "authorized" # d /\ "revoked" # d
      BY DebitAssumption
    <3> QED
      BY <2>1, <2>3, <3>1 DEF Truthful
  <2> QED
    BY <1>1, <1>7, <2>2, <2>3, <2>4, ProceedsKeeps DEF WriteDebit, AchTypeOK, Onward
<1>8. ASSUME NEW s \in AchReq, PersistEvent(s) \/ AbandonAch(s)
      PROVE  AchInv'
  <2>1. ledger' \subseteq AchEvent
    BY <1>1, <1>8, DebitAssumption DEF PersistEvent, AbandonAch, AtAch, AchTypeOK, AchRequest
  <2>2. achReq'[s] = NoAch => Truthful(s)'
    BY DEF Truthful
  <2> QED
    BY <1>1, <1>8, <2>1, <2>2, ProceedsKeeps DEF PersistEvent, AbandonAch, AchTypeOK, Onward
<1> QED
  BY <1>2, <1>3, <1>4, <1>5, <1>6, <1>7, <1>8 DEF AchNext

\* The invariant of the authorization: its types, what waits to be persisted, and what
\* every request that no revocation overran has read.
THEOREM AchInvariant == AchSpec => []AchInv
BY InitAch, AchInductive, PTL DEF AchSpec

\* The authorization, its debits and its ledger keep their types (ach-controls.service).
THEOREM AchTypeCorrect == AchSpec => []AchTypeOK
<1>1. AchInv => AchTypeOK
  BY DEF AchInv
<1> QED
  BY <1>1, AchInvariant, PTL

\* The authorization follows its mandate but for the writes of overrun requests
\* (revokeAuthorization and recordDebitEvent).
THEOREM AuthorizationFollowsMandate == AchSpec => OnlyOverlapsBreakMandate
<1>1. AchInit => Mandate!MandateInit
  BY DEF AchInit, Mandate!MandateInit
<1>2. ASSUME AchInv, [AchNext]_achVars
      PROVE  [OverrunWrite \/ Mandate!MandateNext]_<<auth, debit, ledger>>
  <2>1. /\ AchTypeOK
        /\ auth \in [status : {"none", "active", "revoked"}, notice : Nat]
    BY <1>2 DEF AchInv, AchTypeOK
  <2>2. ASSUME UNCHANGED achVars
        PROVE  UNCHANGED <<auth, debit, ledger>>
    BY <2>2 DEF achVars
  <2>3. ASSUME NEW s \in AchReq, CreateAuthorization(s)
        PROVE  Mandate!Authorize
    BY <2>1, <2>3 DEF CreateAuthorization, Mandate!Authorize
  <2>4. ASSUME NEW s \in AchReq,
               ReadRevoke(s) \/ AbandonAch(s) \/ \E excess \in BOOLEAN : ReadDebit(s, excess)
        PROVE  UNCHANGED <<auth, debit, ledger>>
    BY <2>4 DEF ReadRevoke, AbandonAch, ReadDebit
  <2>5. ASSUME NEW s \in AchReq, WriteRevoke(s), s \notin overrun
        PROVE  Mandate!Revoke
    <3>1. auth.status = "active"
      BY <1>2, <2>5 DEF AchInv, Truthful, WriteRevoke, AtAch
    <3> QED
      BY <2>1, <2>5, <3>1 DEF WriteRevoke, Mandate!Revoke
  <2>6. ASSUME NEW s \in AchReq, NEW d \in Debit, WriteDebit(s, d), s \notin overrun
        PROVE  \E excess \in BOOLEAN : Mandate!Record(d, excess)
    <3>1. /\ achReq[s].excess \in BOOLEAN
          /\ auth.status # "none"
          /\ achReq[s].flagged = (achReq[s].excess \/ auth.status = "revoked")
      BY <1>2, <2>1, <2>6 DEF AchInv, AchTypeOK, AchRequest, Truthful, WriteDebit, AtAch
    <3>2. Mandate!Record(d, achReq[s].excess)
      BY <2>6, <3>1 DEF WriteDebit, Mandate!Record
    <3> QED
      BY <3>1, <3>2
  <2>7. ASSUME NEW s \in AchReq, PersistEvent(s)
        PROVE  \E event \in {"authorized", "revoked"} \cup Debit : Mandate!Tell(event)
    <3> DEFINE event == achReq[s].event
    <3>1. event \in {"authorized", "revoked"} \cup Debit
      BY <2>1, <2>7 DEF PersistEvent, AtAch, AchTypeOK, AchRequest, AchEvent
    <3>2. /\ event = "authorized" => auth.status # "none"
          /\ event = "revoked" => auth.status = "revoked"
          /\ event \in Debit => debit[event] # NoDebit /\ debit[event].flagged
      BY <1>2, <2>7 DEF AchInv, Truthful, PersistEvent, AtAch
    <3>3. ledger' = ledger \cup {event} /\ UNCHANGED <<auth, debit>>
      BY <2>7 DEF PersistEvent
    <3>4. Mandate!Tell(event)
      BY <3>1, <3>2, <3>3 DEF Mandate!Tell, Mandate!Flagged
    <3> QED
      BY <3>1, <3>4
  <2> QED
    BY <1>2, <2>2, <2>3, <2>4, <2>5, <2>6, <2>7
       DEF AchNext, OverrunWrite, Mandate!MandateNext
<1> QED
  BY <1>1, <1>2, AchInvariant, PTL DEF AchSpec, OnlyOverlapsBreakMandate

\* A mandate has one moment of revocation, and its ledger reports no revocation that did
\* not happen and no debit that was not flagged.
THEOREM MandateKeeps ==
  Mandate!MandateSpec => [](Mandate!OneNotice /\ Mandate!NoFalseReport)
<1> DEFINE Sound == Mandate!OneNotice /\ Mandate!NoFalseReport
<1>1. Mandate!MandateInit => Sound
  BY DebitAssumption DEF Mandate!MandateInit, Mandate!OneNotice, Mandate!NoFalseReport
<1>2. Sound /\ [Mandate!MandateNext]_Mandate!mandateVars => Sound'
  <2> SUFFICES ASSUME Sound, [Mandate!MandateNext]_Mandate!mandateVars
               PROVE  Sound'
    OBVIOUS
  <2>1. CASE UNCHANGED Mandate!mandateVars
    BY <2>1 DEF Mandate!mandateVars, Mandate!OneNotice, Mandate!NoFalseReport, Mandate!Flagged
  <2>2. CASE Mandate!Authorize \/ Mandate!Revoke
    BY <2>2 DEF Mandate!Authorize, Mandate!Revoke, Mandate!OneNotice, Mandate!NoFalseReport,
       Mandate!Flagged
  <2>3. ASSUME NEW d \in Debit, NEW excess \in BOOLEAN, Mandate!Record(d, excess)
        PROVE  Sound'
    <3>1. \A x \in Debit : Mandate!Flagged(x) => debit'[x] = debit[x]
      BY <2>3 DEF Mandate!Record, Mandate!Flagged
    <3> QED
      BY <2>3, <3>1 DEF Mandate!Record, Mandate!OneNotice, Mandate!NoFalseReport, Mandate!Flagged
  <2>4. ASSUME NEW event \in {"authorized", "revoked"} \cup Debit, Mandate!Tell(event)
        PROVE  Sound'
    BY <2>4, DebitAssumption
       DEF Mandate!Tell, Mandate!OneNotice, Mandate!NoFalseReport, Mandate!Flagged
  <2> HIDE DEF Sound
  <2> QED
    BY <2>1, <2>2, <2>3, <2>4 DEF Mandate!MandateNext
<1> QED
  BY <1>1, <1>2, PTL DEF Mandate!MandateSpec

\* Whatever requests overlap and wherever a process dies, the ledger tells of no
\* revocation that did not happen and of no debit that is not on record as flagged, and
\* a revocation is never undone: only the moment of it, and the flag of a debit that
\* raced it, may be wrong (createAuthorization, revokeAuthorization, recordDebitEvent).
THEOREM LedgerTruthful ==
  AchSpec => []Mandate!NoFalseReport
             /\ [][auth.status = "revoked" => auth'.status = "revoked"]_achVars
<1> DEFINE Final == auth.status = "revoked" => auth'.status = "revoked"
<1>1. AchInit => Mandate!NoFalseReport
  BY DebitAssumption DEF AchInit, Mandate!NoFalseReport
<1>2. ASSUME AchInv, Mandate!NoFalseReport, AchNext
      PROVE  Mandate!NoFalseReport' /\ Final
  <2>1. AchTypeOK
    BY <1>2 DEF AchInv
  <2>2. Onward
    BY <1>2, OnwardStep DEF AchInv
  <2>3. \A d \in Debit : Mandate!Flagged(d) => Mandate!Flagged(d)'
    BY <2>2 DEF Onward, Mandate!Flagged
  <2>4. Final
    BY <2>2 DEF Onward
  <2>5. CASE UNCHANGED ledger
    BY <1>2, <2>2, <2>3, <2>5 DEF Onward, Mandate!NoFalseReport
  <2>6. ASSUME NEW s \in AchReq, PersistEvent(s)
        PROVE  Mandate!NoFalseReport'
    <3> DEFINE event == achReq[s].event
    <3>1. /\ event = "revoked" => auth.status = "revoked"
          /\ event \in Debit => Mandate!Flagged(event)
      BY <1>2, <2>6 DEF AchInv, Truthful, PersistEvent, AtAch, Mandate!Flagged
    <3>2. ledger' = ledger \cup {event}
      BY <2>6 DEF PersistEvent
    <3> HIDE DEF event
    <3> QED
      BY <1>2, <2>2, <2>3, <3>1, <3>2 DEF Onward, Mandate!NoFalseReport
  <2> QED
    BY <1>2, <2>4, <2>5, <2>6 DEF AchNext, CreateAuthorization, ReadRevoke, WriteRevoke,
       AbandonAch, ReadDebit, WriteDebit
<1>3. AchInv /\ Mandate!NoFalseReport /\ [AchNext]_achVars
        => Mandate!NoFalseReport' /\ [Final]_achVars
  BY <1>2 DEF achVars, Mandate!NoFalseReport, Mandate!Flagged
<1> QED
  BY <1>1, <1>3, AchInvariant, PTL DEF AchSpec

\* A revocation on record of which no event is persisted, nor on its way.
Unreported ==
  /\ auth.status = "revoked" /\ "revoked" \notin ledger
  /\ \A s \in AchReq : ~AtAch(s, "revoke")
  /\ \A s \in AchReq : AtAch(s, "publish") => achReq[s].event # "revoked"

\* Whatever is requested later, a revocation whose event was lost is never reported: a
\* second attempt is refused as already revoked, and it is the only caller of the
\* publication (revokeAuthorization).
THEOREM UnreportedForGood == AchSpec => [][Unreported => Unreported']_achVars
<1>1. ASSUME AchInv, Unreported, AchNext
      PROVE  Unreported'
  <2>1. /\ AchTypeOK /\ auth'.status = "revoked"
    BY <1>1, OnwardStep DEF AchInv, Onward, Unreported
  <2>2. ASSUME NEW s \in AchReq, NEW request \in AchRequest \cup {NoAch}, Proceeds(s, request),
               ledger' = ledger,
               request # NoAch => /\ request.op # "revoke"
                                  /\ request.op = "publish" => request.event # "revoked"
        PROVE  Unreported'
    <3>1. /\ achReq'[s] = request
          /\ \A x \in AchReq \ {s} : achReq'[x] = achReq[x]
      BY <2>1, <2>2 DEF AchTypeOK, Proceeds
    <3> QED
      BY <1>1, <2>1, <2>2, <3>1 DEF Unreported, AtAch
  <2>3. ASSUME NEW s \in AchReq, PersistEvent(s)
        PROVE  Unreported'
    <3>1. achReq[s].event # "revoked" /\ ledger' = ledger \cup {achReq[s].event}
      BY <1>1, <2>3 DEF PersistEvent, Unreported
    <3>2. /\ achReq'[s] = NoAch
          /\ \A x \in AchReq \ {s} : achReq'[x] = achReq[x]
      BY <2>1, <2>3 DEF AchTypeOK, PersistEvent, Proceeds
    <3> QED
      BY <1>1, <2>1, <3>1, <3>2 DEF Unreported, AtAch
  <2>4. ASSUME NEW s \in AchReq, AbandonAch(s)
        PROVE  Unreported'
    BY <2>2, <2>4 DEF AbandonAch
  <2>5. ASSUME NEW s \in AchReq, NEW excess \in BOOLEAN, ReadDebit(s, excess)
        PROVE  Unreported'
    BY <2>2, <2>5 DEF ReadDebit, AchRequest
  <2>6. ASSUME NEW s \in AchReq, NEW d \in Debit, WriteDebit(s, d)
        PROVE  Unreported'
    <3>1. [op |-> "publish", event |-> d] \in AchRequest /\ d # "revoked"
      BY DebitAssumption DEF AchRequest, AchEvent
    <3> QED
      BY <2>2, <2>6, <3>1 DEF WriteDebit
  <2>7. ASSUME NEW s \in AchReq
        PROVE  ~CreateAuthorization(s) /\ ~ReadRevoke(s) /\ ~WriteRevoke(s)
    BY <1>1 DEF Unreported, CreateAuthorization, ReadRevoke, WriteRevoke
  <2> QED
    BY <1>1, <2>3, <2>4, <2>5, <2>6, <2>7 DEF AchNext
<1>2. AchInv /\ [AchNext]_achVars => [Unreported => Unreported']_achVars
  BY <1>1
<1> QED
  BY <1>2, AchInvariant, PTL DEF AchSpec

\* No publication of the ledger fails and no process dies before its own.
EventsSurvive ==
  \A s \in AchReq : AtAch(s, "publish") => achReq[s].event \in ledger' \/ achReq'[s] = achReq[s]

\* Event e is persisted or on its way.
Forthcoming(e) == e \in ledger \/ \E s \in AchReq : AtAch(s, "publish") /\ achReq[s].event = e

\* What the ledger has to tell of the authorization and its debits, it tells or will;
\* and what is revoked exists.
ToldOrComing ==
  /\ \A s \in AchReq : AtAch(s, "revoke") => auth.status # "none"
  /\ auth.status # "none" => Forthcoming("authorized")
  /\ auth.status = "revoked" => Forthcoming("revoked")
  /\ \A d \in Debit : debit[d] # NoDebit /\ debit[d].flagged => Forthcoming(d)

\* Once nothing is on its way, the ledger has the authorization, its revocation and each
\* flagged debit.
LedgerComplete ==
  (\A s \in AchReq : ~AtAch(s, "publish")) =>
    /\ auth.status # "none" => "authorized" \in ledger
    /\ auth.status = "revoked" => "revoked" \in ledger
    /\ \A d \in Debit : debit[d] # NoDebit /\ debit[d].flagged => d \in ledger

\* Whatever requests overlap, the ledger is complete if no publication is lost: with
\* LedgerTruthful, the lost publication is all that comes between the rows and what is
\* told of them (publishAndPersist after each write of ach-controls).
THEOREM LedgerCompleteUnlessLost ==
  AchSpec /\ [][EventsSurvive]_achVars => []LedgerComplete
<1> DEFINE Found == \A s \in AchReq : AtAch(s, "revoke") => auth.status # "none"
<1>1. AchInit => ToldOrComing
  BY DEF AchInit, ToldOrComing, AtAch
<1>2. ASSUME AchInv, ToldOrComing, AchNext, EventsSurvive
      PROVE  ToldOrComing'
  <2>1. AchTypeOK
    BY <1>2 DEF AchInv
  <2>2. ASSUME NEW e, Forthcoming(e), ledger \subseteq ledger'
        PROVE  Forthcoming(e)'
    BY <1>2, <2>2 DEF Forthcoming, EventsSurvive, AtAch
  <2>3. ASSUME NEW s \in AchReq, NEW request \in AchRequest, Proceeds(s, request),
               request.op = "publish"
        PROVE  Forthcoming(request.event)'
    <3>1. achReq'[s] = request /\ request # NoAch
      BY <2>1, <2>3, NoAchAssumption DEF AchTypeOK, Proceeds
    <3> QED
      BY <2>3, <3>1 DEF Forthcoming, AtAch
  <2>4. ASSUME NEW s \in AchReq, NEW request \in AchRequest \cup {NoAch}, Proceeds(s, request),
               request # NoAch /\ request.op = "revoke" => auth'.status # "none"
        PROVE  Found'
    <3>1. /\ achReq'[s] = request
          /\ \A x \in AchReq \ {s} : achReq'[x] = achReq[x]
      BY <2>1, <2>4 DEF AchTypeOK, Proceeds
    <3>2. Onward
      BY <1>2, <2>1, OnwardStep
    <3> QED
      BY <1>2, <2>4, <3>1, <3>2 DEF ToldOrComing, AtAch, Onward
  <2>5. ledger \subseteq ledger'
    BY <1>2 DEF AchNext, CreateAuthorization, ReadRevoke, WriteRevoke, PersistEvent, AbandonAch,
                ReadDebit, WriteDebit
  <2>6. ASSUME UNCHANGED <<auth, debit>>, Found'
        PROVE  ToldOrComing'
    BY <1>2, <2>2, <2>5, <2>6 DEF ToldOrComing
  <2>7. ASSUME NEW s \in AchReq, CreateAuthorization(s)
        PROVE  ToldOrComing'
    <3>1. [op |-> "publish", event |-> "authorized"] \in AchRequest
      BY DEF AchRequest, AchEvent
    <3>2. Forthcoming("authorized")' /\ Found'
      BY <2>3, <2>7, <2>4, <3>1 DEF CreateAuthorization
    <3>3. auth'.status = "active" /\ debit' = debit
      BY <2>1, <2>7 DEF CreateAuthorization, AchTypeOK
    <3> QED
      BY <1>2, <2>2, <2>5, <3>2, <3>3 DEF ToldOrComing
  <2>8. ASSUME NEW s \in AchReq, WriteRevoke(s)
        PROVE  ToldOrComing'
    <3>1. [op |-> "publish", event |-> "revoked"] \in AchRequest
      BY DEF AchRequest, AchEvent
    <3>2. Forthcoming("revoked")' /\ Found'
      BY <2>3, <2>8, <2>4, <3>1 DEF WriteRevoke
    <3>3. auth.status # "none" /\ auth'.status = "revoked" /\ debit' = debit
      BY <1>2, <2>8 DEF ToldOrComing, WriteRevoke
    <3> QED
      BY <1>2, <2>2, <2>5, <3>2, <3>3 DEF ToldOrComing
  <2>9. ASSUME NEW s \in AchReq, NEW d \in Debit, WriteDebit(s, d)
        PROVE  ToldOrComing'
    <3>1. [op |-> "publish", event |-> d] \in AchRequest
      BY DEF AchRequest, AchEvent
    <3>2. (achReq[s].flagged => Forthcoming(d)') /\ Found'
      BY <2>3, <2>9, <2>4, <3>1 DEF WriteDebit
    <3>3. /\ auth' = auth
          /\ debit'[d].flagged = achReq[s].flagged
          /\ \A x \in Debit \ {d} : debit'[x] = debit[x]
      BY <2>1, <2>9 DEF WriteDebit, AchTypeOK
    <3> QED
      BY <1>2, <2>2, <2>5, <3>2, <3>3 DEF ToldOrComing
  <2>10. ASSUME NEW s \in AchReq,
                ReadRevoke(s) \/ PersistEvent(s) \/ AbandonAch(s)
                \/ \E excess \in BOOLEAN : ReadDebit(s, excess)
         PROVE  ToldOrComing'
    <3>1. UNCHANGED <<auth, debit>>
      BY <2>10 DEF ReadRevoke, PersistEvent, AbandonAch, ReadDebit
    <3>2. CASE ReadRevoke(s)
      <4>1. [op |-> "revoke"] \in AchRequest /\ auth.status = "active"
        BY <3>2 DEF ReadRevoke, AchRequest
      <4>2. Found'
        BY <2>4, <3>1, <3>2, <4>1 DEF ReadRevoke
      <4> QED
        BY <2>6, <3>1, <4>2
    <3>3. CASE PersistEvent(s) \/ AbandonAch(s)
      <4>1. Found'
        BY <2>4, <3>3 DEF PersistEvent, AbandonAch
      <4> QED
        BY <2>6, <3>1, <4>1
    <3>4. ASSUME NEW excess \in BOOLEAN, ReadDebit(s, excess)
          PROVE  ToldOrComing'
      <4> DEFINE request == [op |-> "debit", excess |-> excess,
                             flagged |-> excess \/ auth.status = "revoked"]
      <4>1. request \in AchRequest /\ request.op # "revoke" /\ Proceeds(s, request)
        BY <3>4 DEF ReadDebit, AchRequest
      <4>2. Found'
        BY <2>4, <4>1
      <4> QED
        BY <2>6, <3>1, <4>2
    <3> QED
      BY <2>10, <3>2, <3>3, <3>4
  <2> QED
    BY <1>2, <2>7, <2>8, <2>9, <2>10 DEF AchNext
<1>3. AchInv /\ ToldOrComing /\ [AchNext]_achVars /\ [EventsSurvive]_achVars => ToldOrComing'
  BY <1>2 DEF achVars, ToldOrComing, Forthcoming, AtAch
<1>4. ToldOrComing => LedgerComplete
  BY DEF ToldOrComing, Forthcoming, LedgerComplete
<1> QED
  BY <1>1, <1>3, <1>4, AchInvariant, PTL DEF AchSpec

\* If a write is refused whenever the authorization has been revoked since it was read,
\* the authorization is the mandate: it is revoked at one moment, and every debit
\* recorded after that is flagged.
THEOREM CheckedAuthorizationIsMandate ==
  AchSpec /\ [][~OverrunWrite]_achVars =>
    Mandate!MandateSpec /\ [](Mandate!OneNotice /\ Mandate!NoFalseReport)
<1>1. [OverrunWrite \/ Mandate!MandateNext]_<<auth, debit, ledger>>
      /\ [~OverrunWrite]_achVars
        => [Mandate!MandateNext]_(Mandate!mandateVars)
  BY DEF achVars, Mandate!mandateVars
<1>2. AchSpec /\ [][~OverrunWrite]_achVars => Mandate!MandateSpec
  BY <1>1, AuthorizationFollowsMandate, PTL DEF OnlyOverlapsBreakMandate, Mandate!MandateSpec
<1> QED
  BY <1>2, MandateKeeps, PTL

\* One request at a time on the authorization.
OneAch == \A s, t \in AchReq : s = t

\* Requests one at a time overrun none, so the notice is written once ("the legal
\* timestamp", ach-controls.service.ts:194), wherever the process dies.
THEOREM SerialAuthorizationIsMandate ==
  ASSUME OneAch
  PROVE  AchSpec => Mandate!MandateSpec /\ [](Mandate!OneNotice /\ Mandate!NoFalseReport)
<1> DEFINE NoneOverrun == overrun = {}
<1>1. AchInit => NoneOverrun
  BY DEF AchInit
<1>2. ASSUME NoneOverrun, [AchNext]_achVars
      PROVE  NoneOverrun'
  <2>1. ASSUME NEW s \in AchReq, NEW request, Proceeds(s, request)
        PROVE  NoneOverrun'
    BY <1>2, <2>1 DEF Proceeds, OneAch
  <2>2. CASE UNCHANGED achVars
    BY <1>2, <2>2 DEF achVars
  <2>3. ASSUME NEW s \in AchReq,
               \/ CreateAuthorization(s) \/ ReadRevoke(s) \/ WriteRevoke(s)
               \/ PersistEvent(s) \/ AbandonAch(s)
               \/ \E excess \in BOOLEAN : ReadDebit(s, excess)
               \/ \E d \in Debit : WriteDebit(s, d)
        PROVE  NoneOverrun'
    BY <2>1, <2>3 DEF CreateAuthorization, ReadRevoke, WriteRevoke, PersistEvent, AbandonAch,
       ReadDebit, WriteDebit
  <2> HIDE DEF NoneOverrun
  <2> QED
    BY <1>2, <2>2, <2>3 DEF AchNext
<1>3. NoneOverrun => [~OverrunWrite]_achVars
  BY DEF OverrunWrite
<1> HIDE DEF NoneOverrun
<1> QED
  BY <1>1, <1>2, <1>3, CheckedAuthorizationIsMandate, PTL DEF AchSpec

-----------------------------------------------------------------------------
(* The deletion of an offboarding.  A row once scrubbed may hold data      *)
(* again, but it is no longer due; so a deletion only has to account for   *)
(* the rows that are: they are on the list it is scrubbing or of a kind it *)
(* has yet to list.                                                        *)

\* The rows a deletion at a statement has yet to list.
ToList(stage) ==
  CASE stage \in {"mark", "owners"} -> PersonalRow
    [] stage = "users" -> Account
    [] stage = "finish" -> {}

\* A deletion past its mark has nothing due but ahead of it.
OnItsWay(s) ==
  AtOff(s, "delete") /\ offReq[s].at # "mark" =>
    /\ workflow[offReq[s].of].deletion # "pending"
    /\ due[offReq[s].of] \subseteq offReq[s].todo \cup ToList(offReq[s].at)

\* A workflow whose deletion never began is not completed; what is due exists.
Begun ==
  \A w \in Workflow :
    /\ workflow[w].deletion = "pending" => workflow[w].status # "completed"
    /\ \A x \in due[w] : personal[x] # "absent"

OffInv ==
  /\ OffTypeOK
  /\ Begun
  /\ CompletedHasScrubbed
  /\ \A s \in OffReq : OnItsWay(s)

LEMMA InitOff == OffInit => OffInv
BY DEF OffInit, OffInv, OffTypeOK, WorkflowRow, Personal, Begun, CompletedHasScrubbed,
       OnItsWay, AtOff

\* A step of slot s that leaves alone what is due, and makes no row absent.
LEMMA OffRequestMoves ==
  ASSUME OffInv, NEW s \in OffReq,
         NEW request \in Deletion \cup Initiation \cup Advance \cup Verification \cup {NoOff},
         Continue(s, request), UNCHANGED due, personal' \in [PersonalRow -> Personal],
         workflow' \in [Workflow -> WorkflowRow], Begun', CompletedHasScrubbed',
         \A w \in Workflow : workflow'[w].deletion = "pending" => workflow[w].deletion = "pending",
         OnItsWay(s)'
  PROVE  OffInv'
<1>1. /\ offReq' \in [OffReq -> Deletion \cup Initiation \cup Advance \cup Verification \cup {NoOff}]
      /\ \A r \in OffReq : r # s => offReq'[r] = offReq[r]
  BY DEF OffInv, OffTypeOK, Continue
<1>2. OffTypeOK'
  BY <1>1 DEF OffInv, OffTypeOK
<1>3. ASSUME NEW r \in OffReq, r # s
      PROVE  OnItsWay(r)'
  <2>1. AtOff(r, "delete") => offReq[r].of \in Workflow
    BY DEF AtOff, OffInv, OffTypeOK, Deletion, Initiation, Advance, Verification
  <2> QED
    BY <1>1, <1>3, <2>1 DEF OnItsWay, AtOff, OffInv
<1> QED
  BY <1>2, <1>3 DEF OffInv

\* A deletion under way has the shape of one.
LEMMA DeletionShape ==
  ASSUME OffInv, NEW s \in OffReq, AtOff(s, "delete")
  PROVE  offReq[s] \in Deletion
BY DEF OffInv, OffTypeOK, AtOff, Initiation, Advance, Verification, Deletion

\* Entering a row, and an enrolment, make nothing due.
LEMMA RowsEnterKeep ==
  ASSUME OffInv, NEW x \in PersonalRow,
         EnterRow(x) \/ BeginEnrolment(x)
  PROVE  OffInv'
<1>1. /\ personal' \in [PersonalRow -> Personal]
      /\ UNCHANGED <<workflow, offReq, due>>
  BY DEF EnterRow, BeginEnrolment, OffInv, OffTypeOK, Personal
<1>2. \A y \in PersonalRow : personal'[y] = "absent" => personal[y] = "absent"
  BY DEF EnterRow, BeginEnrolment, OffInv, OffTypeOK
<1>3. OffTypeOK' /\ Begun' /\ CompletedHasScrubbed'
  BY <1>1, <1>2 DEF OffInv, OffTypeOK, Begun, CompletedHasScrubbed
<1>4. ASSUME NEW s \in OffReq
      PROVE  OnItsWay(s)'
  BY <1>1 DEF OnItsWay, AtOff, OffInv
<1> QED
  BY <1>3, <1>4 DEF OffInv

\* A verification writes into rows that exist, and makes nothing due either.
LEMMA VerificationKeeps ==
  ASSUME OffInv, NEW s \in OffReq,
         WriteVerification(s) \/ \E x \in Owner : BeginVerification(s, x)
  PROVE  OffInv'
<1> USE DEF OffInv
<1>1. PICK request \in Verification \cup {NoOff} : Continue(s, request)
  BY DEF BeginVerification, WriteVerification, Verification
<1>2. UNCHANGED <<workflow, due>> /\ personal' \in [PersonalRow -> Personal]
  BY DEF BeginVerification, WriteVerification, OffTypeOK, Personal
<1>3. \A y \in PersonalRow : personal'[y] = "absent" => personal[y] = "absent"
  BY DEF BeginVerification, WriteVerification, OffTypeOK
<1>4. Begun' /\ CompletedHasScrubbed'
  BY <1>2, <1>3 DEF OffTypeOK, Begun, CompletedHasScrubbed
<1>5. OnItsWay(s)'
  BY <1>1 DEF OnItsWay, AtOff, Continue, OffTypeOK, Verification
<1>6. workflow' \in [Workflow -> WorkflowRow]
      /\ \A w \in Workflow : workflow'[w].deletion = "pending" => workflow[w].deletion = "pending"
  BY <1>2 DEF OffTypeOK
<1> QED
  BY <1>1, <1>2, <1>4, <1>5, <1>6, OffRequestMoves

LEMMA InitiationKeeps ==
  ASSUME OffInv, NEW s \in OffReq,
         \/ \E ofBusiness \in BOOLEAN, refunds \in BOOLEAN : ReadActive(s, ofBusiness, refunds)
         \/ \E w \in Workflow : CreateWorkflow(s, w) \/ ReadWorkflow(s, w)
         \/ AdvanceWorkflow(s) \/ AbandonOff(s)
  PROVE  OffInv'
<1> USE DEF OffInv
<1>1. ASSUME NEW ofBusiness \in BOOLEAN, NEW refunds \in BOOLEAN,
             ReadActive(s, ofBusiness, refunds)
      PROVE  OffInv'
  <2> DEFINE request == [op |-> "initiate", ofBusiness |-> ofBusiness, refunds |-> refunds]
  <2>1. request \in Initiation /\ Continue(s, request) /\ UNCHANGED <<workflow, personal, due>>
    BY <1>1 DEF ReadActive, Initiation
  <2>2. OnItsWay(s)'
    BY <2>1 DEF OnItsWay, AtOff, Continue, OffTypeOK
  <2> HIDE DEF request
  <2> QED
    BY <2>1, <2>2, OffRequestMoves DEF OffTypeOK, Begun, CompletedHasScrubbed
<1>2. ASSUME NEW w \in Workflow, CreateWorkflow(s, w)
      PROVE  OffInv'
  <2>1. offReq[s] \in Initiation
    BY <1>2 DEF CreateWorkflow, AtOff, OffTypeOK, Deletion, Advance, Verification
  <2>2. PICK request \in Advance \cup {NoOff} : Continue(s, request)
    BY <1>2 DEF CreateWorkflow, Advance
  <2>3. /\ workflow' \in [Workflow -> WorkflowRow]
        /\ UNCHANGED <<personal, due>>
        /\ \A v \in Workflow : /\ workflow'[v].deletion = workflow[v].deletion
                              /\ workflow'[v].status \in {workflow[v].status, "initiated"}
    BY <1>2, <2>1 DEF CreateWorkflow, OffTypeOK, WorkflowRow, Initiation
  <2>4. OnItsWay(s)'
    BY <2>2 DEF OnItsWay, AtOff, Continue, OffTypeOK, Advance
  <2>5. Begun' /\ CompletedHasScrubbed'
    BY <2>3 DEF Begun, CompletedHasScrubbed
  <2> QED
    BY <2>2, <2>3, <2>4, <2>5, OffRequestMoves DEF OffTypeOK
<1>3. ASSUME NEW w \in Workflow, ReadWorkflow(s, w)
      PROVE  OffInv'
  <2> DEFINE request == [op |-> "delete", of |-> w, at |-> "mark", todo |-> {}]
  <2>1. request \in Deletion /\ Continue(s, request) /\ UNCHANGED <<workflow, personal, due>>
    BY <1>3 DEF ReadWorkflow, Deletion
  <2>2. OnItsWay(s)'
    BY <2>1 DEF OnItsWay, AtOff, Continue, OffTypeOK
  <2> HIDE DEF request
  <2> QED
    BY <2>1, <2>2, OffRequestMoves DEF OffTypeOK, Begun, CompletedHasScrubbed
<1>4. CASE AdvanceWorkflow(s)
  <2>1. /\ workflow' \in [Workflow -> WorkflowRow]
        /\ UNCHANGED <<personal, due>>
        /\ Continue(s, NoOff)
        /\ \A v \in Workflow : /\ workflow'[v].deletion = workflow[v].deletion
                              /\ workflow'[v].status \in {workflow[v].status, "in_progress"}
    BY <1>4 DEF AdvanceWorkflow, OffTypeOK, WorkflowRow
  <2>2. OnItsWay(s)'
    BY <2>1 DEF OnItsWay, AtOff, Continue, OffTypeOK
  <2>3. Begun' /\ CompletedHasScrubbed'
    BY <2>1 DEF Begun, CompletedHasScrubbed
  <2> QED
    BY <2>1, <2>2, <2>3, OffRequestMoves DEF OffTypeOK
<1>5. CASE AbandonOff(s)
  <2>1. Continue(s, NoOff) /\ UNCHANGED <<workflow, personal, due>>
    BY <1>5 DEF AbandonOff
  <2>2. OnItsWay(s)'
    BY <2>1 DEF OnItsWay, AtOff, Continue, OffTypeOK
  <2> QED
    BY <2>1, <2>2, OffRequestMoves DEF OffTypeOK, Begun, CompletedHasScrubbed
<1> QED
  BY <1>1, <1>2, <1>3, <1>4, <1>5

\* The first mark of a workflow makes the rows there are due; a later one adds none.
LEMMA MarkKeeps ==
  ASSUME OffInv, NEW s \in OffReq, MarkDeletion(s)
  PROVE  OffInv'
<1> USE DEF OffInv
<1> DEFINE m == offReq[s].of
<1>1. offReq[s] \in Deletion /\ m \in Workflow
  BY DeletionShape DEF MarkDeletion, AtStage, Deletion
<1>2. /\ offReq' = [offReq EXCEPT ![s] = [offReq[s] EXCEPT !.at = "owners"]]
      /\ workflow' = [workflow EXCEPT ![m].deletion = "in_progress"]
      /\ personal' = personal
      /\ due' = IF workflow[m].deletion = "pending"
                THEN [due EXCEPT ![m] = Existing(PersonalRow)] ELSE due
  BY DEF MarkDeletion, MarkAndGoTo, Continue
<1>3. OffTypeOK'
  BY <1>1, <1>2 DEF OffTypeOK, WorkflowRow, Deletion, Existing
<1>4. \A w \in Workflow :
        /\ w # m => workflow'[w] = workflow[w] /\ due'[w] = due[w]
        /\ workflow'[w].status = workflow[w].status
        /\ due'[w] = due[w] \/ workflow[w].deletion = "pending"
        /\ \A x \in due'[w] : x \in PersonalRow /\ personal[x] # "absent"
  BY <1>1, <1>2 DEF OffTypeOK, WorkflowRow, Existing, Begun
<1>5. workflow'[m].deletion = "in_progress"
  BY <1>1, <1>2 DEF OffTypeOK, WorkflowRow
<1>6. Begun'
  BY <1>2, <1>4, <1>5 DEF Begun
<1>7. CompletedHasScrubbed'
  BY <1>2, <1>4, <1>5 DEF CompletedHasScrubbed, Begun
<1>8. ASSUME NEW r \in OffReq
      PROVE  OnItsWay(r)'
  <2>1. CASE r = s
    <3>1. offReq'[s].of = m /\ offReq'[s].at = "owners"
      BY <1>1, <1>2 DEF OffTypeOK, Deletion
    <3> QED
      BY <2>1, <3>1, <1>1, <1>4, <1>5 DEF OnItsWay, ToList
  <2>2. CASE r # s
    <3>1. offReq'[r] = offReq[r]
      BY <1>2, <2>2 DEF OffTypeOK
    <3>2. ASSUME AtOff(r, "delete"), offReq[r].at # "mark"
          PROVE  /\ offReq[r].of \in Workflow
                 /\ due'[offReq[r].of] = due[offReq[r].of]
                 /\ workflow'[offReq[r].of].deletion # "pending"
      <4>1. offReq[r].of \in Workflow
        BY <3>2, DeletionShape DEF Deletion
      <4> QED
        BY <4>1, <3>2, <1>4, <1>5 DEF OnItsWay
    <3> QED
      BY <1>2, <3>1, <3>2 DEF OnItsWay, AtOff
  <2> QED
    BY <2>1, <2>2
<1> QED
  BY <1>3, <1>6, <1>7, <1>8

LEMMA ListKeeps ==
  ASSUME OffInv, NEW s \in OffReq, ListOwners(s) \/ ListUsers(s)
  PROVE  OffInv'
<1> USE DEF OffInv
<1>1. PICK rows \in {Owner, Account}, stage \in {"users", "finish"} :
        /\ AtStage(s, IF stage = "users" THEN "owners" ELSE "users")
        /\ rows = IF stage = "users" THEN Owner ELSE Account
        /\ ListAndGoTo(s, rows, stage)
  BY DEF ListOwners, ListUsers
<1> DEFINE request == [offReq[s] EXCEPT !.todo = Existing(rows), !.at = stage]
<1>2. offReq[s] \in Deletion
  BY <1>1, DeletionShape DEF AtStage
<1>3. /\ request \in Deletion
      /\ request.of = offReq[s].of /\ request.todo = Existing(rows) /\ request.at = stage
  <2> DEFINE existing == Existing(rows)
  <2>1. existing \in SUBSET PersonalRow
    BY <1>1 DEF Existing, PersonalRow
  <2>2. stage \in {"mark", "owners", "users", "finish"}
    OBVIOUS
  <2> HIDE DEF existing
  <2>3. request = [offReq[s] EXCEPT !.todo = existing, !.at = stage]
    BY DEF existing
  <2>4. /\ request \in Deletion
        /\ request.of = offReq[s].of /\ request.todo = existing /\ request.at = stage
    BY <1>2, <2>1, <2>2, <2>3 DEF Deletion
  <2> QED
    BY <2>4 DEF existing
<1>4. Continue(s, request) /\ UNCHANGED <<workflow, personal, due>>
  BY <1>1 DEF ListAndGoTo
<1>5. offReq'[s] = request
  BY <1>4 DEF Continue, OffTypeOK
<1>6. OnItsWay(s)'
  <2>1. /\ workflow[offReq[s].of].deletion # "pending"
        /\ due[offReq[s].of] \subseteq (IF stage = "users" THEN PersonalRow ELSE Account)
    BY <1>1 DEF OnItsWay, AtStage, ToList
  <2>2. due[offReq[s].of] \subseteq Existing(rows) \cup ToList(stage)
    <3>1. \A x \in due[offReq[s].of] : personal[x] # "absent"
      BY <1>2 DEF Begun, Deletion
    <3> QED
      BY <1>1, <2>1, <3>1 DEF Existing, ToList, PersonalRow
  <2> HIDE DEF request
  <2> QED
    BY <1>3, <1>4, <1>5, <2>1, <2>2 DEF OnItsWay
<1> HIDE DEF request
<1> QED
  BY <1>3, <1>4, <1>6, OffRequestMoves DEF OffTypeOK, Begun, CompletedHasScrubbed

LEMMA ScrubKeeps ==
  ASSUME OffInv, NEW s \in OffReq, NEW x \in PersonalRow, ScrubRow(s, x)
  PROVE  OffInv'
<1> USE DEF OffInv
<1>1. offReq[s] \in Deletion
  BY DeletionShape DEF ScrubRow
<1>2. /\ personal' = [personal EXCEPT ![x] = "scrubbed"]
      /\ offReq' = [offReq EXCEPT ![s] = [offReq[s] EXCEPT !.todo = offReq[s].todo \ {x}]]
      /\ due' = [w \in Workflow |-> due[w] \ {x}]
      /\ UNCHANGED workflow
  BY DEF ScrubRow, Continue
<1>3. OffTypeOK'
  BY <1>1, <1>2 DEF OffTypeOK, Deletion, Personal
<1>4. /\ \A y \in PersonalRow : personal'[y] = "absent" => personal[y] = "absent"
      /\ \A w \in Workflow : due'[w] = due[w] \ {x}
  BY <1>2 DEF OffTypeOK
<1>5. Begun' /\ CompletedHasScrubbed'
  BY <1>2, <1>4 DEF OffTypeOK, Begun, CompletedHasScrubbed
<1>6. ASSUME NEW r \in OffReq
      PROVE  OnItsWay(r)'
  <2>1. AtOff(r, "delete") => offReq[r].of \in Workflow
    BY DeletionShape DEF Deletion
  <2>2. r # s => offReq'[r] = offReq[r]
    BY <1>2 DEF OffTypeOK
  <2>3. /\ offReq'[s].op = offReq[s].op /\ offReq'[s].of = offReq[s].of
        /\ offReq'[s].at = offReq[s].at /\ offReq'[s].todo = offReq[s].todo \ {x}
    BY <1>1, <1>2 DEF OffTypeOK, Deletion
  <2>4. AtOff(s, "delete")
    BY DEF ScrubRow
  <2>5. CASE r = s
    BY <2>5, <2>1, <2>3, <2>4, <1>2, <1>4 DEF OnItsWay
  <2>6. CASE r # s
    BY <2>6, <2>1, <2>2, <1>2, <1>4 DEF OnItsWay, AtOff
  <2> QED
    BY <2>5, <2>6
<1> QED
  BY <1>3, <1>5, <1>6

LEMMA CompletionKeeps ==
  ASSUME OffInv, NEW s \in OffReq, CompleteWorkflow(s)
  PROVE  OffInv'
<1> USE DEF OffInv
<1> DEFINE m == offReq[s].of
<1>1. m \in Workflow
  BY DeletionShape DEF CompleteWorkflow, AtStage, Deletion
<1>2. due[m] = {}
  BY DEF CompleteWorkflow, AtStage, OnItsWay, ToList
<1>3. /\ Continue(s, NoOff) /\ UNCHANGED <<personal, due>>
      /\ workflow' \in [Workflow -> WorkflowRow]
      /\ workflow'[m].deletion = "completed"
      /\ \A w \in Workflow : w # m => workflow'[w] = workflow[w]
  BY <1>1 DEF CompleteWorkflow, OffTypeOK, WorkflowRow
<1>4. Begun' /\ CompletedHasScrubbed'
  BY <1>2, <1>3 DEF Begun, CompletedHasScrubbed
<1>5. OnItsWay(s)'
  BY <1>3 DEF OnItsWay, AtOff, Continue, OffTypeOK
<1> QED
  BY <1>1, <1>3, <1>4, <1>5, OffRequestMoves DEF OffTypeOK

LEMMA OffStep ==
  ASSUME OffInv, [OffNext]_offVars
  PROVE  OffInv'
<1>1. CASE UNCHANGED offVars
  BY <1>1 DEF offVars, OffInv, OffTypeOK, Begun, CompletedHasScrubbed, OnItsWay, AtOff
<1>2. CASE OffNext
  <2>1. Account \subseteq PersonalRow
    BY DEF PersonalRow
  <2> QED
    BY <1>2, <2>1, RowsEnterKeep, VerificationKeeps, InitiationKeeps, MarkKeeps, ListKeeps, ScrubKeeps,
       CompletionKeeps DEF OffNext
<1> QED
  BY <1>1, <1>2

THEOREM OffInvariant == OffSpec => []OffInv
BY InitOff, OffStep, PTL DEF OffSpec

\* The variables of an offboarding have the values the types say.
THEOREM OffTypeCorrect == OffSpec => []OffTypeOK
<1>1. OffInv => OffTypeOK
  BY DEF OffInv
<1> QED
  BY <1>1, OffInvariant, PTL

\* A workflow that says its data is deleted has scrubbed, since its deletion was first
\* begun, every row on record then: across crashes, retries and overlapping deletions
\* (deleteData), and beside verifications and enrolments that write into the same rows
\* before and after.
THEOREM CompletedHaveScrubbed == OffSpec => []CompletedHasScrubbed
<1>1. OffInv => CompletedHasScrubbed
  BY DEF OffInv
<1> QED
  BY <1>1, OffInvariant, PTL

\* One initiation, deletion or verification at a time.
OneOff == \A r, s \in OffReq : r = s

\* What is completed is so in both columns, and no request is about to write it.
Settled ==
  /\ \A w \in Workflow :
       /\ workflow[w].status = "none" => workflow[w].deletion # "completed"
       /\ workflow[w].deletion = "completed" => workflow[w].status = "completed"
  /\ \A s \in OffReq :
       AtOff(s, "delete") \/ AtOff(s, "advance") =>
         offReq[s].of \in Workflow /\ workflow[offReq[s].of].deletion # "completed"

StaysCompleted ==
  \A w \in Workflow : workflow[w].deletion = "completed" => workflow'[w] = workflow[w]

LEMMA SettledStep ==
  ASSUME OneOff, OffTypeOK, Settled, OffNext
  PROVE  Settled' /\ StaysCompleted
<1>1. /\ workflow \in [Workflow -> WorkflowRow]
      /\ offReq \in [OffReq -> Deletion \cup Initiation \cup Advance \cup Verification \cup {NoOff}]
  BY DEF OffTypeOK
<1>2. CASE UNCHANGED <<workflow, offReq>>
  BY <1>2 DEF Settled, AtOff, StaysCompleted
<1>3. ASSUME NEW s \in OffReq, Continue(s, NoOff), UNCHANGED workflow
      PROVE  Settled' /\ StaysCompleted
  <2>1. offReq'[s] = NoOff
    BY <1>1, <1>3 DEF Continue
  <2> QED
    BY <1>3, <2>1 DEF Settled, AtOff, StaysCompleted, OneOff
<1>4. ASSUME NEW s \in OffReq,
             \/ \E ofBusiness \in BOOLEAN, refunds \in BOOLEAN :
                  ReadActive(s, ofBusiness, refunds)
             \/ \E x \in Owner : BeginVerification(s, x)
      PROVE  Settled' /\ StaysCompleted
  <2>1. offReq'[s].op \in {"initiate", "verify"} /\ workflow' = workflow
    BY <1>1, <1>4 DEF ReadActive, BeginVerification, Continue
  <2> QED
    BY <2>1 DEF Settled, AtOff, StaysCompleted, OneOff
<1>5. ASSUME NEW s \in OffReq, NEW w \in Workflow, CreateWorkflow(s, w)
      PROVE  Settled' /\ StaysCompleted
  <2>1. /\ workflow[w].deletion # "completed"
        /\ workflow'[w].status = "initiated" /\ workflow'[w].deletion = workflow[w].deletion
        /\ \A v \in Workflow : v # w => workflow'[v] = workflow[v]
    BY <1>1, <1>5 DEF CreateWorkflow, Settled, WorkflowRow
  <2>2. offReq'[s] \in {[op |-> "advance", of |-> w], NoOff}
    BY <1>1, <1>5 DEF CreateWorkflow, Continue
  <2>3. AtOff(s, "delete")' \/ AtOff(s, "advance")' => offReq'[s].of = w
    BY <2>2 DEF AtOff
  <2> QED
    BY <2>1, <2>3 DEF Settled, StaysCompleted, OneOff
<1>6. ASSUME NEW s \in OffReq, NEW w \in Workflow, ReadWorkflow(s, w)
      PROVE  Settled' /\ StaysCompleted
  <2>1. offReq'[s].of = w /\ workflow' = workflow /\ workflow[w].deletion # "completed"
    BY <1>1, <1>6 DEF ReadWorkflow, Continue
  <2> QED
    BY <2>1 DEF Settled, AtOff, StaysCompleted, OneOff
<1>7. ASSUME NEW s \in OffReq, AdvanceWorkflow(s)
      PROVE  Settled' /\ StaysCompleted
  <2> DEFINE w == offReq[s].of
  <2>1. w \in Workflow /\ workflow[w].deletion # "completed"
    BY <1>7 DEF AdvanceWorkflow, Settled
  <2>2. /\ workflow'[w].status = "in_progress" /\ workflow'[w].deletion = workflow[w].deletion
        /\ \A v \in Workflow : v # w => workflow'[v] = workflow[v]
        /\ offReq'[s] = NoOff
    BY <1>1, <1>7, <2>1 DEF AdvanceWorkflow, Continue, WorkflowRow
  <2> HIDE DEF w
  <2> QED
    BY <2>1, <2>2 DEF Settled, AtOff, StaysCompleted, OneOff
<1>8. ASSUME NEW s \in OffReq, MarkDeletion(s)
      PROVE  Settled' /\ StaysCompleted
  <2>1. PICK w \in Workflow : w = offReq[s].of /\ workflow[w].deletion # "completed"
    BY <1>8 DEF MarkDeletion, AtStage, Settled
  <2>2. offReq[s] \in Deletion
    BY <1>1, <1>8 DEF MarkDeletion, AtStage, AtOff, Deletion, Initiation, Advance, Verification
  <2>3. /\ workflow'[w].deletion = "in_progress" /\ workflow'[w].status = workflow[w].status
        /\ \A v \in Workflow : v # w => workflow'[v] = workflow[v]
    BY <1>1, <1>8, <2>1 DEF MarkDeletion, MarkAndGoTo, WorkflowRow
  <2>4. offReq'[s].of = w
    BY <1>1, <1>8, <2>1, <2>2 DEF MarkDeletion, MarkAndGoTo, Continue, Deletion
  <2> QED
    BY <2>1, <2>3, <2>4 DEF Settled, AtOff, StaysCompleted, OneOff
<1>9. ASSUME NEW s \in OffReq,
             ListOwners(s) \/ ListUsers(s) \/ \E x \in PersonalRow : ScrubRow(s, x)
      PROVE  Settled' /\ StaysCompleted
  <2>1. AtOff(s, "delete") /\ workflow' = workflow
    BY <1>9 DEF ListOwners, ListUsers, AtStage, ListAndGoTo, ScrubRow
  <2>2. offReq[s] \in Deletion
    BY <1>1, <2>1 DEF AtOff, Deletion, Initiation, Advance, Verification
  <2>3. offReq'[s].of = offReq[s].of
    BY <1>1, <1>9, <2>2 DEF ListOwners, ListUsers, ListAndGoTo, ScrubRow, Continue, Deletion
  <2> QED
    BY <2>1, <2>3 DEF Settled, AtOff, StaysCompleted, OneOff
<1>10. ASSUME NEW s \in OffReq, CompleteWorkflow(s)
       PROVE  Settled' /\ StaysCompleted
  <2>1. PICK w \in Workflow : w = offReq[s].of /\ workflow[w].deletion # "completed"
    BY <1>10 DEF CompleteWorkflow, AtStage, Settled
  <2>2. /\ workflow'[w].status = "completed"
        /\ \A v \in Workflow : v # w => workflow'[v] = workflow[v]
        /\ offReq'[s] = NoOff
    BY <1>1, <1>10, <2>1 DEF CompleteWorkflow, Continue, WorkflowRow
  <2> QED
    BY <2>1, <2>2 DEF Settled, AtOff, StaysCompleted, OneOff
<1> QED
  BY <1>2, <1>3, <1>4, <1>5, <1>6, <1>7, <1>8, <1>9, <1>10
     DEF OffNext, EnterRow, BeginEnrolment, WriteVerification, AbandonOff

\* Initiations and deletions one at a time never take a completed workflow back: its row
\* is not written again.  It is overlap that can (deleteData marks the row in_progress
\* on a status read before, initiateOffboarding writes it a second time).
THEOREM SerialCompletedIsFinal ==
  ASSUME OneOff
  PROVE  OffSpec => [][StaysCompleted]_offVars
<1>1. OffInit => Settled
  BY DEF OffInit, Settled, AtOff
<1>2. OffInv /\ Settled /\ [OffNext]_offVars => Settled' /\ [StaysCompleted]_offVars
  <2> SUFFICES ASSUME OffInv, Settled, [OffNext]_offVars
               PROVE  Settled' /\ [StaysCompleted]_offVars
    OBVIOUS
  <2>1. CASE UNCHANGED offVars
    BY <2>1 DEF offVars, Settled, AtOff
  <2>2. CASE OffNext
    BY <2>2, SettledStep DEF OffInv
  <2> QED
    BY <2>1, <2>2
<1> QED
  BY <1>1, <1>2, OffInvariant, PTL DEF OffSpec

=============================================================================
