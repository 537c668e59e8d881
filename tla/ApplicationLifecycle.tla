----------------------- MODULE ApplicationLifecycle ------------------------
(***************************************************************************)
(* What the pipeline promises of one card application, with every request  *)
(* a single step: the status follows VALID_TRANSITIONS, plus the direct    *)
(* submission from draft that POST /applications/:id/submit offers and the *)
(* cancellation endpoint; a submission needs a captured consent; the terms *)
(* are edited only before submission; cancelled is final.                  *)
(* ApplicationPipeline implements this specification when requests run one *)
(* at a time and no decline recovery is resolved.                          *)
(***************************************************************************)

CONSTANT App

VARIABLES status, consentAt, submittedAt, creditUnion

lifecycleVars == <<status, consentAt, submittedAt, creditUnion>>

\* Decisions and other moves of the table that need nothing but the table.
Moves ==
  {<<"draft", "pending_consent">>, <<"pending_consent", "draft">>,
   <<"submitted", "approved">>, <<"submitted", "declined">>,
   <<"declined", "reconsideration">>, <<"reconsideration", "declined">>}

LifecycleInit ==
  /\ status = [a \in App |-> "none"]
  /\ consentAt = [a \in App |-> FALSE]
  /\ submittedAt = [a \in App |-> FALSE]
  /\ creditUnion = [a \in App |-> FALSE]

Open(a, cu) ==
  /\ status[a] = "none"
  /\ status' = [status EXCEPT ![a] = "draft"]
  /\ creditUnion' = [creditUnion EXCEPT ![a] = cu]
  /\ UNCHANGED <<consentAt, submittedAt>>

Edit(a, cu) ==
  /\ status[a] \in {"draft", "pending_consent"}
  /\ creditUnion' = [creditUnion EXCEPT ![a] = cu]
  /\ UNCHANGED <<status, consentAt, submittedAt>>

Consent(a) ==
  /\ status[a] # "none"
  /\ consentAt' = [consentAt EXCEPT ![a] = TRUE]
  /\ UNCHANGED <<status, submittedAt, creditUnion>>

\* Entering pending_consent is what stamps the consent.
Move(a, t) ==
  /\ <<status[a], t>> \in Moves
  /\ status' = [status EXCEPT ![a] = t]
  /\ consentAt' = [consentAt EXCEPT ![a] = @ \/ t = "pending_consent"]
  /\ UNCHANGED <<submittedAt, creditUnion>>

SubmitOnce(a) ==
  /\ status[a] \in {"draft", "pending_consent", "reconsideration"}
  /\ consentAt[a]
  /\ status' = [status EXCEPT ![a] = "submitted"]
  /\ submittedAt' = [submittedAt EXCEPT ![a] = TRUE]
  /\ UNCHANGED <<consentAt, creditUnion>>

CancelCard(a) ==
  /\ status[a] \notin {"none", "cancelled"}
  /\ status' = [status EXCEPT ![a] = "cancelled"]
  /\ UNCHANGED <<consentAt, submittedAt, creditUnion>>

LifecycleNext ==
  \E a \in App :
    \/ \E cu \in BOOLEAN : Open(a, cu) \/ Edit(a, cu)
    \/ Consent(a)
    \/ \E t \in {"pending_consent", "draft", "approved", "declined", "reconsideration"} :
         Move(a, t)
    \/ SubmitOnce(a)
    \/ CancelCard(a)

LifecycleSpec == LifecycleInit /\ [][LifecycleNext]_lifecycleVars

-----------------------------------------------------------------------------
\* What the lifecycle keeps.  Behind a submission there is a captured consent, and
\* what was submitted does not go back to where it is edited...
SubmittedForGood ==
  \A a \in App : submittedAt[a] =>
    consentAt[a] /\ status[a] \notin {"none", "draft", "pending_consent"}

\* ... so its terms change no more...
TermsFrozen ==
  [][\A a \in App : submittedAt[a] => creditUnion'[a] = creditUnion[a]]_lifecycleVars

\* ... and cancelled is the last status of an application.
CancelledIsLast ==
  [][\A a \in App : status[a] = "cancelled" => status'[a] = "cancelled"]_lifecycleVars

============================================================================
