---------------------------- MODULE SmsOutreach ----------------------------
(***************************************************************************)
(* Outbound SMS under TCPA: the consent vault (channel 'sms'), the         *)
(* do-not-call list, the dispatch of one message (sms-dispatch.service,    *)
(* called once per recipient by the campaign route), the inbound webhook   *)
(* that takes STOP, and the delivery callbacks of the provider.            *)
(*                                                                         *)
(* Each await is a step of its own.  Consent is read twice before a        *)
(* message goes out, once by the dispatch and once by the provider's       *)
(* client; the do-not-call list is read once, at the start.  Revocation    *)
(* reads the active records and updates the ones it read.                  *)
(*                                                                         *)
(* Abstracted: bodies, templates, time zones and clocks (quiet hours are a *)
(* nondeterministic refusal), the fields of a row other than its status.   *)
(* Businesses and their numbers do not change.                             *)
(***************************************************************************)
EXTENDS Naturals

CONSTANTS
  Tenant, Business, Phone,
  TenantOf,     \* [Business -> Tenant]
  PhoneOf,      \* [Business -> Phone], normalised
  Message,      \* dispatches of the instance, each used once
  Inbound,      \* inbound STOP messages of the instance, each used once
  Revoker,      \* slots for revocations through the API
  MaxGrants,    \* bound: consent records per business
  MaxCrashes    \* bound: process deaths inside the inbound handler

ASSUME NumbersAssumption ==
  /\ TenantOf \in [Business -> Tenant]
  /\ PhoneOf \in [Business -> Phone]
  /\ MaxGrants \in Nat
  /\ MaxCrashes \in Nat

VARIABLES
  issued,       \* consent records created for each business: 1..issued[b]
  active,       \* the ones with status 'active'
  dnc,          \* DoNotCallList: pairs of tenant and number
  msg,          \* the dispatch of each message
  row,          \* status of its SmsMessage row, "none" before it is created
  out,          \* the provider has accepted the message
  due,          \* delivery statuses the provider has yet to call back
  stop,         \* the handler of each inbound STOP
  revoke,       \* the revocations in progress
  crashes

consentVars == <<issued, active>>
sendVars == <<msg, row, out, due>>
smsVars == <<consentVars, dnc, sendVars, stop, revoke, crashes>>

\* blocked, sent, failed: what is left to do is to create the row.
MsgPlace == {"new", "listed", "cleared", "sending", "blocked", "sent", "failed",
             "done", "aborted"}

RowStatus == {"none", "blocked", "failed", "queued", "sent", "delivered"}

StopPlace == {"none", "received", "matched", "listed", "revoking", "done", "dropped"}

Record == 1..MaxGrants

SmsTypeOK ==
  /\ issued \in [Business -> 0..MaxGrants]
  /\ active \in [Business -> SUBSET Record]
  /\ dnc \in SUBSET (Tenant \X Phone)
  /\ msg \in [Message -> [at : MsgPlace, to : Business]]
  /\ row \in [Message -> RowStatus]
  /\ out \in [Message -> BOOLEAN]
  /\ due \in [Message -> SUBSET {"sent", "delivered"}]
  /\ stop \in [Inbound -> [at : StopPlace, from : Phone, matched : Business,
                           read : SUBSET Record]]
  /\ revoke \in [Revoker -> [of : Business, read : SUBSET Record]]
  /\ crashes \in 0..MaxCrashes

SmsInit ==
  /\ issued = [b \in Business |-> 0]
  /\ active = [b \in Business |-> {}]
  /\ dnc = {}
  /\ msg \in [Message -> [at : {"new"}, to : Business]]
  /\ row = [m \in Message |-> "none"]
  /\ out = [m \in Message |-> FALSE]
  /\ due = [m \in Message |-> {}]
  /\ stop \in [Inbound -> [at : {"none"}, from : Phone, matched : Business,
                           read : {{}}]]
  /\ revoke \in [Revoker -> [of : Business, read : {{}}]]
  /\ crashes = 0

----------------------------------------------------------------------------
(* The consent vault.                                                      *)

\* A new record beside the ones that exist.
Grant(b) ==
  /\ issued[b] < MaxGrants
  /\ issued' = [issued EXCEPT ![b] = @ + 1]
  /\ active' = [active EXCEPT ![b] = @ \cup {issued[b] + 1}]
  /\ UNCHANGED <<dnc, sendVars, stop, revoke, crashes>>

\* revokeConsent reads the active records; with none it returns.
BeginRevoke(v) ==
  /\ revoke[v].read = {}
  /\ active[revoke[v].of] # {}
  /\ revoke' = [revoke EXCEPT ![v].read = active[revoke[v].of]]
  /\ UNCHANGED <<consentVars, dnc, sendVars, stop, crashes>>

\* One transaction revokes exactly the records that were read.
CommitRevoke(v) ==
  /\ revoke[v].read # {}
  /\ active' = [active EXCEPT ![revoke[v].of] = @ \ revoke[v].read]
  /\ revoke' = [revoke EXCEPT ![v].read = {}]
  /\ UNCHANGED <<issued, dnc, sendVars, stop, crashes>>

\* Mutant: a record counts whatever its status.
AnyConsent(b) == issued[b] # 0

\* hasActiveConsent for the sms channel.
HasActiveConsent(b) == active[b] # {}

----------------------------------------------------------------------------
(* One dispatch.                                                           *)

At(m, place) == msg' = [msg EXCEPT ![m].at = place]

Listed(b) == <<TenantOf[b], PhoneOf[b]>> \in dnc

\* The businesses and the do-not-call list are read, once.
ReadDncList(m) ==
  /\ msg[m].at = "new"
  /\ At(m, IF Listed(msg[m].to) THEN "blocked" ELSE "listed")
  /\ UNCHANGED <<consentVars, dnc, row, out, due, stop, revoke, crashes>>

\* The consent gate, which fails closed, and then the contact window.
CheckGate(m) ==
  /\ msg[m].at = "listed"
  /\ \/ HasActiveConsent(msg[m].to) /\ At(m, "cleared")
     \/ At(m, "blocked")
  /\ UNCHANGED <<consentVars, dnc, row, out, due, stop, revoke, crashes>>

\* The provider's client reads the consent again; a refusal is an exception.
RecheckGate(m) ==
  /\ msg[m].at = "cleared"
  /\ \/ HasActiveConsent(msg[m].to) /\ At(m, "sending")
     \/ At(m, "failed")
  /\ UNCHANGED <<consentVars, dnc, row, out, due, stop, revoke, crashes>>

\* The provider accepts and answers, accepts and the answer is lost, or refuses.
Send(m) ==
  /\ msg[m].at = "sending"
  /\ \E accepted, answered \in BOOLEAN :
       /\ At(m, IF accepted /\ answered THEN "sent" ELSE "failed")
       /\ out' = [out EXCEPT ![m] = accepted]
       /\ due' = [due EXCEPT ![m] = IF accepted THEN {"sent", "delivered"} ELSE {}]
  /\ UNCHANGED <<consentVars, dnc, row, stop, revoke, crashes>>

\* Mutant: the row says what the request was, not what became of it.
OutcomeAlwaysQueued(m) == "queued"

\* Mutant: a refused or lost send is recorded with a status no reader knows.
OutcomeUnknownStatus(m) ==
  CASE msg[m].at = "sent" -> "queued" [] msg[m].at = "failed" -> "error"
    [] OTHER -> msg[m].at

\* The status the row is created with.
Outcome(m) == IF msg[m].at = "sent" THEN "queued" ELSE msg[m].at

RecordMessage(m) ==
  /\ msg[m].at \in {"blocked", "sent", "failed"}
  /\ row' = [row EXCEPT ![m] = Outcome(m)]
  /\ At(m, "done")
  /\ UNCHANGED <<consentVars, dnc, out, due, stop, revoke, crashes>>

\* Creating the row fails.  After a send, that is caught as a failed send and a
\* failed row is created next; otherwise the request ends.
RecordFails(m) ==
  /\ msg[m].at \in {"blocked", "sent", "failed"}
  /\ At(m, IF msg[m].at = "sent" THEN "failed" ELSE "aborted")
  /\ UNCHANGED <<consentVars, dnc, row, out, due, stop, revoke, crashes>>

AbortDispatch(m) ==
  /\ msg[m].at \notin {"done", "aborted"}
  /\ At(m, "aborted")
  /\ UNCHANGED <<consentVars, dnc, row, out, due, stop, revoke, crashes>>

\* A delivery status, in any order; it finds the row by the provider's id, which
\* only a row created after the answer carries.
StatusCallback(m, s) ==
  /\ s \in due[m]
  /\ due' = [due EXCEPT ![m] = @ \ {s}]
  /\ row' = IF row[m] \in {"queued", "sent", "delivered"}
            THEN [row EXCEPT ![m] = s] ELSE row
  /\ UNCHANGED <<consentVars, dnc, msg, out, stop, revoke, crashes>>

----------------------------------------------------------------------------
(* The inbound webhook.                                                    *)

\* A consumer texts STOP.
ReceiveStop(i) ==
  /\ stop[i].at = "none"
  /\ stop' = [stop EXCEPT ![i].at = "received"]
  /\ UNCHANGED <<consentVars, dnc, sendVars, revoke, crashes>>

\* Mutant: a message from no known number is never answered.
MatchSenderNoAnswer(i) ==
  /\ stop[i].at = "received"
  /\ \E b \in {b \in Business : PhoneOf[b] = stop[i].from} :
       stop' = [stop EXCEPT ![i].matched = b, ![i].at = "matched"]
  /\ UNCHANGED <<consentVars, dnc, sendVars, revoke, crashes>>

\* The sender is matched to the first business with that number, of any tenant,
\* and again within the tenant found; a message from no known number is
\* acknowledged and dropped.
MatchSender(i) ==
  /\ stop[i].at = "received"
  /\ LET known == {b \in Business : PhoneOf[b] = stop[i].from}
     IN \/ \E b \in known :
             stop' = [stop EXCEPT ![i].matched = b, ![i].at = "matched"]
        \/ known = {} /\ stop' = [stop EXCEPT ![i].at = "dropped"]
  /\ UNCHANGED <<consentVars, dnc, sendVars, revoke, crashes>>

\* Mutant: a number with no active consent behind it is not listed.
UpsertDncIfConsented(i) ==
  /\ stop[i].at = "matched"
  /\ LET b == stop[i].matched
     IN dnc' = IF active[b] # {} THEN dnc \cup {<<TenantOf[b], stop[i].from>>} ELSE dnc
  /\ stop' = [stop EXCEPT ![i].at = "listed"]
  /\ UNCHANGED <<consentVars, sendVars, revoke, crashes>>

UpsertDnc(i) ==
  /\ stop[i].at = "matched"
  /\ dnc' = dnc \cup {<<TenantOf[stop[i].matched], stop[i].from>>}
  /\ stop' = [stop EXCEPT ![i].at = "listed"]
  /\ UNCHANGED <<consentVars, sendVars, revoke, crashes>>

ReadConsents(i) ==
  /\ stop[i].at = "listed"
  /\ LET read == active[stop[i].matched]
     IN stop' = [stop EXCEPT ![i].read = read,
                             ![i].at = IF read = {} THEN "done" ELSE "revoking"]
  /\ UNCHANGED <<consentVars, dnc, sendVars, revoke, crashes>>

\* Mutant: only the newest record is revoked.
RevokeNewestRead(i) ==
  /\ stop[i].at = "revoking"
  /\ active' = [active EXCEPT ![stop[i].matched] =
       @ \ {k \in stop[i].read : \A j \in stop[i].read : j <= k}]
  /\ stop' = [stop EXCEPT ![i].at = "done"]
  /\ UNCHANGED <<issued, dnc, sendVars, revoke, crashes>>

RevokeRead(i) ==
  /\ stop[i].at = "revoking"
  /\ active' = [active EXCEPT ![stop[i].matched] = @ \ stop[i].read]
  /\ stop' = [stop EXCEPT ![i].at = "done"]
  /\ UNCHANGED <<issued, dnc, sendVars, revoke, crashes>>

\* An error is logged and acknowledged all the same: the provider never retries.
FailInbound(i) ==
  /\ stop[i].at \in {"received", "matched", "listed", "revoking"}
  /\ stop' = [stop EXCEPT ![i].at = "dropped"]
  /\ UNCHANGED <<consentVars, dnc, sendVars, revoke, crashes>>

\* The process dies before it answers, and the provider delivers again.
CrashInbound(i) ==
  /\ stop[i].at \in {"matched", "listed", "revoking"}
  /\ crashes < MaxCrashes
  /\ crashes' = crashes + 1
  /\ stop' = [stop EXCEPT ![i].at = "received", ![i].read = {}]
  /\ UNCHANGED <<consentVars, dnc, sendVars, revoke>>

----------------------------------------------------------------------------
\* What the handler of a STOP does once the message is in.
HandleStop(i) == MatchSender(i) \/ UpsertDnc(i) \/ ReadConsents(i) \/ RevokeRead(i)

SmsNext ==
  \/ \E b \in Business : Grant(b)
  \/ \E v \in Revoker : BeginRevoke(v)
  \/ \E v \in Revoker : CommitRevoke(v)
  \/ \E m \in Message : ReadDncList(m)
  \/ \E m \in Message : CheckGate(m)
  \/ \E m \in Message : RecheckGate(m)
  \/ \E m \in Message : Send(m)
  \/ \E m \in Message : RecordMessage(m)
  \/ \E m \in Message : RecordFails(m)
  \/ \E m \in Message : AbortDispatch(m)
  \/ \E m \in Message, s \in {"sent", "delivered"} : StatusCallback(m, s)
  \/ \E i \in Inbound : ReceiveStop(i)
  \/ \E i \in Inbound : HandleStop(i)
  \/ \E i \in Inbound : FailInbound(i)
  \/ \E i \in Inbound : CrashInbound(i)

\* The steps of a handler that has started are scheduled by the event loop;
\* nothing else is assumed to happen.
SmsSpec == SmsInit /\ [][SmsNext]_smsVars /\ \A i \in Inbound : WF_smsVars(HandleStop(i))

----------------------------------------------------------------------------
\* The rows tell the truth as far as they go: a message whose dispatch ended
\* normally has one, one that says blocked was never accepted by the provider,
\* and one that says queued, sent or delivered was (record in sms-dispatch
\* against callbacks that arrive in any order, also before the row exists; a
\* failed row leaves it open).
RowsTruthful ==
  \A m \in Message :
    /\ msg[m].at = "done" => row[m] # "none"
    /\ row[m] = "blocked" => ~out[m]
    /\ row[m] \in {"queued", "sent", "delivered"} => out[m]

\* A STOP that was handled to the end has revoked every record it read, whatever
\* the API revokes or grants meanwhile (the per-record updates of revokeConsent).
StopRevokesWhatItRead ==
  \A i \in Inbound :
    stop[i].at = "done" => stop[i].read \cap active[stop[i].matched] = {}

\* A STOP that arrives is handled to the end or dropped with a logged error, also
\* when the process dies in between (the provider delivers it again).
StopSettles ==
  \A i \in Inbound : stop[i].at = "received" ~> stop[i].at \in {"done", "dropped"}

============================================================================
