-------------------------- MODULE SmsConsentProofs --------------------------
(***************************************************************************)
(* Type correctness and safety of SmsOutreach, and of SmsConsentHistory,   *)
(* for any sets of tenants, businesses, numbers, messages and STOPs.       *)
(*                                                                         *)
(* The inductive invariants say what each place of a dispatch and of a     *)
(* STOP handler implies: PlacesSound for the provider and the rows,        *)
(* ReadsSound for the consent records, HistorySound for the history.       *)
(***************************************************************************)
EXTENDS SmsConsentHistory, TLAPS

\* A refused or unfinished dispatch has sent nothing, one that is answered has,
\* and a row exists only once the dispatch is done.
PlacesSound ==
  \A m \in Message :
    /\ msg[m].at \in {"new", "listed", "cleared", "sending", "blocked"} => ~out[m]
    /\ msg[m].at = "sent" => out[m]
    /\ row[m] # "none" => msg[m].at = "done"

\* Consent records are numbered up to issued; a STOP handler has read none
\* before it reads, and only records that exist.
ReadsSound ==
  /\ \A b \in Business : active[b] \subseteq 1..issued[b]
  /\ \A i \in Inbound :
       /\ stop[i].read \subseteq 1..issued[stop[i].matched]
       /\ stop[i].at \in {"none", "received", "matched", "listed"} => stop[i].read = {}

SmsIInv ==
  /\ SmsTypeOK
  /\ PlacesSound
  /\ ReadsSound
  /\ RowsTruthful
  /\ StopRevokesWhatItRead

----------------------------------------------------------------------------
(* One action at a time: the type.                                         *)

\* The initial state is of the declared type.
LEMMA SmsInitType == SmsInit => SmsTypeOK
BY NumbersAssumption DEF SmsInit, SmsTypeOK, Record, MsgPlace, RowStatus, StopPlace

\* The next place of a dispatch keeps its record well formed.
LEMMA AtType ==
  ASSUME SmsTypeOK, NEW m \in Message, NEW place \in MsgPlace, At(m, place)
  PROVE  msg' \in [Message -> [at : MsgPlace, to : Business]]
BY DEF SmsTypeOK, At

\* It moves that dispatch and no other.
LEMMA AtPlaces ==
  ASSUME SmsTypeOK, NEW m \in Message, NEW place, At(m, place)
  PROVE  /\ msg'[m].at = place /\ msg'[m].to = msg[m].to
         /\ \A n \in Message \ {m} : msg'[n] = msg[n]
BY DEF SmsTypeOK, At

\* What SmsTypeOK says of the handlers.
StopHandler == [at : StopPlace, from : Phone, matched : Business, read : SUBSET Record]

\* Updating a field of one handler keeps the handlers well formed.
LEMMA HandlerType ==
  ASSUME NEW f \in [Inbound -> StopHandler], NEW i \in Inbound
  PROVE  /\ \A p \in StopPlace : [f EXCEPT ![i].at = p] \in [Inbound -> StopHandler]
         /\ \A b \in Business : [f EXCEPT ![i].matched = b] \in [Inbound -> StopHandler]
         /\ \A s \in SUBSET Record : [f EXCEPT ![i].read = s] \in [Inbound -> StopHandler]
<1>1. \A p \in StopPlace : [f EXCEPT ![i].at = p] \in [Inbound -> StopHandler]
  BY DEF StopHandler
<1>2. \A b \in Business : [f EXCEPT ![i].matched = b] \in [Inbound -> StopHandler]
  BY DEF StopHandler
<1>3. \A s \in SUBSET Record : [f EXCEPT ![i].read = s] \in [Inbound -> StopHandler]
  BY DEF StopHandler
<1> QED
  BY <1>1, <1>2, <1>3

\* Every step of the outreach keeps the type.
LEMMA SmsNextType == SmsTypeOK /\ [SmsNext]_smsVars => SmsTypeOK'
<1> SUFFICES ASSUME SmsTypeOK, [SmsNext]_smsVars PROVE SmsTypeOK'
  OBVIOUS
<1> USE NumbersAssumption DEF consentVars, sendVars
<1>0. stop \in [Inbound -> StopHandler]
  BY DEF SmsTypeOK, StopHandler
<1>1. ASSUME NEW b \in Business, Grant(b) PROVE SmsTypeOK'
  BY <1>1 DEF Grant, SmsTypeOK, Record
<1>2. ASSUME NEW v \in Revoker, BeginRevoke(v) PROVE SmsTypeOK'
  BY <1>2 DEF BeginRevoke, SmsTypeOK
<1>3. ASSUME NEW v \in Revoker, CommitRevoke(v) PROVE SmsTypeOK'
  <2>1. active' \in [Business -> SUBSET Record]
    BY <1>3 DEF CommitRevoke, SmsTypeOK
  <2>2. revoke' \in [Revoker -> [of : Business, read : SUBSET Record]]
    BY <1>3 DEF CommitRevoke, SmsTypeOK
  <2> QED
    BY <1>3, <2>1, <2>2 DEF CommitRevoke, SmsTypeOK
<1>4. ASSUME NEW m \in Message, ReadDncList(m) PROVE SmsTypeOK'
  <2>1. \E place \in {"blocked", "listed"} : At(m, place)
    BY <1>4 DEF ReadDncList
  <2>2. msg' \in [Message -> [at : MsgPlace, to : Business]]
    BY <2>1, AtType DEF MsgPlace
  <2> QED
    BY <1>4, <2>2 DEF ReadDncList, SmsTypeOK
<1>5. ASSUME NEW m \in Message, CheckGate(m) PROVE SmsTypeOK'
  <2>1. \E place \in {"cleared", "blocked"} : At(m, place)
    BY <1>5 DEF CheckGate
  <2>2. msg' \in [Message -> [at : MsgPlace, to : Business]]
    BY <2>1, AtType DEF MsgPlace
  <2> QED
    BY <1>5, <2>2 DEF CheckGate, SmsTypeOK
<1>6. ASSUME NEW m \in Message, RecheckGate(m) PROVE SmsTypeOK'
  <2>1. \E place \in {"sending", "failed"} : At(m, place)
    BY <1>6 DEF RecheckGate
  <2>2. msg' \in [Message -> [at : MsgPlace, to : Business]]
    BY <2>1, AtType DEF MsgPlace
  <2> QED
    BY <1>6, <2>2 DEF RecheckGate, SmsTypeOK
<1>7. ASSUME NEW m \in Message, Send(m) PROVE SmsTypeOK'
  <2>1. \E place \in {"sent", "failed"} : At(m, place)
    BY <1>7 DEF Send
  <2>2. msg' \in [Message -> [at : MsgPlace, to : Business]]
    BY <2>1, AtType DEF MsgPlace
  <2>3. out' \in [Message -> BOOLEAN]
    BY <1>7 DEF Send, SmsTypeOK
  <2>4. due' \in [Message -> SUBSET {"sent", "delivered"}]
    BY <1>7 DEF Send, SmsTypeOK
  <2> QED
    BY <1>7, <2>2, <2>3, <2>4 DEF Send, SmsTypeOK
<1>8. ASSUME NEW m \in Message, RecordMessage(m) PROVE SmsTypeOK'
  <2>1. \E place \in {"done"} : At(m, place)
    BY <1>8 DEF RecordMessage
  <2>2. msg' \in [Message -> [at : MsgPlace, to : Business]]
    BY <2>1, AtType DEF MsgPlace
  <2> QED
    BY <1>8, <2>2 DEF RecordMessage, Outcome, RowStatus, SmsTypeOK
<1>9. ASSUME NEW m \in Message, RecordFails(m) PROVE SmsTypeOK'
  <2>1. \E place \in {"failed", "aborted"} : At(m, place)
    BY <1>9 DEF RecordFails
  <2>2. msg' \in [Message -> [at : MsgPlace, to : Business]]
    BY <2>1, AtType DEF MsgPlace
  <2> QED
    BY <1>9, <2>2 DEF RecordFails, SmsTypeOK
<1>10. ASSUME NEW m \in Message, AbortDispatch(m) PROVE SmsTypeOK'
  <2>1. \E place \in {"aborted"} : At(m, place)
    BY <1>10 DEF AbortDispatch
  <2>2. msg' \in [Message -> [at : MsgPlace, to : Business]]
    BY <2>1, AtType DEF MsgPlace
  <2> QED
    BY <1>10, <2>2 DEF AbortDispatch, SmsTypeOK
<1>11. ASSUME NEW m \in Message, NEW s \in {"sent", "delivered"}, StatusCallback(m, s)
       PROVE  SmsTypeOK'
  BY <1>11 DEF StatusCallback, SmsTypeOK, RowStatus
<1>12. ASSUME NEW i \in Inbound, ReceiveStop(i) PROVE SmsTypeOK'
  <2>1. stop' \in [Inbound -> StopHandler]
    BY <1>0, <1>12, HandlerType DEF ReceiveStop, StopPlace
  <2> QED
    BY <1>12, <2>1 DEF ReceiveStop, SmsTypeOK, StopHandler
<1>13. ASSUME NEW i \in Inbound, MatchSender(i) PROVE SmsTypeOK'
  <2>1. stop' \in [Inbound -> StopHandler]
    <3>1. CASE stop' = [stop EXCEPT ![i].at = "dropped"]
      BY <1>0, <3>1, HandlerType DEF StopPlace
    <3>2. ASSUME NEW b \in Business,
                 stop' = [stop EXCEPT ![i].matched = b, ![i].at = "matched"]
          PROVE  stop' \in [Inbound -> StopHandler]
      BY <1>0, <3>2, HandlerType DEF StopPlace
    <3> QED
      BY <1>13, <3>1, <3>2 DEF MatchSender
  <2> QED
    BY <1>13, <2>1 DEF MatchSender, SmsTypeOK, StopHandler
<1>14. ASSUME NEW i \in Inbound, UpsertDnc(i) PROVE SmsTypeOK'
  <2>1. stop' \in [Inbound -> StopHandler]
    BY <1>0, <1>14, HandlerType DEF UpsertDnc, StopPlace
  <2>2. dnc' \in SUBSET (Tenant \X Phone)
    BY <1>14 DEF UpsertDnc, SmsTypeOK
  <2> QED
    BY <1>14, <2>1, <2>2 DEF UpsertDnc, SmsTypeOK, StopHandler
<1>15. ASSUME NEW i \in Inbound, ReadConsents(i) PROVE SmsTypeOK'
  <2>1. stop' \in [Inbound -> StopHandler]
    <3>1. active[stop[i].matched] \in SUBSET Record
      BY DEF SmsTypeOK
    <3>2. PICK p \in StopPlace :
            stop' = [stop EXCEPT ![i].read = active[stop[i].matched], ![i].at = p]
      BY <1>15 DEF ReadConsents, StopPlace
    <3> QED
      BY <1>0, <3>1, <3>2, HandlerType
  <2> QED
    BY <1>15, <2>1 DEF ReadConsents, SmsTypeOK, StopHandler
<1>16. ASSUME NEW i \in Inbound, RevokeRead(i) PROVE SmsTypeOK'
  <2>1. stop' \in [Inbound -> StopHandler]
    BY <1>0, <1>16, HandlerType DEF RevokeRead, StopPlace
  <2>2. active' \in [Business -> SUBSET Record]
    BY <1>16 DEF RevokeRead, SmsTypeOK
  <2> QED
    BY <1>16, <2>1, <2>2 DEF RevokeRead, SmsTypeOK, StopHandler
<1>17. ASSUME NEW i \in Inbound, FailInbound(i) PROVE SmsTypeOK'
  <2>1. stop' \in [Inbound -> StopHandler]
    BY <1>0, <1>17, HandlerType DEF FailInbound, StopPlace
  <2> QED
    BY <1>17, <2>1 DEF FailInbound, SmsTypeOK, StopHandler
<1>18. ASSUME NEW i \in Inbound, CrashInbound(i) PROVE SmsTypeOK'
  <2>1. stop' \in [Inbound -> StopHandler]
    BY <1>0, <1>18, HandlerType DEF CrashInbound, StopPlace
  <2>2. crashes' \in 0..MaxCrashes
    BY <1>18 DEF CrashInbound, SmsTypeOK
  <2> QED
    BY <1>18, <2>1, <2>2 DEF CrashInbound, SmsTypeOK, StopHandler
<1>19. CASE UNCHANGED smsVars
  BY <1>19 DEF smsVars, SmsTypeOK
<1> QED
  BY <1>1, <1>2, <1>3, <1>4, <1>5, <1>6, <1>7, <1>8, <1>9, <1>10, <1>11, <1>12,
     <1>13, <1>14, <1>15, <1>16, <1>17, <1>18, <1>19 DEF SmsNext, HandleStop

\* Every state of the outreach is of the declared type.
THEOREM SmsTypeCorrect == SmsSpec => []SmsTypeOK
<1> QED
  BY SmsInitType, SmsNextType, PTL DEF SmsSpec

----------------------------------------------------------------------------
(* One action at a time: the dispatch and the rows.                        *)

DispatchSound == PlacesSound /\ RowsTruthful

\* A dispatch, a callback and the other parts of the outreach keep what the
\* places and the rows say of the provider.
LEMMA DispatchKept ==
  ASSUME SmsTypeOK, DispatchSound, [SmsNext]_smsVars
  PROVE  DispatchSound'
<1> USE DEF DispatchSound, PlacesSound, RowsTruthful, SmsTypeOK, consentVars, sendVars
<1>1. CASE UNCHANGED sendVars
  BY <1>1
<1>2. ASSUME NEW m \in Message, ReadDncList(m) PROVE DispatchSound'
  BY <1>2 DEF ReadDncList, At
<1>3. ASSUME NEW m \in Message, CheckGate(m) PROVE DispatchSound'
  <2>1. PICK place \in {"cleared", "blocked"} : At(m, place)
    BY <1>3 DEF CheckGate
  <2>2. msg[m].at = "listed" /\ UNCHANGED <<row, out>>
    BY <1>3 DEF CheckGate
  <2>3. msg'[m].at \in {"cleared", "blocked"} /\ \A n \in Message \ {m} : msg'[n] = msg[n]
    BY <2>1, AtPlaces
  <2>4. msg[m].at # "sent" /\ ~out[m] /\ row[m] = "none"
    BY <2>2
  <2> QED
    BY <2>2, <2>3, <2>4
<1>4. ASSUME NEW m \in Message, RecheckGate(m) PROVE DispatchSound'
  <2>1. PICK place \in {"sending", "failed"} : At(m, place)
    BY <1>4 DEF RecheckGate
  <2>2. msg[m].at = "cleared" /\ UNCHANGED <<row, out>>
    BY <1>4 DEF RecheckGate
  <2>3. msg'[m].at \in {"sending", "failed"} /\ \A n \in Message \ {m} : msg'[n] = msg[n]
    BY <2>1, AtPlaces
  <2>4. msg[m].at # "sent" /\ ~out[m] /\ row[m] = "none"
    BY <2>2
  <2> QED
    BY <2>2, <2>3, <2>4
<1>5. ASSUME NEW m \in Message, Send(m) PROVE DispatchSound'
  BY <1>5 DEF Send, At
<1>6. ASSUME NEW m \in Message, RecordMessage(m) PROVE DispatchSound'
  BY <1>6 DEF RecordMessage, Outcome, At
<1>7. ASSUME NEW m \in Message, RecordFails(m) PROVE DispatchSound'
  BY <1>7 DEF RecordFails, At
<1>8. ASSUME NEW m \in Message, AbortDispatch(m) PROVE DispatchSound'
  BY <1>8 DEF AbortDispatch, At
<1>9. ASSUME NEW m \in Message, NEW s \in {"sent", "delivered"}, StatusCallback(m, s)
      PROVE  DispatchSound'
  BY <1>9 DEF StatusCallback
<1> QED
  BY <1>1, <1>2, <1>3, <1>4, <1>5, <1>6, <1>7, <1>8, <1>9
     DEF SmsNext, HandleStop, smsVars, Grant, BeginRevoke, CommitRevoke, ReceiveStop,
         MatchSender, UpsertDnc, ReadConsents, RevokeRead, FailInbound, CrashInbound

----------------------------------------------------------------------------
(* One action at a time: the consent records.                              *)

RevocationSound == ReadsSound /\ StopRevokesWhatItRead

\* Matching a sender moves one handler and leaves what it has read.
LEMMA MatchSenderFrame ==
  ASSUME SmsTypeOK, NEW i \in Inbound, MatchSender(i)
  PROVE  /\ stop'[i].at \in {"dropped", "matched"} /\ stop'[i].read = stop[i].read
         /\ \A j \in Inbound \ {i} : stop'[j] = stop[j]
<1>1. stop \in [Inbound -> StopHandler]
  BY DEF SmsTypeOK, StopHandler
<1>2. CASE stop' = [stop EXCEPT ![i].at = "dropped"]
  BY <1>1, <1>2 DEF StopHandler
<1>3. ASSUME NEW b \in Business,
             stop' = [stop EXCEPT ![i].matched = b, ![i].at = "matched"]
      PROVE  /\ stop'[i].at = "matched" /\ stop'[i].read = stop[i].read
             /\ \A j \in Inbound \ {i} : stop'[j] = stop[j]
  BY <1>1, <1>3 DEF StopHandler
<1> QED
  BY <1>2, <1>3 DEF MatchSender

\* A grant issues a number nobody has read, and no step makes a revoked record
\* active again.
LEMMA RevocationKept ==
  ASSUME SmsTypeOK, RevocationSound, [SmsNext]_smsVars
  PROVE  RevocationSound'
<1> USE DEF RevocationSound, ReadsSound, StopRevokesWhatItRead, SmsTypeOK,
            consentVars, sendVars
<1>1. CASE UNCHANGED <<consentVars, stop>>
  BY <1>1
<1>2. ASSUME NEW b \in Business, Grant(b) PROVE RevocationSound'
  BY <1>2 DEF Grant
<1>3. ASSUME NEW v \in Revoker, CommitRevoke(v) PROVE RevocationSound'
  BY <1>3 DEF CommitRevoke
<1>4. ASSUME NEW i \in Inbound, ReceiveStop(i) PROVE RevocationSound'
  BY <1>4 DEF ReceiveStop
<1>5. ASSUME NEW i \in Inbound, MatchSender(i) PROVE RevocationSound'
  <2>1. stop[i].at = "received" /\ UNCHANGED consentVars
    BY <1>5 DEF MatchSender
  <2>2. /\ stop'[i].at \in {"dropped", "matched"} /\ stop'[i].read = stop[i].read
        /\ \A j \in Inbound \ {i} : stop'[j] = stop[j]
    BY <1>5, MatchSenderFrame
  <2> QED
    BY <2>1, <2>2
<1>6. ASSUME NEW i \in Inbound, UpsertDnc(i) PROVE RevocationSound'
  BY <1>6 DEF UpsertDnc
<1>7. ASSUME NEW i \in Inbound, ReadConsents(i) PROVE RevocationSound'
  BY <1>7 DEF ReadConsents
<1>8. ASSUME NEW i \in Inbound, RevokeRead(i) PROVE RevocationSound'
  BY <1>8 DEF RevokeRead
<1>9. ASSUME NEW i \in Inbound, FailInbound(i) PROVE RevocationSound'
  BY <1>9 DEF FailInbound
<1>10. ASSUME NEW i \in Inbound, CrashInbound(i) PROVE RevocationSound'
  BY <1>10 DEF CrashInbound
<1> QED
  BY <1>1, <1>2, <1>3, <1>4, <1>5, <1>6, <1>7, <1>8, <1>9, <1>10
     DEF SmsNext, HandleStop, smsVars, BeginRevoke, ReadDncList, CheckGate, RecheckGate,
         Send, RecordMessage, RecordFails, AbortDispatch, StatusCallback

----------------------------------------------------------------------------
(* The invariants of the outreach.                                         *)

\* The inductive invariant of the outreach.
THEOREM SmsInductiveInvariant == SmsSpec => []SmsIInv
<1>1. SmsInit => SmsIInv
  BY SmsInitType DEF SmsInit, SmsIInv, PlacesSound, ReadsSound, RowsTruthful,
     StopRevokesWhatItRead
<1>2. SmsIInv /\ [SmsNext]_smsVars => SmsIInv'
  BY SmsNextType, DispatchKept, RevocationKept
     DEF SmsIInv, DispatchSound, RevocationSound
<1> QED
  BY <1>1, <1>2, PTL DEF SmsSpec

\* A row never claims more than the provider did, whatever is lost, crashes or
\* arrives out of order.
THEOREM RowsNeverLie == SmsSpec => []RowsTruthful
<1>1. SmsIInv => RowsTruthful
  BY DEF SmsIInv
<1> QED
  BY <1>1, SmsInductiveInvariant, PTL

\* A STOP that is done leaves no record it read active, whatever revocations and
\* grants run beside it.
THEOREM StopRevokes == SmsSpec => []StopRevokesWhatItRead
<1>1. SmsIInv => StopRevokesWhatItRead
  BY DEF SmsIInv
<1> QED
  BY <1>1, SmsInductiveInvariant, PTL

----------------------------------------------------------------------------
(* The history.                                                            *)

\* The history only watches: without it, a behaviour is one of the outreach.
THEOREM HistoryOnlyWatches == HistorySpec => SmsSpec
<1>1. HistoryInit => SmsInit
  BY DEF HistoryInit
<1>2. [HistoryNext]_historyVars => [SmsNext]_smsVars
  BY DEF HistoryNext, historyVars, smsVars
<1> QED
  BY <1>1, <1>2, PTL DEF HistorySpec, SmsSpec

\* A STOP past the upsert is on the do-not-call list of its tenant.
StopsListed ==
  \A i \in Inbound :
    stop[i].at \in {"listed", "revoking", "done"} =>
      <<TenantOf[stop[i].matched], stop[i].from>> \in dnc

\* Nothing leaves the do-not-call list, and a handled STOP stays as it is.
StopsKept ==
  /\ dnc \subseteq dnc'
  /\ \A i \in Inbound : stop[i].at = "done" => stop'[i] = stop[i]

\* Every step of the outreach keeps the handled STOPs and the list they are on.
LEMMA StopsStep ==
  ASSUME SmsTypeOK, StopsListed, [SmsNext]_smsVars
  PROVE  StopsListed' /\ StopsKept
<1> USE DEF StopsListed, StopsKept, SmsTypeOK, consentVars, sendVars
<1>1. CASE UNCHANGED <<dnc, stop>>
  BY <1>1
<1>2. ASSUME NEW i \in Inbound, ReceiveStop(i) PROVE StopsListed' /\ StopsKept
  BY <1>2 DEF ReceiveStop
<1>3. ASSUME NEW i \in Inbound, MatchSender(i) PROVE StopsListed' /\ StopsKept
  <2>1. stop[i].at = "received" /\ UNCHANGED dnc
    BY <1>3 DEF MatchSender
  <2> QED
    BY <1>3, <2>1, MatchSenderFrame
<1>4. ASSUME NEW i \in Inbound, UpsertDnc(i) PROVE StopsListed' /\ StopsKept
  BY <1>4 DEF UpsertDnc
<1>5. ASSUME NEW i \in Inbound, ReadConsents(i) PROVE StopsListed' /\ StopsKept
  <2>1. stop[i].at = "listed" /\ UNCHANGED dnc
    BY <1>5 DEF ReadConsents
  <2>2. stop'[i].from = stop[i].from /\ stop'[i].matched = stop[i].matched
    BY <1>5 DEF ReadConsents
  <2>3. \A k \in Inbound \ {i} : stop'[k] = stop[k]
    BY <1>5 DEF ReadConsents
  <2> QED
    BY <2>1, <2>2, <2>3
<1>6. ASSUME NEW i \in Inbound, RevokeRead(i) PROVE StopsListed' /\ StopsKept
  BY <1>6 DEF RevokeRead
<1>7. ASSUME NEW i \in Inbound, FailInbound(i) PROVE StopsListed' /\ StopsKept
  BY <1>7 DEF FailInbound
<1>8. ASSUME NEW i \in Inbound, CrashInbound(i) PROVE StopsListed' /\ StopsKept
  BY <1>8 DEF CrashInbound
<1> QED
  BY <1>1, <1>2, <1>3, <1>4, <1>5, <1>6, <1>7, <1>8
     DEF SmsNext, HandleStop, smsVars, Grant, BeginRevoke, CommitRevoke, ReadDncList,
         CheckGate, RecheckGate, Send, RecordMessage, RecordFails, AbortDispatch,
         StatusCallback

\* Where a step may take the dispatch of m, what it has read to get there, and
\* that only the send touches the provider.
Moved(m) ==
  /\ msg'[m].to = msg[m].to
  /\ out'[m] # out[m] => msg[m].at = "sending" /\ msg'[m].at \in {"sent", "failed"}
  /\ msg'[m].at # msg[m].at =>
       \/ msg[m].at = "new" /\ msg'[m].at = "blocked"
       \/ msg[m].at = "new" /\ msg'[m].at = "listed" /\ ~Listed(msg[m].to)
       \/ msg[m].at = "listed" /\ msg'[m].at = "blocked"
       \/ msg[m].at = "listed" /\ msg'[m].at = "cleared" /\ active'[msg[m].to] # {}
       \/ msg[m].at = "cleared" /\ msg'[m].at \in {"sending", "failed"}
       \/ msg[m].at = "sending" /\ msg'[m].at \in {"sent", "failed"}
       \/ msg[m].at \in {"blocked", "sent", "failed"} /\ msg'[m].at = "done"
       \/ msg[m].at = "sent" /\ msg'[m].at = "failed"
       \/ msg[m].at # "done" /\ msg'[m].at = "aborted"

\* Every step of the outreach moves every dispatch as Moved allows.
LEMMA DispatchMoves ==
  ASSUME SmsTypeOK, [SmsNext]_smsVars, NEW m \in Message
  PROVE  Moved(m)
<1> USE DEF Moved, consentVars, sendVars
<1>1. CASE UNCHANGED <<msg, out>>
  BY <1>1
<1>2. ASSUME NEW n \in Message, ReadDncList(n) PROVE Moved(m)
  BY <1>2, AtPlaces DEF ReadDncList
<1>3. ASSUME NEW n \in Message, CheckGate(n) PROVE Moved(m)
  BY <1>3, AtPlaces DEF CheckGate, HasActiveConsent
<1>4. ASSUME NEW n \in Message, RecheckGate(n) PROVE Moved(m)
  BY <1>4, AtPlaces DEF RecheckGate
<1>5. ASSUME NEW n \in Message, Send(n) PROVE Moved(m)
  <2>1. PICK place \in {"sent", "failed"} : At(n, place)
    BY <1>5 DEF Send
  <2>2. msg[n].at = "sending" /\ \A k \in Message \ {n} : out'[k] = out[k]
    BY <1>5 DEF Send, SmsTypeOK
  <2> QED
    BY <2>1, <2>2, AtPlaces
<1>6. ASSUME NEW n \in Message, RecordMessage(n) PROVE Moved(m)
  BY <1>6, AtPlaces DEF RecordMessage
<1>7. ASSUME NEW n \in Message, RecordFails(n) PROVE Moved(m)
  BY <1>7, AtPlaces DEF RecordFails
<1>8. ASSUME NEW n \in Message, AbortDispatch(n) PROVE Moved(m)
  BY <1>8, AtPlaces DEF AbortDispatch
<1> QED
  BY <1>1, <1>2, <1>3, <1>4, <1>5, <1>6, <1>7, <1>8
     DEF SmsNext, HandleStop, smsVars, Grant, BeginRevoke, CommitRevoke, ReceiveStop,
         MatchSender, UpsertDnc, ReadConsents, RevokeRead, FailInbound, CrashInbound,
         StatusCallback

\* What the history says of each dispatch: one that is covered by a handled STOP
\* is stopped where it began, and one past the gate has seen a consent.
HistorySound ==
  /\ stoppedBefore \in [Message -> SUBSET Inbound]
  /\ consented \in [Message -> BOOLEAN]
  /\ \A m \in Message :
       /\ msg[m].at = "new" => stoppedBefore[m] = {}
       /\ \A i \in stoppedBefore[m] : stop[i].at = "done"
       /\ \A i \in stoppedBefore[m] :
            PhoneOf[msg[m].to] = stop[i].from
              /\ TenantOf[msg[m].to] = TenantOf[stop[i].matched]
            => msg[m].at \in {"blocked", "done", "aborted"} /\ ~out[m]
       /\ msg[m].at \in {"cleared", "sending"} => consented[m]
       /\ out[m] => consented[m]

HistoryIInv == SmsIInv /\ StopsListed /\ HistorySound

\* The STOPs recorded for a dispatch stay handled, and cover only a dispatch that
\* its first read refused.
LEMMA StoppedKept ==
  ASSUME HistoryIInv, HistoryNext, NEW m \in Message, NEW i \in stoppedBefore'[m]
  PROVE  /\ i \in Inbound /\ stop'[i].at = "done"
         /\ PhoneOf[msg'[m].to] = stop'[i].from
              /\ TenantOf[msg'[m].to] = TenantOf[stop'[i].matched]
            => msg'[m].at \in {"blocked", "done", "aborted"} /\ ~out'[m]
<1>1. StopsKept /\ Moved(m)
  BY StopsStep, DispatchMoves DEF HistoryIInv, SmsIInv, HistoryNext
<1>2. CASE msg[m].at = "new" /\ msg'[m].at # "new"
  <2>1. i \in Inbound /\ stop[i].at = "done" /\ stop'[i] = stop[i]
    BY <1>1, <1>2 DEF HistoryNext, StopsKept
  <2>2. ~out[m]
    BY <1>2 DEF HistoryIInv, SmsIInv, PlacesSound
  <2>3. PhoneOf[msg[m].to] = stop[i].from
          /\ TenantOf[msg[m].to] = TenantOf[stop[i].matched] => Listed(msg[m].to)
    BY <2>1 DEF HistoryIInv, StopsListed, Listed
  <2>4. msg'[m].to = msg[m].to /\ out'[m] = out[m]
    BY <1>1, <1>2 DEF Moved
  <2>5. Listed(msg[m].to) => msg'[m].at \in {"blocked", "aborted"}
    BY <1>1, <1>2 DEF Moved
  <2> QED
    BY <2>1, <2>2, <2>3, <2>4, <2>5
<1>3. CASE ~(msg[m].at = "new" /\ msg'[m].at # "new")
  <2>1. i \in stoppedBefore[m]
    BY <1>3 DEF HistoryNext
  <2>2. i \in Inbound /\ stop[i].at = "done" /\ stop'[i] = stop[i]
    BY <1>1, <2>1 DEF HistoryIInv, HistorySound, StopsKept
  <2>3. msg'[m].to = msg[m].to
    BY <1>1 DEF Moved
  <2>4. msg[m].at \in {"blocked", "done", "aborted"} =>
          msg'[m].at \in {"blocked", "done", "aborted"} /\ out'[m] = out[m]
    BY <1>1 DEF Moved
  <2>5. PhoneOf[msg[m].to] = stop[i].from
          /\ TenantOf[msg[m].to] = TenantOf[stop[i].matched]
        => msg[m].at \in {"blocked", "done", "aborted"} /\ ~out[m]
    BY <2>1 DEF HistoryIInv, HistorySound
  <2> QED
    BY <2>2, <2>3, <2>4, <2>5
<1> QED
  BY <1>2, <1>3

\* A dispatch passes the gate, and sends, only after it has seen a consent.
LEMMA ConsentedKept ==
  ASSUME HistoryIInv, HistoryNext, NEW m \in Message
  PROVE  /\ msg'[m].at \in {"cleared", "sending"} => consented'[m]
         /\ out'[m] => consented'[m]
<1>1. Moved(m)
  BY DispatchMoves DEF HistoryIInv, SmsIInv, HistoryNext
<1>2. consented[m] => consented'[m]
  BY DEF HistoryNext
<1>3. msg'[m].at # "new" /\ active'[msg[m].to] # {} => consented'[m]
  BY DEF HistoryNext
<1>4. /\ msg[m].at \in {"cleared", "sending"} => consented[m]
      /\ out[m] => consented[m]
  BY DEF HistoryIInv, HistorySound
<1> QED
  BY <1>1, <1>2, <1>3, <1>4 DEF Moved

\* The inductive invariant of the outreach with its history.
THEOREM HistoryInductiveInvariant == HistorySpec => []HistoryIInv
<1>1. HistoryInit => HistoryIInv
  <2> SUFFICES ASSUME HistoryInit PROVE HistoryIInv
    OBVIOUS
  <2>1. SmsIInv
    BY SmsInitType DEF HistoryInit, SmsInit, SmsIInv, PlacesSound, ReadsSound,
       RowsTruthful, StopRevokesWhatItRead
  <2>2. StopsListed /\ HistorySound
    BY DEF HistoryInit, SmsInit, StopsListed, HistorySound
  <2> QED
    BY <2>1, <2>2 DEF HistoryIInv
<1>2. HistoryIInv /\ [HistoryNext]_historyVars => HistoryIInv'
  <2> SUFFICES ASSUME HistoryIInv, [HistoryNext]_historyVars PROVE HistoryIInv'
    OBVIOUS
  <2>1. [SmsNext]_smsVars
    BY DEF HistoryNext, historyVars
  <2>2. SmsIInv' /\ StopsListed'
    BY <2>1, SmsNextType, DispatchKept, RevocationKept, StopsStep
       DEF HistoryIInv, SmsIInv, DispatchSound, RevocationSound
  <2>3. CASE HistoryNext
    <3>1. stoppedBefore' \in [Message -> SUBSET Inbound]
      BY <2>3 DEF HistoryNext, HistoryIInv, HistorySound
    <3>2. consented' \in [Message -> BOOLEAN]
      BY <2>3 DEF HistoryNext, HistoryIInv, HistorySound
    <3>3. \A m \in Message : msg'[m].at = "new" => stoppedBefore'[m] = {}
      <4> SUFFICES ASSUME NEW m \in Message, msg'[m].at = "new"
                   PROVE  stoppedBefore'[m] = {}
        OBVIOUS
      <4>1. msg[m].at = "new"
        BY <2>1, DispatchMoves DEF HistoryIInv, SmsIInv, Moved
      <4> QED
        BY <2>3, <4>1 DEF HistoryNext, HistoryIInv, HistorySound
    <3> QED
      BY <2>2, <2>3, <3>1, <3>2, <3>3, StoppedKept, ConsentedKept
         DEF HistoryIInv, HistorySound
  <2>4. CASE UNCHANGED historyVars
    BY <2>2, <2>4 DEF historyVars, smsVars, sendVars, consentVars, HistoryIInv, HistorySound
  <2> QED
    BY <2>3, <2>4
<1> QED
  BY <1>1, <1>2, PTL DEF HistorySpec

\* Once a STOP is handled, no dispatch of its tenant that begins later reaches
\* the number, whatever is granted again.
THEOREM StopSilencesTenant == HistorySpec => []NoTextAfterStop
<1>1. HistoryIInv => NoTextAfterStop
  BY DEF HistoryIInv, HistorySound, NoTextAfterStop
<1> QED
  BY <1>1, HistoryInductiveInvariant, PTL

\* Each message that went out had a consent after its dispatch began.
THEOREM TextsAreConsented == HistorySpec => []TextConsented
<1>1. HistoryIInv => TextConsented
  BY DEF HistoryIInv, HistorySound, TextConsented
<1> QED
  BY <1>1, HistoryInductiveInvariant, PTL

\* A STOP past its match is matched to a business with the number it came from.
SendersMatched ==
  \A i \in Inbound :
    stop[i].at \in {"matched", "listed", "revoking", "done"} =>
      stop[i].matched \in Business /\ PhoneOf[stop[i].matched] = stop[i].from

LEMMA SendersStep ==
  ASSUME SmsTypeOK, SendersMatched, [SmsNext]_smsVars
  PROVE  SendersMatched'
<1> USE DEF SendersMatched, SmsTypeOK
<1>1. CASE UNCHANGED stop
  BY <1>1
<1>2. ASSUME NEW i \in Inbound,
             \/ ReceiveStop(i) \/ UpsertDnc(i) \/ RevokeRead(i) \/ FailInbound(i)
             \/ CrashInbound(i)
      PROVE  SendersMatched'
  <2>1. stop'[i].from = stop[i].from /\ stop'[i].matched = stop[i].matched
    BY <1>2 DEF ReceiveStop, UpsertDnc, RevokeRead, FailInbound, CrashInbound
  <2>2. \/ stop'[i].at \in {"received", "dropped"}
        \/ stop[i].at \in {"matched", "revoking"}
    BY <1>2 DEF ReceiveStop, UpsertDnc, RevokeRead, FailInbound, CrashInbound
  <2>3. \A k \in Inbound \ {i} : stop'[k] = stop[k]
    BY <1>2 DEF ReceiveStop, UpsertDnc, RevokeRead, FailInbound, CrashInbound
  <2> QED
    BY <2>1, <2>2, <2>3
<1>3. ASSUME NEW i \in Inbound, ReadConsents(i)
      PROVE  SendersMatched'
  <2>1. /\ stop[i].at = "listed"
        /\ stop'[i].from = stop[i].from /\ stop'[i].matched = stop[i].matched
        /\ \A k \in Inbound \ {i} : stop'[k] = stop[k]
    BY <1>3 DEF ReadConsents
  <2> QED
    BY <2>1
<1>4. ASSUME NEW i \in Inbound, MatchSender(i)
      PROVE  SendersMatched'
  <2>1. CASE \E b \in Business :
               /\ PhoneOf[b] = stop[i].from
               /\ stop' = [stop EXCEPT ![i].matched = b, ![i].at = "matched"]
    <3>1. PICK b \in Business : /\ PhoneOf[b] = stop[i].from
                               /\ stop' = [stop EXCEPT ![i].matched = b, ![i].at = "matched"]
      BY <2>1
    <3>2. /\ stop'[i].matched = b /\ stop'[i].from = stop[i].from
          /\ \A k \in Inbound \ {i} : stop'[k] = stop[k]
      BY <3>1
    <3> QED
      BY <3>1, <3>2
  <2>2. CASE stop' = [stop EXCEPT ![i].at = "dropped"]
    <3>1. /\ stop'[i].at = "dropped"
          /\ \A k \in Inbound \ {i} : stop'[k] = stop[k]
      BY <2>2
    <3> QED
      BY <3>1
  <2> QED
    BY <1>4, <2>1, <2>2 DEF MatchSender
<1> QED
  BY <1>1, <1>2, <1>3, <1>4
     DEF SmsNext, HandleStop, smsVars, sendVars, Grant, BeginRevoke, CommitRevoke, ReadDncList,
         CheckGate, RecheckGate, Send, RecordMessage, RecordFails, AbortDispatch, StatusCallback

\* Businesses with the same number belong to one tenant.
NumbersOfOneTenant ==
  \A b, c \in Business : PhoneOf[b] = PhoneOf[c] => TenantOf[b] = TenantOf[c]

\* Where no two tenants have a number in common, a STOP once handled is honoured by
\* every dispatch that begins later: that the sender is matched to one tenant is all that
\* breaks the header of the inbound webhook.
THEOREM StopHonouredUnlessShared ==
  ASSUME NumbersOfOneTenant
  PROVE  HistorySpec => []StopHonouredEverywhere
<1>1. HistoryInit => SendersMatched
  BY DEF HistoryInit, SmsInit, SendersMatched
<1>2. HistoryIInv /\ SendersMatched /\ [HistoryNext]_historyVars => SendersMatched'
  BY SendersStep DEF HistoryIInv, SmsIInv, HistoryNext, historyVars
<1>3. HistoryIInv /\ SendersMatched => StopHonouredEverywhere
  <2> SUFFICES ASSUME HistoryIInv, SendersMatched, NEW m \in Message, NEW i \in stoppedBefore[m],
                      PhoneOf[msg[m].to] = stop[i].from
               PROVE  ~out[m]
    BY DEF StopHonouredEverywhere
  <2>1. i \in Inbound /\ stop[i].at = "done"
    BY DEF HistoryIInv, HistorySound
  <2>2. TenantOf[msg[m].to] = TenantOf[stop[i].matched]
    <3>1. msg[m].to \in Business
      BY DEF HistoryIInv, SmsIInv, SmsTypeOK
    <3> QED
      BY <2>1, <3>1 DEF SendersMatched, NumbersOfOneTenant
  <2> QED
    BY <2>2 DEF HistoryIInv, HistorySound
<1> QED
  BY <1>1, <1>2, <1>3, HistoryInductiveInvariant, PTL DEF HistorySpec

============================================================================
