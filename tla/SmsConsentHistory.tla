------------------------- MODULE SmsConsentHistory -------------------------
(***************************************************************************)
(* SmsOutreach with two history variables for each message: the STOPs that *)
(* had been handled when its dispatch began, and whether its business had  *)
(* an active consent at some moment since.                                 *)
(***************************************************************************)
EXTENDS SmsOutreach

VARIABLES
  stoppedBefore,    \* [Message -> STOPs handled to the end when it began]
  consented         \* [Message -> consent was active since it began]

historyVars == <<smsVars, stoppedBefore, consented>>

HistoryInit ==
  /\ SmsInit
  /\ stoppedBefore = [m \in Message |-> {}]
  /\ consented = [m \in Message |-> FALSE]

HistoryNext ==
  /\ SmsNext
  /\ stoppedBefore' = [m \in Message |->
       IF msg[m].at = "new" /\ msg'[m].at # "new"
       THEN {i \in Inbound : stop[i].at = "done"} ELSE stoppedBefore[m]]
  /\ consented' = [m \in Message |->
       consented[m] \/ (msg'[m].at # "new" /\ active'[msg[m].to] # {})]

HistorySpec == HistoryInit /\ [][HistoryNext]_historyVars /\
  \A i \in Inbound : WF_smsVars(HandleStop(i))

\* Once a STOP has been handled, no message whose dispatch begins later goes out
\* to that number from the tenant it was matched to, even if consent is granted
\* again (recordOptOut against dispatchSmsCampaign).
NoTextAfterStop ==
  \A m \in Message : \A i \in stoppedBefore[m] :
    /\ PhoneOf[msg[m].to] = stop[i].from
    /\ TenantOf[msg[m].to] = TenantOf[stop[i].matched]
    => ~out[m]

\* A message goes out only if consent was active at some moment after its
\* dispatch began: none is sent on a consent revoked before, and the two reads of
\* the gate are not satisfied by a revoked record.
TextConsented == \A m \in Message : out[m] => consented[m]

\* The header of the inbound webhook says that a recipient who replies STOP must
\* stop receiving messages: no dispatch that begins after the STOP was handled
\* sends to that number, whichever tenant it is for.
StopHonouredEverywhere ==
  \A m \in Message : \A i \in stoppedBefore[m] :
    PhoneOf[msg[m].to] = stop[i].from => ~out[m]

============================================================================
