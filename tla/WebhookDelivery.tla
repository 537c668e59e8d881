-------------------------- MODULE WebhookDelivery --------------------------
(***************************************************************************)
(* Outbound webhooks: webhook-delivery.service, which posts an event to    *)
(* each active subscription and records the attempts, and the webhook-retry *)
(* job, whose serial worker posts again what is due.  All of it lives in   *)
(* the memory of one process, so a restart forgets it.                     *)
(*                                                                         *)
(* A post ends in one of three ways: accepted (2xx), refused or timed out  *)
(* with the receiver none the wiser, or refused or timed out after the     *)
(* receiver took it, its answer being lost or late.                        *)
(***************************************************************************)
EXTENDS Naturals

CONSTANTS
  Event,               \* the events dispatched
  Sub,                 \* the subscriptions
  MAX_RETRY_ATTEMPTS,  \* RETRY_DELAYS_MS.length
  None

ASSUME AttemptsAssumption == MAX_RETRY_ATTEMPTS \in Nat \ {0}

VARIABLES
  subscription, \* per subscription: "none", "active" or "deleted"
  delivery,     \* per event and subscription: None or its record
  posting,      \* per event and subscription: None or the post under way
  due,          \* the worker's list, taken when its scan began
  scanning,     \* whether the worker is in a scan
  received      \* history: how many posts of the delivery the receiver took

webhookVars == <<subscription, delivery, posting, due, scanning, received>>

Delivery == Event \X Sub

DeliveryRecord == [status : {"delivered", "retrying", "dead_letter"},
           attempts : Nat, isDue : BOOLEAN]
Post == [number : Nat, taken : BOOLEAN]

ASSUME NoneAssumption == None \notin DeliveryRecord \cup Post

Settled(d) == delivery[d] # None /\ delivery[d].status # "retrying"

ActiveSub(d) == subscription[d[2]] = "active"

WebhookTypeOK ==
  /\ subscription \in [Sub -> {"none", "active", "deleted"}]
  /\ delivery \in [Delivery -> DeliveryRecord \cup {None}]
  /\ posting \in [Delivery -> Post \cup {None}]
  /\ due \subseteq Delivery
  /\ scanning \in BOOLEAN
  /\ received \in [Delivery -> Nat]

WebhookInit ==
  /\ subscription = [s \in Sub |-> "none"]
  /\ delivery = [d \in Delivery |-> None]
  /\ posting = [d \in Delivery |-> None]
  /\ due = {}
  /\ scanning = FALSE
  /\ received = [d \in Delivery |-> 0]

-----------------------------------------------------------------------------
CreateSubscription(s) ==
  /\ subscription[s] = "none"
  /\ subscription' = [subscription EXCEPT ![s] = "active"]
  /\ UNCHANGED <<delivery, posting, due, scanning, received>>

\* deleteSubscription marks it inactive; its deliveries stay as they are.
DeleteSubscription(s) ==
  /\ subscription[s] # "none"
  /\ subscription' = [subscription EXCEPT ![s] = "deleted"]
  /\ UNCHANGED <<delivery, posting, due, scanning, received>>

\* dispatchEvent posts to every active subscription at once.  The record appears
\* only with the answer.
DispatchEvent(e) ==
  /\ \A s \in Sub : delivery[<<e, s>>] = None /\ posting[<<e, s>>] = None
  /\ \E s \in Sub : subscription[s] = "active"
  /\ posting' = [d \in Delivery |->
       IF d[1] = e /\ ActiveSub(d) THEN [number |-> 1, taken |-> FALSE] ELSE posting[d]]
  /\ UNCHANGED <<subscription, delivery, due, scanning, received>>

\* sendTestDelivery posts one event to one active subscription.
SendTestDelivery(d) ==
  /\ delivery[d] = None /\ posting[d] = None
  /\ ActiveSub(d)
  /\ posting' = [posting EXCEPT ![d] = [number |-> 1, taken |-> FALSE]]
  /\ UNCHANGED <<subscription, delivery, due, scanning, received>>

\* The receiver takes the post under way.
Receive(d) ==
  /\ posting[d] # None
  /\ ~posting[d].taken
  /\ posting' = [posting EXCEPT ![d].taken = TRUE]
  /\ received' = [received EXCEPT ![d] = @ + 1]
  /\ UNCHANGED <<subscription, delivery, due, scanning>>

\* Mutant: one attempt more.
StatusAfterOneMore(succeeded, n) ==
  IF succeeded THEN "delivered"
  ELSE IF n > MAX_RETRY_ATTEMPTS THEN "dead_letter" ELSE "retrying"

\* What attemptDelivery records of attempt number n.
StatusAfter(succeeded, n) ==
  IF succeeded THEN "delivered"
  ELSE IF n >= MAX_RETRY_ATTEMPTS THEN "dead_letter" ELSE "retrying"

AttemptsSoFar(d) == IF delivery[d] = None THEN 0 ELSE delivery[d].attempts

\* The answer comes, or the ten seconds run out: the attempt is appended to the
\* record, which is created if there was none, with the next retry's time.
RecordAttempt(d, succeeded) ==
  /\ posting[d] # None
  /\ succeeded => posting[d].taken
  /\ delivery' = [delivery EXCEPT ![d] =
       [status |-> StatusAfter(succeeded, posting[d].number),
        attempts |-> AttemptsSoFar(d) + 1,
        isDue |-> FALSE]]
  /\ posting' = [posting EXCEPT ![d] = None]
  /\ UNCHANGED <<subscription, due, scanning, received>>

\* The retry's time comes.
FallDue(d) ==
  /\ delivery[d] # None
  /\ delivery[d].status = "retrying"
  /\ ~delivery[d].isDue
  /\ delivery' = [delivery EXCEPT ![d].isDue = TRUE]
  /\ UNCHANGED <<subscription, posting, due, scanning, received>>

\* Mutant: the last attempt is never due.
DueRetriesButLast ==
  {d \in Delivery : /\ delivery[d] # None
                    /\ delivery[d].status = "retrying"
                    /\ delivery[d].isDue
                    /\ delivery[d].attempts + 1 < MAX_RETRY_ATTEMPTS}

\* listDueRetries: the records that are retrying and whose time has come.
DueRetries ==
  {d \in Delivery : /\ delivery[d] # None
                    /\ delivery[d].status = "retrying"
                    /\ delivery[d].isDue}

\* Mutant: a scan begins while another is under way.
BeginScanOverlapping ==
  /\ DueRetries # {}
  /\ scanning' = TRUE
  /\ due' = DueRetries
  /\ UNCHANGED <<subscription, delivery, posting, received>>

\* runWebhookRetryScan, by the worker of concurrency one, takes its list (a scan
\* that finds nothing due does nothing)...
BeginScan ==
  /\ ~scanning
  /\ DueRetries # {}
  /\ scanning' = TRUE
  /\ due' = DueRetries
  /\ UNCHANGED <<subscription, delivery, posting, received>>

\* ... goes through it one delivery at a time, waiting for each answer...
Waiting == \E d \in Delivery : posting[d] # None /\ posting[d].number > 1

RetryDelivery(d) ==
  /\ scanning
  /\ ~Waiting
  /\ d \in due
  /\ ActiveSub(d)
  /\ posting' = [posting EXCEPT ![d] =
       [number |-> delivery[d].attempts + 1, taken |-> FALSE]]
  /\ due' = due \ {d}
  /\ UNCHANGED <<subscription, delivery, scanning, received>>

\* ... skipping those whose subscription has been deleted since...
SkipDelivery(d) ==
  /\ scanning
  /\ ~Waiting
  /\ d \in due
  /\ ~ActiveSub(d)
  /\ due' = due \ {d}
  /\ UNCHANGED <<subscription, delivery, posting, scanning, received>>

\* ... and ends.
EndScan ==
  /\ scanning
  /\ ~Waiting
  /\ due = {}
  /\ scanning' = FALSE
  /\ UNCHANGED <<subscription, delivery, posting, due, received>>

\* The process restarts with empty maps.  What is created afterwards has fresh
\* ids, so the names are free again.
Restart ==
  /\ subscription' = [s \in Sub |-> "none"]
  /\ delivery' = [d \in Delivery |-> None]
  /\ posting' = [d \in Delivery |-> None]
  /\ due' = {}
  /\ scanning' = FALSE
  /\ received' = [d \in Delivery |-> 0]

Retry == BeginScan \/ EndScan \/ \E d \in Delivery : RetryDelivery(d) \/ SkipDelivery(d)

WebhookNext ==
  \/ \E s \in Sub : CreateSubscription(s) \/ DeleteSubscription(s)
  \/ \E e \in Event : DispatchEvent(e)
  \/ \E d \in Delivery : SendTestDelivery(d) \/ Receive(d) \/ FallDue(d)
  \/ \E d \in Delivery, succeeded \in BOOLEAN : RecordAttempt(d, succeeded)
  \/ BeginScan
  \/ \E d \in Delivery : RetryDelivery(d) \/ SkipDelivery(d)
  \/ EndScan
  \/ Restart

\* A post is answered or times out, retries fall due, and the worker keeps
\* scanning (every minute) and going through its list.
WebhookFairness ==
  /\ \A d \in Delivery :
       /\ WF_webhookVars(\E succeeded \in BOOLEAN : RecordAttempt(d, succeeded))
       /\ WF_webhookVars(FallDue(d))
  /\ WF_webhookVars(Retry)

WebhookSpec == WebhookInit /\ [][WebhookNext]_webhookVars /\ WebhookFairness

-----------------------------------------------------------------------------
\* A receiver gets an event at most MAX_RETRY_ATTEMPTS times, whatever answers are
\* lost and however dispatch, retries and deletions interleave: every post it took
\* is accounted for by a recorded attempt or by the one under way.
DuplicatesBounded ==
  \A d \in Delivery : received[d] <= MAX_RETRY_ATTEMPTS

\* A delivery that was recorded as delivered or as dead is never posted again, nor
\* does its record change: the list the worker took before is no excuse.
SettledIsFinal ==
  [][\A d \in Delivery : Settled(d) => /\ delivery'[d] \in {delivery[d], None}
                                       /\ posting'[d] = None]_webhookVars

\* Every delivery that failed is in the end delivered or declared dead, unless its
\* subscription is deleted or the process forgets it.
EveryFailureSettles ==
  \A d \in Delivery :
    (delivery[d] # None /\ delivery[d].status = "retrying")
      ~> (Settled(d) \/ delivery[d] = None \/ ~ActiveSub(d))

=============================================================================
