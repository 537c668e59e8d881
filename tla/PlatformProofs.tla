---------------------------- MODULE PlatformProofs --------------------------
(***************************************************************************)
(* The safety properties of TenantAdmission and of WebhookDelivery, for    *)
(* any number of instances, calls in flight and users and any trust        *)
(* period; for any events, subscriptions and number of attempts; and both  *)
(* together as the platform composes them.                                 *)
(***************************************************************************)
EXTENDS Platform, TLAPS

-----------------------------------------------------------------------------
(* Tenant admission.  An entry is as old as the call that fetched it,      *)
(* which began no later than the row was read: Dated says so of the calls  *)
(* and of the entries, and an entry younger than the trust period is then  *)
(* a recent truth.                                                         *)

\* What a call has found, and what an entry says, was true of the row within its age.
Dated ==
  /\ last[isActive] = 0
  /\ \A r \in Req : check[r] # Idle /\ check[r].found # Unread
                      => last[check[r].found] <= check[r].age
  /\ \A p \in Proc : cache[p] # NoEntry => last[cache[p].active] <= cache[p].age

\* The instance that handled the latest change has nothing older on its way.
Settling ==
  /\ current \in Proc => changing = {}
  /\ \A r \in Req : check[r] # Idle /\ check[r].at = current /\ check[r].found # Unread
                      => check[r].found = isActive
  /\ ServingInstanceCurrent

AdmissionInv == AdmissionTypeOK /\ Dated /\ Settling

-----------------------------------------------------------------------------
\* Ages stay ages, and ageing keeps their order.
LEMMA AgesOrdered ==
  ASSUME NEW a \in Age, NEW b \in Age
  PROVE  /\ Older(a) \in Age
         /\ a <= b => Older(a) <= Older(b)
         /\ 0 <= Older(a)
BY TtlAssumption DEF Age, Older

LEMMA InitAdmission == AdmissionInit => AdmissionInv
<1> SUFFICES ASSUME AdmissionInit PROVE AdmissionInv
  OBVIOUS
<1>1. AdmissionTypeOK
  BY TtlAssumption DEF AdmissionInit, AdmissionTypeOK, Age
<1>2. Dated
  BY DEF AdmissionInit, Dated
<1>3. Settling
  BY NoEntryAssumption DEF AdmissionInit, Settling, ServingInstanceCurrent
<1> QED
  BY <1>1, <1>2, <1>3 DEF AdmissionInv

-----------------------------------------------------------------------------
(* One lemma per action.                                                   *)

LEMMA TickKeeps ==
  ASSUME AdmissionInv, Tick
  PROVE  AdmissionInv'
<1> USE DEF AdmissionInv
<1>1. ASSUME NEW r \in Req, check[r] # Idle
      PROVE  /\ check[r] \in Check
             /\ check'[r] = [check[r] EXCEPT !.age = Older(check[r].age)]
             /\ check'[r] \in Check
             /\ check'[r].age = Older(check[r].age)
             /\ check'[r].found = check[r].found
             /\ check'[r].at = check[r].at
  <2>1. check[r] \in Check
    BY <1>1 DEF AdmissionTypeOK
  <2>2. check'[r] = [check[r] EXCEPT !.age = Older(check[r].age)]
    BY <1>1 DEF Tick
  <2>3. Older(check[r].age) \in Age
    BY <2>1, AgesOrdered DEF Check
  <2> QED
    BY <2>1, <2>2, <2>3 DEF Check
<1>2. ASSUME NEW r \in Req, check[r] = Idle
      PROVE  check'[r] = Idle
  BY <1>2 DEF Tick
<1>3. ASSUME NEW p \in Proc, cache[p] # NoEntry
      PROVE  /\ cache[p] \in Entry
             /\ cache'[p] = [cache[p] EXCEPT !.age = Older(cache[p].age)]
             /\ cache'[p] \in Entry
             /\ cache'[p].age = Older(cache[p].age)
             /\ cache'[p].active = cache[p].active
  <2>1. cache[p] \in Entry
    BY <1>3 DEF AdmissionTypeOK
  <2>2. cache'[p] = [cache[p] EXCEPT !.age = Older(cache[p].age)]
    BY <1>3 DEF Tick
  <2>3. Older(cache[p].age) \in Age
    BY <2>1, AgesOrdered DEF Entry
  <2> QED
    BY <2>1, <2>2, <2>3 DEF Entry
<1>4. ASSUME NEW p \in Proc, cache[p] = NoEntry
      PROVE  cache'[p] = NoEntry
  BY <1>4 DEF Tick
<1>5. ASSUME NEW b \in BOOLEAN
      PROVE  /\ last[b] \in Age
             /\ last'[b] \in Age
             /\ last'[b] <= Older(last[b])
             /\ b = isActive => last'[b] = 0
  BY AgesOrdered, TtlAssumption DEF AdmissionTypeOK, Tick, Age, Older
<1>6. AdmissionTypeOK'
  <2>1. cache' \in [Proc -> Entry \cup {NoEntry}]
    BY <1>3, <1>4 DEF Tick
  <2>2. check' \in [Req -> Check \cup {Idle}]
    BY <1>1, <1>2 DEF Tick
  <2>3. last' \in [BOOLEAN -> Age]
    BY <1>5 DEF Tick
  <2> QED
    BY <2>1, <2>2, <2>3 DEF AdmissionTypeOK, Tick, tokens
<1>7. Dated'
  <2>1. last'[isActive'] = 0
    BY <1>5 DEF Tick, AdmissionTypeOK
  <2>2. ASSUME NEW r \in Req, check'[r] # Idle, check'[r].found # Unread
        PROVE  last'[check'[r].found] <= check'[r].age
    <3>1. check[r] # Idle
      BY <2>2, <1>2
    <3>2. check[r].found \in BOOLEAN /\ check[r].age \in Age
      BY <1>1, <2>2, <3>1 DEF Check
    <3>3. last[check[r].found] <= check[r].age
      BY <1>1, <2>2, <3>1 DEF Dated
    <3>4. Older(last[check[r].found]) <= Older(check[r].age)
      BY <1>5, <3>2, <3>3, AgesOrdered
    <3>5. last'[check[r].found] <= Older(last[check[r].found])
      BY <1>5, <3>2
    <3>6. {last'[check[r].found], Older(last[check[r].found]), Older(check[r].age)} \subseteq Nat
      BY <1>5, <3>2, AgesOrdered, TtlAssumption DEF Age
    <3>7. last'[check[r].found] <= Older(check[r].age)
      BY <3>4, <3>5, <3>6
    <3> QED
      BY <1>1, <3>1, <3>7
  <2>3. ASSUME NEW p \in Proc, cache'[p] # NoEntry
        PROVE  last'[cache'[p].active] <= cache'[p].age
    <3>1. cache[p] # NoEntry
      BY <2>3, <1>4
    <3>2. cache[p].active \in BOOLEAN /\ cache[p].age \in Age
      BY <1>3, <3>1 DEF Entry
    <3>3. last[cache[p].active] <= cache[p].age
      BY <3>1 DEF Dated
    <3>4. Older(last[cache[p].active]) <= Older(cache[p].age)
      BY <1>5, <3>2, <3>3, AgesOrdered
    <3>5. last'[cache[p].active] <= Older(last[cache[p].active])
      BY <1>5, <3>2
    <3>6. {last'[cache[p].active], Older(last[cache[p].active]), Older(cache[p].age)} \subseteq Nat
      BY <1>5, <3>2, AgesOrdered, TtlAssumption DEF Age
    <3>7. last'[cache[p].active] <= Older(cache[p].age)
      BY <3>4, <3>5, <3>6
    <3> QED
      BY <1>3, <3>1, <3>7
  <2> QED
    BY <2>1, <2>2, <2>3 DEF Dated
<1>8. Settling'
  <2>1. ASSUME NEW r \in Req, check'[r] # Idle, check'[r].at = current,
               check'[r].found # Unread
        PROVE  check'[r].found = isActive
    BY <1>1, <1>2, <2>1 DEF Settling
  <2>2. ASSUME NEW p \in Proc, current = p, cache'[p] # NoEntry
        PROVE  cache'[p].active = isActive
    BY <1>3, <1>4, <2>2 DEF Settling, ServingInstanceCurrent
  <2> QED
    BY <2>1, <2>2 DEF Settling, ServingInstanceCurrent, Tick
<1> QED
  BY <1>6, <1>7, <1>8

\* A write of the row by anyone: nobody counts as current after it.
LEMMA RowWritten ==
  ASSUME AdmissionInv, NEW to \in BOOLEAN,
         isActive' = to, last' = [last EXCEPT ![to] = 0], current' = NoEntry,
         changing' \subseteq Proc, UNCHANGED <<cache, check, tokens>>
  PROVE  AdmissionInv'
<1> USE DEF AdmissionInv
<1>1. /\ last' \in [BOOLEAN -> Age]
      /\ \A b \in BOOLEAN : last'[b] <= last[b]
      /\ last'[to] = 0
  BY TtlAssumption DEF AdmissionTypeOK, Age
<1>2. AdmissionTypeOK'
  BY <1>1 DEF AdmissionTypeOK, tokens
<1>3. Dated'
  <2>1. ASSUME NEW r \in Req, check[r] # Idle, check[r].found # Unread
        PROVE  last'[check[r].found] <= check[r].age
    <3>1. check[r].found \in BOOLEAN /\ check[r].age \in Age
      BY <2>1 DEF AdmissionTypeOK, Check
    <3>2. last[check[r].found] <= check[r].age
      BY <2>1 DEF Dated
    <3>3. last[check[r].found] \in Age /\ last'[check[r].found] \in Age
      BY <1>1, <3>1 DEF AdmissionTypeOK
    <3> QED
      BY <1>1, <3>1, <3>2, <3>3, TtlAssumption DEF Age
  <2>2. ASSUME NEW q \in Proc, cache[q] # NoEntry
        PROVE  last'[cache[q].active] <= cache[q].age
    <3>1. cache[q].active \in BOOLEAN /\ cache[q].age \in Age
      BY <2>2 DEF AdmissionTypeOK, Entry
    <3>2. last[cache[q].active] <= cache[q].age
      BY <2>2 DEF Dated
    <3>3. last[cache[q].active] \in Age /\ last'[cache[q].active] \in Age
      BY <1>1, <3>1 DEF AdmissionTypeOK
    <3> QED
      BY <1>1, <3>1, <3>2, <3>3, TtlAssumption DEF Age
  <2>3. last'[isActive'] = 0
    BY <1>1
  <2> QED
    BY <2>1, <2>2, <2>3 DEF Dated
<1>4. Settling'
  <2>1. \A r \in Req : check[r] # Idle => check[r].at # NoEntry
    BY NoEntryAssumption, FrontAssumption DEF AdmissionTypeOK, Check
  <2> QED
    BY <2>1, NoEntryAssumption DEF Settling, ServingInstanceCurrent
<1> QED
  BY <1>2, <1>3, <1>4

LEMMA ChangeKeeps ==
  ASSUME AdmissionInv, NEW to \in BOOLEAN,
         ChangeUninvalidated(to) \/ \E p \in Proc : Change(p, to)
  PROVE  AdmissionInv'
<1>1. CASE ChangeUninvalidated(to)
  BY <1>1, RowWritten DEF ChangeUninvalidated, AdmissionInv, AdmissionTypeOK
<1>2. ASSUME NEW p \in Proc, Change(p, to)
      PROVE  AdmissionInv'
  BY <1>2, RowWritten DEF Change, AdmissionInv, AdmissionTypeOK
<1> QED
  BY <1>1, <1>2

LEMMA InvalidateKeeps ==
  ASSUME AdmissionInv, NEW p \in Proc, InvalidateTenantStatus(p)
  PROVE  AdmissionInv'
<1> USE DEF AdmissionInv
<1>1. /\ cache' \in [Proc -> Entry \cup {NoEntry}]
      /\ cache'[p] = NoEntry
      /\ \A q \in Proc : q # p => cache'[q] = cache[q]
  BY DEF InvalidateTenantStatus, AdmissionTypeOK
<1>2. current' \in {current, p}
  BY DEF InvalidateTenantStatus
<1>3. AdmissionTypeOK'
  BY <1>1, <1>2 DEF AdmissionTypeOK, InvalidateTenantStatus, tokens
<1>4. Dated'
  BY <1>1 DEF Dated, InvalidateTenantStatus
<1>5. Settling'
  <2>1. current \notin Proc
    BY DEF InvalidateTenantStatus, Settling
  <2>2. current' \in Proc => /\ current' = p
                             /\ changing' = {}
                             /\ \A r \in Req : check[r] # Idle => check[r].at # p
    BY <1>2, <2>1 DEF InvalidateTenantStatus
  <2>3. \A r \in Req : check[r] # Idle => check[r].at \in Proc
    BY FrontAssumption DEF AdmissionTypeOK, Check
  <2>4. \A r \in Req : check'[r] # Idle => check'[r].at # current'
    BY <2>2, <2>3 DEF InvalidateTenantStatus
  <2> QED
    BY <1>1, <2>2, <2>4 DEF Settling, ServingInstanceCurrent
<1> QED
  BY <1>3, <1>4, <1>5

\* The answer given to a caller touches its tokens only.
LEMMA OutcomeTokens ==
  ASSUME NEW u \in User, NEW op, NEW active, Outcome(u, op, active),
         signedIn \subseteq User, challenged \subseteq User
  PROVE  signedIn' \subseteq User /\ challenged' \subseteq User
BY DEF Outcome, tokens

LEMMA HitKeeps ==
  ASSUME AdmissionInv, NEW u \in User, NEW op \in Op, NEW p \in Front, Hit(u, op, p)
  PROVE  AdmissionInv'
<1>1. AdmissionTypeOK'
  BY OutcomeTokens DEF AdmissionInv, AdmissionTypeOK, Hit
<1> QED
  BY <1>1 DEF AdmissionInv, Dated, Settling, ServingInstanceCurrent, Hit

LEMMA MissKeeps ==
  ASSUME AdmissionInv, NEW r \in Req, NEW u \in User, NEW op \in Op, NEW p \in Front,
         Miss(r, u, op, p)
  PROVE  AdmissionInv'
<1> USE DEF AdmissionInv
<1>1. /\ \A s \in Req : s # r => check'[s] = check[s]
      /\ check'[r] = [user |-> u, op |-> op, at |-> p, age |-> 0, found |-> Unread]
      /\ check'[r].found = Unread
  BY DEF Miss, AdmissionTypeOK
<1>2. check' \in [Req -> Check \cup {Idle}]
  BY TtlAssumption DEF Miss, AdmissionTypeOK, Check, Age
<1>3. AdmissionTypeOK'
  BY <1>2 DEF AdmissionTypeOK, Miss, tokens
<1>4. Dated'
  BY <1>1 DEF Dated, Miss
<1>5. Settling'
  BY <1>1 DEF Settling, ServingInstanceCurrent, Miss
<1> QED
  BY <1>3, <1>4, <1>5

LEMMA ReadRowKeeps ==
  ASSUME AdmissionInv, NEW r \in Req, ReadRow(r)
  PROVE  AdmissionInv'
<1> USE DEF AdmissionInv
<1>1. check[r] \in Check
  BY DEF ReadRow, AdmissionTypeOK
<1>2. /\ \A s \in Req : s # r => check'[s] = check[s]
      /\ check'[r] = [check[r] EXCEPT !.found = isActive]
  BY DEF ReadRow, AdmissionTypeOK
<1>3. /\ check'[r] \in Check
      /\ check'[r].found = isActive
      /\ check'[r].age = check[r].age
      /\ check'[r].age \in Age
  BY <1>1, <1>2 DEF Check, AdmissionTypeOK
<1>4. AdmissionTypeOK'
  <2>1. check' \in [Req -> Check \cup {Idle}]
    BY <1>2, <1>3 DEF ReadRow, AdmissionTypeOK
  <2> QED
    BY <2>1 DEF AdmissionTypeOK, ReadRow, tokens
<1>5. Dated'
  BY <1>2, <1>3, TtlAssumption DEF Dated, ReadRow, Age
<1>6. Settling'
  BY <1>2, <1>3 DEF Settling, ServingInstanceCurrent, ReadRow
<1> QED
  BY <1>4, <1>5, <1>6

LEMMA AnswerKeeps ==
  ASSUME AdmissionInv, NEW r \in Req, Answer(r)
  PROVE  AdmissionInv'
<1> USE DEF AdmissionInv
<1>1. check[r] \in Check /\ check[r].found \in BOOLEAN /\ check[r].at \in Proc
  BY FrontAssumption DEF Answer, AdmissionTypeOK, Check
<1> DEFINE at == check[r].at
           entry == [active |-> check[r].found, age |-> check[r].age]
<1>2. entry \in Entry /\ entry.active = check[r].found /\ entry.age = check[r].age
  BY <1>1 DEF Check, Entry
<1>3. /\ cache'[at] = entry
      /\ \A q \in Proc : q # at => cache'[q] = cache[q]
      /\ cache' \in [Proc -> Entry \cup {NoEntry}]
  BY <1>1, <1>2 DEF Answer, AdmissionTypeOK
<1>4. /\ check'[r] = Idle
      /\ \A s \in Req : s # r => check'[s] = check[s]
      /\ check' \in [Req -> Check \cup {Idle}]
  BY DEF Answer, AdmissionTypeOK
<1>5. AdmissionTypeOK'
  <2>1. check[r].user \in User
    BY <1>1 DEF Check
  <2>2. signedIn' \subseteq User /\ challenged' \subseteq User
    BY <2>1, OutcomeTokens DEF Answer, AdmissionTypeOK
  <2> QED
    BY <1>3, <1>4, <2>2 DEF AdmissionTypeOK, Answer
<1>6. Dated'
  <2>1. last[check[r].found] <= check[r].age
    BY <1>1 DEF Dated, Answer
  <2>2. \A q \in Proc : cache'[q] # NoEntry => last[cache'[q].active] <= cache'[q].age
    BY <1>2, <1>3, <2>1 DEF Dated
  <2>3. \A s \in Req : check'[s] # Idle /\ check'[s].found # Unread
                         => last[check'[s].found] <= check'[s].age
    BY <1>4 DEF Dated
  <2>4. last' = last /\ isActive' = isActive
    BY DEF Answer
  <2> QED
    BY <2>2, <2>3, <2>4 DEF Dated
<1>7. Settling'
  <2>1. at = current => check[r].found = isActive
    BY <1>1 DEF Settling, Answer
  <2>2. \A q \in Proc : current = q /\ cache'[q] # NoEntry => cache'[q].active = isActive
    BY <1>2, <1>3, <2>1 DEF Settling, ServingInstanceCurrent
  <2>3. \A s \in Req : check'[s] # Idle /\ check'[s].at = current /\ check'[s].found # Unread
                         => check'[s].found = isActive
    BY <1>4 DEF Settling
  <2> QED
    BY <2>2, <2>3 DEF Settling, ServingInstanceCurrent, Answer
<1> QED
  BY <1>5, <1>6, <1>7

\* Tokens come and go beside it all.
LEMMA TokensKeep ==
  ASSUME AdmissionInv, NEW u \in User,
         CompleteMfaChallenge(u) \/ AccessExpires(u) \/ ChallengeExpires(u)
  PROVE  AdmissionInv'
<1>1. /\ UNCHANGED <<isActive, cache, check, changing, last, current>>
      /\ (signedIn \subseteq User => signedIn' \subseteq User)
      /\ (challenged \subseteq User => challenged' \subseteq User)
  BY DEF CompleteMfaChallenge, AccessExpires, ChallengeExpires
<1> QED
  BY <1>1 DEF AdmissionInv, AdmissionTypeOK, Dated, Settling, ServingInstanceCurrent

LEMMA AdmissionInductive ==
  ASSUME AdmissionInv, [AdmissionNext]_admissionVars
  PROVE  AdmissionInv'
<1>1. CASE UNCHANGED admissionVars
  BY <1>1 DEF admissionVars, tokens, AdmissionInv, AdmissionTypeOK, Dated, Settling,
              ServingInstanceCurrent
<1>2. CASE AdmissionNext
  BY <1>2, TickKeeps, ChangeKeeps, InvalidateKeeps, HitKeeps, MissKeeps, ReadRowKeeps,
     AnswerKeeps, TokensKeep DEF AdmissionNext
<1> QED
  BY <1>1, <1>2

-----------------------------------------------------------------------------
\* The strengthening is invariant: what calls in flight and cache entries say was
\* true of the row within their age (readAt is taken before the read).
THEOREM AdmissionInvariant == AdmissionSpec => []AdmissionInv
BY InitAdmission, AdmissionInductive, PTL DEF AdmissionSpec

\* Every reachable state is of the declared type.
THEOREM AdmissionTypeCorrect == AdmissionSpec => []AdmissionTypeOK
<1>1. AdmissionInv => AdmissionTypeOK
  BY DEF AdmissionInv
<1> QED
  BY <1>1, AdmissionInvariant, PTL

\* No instance answers from its cache with what has not been true of the row for the
\* whole trust period (the thirty seconds of tenant-status.service).
THEOREM AnswersAreRecent == AdmissionSpec => []NoAnswerOlderThanTtl
<1>1. AdmissionInv => NoAnswerOlderThanTtl
  <2> SUFFICES ASSUME AdmissionInv, NEW p \in Proc, Trusted(p)
               PROVE  last[cache[p].active] < TTL
    BY DEF NoAnswerOlderThanTtl
  <2>1. cache[p] \in Entry /\ cache[p].age < TTL
    BY DEF AdmissionInv, AdmissionTypeOK, Trusted
  <2>2. last[cache[p].active] <= cache[p].age
    BY DEF AdmissionInv, Dated, Trusted
  <2>3. cache[p].age \in Nat /\ last[cache[p].active] \in Nat
    BY <2>1 DEF AdmissionInv, AdmissionTypeOK, Entry, Age
  <2> QED
    BY <2>1, <2>2, <2>3, TtlAssumption
<1> QED
  BY <1>1, AdmissionInvariant, PTL

\* The instance that handled the latest suspension or reinstatement answers by it at
\* once, unless a read of its own was under way (invalidateTenantStatus).
THEOREM ServingInstanceIsCurrent == AdmissionSpec => []ServingInstanceCurrent
<1>1. AdmissionInv => ServingInstanceCurrent
  BY DEF AdmissionInv, Settling
<1> QED
  BY <1>1, AdmissionInvariant, PTL

-----------------------------------------------------------------------------
(* Outbound webhooks.  A delivery is posted by one party at a time: the    *)
(* dispatch until its record appears, and the worker afterwards.           *)
(* Accounted says how the post under way, the record, the worker's list    *)
(* and the count of the receiver hang together; the bound on the count and *)
(* the finality of a settled record both follow from it.                   *)

Taken(d) == IF posting[d] # None /\ posting[d].taken THEN 1 ELSE 0

Retrying(d) == delivery[d] # None /\ delivery[d].status = "retrying"

\* What holds of one delivery.
Accounted(d) ==
  /\ delivery[d] # None => delivery[d].attempts \in 1..MAX_RETRY_ATTEMPTS
  /\ Retrying(d) => delivery[d].attempts < MAX_RETRY_ATTEMPTS
  /\ posting[d] # None => /\ delivery[d] = None \/ Retrying(d)
                          /\ posting[d].number = AttemptsSoFar(d) + 1
                          /\ d \notin due
                          /\ delivery[d] # None => scanning
  /\ d \in due => Retrying(d)
  /\ received[d] <= AttemptsSoFar(d) + Taken(d)

WebhookInv == WebhookTypeOK /\ \A d \in Delivery : Accounted(d)

-----------------------------------------------------------------------------
\* Only the numbers of a delivery that a step leaves alone are at stake.
LEMMA Untouched ==
  ASSUME NEW d \in Delivery, Accounted(d),
         delivery'[d] = delivery[d], posting'[d] = posting[d], received'[d] = received[d],
         d \in due' => d \in due,
         scanning => scanning'
  PROVE  Accounted(d)'
BY DEF Accounted, Retrying, AttemptsSoFar, Taken

LEMMA InitWebhook == WebhookInit => WebhookInv
<1> SUFFICES ASSUME WebhookInit PROVE WebhookInv
  OBVIOUS
<1>1. WebhookTypeOK
  BY DEF WebhookInit, WebhookTypeOK
<1>2. ASSUME NEW d \in Delivery PROVE Accounted(d)
  BY DEF WebhookInit, Accounted, Retrying, AttemptsSoFar, Taken
<1> QED
  BY <1>1, <1>2 DEF WebhookInv

(* One lemma per action.                                                   *)

LEMMA SubscriptionKeeps ==
  ASSUME WebhookInv, NEW s \in Sub, CreateSubscription(s) \/ DeleteSubscription(s)
  PROVE  WebhookInv'
<1>1. WebhookTypeOK'
  BY DEF WebhookInv, WebhookTypeOK, CreateSubscription, DeleteSubscription
<1>2. UNCHANGED <<delivery, posting, due, scanning, received>>
  BY DEF CreateSubscription, DeleteSubscription
<1> QED
  BY <1>1, <1>2, Untouched DEF WebhookInv

LEMMA DispatchKeeps ==
  ASSUME WebhookInv, NEW e \in Event, DispatchEvent(e)
  PROVE  WebhookInv'
<1>1. ASSUME NEW d \in Delivery
      PROVE  \/ posting'[d] = posting[d]
             \/ /\ posting'[d] = [number |-> 1, taken |-> FALSE]
                /\ delivery[d] = None /\ posting[d] = None
  <2>1. d = <<d[1], d[2]>> /\ d[2] \in Sub
    BY DEF Delivery
  <2>2. CASE d[1] = e /\ ActiveSub(d)
    <3>1. delivery[<<e, d[2]>>] = None /\ posting[<<e, d[2]>>] = None
      BY <2>1 DEF DispatchEvent
    <3> QED
      BY <2>1, <2>2, <3>1 DEF DispatchEvent
  <2>3. CASE ~(d[1] = e /\ ActiveSub(d))
    BY <2>3 DEF DispatchEvent
  <2> QED
    BY <2>2, <2>3
<1>2. WebhookTypeOK'
  <2>1. posting' \in [Delivery -> Post \cup {None}]
    BY <1>1 DEF DispatchEvent, WebhookInv, WebhookTypeOK, Post
  <2> QED
    BY <2>1 DEF WebhookInv, WebhookTypeOK, DispatchEvent
<1>3. ASSUME NEW d \in Delivery PROVE Accounted(d)'
  <2>1. CASE posting'[d] = posting[d]
    BY <2>1, Untouched DEF WebhookInv, DispatchEvent
  <2>2. CASE /\ posting'[d] = [number |-> 1, taken |-> FALSE]
             /\ delivery[d] = None /\ posting[d] = None
    <3>1. Accounted(d) /\ received[d] \in Nat
      BY DEF WebhookInv, WebhookTypeOK
    <3>2. /\ delivery'[d] = None
          /\ d \notin due'
          /\ received'[d] = 0
      BY <2>2, <3>1 DEF Accounted, Retrying, AttemptsSoFar, Taken, DispatchEvent
    <3>3. posting'[d].number = 1 /\ posting'[d].taken = FALSE
      BY <2>2
    <3> QED
      BY <3>2, <3>3 DEF Accounted, Retrying, AttemptsSoFar, Taken
  <2> QED
    BY <1>1, <2>1, <2>2
<1> QED
  BY <1>2, <1>3 DEF WebhookInv

LEMMA TestKeeps ==
  ASSUME WebhookInv, NEW d \in Delivery, SendTestDelivery(d)
  PROVE  WebhookInv'
<1>1. /\ posting'[d] = [number |-> 1, taken |-> FALSE]
      /\ \A c \in Delivery : c # d => posting'[c] = posting[c]
      /\ posting' \in [Delivery -> Post \cup {None}]
  BY DEF SendTestDelivery, WebhookInv, WebhookTypeOK, Post
<1>2. WebhookTypeOK'
  BY <1>1 DEF WebhookInv, WebhookTypeOK, SendTestDelivery
<1>3. Accounted(d)'
  <2>1. Accounted(d) /\ received[d] \in Nat
    BY DEF WebhookInv, WebhookTypeOK
  <2>2. delivery'[d] = None /\ d \notin due' /\ received'[d] = 0
    BY <2>1 DEF Accounted, Retrying, AttemptsSoFar, Taken, SendTestDelivery
  <2>3. posting'[d].number = 1 /\ posting'[d].taken = FALSE
    BY <1>1
  <2> QED
    BY <2>2, <2>3 DEF Accounted, Retrying, AttemptsSoFar, Taken
<1>4. \A c \in Delivery : c # d => Accounted(c)'
  BY <1>1, Untouched DEF WebhookInv, SendTestDelivery
<1> QED
  BY <1>2, <1>3, <1>4 DEF WebhookInv

LEMMA ReceiveKeeps ==
  ASSUME WebhookInv, NEW d \in Delivery, Receive(d)
  PROVE  WebhookInv'
<1>1. posting[d] \in Post /\ received[d] \in Nat /\ Accounted(d)
  BY DEF Receive, WebhookInv, WebhookTypeOK
<1>2. /\ posting'[d] = [posting[d] EXCEPT !.taken = TRUE]
      /\ \A c \in Delivery : c # d => posting'[c] = posting[c]
      /\ received'[d] = received[d] + 1
      /\ \A c \in Delivery : c # d => received'[c] = received[c]
  BY DEF Receive, WebhookInv, WebhookTypeOK
<1>3. /\ posting'[d] \in Post
      /\ posting'[d].number = posting[d].number
      /\ posting'[d].taken = TRUE
      /\ posting'[d] # None
  BY <1>1, <1>2, NoneAssumption DEF Post
<1>4. WebhookTypeOK'
  <2>1. posting' \in [Delivery -> Post \cup {None}]
    BY <1>2, <1>3 DEF Receive, WebhookInv, WebhookTypeOK
  <2>2. received' \in [Delivery -> Nat]
    BY <1>1, <1>2 DEF Receive, WebhookInv, WebhookTypeOK
  <2> QED
    BY <2>1, <2>2 DEF WebhookInv, WebhookTypeOK, Receive
<1>5. Accounted(d)'
  <2>1. AttemptsSoFar(d) \in Nat /\ AttemptsSoFar(d)' = AttemptsSoFar(d)
    BY <1>1 DEF Accounted, AttemptsSoFar, Receive
  <2>2. Taken(d) = 0 /\ Taken(d)' = 1
    BY <1>3 DEF Taken, Receive
  <2>3. received'[d] <= AttemptsSoFar(d)' + Taken(d)'
    BY <1>1, <1>2, <2>1, <2>2 DEF Accounted
  <2>4. delivery'[d] = delivery[d] /\ due' = due /\ scanning' = scanning /\ posting[d] # None
    BY DEF Receive
  <2> QED
    BY <1>1, <1>3, <2>1, <2>3, <2>4 DEF Accounted, Retrying
<1>6. \A c \in Delivery : c # d => Accounted(c)'
  BY <1>2, Untouched DEF WebhookInv, Receive
<1> QED
  BY <1>4, <1>5, <1>6 DEF WebhookInv

LEMMA RecordKeeps ==
  ASSUME WebhookInv, NEW d \in Delivery, NEW succeeded \in BOOLEAN,
         RecordAttempt(d, succeeded)
  PROVE  WebhookInv'
<1>1. posting[d] # None /\ posting[d] \in Post /\ received[d] \in Nat /\ Accounted(d)
  BY DEF RecordAttempt, WebhookInv, WebhookTypeOK
<1> DEFINE n == posting[d].number
           record == [status |-> StatusAfter(succeeded, n),
                      attempts |-> AttemptsSoFar(d) + 1,
                      isDue |-> FALSE]
<1>2. /\ AttemptsSoFar(d) \in Nat
      /\ n = AttemptsSoFar(d) + 1
      /\ n \in 1..MAX_RETRY_ATTEMPTS
  BY <1>1, AttemptsAssumption DEF Accounted, AttemptsSoFar, Retrying
<1>3. StatusAfter(succeeded, n) \in {"delivered", "retrying", "dead_letter"}
  BY DEF StatusAfter
<1>4. StatusAfter(succeeded, n) = "retrying" => n < MAX_RETRY_ATTEMPTS
  BY <1>2, AttemptsAssumption DEF StatusAfter
<1>5. /\ delivery'[d] = record
      /\ \A c \in Delivery : c # d => delivery'[c] = delivery[c]
      /\ posting'[d] = None
      /\ \A c \in Delivery : c # d => posting'[c] = posting[c]
  BY DEF RecordAttempt, WebhookInv, WebhookTypeOK
<1>6. /\ record \in DeliveryRecord
      /\ record # None
      /\ record.attempts = n
      /\ record.status = StatusAfter(succeeded, n)
  <2>1. AttemptsSoFar(d) + 1 \in Nat
    BY <1>2
  <2>2. record \in DeliveryRecord
    BY <1>3, <2>1 DEF DeliveryRecord
  <2>3. record # None
    BY <2>2, NoneAssumption
  <2>4. record.attempts = n /\ record.status = StatusAfter(succeeded, n)
    BY <1>2
  <2> QED
    BY <2>2, <2>3, <2>4
<1> HIDE DEF record
<1>7. WebhookTypeOK'
  <2>1. delivery' \in [Delivery -> DeliveryRecord \cup {None}]
    BY <1>5, <1>6 DEF RecordAttempt, WebhookInv, WebhookTypeOK
  <2>2. posting' \in [Delivery -> Post \cup {None}]
    BY DEF RecordAttempt, WebhookInv, WebhookTypeOK
  <2> QED
    BY <2>1, <2>2 DEF WebhookInv, WebhookTypeOK, RecordAttempt
<1>8. Accounted(d)'
  <2>1. AttemptsSoFar(d)' = n /\ Taken(d)' = 0
    BY <1>5, <1>6 DEF AttemptsSoFar, Taken
  <2>2. received'[d] <= n
    <3>1. Taken(d) \in {0, 1}
      BY DEF Taken
    <3>2. received'[d] = received[d]
      BY DEF RecordAttempt
    <3> QED
      BY <1>1, <1>2, <3>1, <3>2 DEF Accounted
  <2>3. d \notin due'
    BY <1>1 DEF Accounted, RecordAttempt
  <2>4. received'[d] <= AttemptsSoFar(d)' + Taken(d)'
    BY <1>2, <2>1, <2>2
  <2> QED
    BY <1>2, <1>4, <1>5, <1>6, <2>3, <2>4 DEF Accounted, Retrying
<1>9. \A c \in Delivery : c # d => Accounted(c)'
  BY <1>5, Untouched DEF WebhookInv, RecordAttempt
<1> QED
  BY <1>7, <1>8, <1>9 DEF WebhookInv

LEMMA FallDueKeeps ==
  ASSUME WebhookInv, NEW d \in Delivery, FallDue(d)
  PROVE  WebhookInv'
<1>1. delivery[d] \in DeliveryRecord /\ Accounted(d)
  BY DEF FallDue, WebhookInv, WebhookTypeOK
<1>2. /\ delivery'[d] = [delivery[d] EXCEPT !.isDue = TRUE]
      /\ \A c \in Delivery : c # d => delivery'[c] = delivery[c]
  BY DEF FallDue, WebhookInv, WebhookTypeOK
<1>3. /\ delivery'[d] \in DeliveryRecord
      /\ delivery'[d] # None
      /\ delivery'[d].status = delivery[d].status
      /\ delivery'[d].attempts = delivery[d].attempts
  BY <1>1, <1>2, NoneAssumption DEF DeliveryRecord
<1>4. WebhookTypeOK'
  <2>1. delivery' \in [Delivery -> DeliveryRecord \cup {None}]
    BY <1>2, <1>3 DEF FallDue, WebhookInv, WebhookTypeOK
  <2> QED
    BY <2>1 DEF WebhookInv, WebhookTypeOK, FallDue
<1>5. Accounted(d)'
  <2>1. delivery[d] # None /\ UNCHANGED <<posting, due, scanning, received>>
    BY DEF FallDue
  <2>2. AttemptsSoFar(d)' = AttemptsSoFar(d) /\ Taken(d)' = Taken(d)
    BY <1>3, <2>1 DEF AttemptsSoFar, Taken
  <2> QED
    BY <1>1, <1>3, <2>1, <2>2 DEF Accounted, Retrying
<1>6. \A c \in Delivery : c # d => Accounted(c)'
  BY <1>2, Untouched DEF WebhookInv, FallDue
<1> QED
  BY <1>4, <1>5, <1>6 DEF WebhookInv

\* No scan, so no retry is under way, and what is due is free to be posted.
LEMMA BeginScanKeeps ==
  ASSUME WebhookInv, BeginScan
  PROVE  WebhookInv'
<1>1. WebhookTypeOK'
  BY DEF WebhookInv, WebhookTypeOK, BeginScan, DueRetries
<1>2. ASSUME NEW d \in Delivery PROVE Accounted(d)'
  <2>1. Accounted(d)
    BY DEF WebhookInv
  <2>2. d \in due' => Retrying(d) /\ posting[d] = None
    BY <2>1 DEF BeginScan, DueRetries, Retrying, Accounted
  <2> QED
    BY <2>1, <2>2 DEF Accounted, Retrying, AttemptsSoFar, Taken, BeginScan
<1> QED
  BY <1>1, <1>2 DEF WebhookInv

LEMMA RetryKeeps ==
  ASSUME WebhookInv, NEW d \in Delivery, RetryDelivery(d)
  PROVE  WebhookInv'
<1>1. /\ Accounted(d) /\ d \in due /\ Retrying(d) /\ posting[d] = None
      /\ received[d] \in Nat
  BY DEF RetryDelivery, WebhookInv, WebhookTypeOK, Accounted
<1>2. delivery[d].attempts \in Nat
  BY <1>1 DEF Accounted, Retrying
<1>3. /\ posting'[d] = [number |-> delivery[d].attempts + 1, taken |-> FALSE]
      /\ \A c \in Delivery : c # d => posting'[c] = posting[c]
  BY DEF RetryDelivery, WebhookInv, WebhookTypeOK
<1>4. /\ posting'[d] \in Post
      /\ posting'[d].number = delivery[d].attempts + 1
      /\ posting'[d].taken = FALSE
  BY <1>2, <1>3 DEF Post
<1>5. WebhookTypeOK'
  <2>1. posting' \in [Delivery -> Post \cup {None}]
    BY <1>3, <1>4 DEF RetryDelivery, WebhookInv, WebhookTypeOK
  <2> QED
    BY <2>1 DEF WebhookInv, WebhookTypeOK, RetryDelivery
<1>6. Accounted(d)'
  <2>1. /\ delivery'[d] = delivery[d] /\ scanning' /\ d \notin due'
        /\ received'[d] = received[d]
    BY DEF RetryDelivery
  <2>2. Taken(d) = 0 /\ Taken(d)' = 0
    BY <1>1, <1>4 DEF Taken
  <2>3. AttemptsSoFar(d)' = AttemptsSoFar(d) /\ AttemptsSoFar(d) = delivery[d].attempts
    BY <1>1, <2>1 DEF AttemptsSoFar, Retrying
  <2> QED
    BY <1>1, <1>2, <1>4, <2>1, <2>2, <2>3 DEF Accounted, Retrying
<1>7. \A c \in Delivery : c # d => Accounted(c)'
  BY <1>3, Untouched DEF WebhookInv, RetryDelivery
<1> QED
  BY <1>5, <1>6, <1>7 DEF WebhookInv

LEMMA SkipKeeps ==
  ASSUME WebhookInv, NEW d \in Delivery, SkipDelivery(d)
  PROVE  WebhookInv'
<1>1. WebhookTypeOK'
  BY DEF WebhookInv, WebhookTypeOK, SkipDelivery
<1> QED
  BY <1>1, Untouched DEF WebhookInv, SkipDelivery

\* A scan does not end while a retry is under way.
LEMMA EndScanKeeps ==
  ASSUME WebhookInv, EndScan
  PROVE  WebhookInv'
<1>1. WebhookTypeOK'
  BY DEF WebhookInv, WebhookTypeOK, EndScan
<1>2. ASSUME NEW d \in Delivery PROVE Accounted(d)'
  <2>1. Accounted(d)
    BY DEF WebhookInv
  <2>2. posting[d] # None => delivery[d] = None
    BY <2>1 DEF Accounted, AttemptsSoFar, Waiting, EndScan
  <2> QED
    BY <2>1, <2>2 DEF Accounted, Retrying, AttemptsSoFar, Taken, EndScan
<1> QED
  BY <1>1, <1>2 DEF WebhookInv

LEMMA RestartKeeps ==
  ASSUME WebhookInv, Restart
  PROVE  WebhookInv'
<1>1. WebhookTypeOK'
  BY DEF WebhookTypeOK, Restart
<1>2. ASSUME NEW d \in Delivery PROVE Accounted(d)'
  BY DEF Restart, Accounted, Retrying, AttemptsSoFar, Taken
<1> QED
  BY <1>1, <1>2 DEF WebhookInv

LEMMA WebhookInductive ==
  ASSUME WebhookInv, [WebhookNext]_webhookVars
  PROVE  WebhookInv'
<1>1. CASE UNCHANGED webhookVars
  BY <1>1 DEF webhookVars, WebhookInv, WebhookTypeOK, Accounted, Retrying, AttemptsSoFar,
              Taken
<1>2. CASE WebhookNext
  BY <1>2, SubscriptionKeeps, DispatchKeeps, TestKeeps, ReceiveKeeps, RecordKeeps,
     FallDueKeeps, BeginScanKeeps, RetryKeeps, SkipKeeps, EndScanKeeps, RestartKeeps
     DEF WebhookNext
<1> QED
  BY <1>1, <1>2

-----------------------------------------------------------------------------
\* The strengthening is invariant: every post is accounted for by its delivery's
\* record, and dispatch and worker never post the same delivery at once.
THEOREM WebhookInvariant == WebhookSpec => []WebhookInv
BY InitWebhook, WebhookInductive, PTL DEF WebhookSpec

\* Every reachable state is of the declared type.
THEOREM WebhookTypeCorrect == WebhookSpec => []WebhookTypeOK
<1>1. WebhookInv => WebhookTypeOK
  BY DEF WebhookInv
<1> QED
  BY <1>1, WebhookInvariant, PTL

\* No receiver takes an event more than MAX_RETRY_ATTEMPTS times (attemptDelivery).
THEOREM ReceiverIsSpared == WebhookSpec => []DuplicatesBounded
<1>1. WebhookInv => DuplicatesBounded
  <2> SUFFICES ASSUME WebhookInv, NEW d \in Delivery
               PROVE  received[d] <= MAX_RETRY_ATTEMPTS
    BY DEF DuplicatesBounded
  <2>1. Accounted(d) /\ received[d] \in Nat
    BY DEF WebhookInv, WebhookTypeOK
  <2>2. CASE posting[d] = None
    BY <2>1, <2>2, AttemptsAssumption DEF Accounted, AttemptsSoFar, Taken
  <2>3. CASE posting[d] # None
    <3>1. AttemptsSoFar(d) + 1 <= MAX_RETRY_ATTEMPTS /\ AttemptsSoFar(d) \in Nat
      BY <2>1, <2>3, AttemptsAssumption DEF Accounted, AttemptsSoFar, Retrying
    <3>2. Taken(d) \in {0, 1}
      BY DEF Taken
    <3> QED
      BY <2>1, <3>1, <3>2, AttemptsAssumption DEF Accounted
  <2> QED
    BY <2>2, <2>3
<1> QED
  BY <1>1, WebhookInvariant, PTL

\* A delivery recorded as delivered or dead is posted no more and stays as it is.
THEOREM SettledStays == WebhookSpec => SettledIsFinal
<1>1. ASSUME WebhookInv, [WebhookNext]_webhookVars, NEW d \in Delivery, Settled(d)
      PROVE  delivery'[d] \in {delivery[d], None} /\ posting'[d] = None
  <2>1. /\ Accounted(d) /\ posting[d] = None /\ d \notin due
        /\ delivery[d] # None /\ ~Retrying(d)
    BY <1>1 DEF WebhookInv, Accounted, Retrying, Settled
  <2>2. CASE UNCHANGED webhookVars
    BY <2>1, <2>2 DEF webhookVars
  <2>3. CASE \E s \in Sub : CreateSubscription(s) \/ DeleteSubscription(s)
    BY <2>1, <2>3 DEF CreateSubscription, DeleteSubscription
  <2>4. ASSUME NEW e \in Event, DispatchEvent(e)
        PROVE  delivery'[d] = delivery[d] /\ posting'[d] = None
    <3>1. d = <<d[1], d[2]>> /\ d[2] \in Sub
      BY DEF Delivery
    <3>2. d[1] # e
      <4> SUFFICES ASSUME d[1] = e PROVE FALSE
        OBVIOUS
      <4>1. delivery[<<e, d[2]>>] = None
        BY <2>4, <3>1 DEF DispatchEvent
      <4> QED
        BY <2>1, <3>1, <4>1
    <3> QED
      BY <2>1, <2>4, <3>2 DEF DispatchEvent
  <2>5. ASSUME NEW c \in Delivery,
               \/ SendTestDelivery(c) \/ Receive(c) \/ FallDue(c)
               \/ RetryDelivery(c) \/ SkipDelivery(c)
               \/ \E succeeded \in BOOLEAN : RecordAttempt(c, succeeded)
        PROVE  delivery'[d] = delivery[d] /\ posting'[d] = None
    <3>1. c # d
      BY <2>1, <2>5 DEF SendTestDelivery, Receive, FallDue, RetryDelivery, SkipDelivery,
                        RecordAttempt, Retrying
    <3> QED
      BY <1>1, <2>1, <2>5, <3>1 DEF WebhookInv, WebhookTypeOK, SendTestDelivery, Receive,
         FallDue, RetryDelivery, SkipDelivery, RecordAttempt
  <2>6. CASE BeginScan \/ EndScan
    BY <2>1, <2>6 DEF BeginScan, EndScan
  <2>7. CASE Restart
    BY <2>7 DEF Restart
  <2> QED
    BY <1>1, <2>2, <2>3, <2>4, <2>5, <2>6, <2>7 DEF WebhookNext
<1>2. WebhookInv /\ [WebhookNext]_webhookVars
        => \A d \in Delivery : Settled(d) => /\ delivery'[d] \in {delivery[d], None}
                                             /\ posting'[d] = None
  BY <1>1
<1>3. WebhookInv /\ [WebhookNext]_webhookVars
        => [\A d \in Delivery : Settled(d) => /\ delivery'[d] \in {delivery[d], None}
                                              /\ posting'[d] = None]_webhookVars
  BY <1>2
<1> QED
  BY <1>3, WebhookInvariant, PTL DEF WebhookSpec, SettledIsFinal

-----------------------------------------------------------------------------
(* The platform.                                                           *)

\* In the platform each service keeps its invariant, while it is in use and at rest.
THEOREM PlatformInvariant == PlatformSpec => [](AdmissionInv /\ WebhookInv)
<1>1. PlatformInit => AdmissionInv /\ WebhookInv
  BY InitAdmission, InitWebhook DEF PlatformInit
<1>2. AdmissionInv /\ WebhookInv /\ [PlatformNext]_platformVars
        => AdmissionInv' /\ WebhookInv'
  <2> SUFFICES ASSUME AdmissionInv, WebhookInv, [PlatformNext]_platformVars
               PROVE  AdmissionInv' /\ WebhookInv'
    OBVIOUS
  <2>1. [AdmissionNext]_admissionVars /\ [WebhookNext]_webhookVars
    BY DEF PlatformNext, platformVars
  <2> QED
    BY <2>1, AdmissionInductive, WebhookInductive
<1> QED
  BY <1>1, <1>2, PTL DEF PlatformSpec

\* Every variable of the platform keeps its type.
THEOREM PlatformTypeCorrect == PlatformSpec => []PlatformTypeOK
<1>1. AdmissionInv /\ WebhookInv => PlatformTypeOK
  BY DEF AdmissionInv, WebhookInv, PlatformTypeOK
<1> QED
  BY <1>1, PlatformInvariant, PTL

\* A behaviour of the platform is one of the tenants' admission and one of the
\* webhooks, fairness included: neither service's traffic is ever more than the
\* other's code allows.
THEOREM PlatformRunsServices == PlatformSpec => AdmissionSpec /\ WebhookSpec
<1>1. PlatformInit => AdmissionInit /\ WebhookInit
  BY DEF PlatformInit
<1>2. [PlatformNext]_platformVars => [AdmissionNext]_admissionVars /\ [WebhookNext]_webhookVars
  BY DEF PlatformNext, platformVars
<1> QED
  BY <1>1, <1>2, PTL DEF PlatformSpec, AdmissionSpec, WebhookSpec

\* What the platform's safety comes to, with both services in it: no answer is older
\* than the trust period, an instance that handled the change answers by it, a receiver
\* is not called more often than the attempts allow, and a settled delivery stays so.
THEOREM PlatformSafety ==
  PlatformSpec => /\ [](/\ NoAnswerOlderThanTtl
                        /\ ServingInstanceCurrent
                        /\ DuplicatesBounded)
                  /\ SettledIsFinal
BY PlatformRunsServices, AnswersAreRecent, ServingInstanceIsCurrent, ReceiverIsSpared,
   SettledStays, PTL

=============================================================================
