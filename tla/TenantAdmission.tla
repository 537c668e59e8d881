-------------------------- MODULE TenantAdmission --------------------------
(***************************************************************************)
(* Whether a tenant may be used at all: tenant-status.service, the three   *)
(* places that ask it (login, token refresh, tenantMiddleware) and the     *)
(* tokens those answers lead to.  One tenant: the row, the cache entries   *)
(* and the tokens of different tenants never meet.                         *)
(*                                                                         *)
(* Time is kept as ages, in units of which TTL make the thirty seconds an  *)
(* answer is trusted.  An age stops at TTL: beyond it the code draws no    *)
(* distinction.                                                            *)
(***************************************************************************)
EXTENDS Naturals

CONSTANTS
  Proc,      \* the server processes, each with a cache of its own
  Front,     \* the ones that requests are routed to
  Req,       \* request slots: at most Cardinality(Req) in flight at once
  User,      \* the tenant's users
  TTL,       \* TENANT_STATUS_TTL_MS
  Idle,      \* no call in the slot
  NoEntry,   \* nothing cached
  Unread     \* the row has not been read yet

ASSUME FrontAssumption == Front \subseteq Proc
ASSUME TtlAssumption == TTL \in Nat \ {0}
ASSUME NoEntryAssumption == NoEntry \notin Proc

VARIABLES
  isActive,    \* Tenant.isActive
  cache,       \* per process: NoEntry or [active, age], its age since readAt
  check,       \* per slot: Idle or an isTenantActive call waiting on its read
  changing,    \* processes that have written the row and not yet invalidated
  last,        \* history: how long ago the row last held TRUE, and FALSE
  current,     \* history: the process whose handler made the latest change and
               \* had no read in flight when it invalidated, or NoEntry, as
               \* after a change that invalidates nothing
  signedIn,    \* users with a live access token
  challenged   \* users with a live two-factor challenge

tokens == <<signedIn, challenged>>
admissionVars == <<isActive, cache, check, changing, last, current, tokens>>

\* A session is asked for by a login or by a token refresh, which seven days of
\* refresh token allow at any time; a request passes tenantMiddleware.
Op == {"session", "request"}
Age == 0..TTL

\* Mutant: the ages are not capped.
OlderUncapped(age) == age + 1

Older(age) == IF age < TTL THEN age + 1 ELSE TTL

Entry == [active : BOOLEAN, age : Age]
Check == [user : User, op : Op, at : Front, age : Age, found : BOOLEAN \cup {Unread}]

\* Mutant: an entry is trusted however old it is.
TrustedForever(p) == cache[p] # NoEntry

Trusted(p) == cache[p] # NoEntry /\ cache[p].age < TTL

AdmissionTypeOK ==
  /\ isActive \in BOOLEAN
  /\ cache \in [Proc -> Entry \cup {NoEntry}]
  /\ check \in [Req -> Check \cup {Idle}]
  /\ changing \subseteq Proc
  /\ last \in [BOOLEAN -> Age]
  /\ current \in Proc \cup {NoEntry}
  /\ signedIn \subseteq User /\ challenged \subseteq User

AdmissionInit ==
  /\ isActive = TRUE
  /\ cache = [p \in Proc |-> NoEntry]
  /\ check = [r \in Req |-> Idle]
  /\ changing = {}
  /\ last = [b \in BOOLEAN |-> IF b THEN 0 ELSE TTL]
  /\ current = NoEntry
  /\ signedIn = {} /\ challenged = {}

-----------------------------------------------------------------------------
\* The clock moves on.
Tick ==
  /\ cache' = [p \in Proc |-> IF cache[p] = NoEntry THEN NoEntry
                              ELSE [cache[p] EXCEPT !.age = Older(@)]]
  /\ check' = [r \in Req |-> IF check[r] = Idle THEN Idle
                             ELSE [check[r] EXCEPT !.age = Older(@)]]
  /\ last' = [b \in BOOLEAN |-> IF b = isActive THEN 0 ELSE Older(last[b])]
  /\ UNCHANGED <<isActive, changing, current, tokens>>

\* suspend (to = FALSE) and unsuspend (to = TRUE): the row, in one statement.
Change(p, to) ==
  /\ p \notin changing
  /\ isActive' = to
  /\ last' = [last EXCEPT ![to] = 0]
  /\ changing' = changing \cup {p}
  /\ current' = NoEntry
  /\ UNCHANGED <<cache, check, tokens>>

\* The administrators' updates of a tenant (updateTenant, the PATCH of the platform
\* routes) and the end of an offboarding write the row too; no entry is dropped.
ChangeUninvalidated(to) ==
  /\ isActive' = to
  /\ last' = [last EXCEPT ![to] = 0]
  /\ current' = NoEntry
  /\ UNCHANGED <<cache, check, changing, tokens>>

\* Mutant: a reinstatement leaves the entry in place.
InvalidateOnSuspension(p) ==
  /\ p \in changing
  /\ cache' = IF isActive THEN cache ELSE [cache EXCEPT ![p] = NoEntry]
  /\ changing' = changing \ {p}
  /\ current' = IF /\ changing = {p}
                   /\ \A r \in Req : check[r] # Idle => check[r].at # p
                THEN p ELSE current
  /\ UNCHANGED <<isActive, check, last, tokens>>

\* The update has returned and the serving process drops its own entry.
InvalidateTenantStatus(p) ==
  /\ p \in changing
  /\ cache' = [cache EXCEPT ![p] = NoEntry]
  /\ changing' = changing \ {p}
  /\ current' = IF /\ changing = {p}
                   /\ \A r \in Req : check[r] # Idle => check[r].at # p
                THEN p ELSE current
  /\ UNCHANGED <<isActive, check, last, tokens>>

\* What the caller does with the answer.  A session is granted, or withheld behind
\* a challenge if the user logs in and has enrolled a second factor; a request is
\* served.  A refusal changes nothing.
Outcome(u, op, active) ==
  \/ /\ active /\ op = "session"
     /\ signedIn' = signedIn \cup {u}
     /\ UNCHANGED challenged
  \/ /\ active /\ op = "session"
     /\ challenged' = challenged \cup {u}
     /\ UNCHANGED signedIn
  \/ /\ ~active \/ op = "request"
     /\ UNCHANGED tokens

\* The middleware asks only for a valid access token.
MayAsk(u, op) == op = "request" => u \in signedIn

\* Mutant: a hit renews its entry.
HitRenews(u, op, p) ==
  /\ MayAsk(u, op)
  /\ Trusted(p)
  /\ Outcome(u, op, cache[p].active)
  /\ cache' = [cache EXCEPT ![p].age = 0]
  /\ UNCHANGED <<isActive, check, changing, last, current>>

\* isTenantActive: a hit answers at once.
Hit(u, op, p) ==
  /\ MayAsk(u, op)
  /\ Trusted(p)
  /\ Outcome(u, op, cache[p].active)
  /\ UNCHANGED <<isActive, cache, check, changing, last, current>>

\* A miss keeps the moment it began (now) and asks the database.
Miss(r, u, op, p) ==
  /\ check[r] = Idle
  /\ MayAsk(u, op)
  /\ ~Trusted(p)
  /\ check' = [check EXCEPT ![r] =
       [user |-> u, op |-> op, at |-> p, age |-> 0, found |-> Unread]]
  /\ UNCHANGED <<isActive, cache, changing, last, current, tokens>>

\* The database reads the row.
ReadRow(r) ==
  /\ check[r] # Idle
  /\ check[r].found = Unread
  /\ check' = [check EXCEPT ![r].found = isActive]
  /\ UNCHANGED <<isActive, cache, changing, last, current, tokens>>

\* Mutant: the entry is dated when the answer comes, not when it was asked for.
AnswerDatedNow(r) ==
  /\ check[r] # Idle
  /\ check[r].found # Unread
  /\ cache' = [cache EXCEPT ![check[r].at] = [active |-> check[r].found, age |-> 0]]
  /\ check' = [check EXCEPT ![r] = Idle]
  /\ Outcome(check[r].user, check[r].op, check[r].found)
  /\ UNCHANGED <<isActive, changing, last, current>>

\* The row arrives: it is cached as of the moment the call began, and answered.
Answer(r) ==
  /\ check[r] # Idle
  /\ check[r].found # Unread
  /\ cache' = [cache EXCEPT ![check[r].at] =
       [active |-> check[r].found, age |-> check[r].age]]
  /\ check' = [check EXCEPT ![r] = Idle]
  /\ Outcome(check[r].user, check[r].op, check[r].found)
  /\ UNCHANGED <<isActive, changing, last, current>>

\* completeMfaChallenge: a good code turns the challenge into tokens, without
\* asking about the tenant.
CompleteMfaChallenge(u) ==
  /\ u \in challenged
  /\ signedIn' = signedIn \cup {u}
  /\ UNCHANGED <<isActive, cache, check, changing, last, current, challenged>>

AccessExpires(u) ==
  /\ u \in signedIn
  /\ signedIn' = signedIn \ {u}
  /\ UNCHANGED <<isActive, cache, check, changing, last, current, challenged>>

ChallengeExpires(u) ==
  /\ u \in challenged
  /\ challenged' = challenged \ {u}
  /\ UNCHANGED <<isActive, cache, check, changing, last, current, signedIn>>

AdmissionNext ==
  \/ Tick
  \/ \E p \in Proc, to \in BOOLEAN : Change(p, to)
  \/ \E to \in BOOLEAN : ChangeUninvalidated(to)
  \/ \E p \in Proc : InvalidateTenantStatus(p)
  \/ \E u \in User, op \in Op, p \in Front : Hit(u, op, p)
  \/ \E r \in Req, u \in User, op \in Op, p \in Front : Miss(r, u, op, p)
  \/ \E r \in Req : ReadRow(r)
  \/ \E r \in Req : Answer(r)
  \/ \E u \in User : CompleteMfaChallenge(u)
  \/ \E u \in User : AccessExpires(u) \/ ChallengeExpires(u)

\* Time passes, reads and answers come back, and tokens run out.  Nothing obliges
\* anyone to sign in, to ask, or to change the row.
AdmissionFairness ==
  /\ WF_admissionVars(Tick)
  /\ \A r \in Req : WF_admissionVars(ReadRow(r)) /\ WF_admissionVars(Answer(r))
  /\ \A u \in User : WF_admissionVars(AccessExpires(u)) /\ WF_admissionVars(ChallengeExpires(u))

AdmissionSpec == AdmissionInit /\ [][AdmissionNext]_admissionVars /\ AdmissionFairness

-----------------------------------------------------------------------------
\* An answer given from a cache is one the row would have given less than TTL
\* ago, however slow the read behind it was and whichever instance changed the
\* row ("A suspension is therefore effective within 30 seconds",
\* tenant-status.service.ts:37-39; the same holds of a reinstatement).
NoAnswerOlderThanTtl ==
  \A p \in Proc : Trusted(p) => last[cache[p].active] < TTL

\* The instance that handled the latest change answers by it at once, unless a
\* read was in flight there when it dropped its entry (the local invalidation of
\* suspend and unsuspend comes after the row is written).
ServingInstanceCurrent ==
  \A p \in Proc : current = p /\ cache[p] # NoEntry => cache[p].active = isActive

\* The users of a tenant that stays suspended all end up without a session: no
\* login, refresh, cached answer or pending challenge keeps one alive.
EventuallyLockedOut == <>[](~isActive) => <>[](signedIn = {})

\* A tenant that stays in good standing is, from some moment on, never refused.
Refused ==
  \/ \E p \in Front : Trusted(p) /\ ~cache[p].active
  \/ \E r \in Req : check[r] # Idle /\ check[r].found = FALSE
EventuallyReinstated == <>[]isActive => <>[](~Refused)

=============================================================================
