----------------------------- MODULE AchControls ----------------------------
(***************************************************************************)
(* ach-controls.service behind the ACH routes: one authorization of a      *)
(* business, its revocation, and the debits recorded under it.  A request  *)
(* reads the authorization, writes one row from what it read, and only     *)
(* then persists an event, which may fail.                                 *)
(*                                                                         *)
(* The amount and the frequency of a debit are abstracted to whether one   *)
(* of them exceeds the mandate.  No code suspends an authorization, and    *)
(* debit-monitor, which would flag debits again, is called by nothing.     *)
(***************************************************************************)
EXTENDS Naturals

CONSTANTS
  Debit,      \* the debits that may be recorded, one per row
  NoDebit,
  AchReq,     \* request slots
  NoAch

\* The ledger's events have names of their own.
ASSUME DebitAssumption == NoDebit \notin [excess : BOOLEAN, flagged : BOOLEAN]
                          /\ {"authorized", "revoked"} \cap Debit = {}

VARIABLES
  auth,       \* the authorization: [status, notice], status "none" before the row
              \* exists; notice counts the writings of revocationNotifiedAt
  debit,      \* per debit: NoDebit or its row
  ledger,     \* the events persisted
  achReq,     \* per slot: NoAch or what the request will do next
  overrun     \* history: slots that read before the authorization was revoked

achVars == <<auth, debit, ledger, achReq, overrun>>

\* The abstract mandate.
Mandate == INSTANCE AchMandate WITH
  standing <- auth.status,
  notice <- auth.notice,
  recorded <- debit,
  told <- ledger

DebitRow == [excess : BOOLEAN, flagged : BOOLEAN]
AchEvent == {"authorized", "revoked"} \cup Debit

AchRequest ==
  [op : {"revoke"}]
    \cup [op : {"debit"}, excess : BOOLEAN, flagged : BOOLEAN]
    \cup [op : {"publish"}, event : AchEvent]

\* An empty slot is no request.
ASSUME NoAchAssumption == NoAch \notin AchRequest

AchTypeOK ==
  /\ auth \in [status : {"none", "active", "revoked"}, notice : Nat]
  /\ debit \in [Debit -> DebitRow \cup {NoDebit}]
  /\ ledger \subseteq AchEvent
  /\ achReq \in [AchReq -> AchRequest \cup {NoAch}]
  /\ overrun \subseteq AchReq

AchInit ==
  /\ auth = [status |-> "none", notice |-> 0]
  /\ debit = [d \in Debit |-> NoDebit]
  /\ ledger = {}
  /\ achReq = [s \in AchReq |-> NoAch]
  /\ overrun = {}

-----------------------------------------------------------------------------
\* Slot s is to carry out op next.
AtAch(s, op) == achReq[s] # NoAch /\ achReq[s].op = op

\* Slot s goes on, or with NoAch ends; what it read counts no more.  A revocation
\* makes what the others under way have read out of date.
Proceeds(s, request) ==
  /\ achReq' = [achReq EXCEPT ![s] = request]
  /\ overrun' = (overrun \cup (IF auth' # auth THEN {x \in AchReq : achReq[x] # NoAch} ELSE {}))
                  \ {s}

\* createAuthorization inserts the row and then publishes.
CreateAuthorization(s) ==
  /\ achReq[s] = NoAch
  /\ auth.status = "none"
  /\ auth' = [auth EXCEPT !.status = "active"]
  /\ UNCHANGED <<debit, ledger>>
  /\ Proceeds(s, [op |-> "publish", event |-> "authorized"])

\* Mutant: a revoked authorization is not refused.
ReadRevokeAgain(s) ==
  /\ achReq[s] = NoAch
  /\ auth.status # "none"
  /\ UNCHANGED <<auth, debit, ledger>>
  /\ Proceeds(s, [op |-> "revoke"])

\* revokeAuthorization refuses what is revoked already...
ReadRevoke(s) ==
  /\ achReq[s] = NoAch
  /\ auth.status = "active"
  /\ UNCHANGED <<auth, debit, ledger>>
  /\ Proceeds(s, [op |-> "revoke"])

\* ... and writes the status and the moment of the notice, by id.
WriteRevoke(s) ==
  /\ AtAch(s, "revoke")
  /\ auth' = [status |-> "revoked", notice |-> auth.notice + 1]
  /\ UNCHANGED <<debit, ledger>>
  /\ Proceeds(s, [op |-> "publish", event |-> "revoked"])

\* recordDebitEvent judges the debit by the authorization it reads...
ReadDebit(s, excess) ==
  /\ achReq[s] = NoAch
  /\ auth.status # "none"
  /\ UNCHANGED <<auth, debit, ledger>>
  /\ Proceeds(s, [op |-> "debit", excess |-> excess,
                  flagged |-> excess \/ auth.status = "revoked"])

\* ... and records it; a flagged one is then reported.
WriteDebit(s, d) ==
  /\ AtAch(s, "debit")
  /\ debit[d] = NoDebit
  /\ debit' = [debit EXCEPT ![d] =
       [excess |-> achReq[s].excess, flagged |-> achReq[s].flagged]]
  /\ UNCHANGED <<auth, ledger>>
  /\ Proceeds(s, IF achReq[s].flagged THEN [op |-> "publish", event |-> d] ELSE NoAch)

PersistEvent(s) ==
  /\ AtAch(s, "publish")
  /\ ledger' = ledger \cup {achReq[s].event}
  /\ UNCHANGED <<auth, debit>>
  /\ Proceeds(s, NoAch)

\* A statement or the publication fails, or the process dies.  Nothing publishes
\* later what was not published: a second revocation is refused, and the error of a
\* report is only logged.
AbandonAch(s) ==
  /\ achReq[s] # NoAch
  /\ UNCHANGED <<auth, debit, ledger>>
  /\ Proceeds(s, NoAch)

AchNext ==
  \/ \E s \in AchReq :
       \/ CreateAuthorization(s) \/ ReadRevoke(s) \/ WriteRevoke(s)
       \/ PersistEvent(s) \/ AbandonAch(s)
  \/ \E s \in AchReq, excess \in BOOLEAN : ReadDebit(s, excess)
  \/ \E s \in AchReq, d \in Debit : WriteDebit(s, d)

AchSpec == AchInit /\ [][AchNext]_achVars

-----------------------------------------------------------------------------
\* The authorization, its debits and its ledger change as the mandate promises,
\* wherever a process dies, except by a request that read the authorization before it
\* was revoked: the notice ("the legal timestamp", ach-controls.service.ts:194) is
\* written again, or a debit recorded after the revocation passes unflagged, only that
\* way.
OverrunWrite ==
  \E s \in overrun : WriteRevoke(s) \/ \E d \in Debit : WriteDebit(s, d)
OnlyOverlapsBreakMandate ==
  Mandate!MandateInit /\ [][OverrunWrite \/ Mandate!MandateNext]_<<auth, debit, ledger>>

=============================================================================
