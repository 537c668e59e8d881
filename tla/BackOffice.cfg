\* Review: three members and a quorum of two, one less than the members, so that a
\* vote can be under way when another decides; two requests on it at once.
\* Round: days in units of fifteen, which makes the windows 4, 2 and 1 and the
\* look-ahead of 61 days 4; two expiry dates let a round move between windows.
\* Invoice: two units, so that two refunds can fill or overfill it; four rows under
\* one sequence; two requests.  Commission: three requests, three payments.
\* Disclosures: two templates and two requests, so that approvals of both can overlap,
\* and an edit an approval.  Document: three requests, so that a hold
\* and its release fit into one deletion.  Authorization: two requests and debits.
\* Offboarding: one workflow and two requests on it or on the owner; an owner and two
\* users to scrub.
CONSTANTS
  Member = {m1, m2, m3}
  QUORUM = 2
  Choice = {"approve", "reject", "abstain"}
  Ruling = {"approved", "in_review", "keep"}
  DeskReq = {q1, q2}
  NoRequest = NoRequest
  W60 = 4
  W30 = 2
  W15 = 1
  LookAhead = 4
  LastDay = 5
  ExpiryDay = {4, 5}
  StatusSent = {"in_progress", "completed"}
  MaxCompletions = 1
  RoundReq = {r1}
  NoDate = NoDate
  NoScan = NoScan
  NoRound = NoRound
  AMOUNT = 2
  MaxRows = 4
  BillReq = {b1, b2}
  NoBill = NoBill
  CommissionReq = {c1, c2, c3}
  MaxPayments = 3
  NoCommission = NoCommission
  Template = {t1, t2}
  CmsReq = {s1, s2}
  NoCms = NoCms
  VaultReq = {v1, v2, v3}
  NoVault = NoVault
  Debit = {d1, d2}
  NoDebit = NoDebit
  AchReq = {a1, a2}
  NoAch = NoAch
  Workflow = {w1}
  Owner = {o1}
  Account = {u1, u2}
  OffReq = {f1, f2}
  NoOff = NoOff
SPECIFICATION OfficeSpec
SYMMETRY OfficeSymmetry
INVARIANTS
  OfficeTypeOK
  StatusMatchesVotes
  BothSignoffsNoticed
  AlertsAtMostOncePerReset
  RefundedInFull
  CompletedHasScrubbed
  PaidOnAuthority
PROPERTIES
  OnlyOverlapsBreakBallot
  OnlyOverlapsAndRevivalsBreakBook
  OnlyOverlapsBreakShelf
  OnlyOverlapsBreakHold
  OnlyOverlapsBreakMandate
  CommissionMovesForward
\* The last day passes, the bounds are reached, and requests may all be refused.
CHECK_DEADLOCK FALSE
