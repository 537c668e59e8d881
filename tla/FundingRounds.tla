--------------------------- MODULE FundingRounds ---------------------------
(***************************************************************************)
(* The APR-expiry alerts of one funding round: funding-round.service, the  *)
(* two routes that write the row without it, and the apr-expiry-checker    *)
(* job, whose worker runs one scan at a time.  Rounds never meet: a scan    *)
(* treats each apart from the others.                                      *)
(*                                                                         *)
(* Days are numbered; the windows are parameters, so that an instance may  *)
(* count in units of fifteen days.                                         *)
(***************************************************************************)
EXTENDS Integers

CONSTANTS
  W60, W30, W15,    \* the alert windows, in days
  LookAhead,        \* LOOK_AHEAD_DAYS
  LastDay,          \* bound: the days run to LastDay
  ExpiryDay,        \* the expiry dates that occur
  StatusSent,       \* the statuses that requests send
  MaxCompletions,   \* bound: how often completeRound writes
  RoundReq,         \* request slots
  NoDate, NoScan, NoRound

RoundStatus == {"planning", "in_progress", "active", "completed", "cancelled"}

ASSUME WindowAssumption ==
  /\ {W60, W30, W15, LookAhead, LastDay, MaxCompletions} \subseteq Nat
  /\ W15 < W30 /\ W30 < W60 /\ W60 <= LookAhead
ASSUME InputAssumption == ExpiryDay \subseteq 0..LastDay /\ StatusSent \subseteq RoundStatus

VARIABLES
  today,
  round,        \* the row: [status, expiry, sent], sent the alert flags set
  roundReq,     \* per slot: NoRound or the operation between its read and write
  scan,         \* NoScan, or the job: its date and the row as it read it
  unpublished,  \* windows flagged by the scan whose event is not yet out
  completions,  \* history: how often completeRound has written
  published     \* history: how many alerts have gone out, per window

roundVars == <<today, round, roundReq, scan, unpublished, completions, published>>

Day == 0..LastDay
Window == {W60, W30, W15}
Over == {"completed", "cancelled"}

Expiry == ExpiryDay \cup {NoDate}

Round == [status : RoundStatus, expiry : Expiry, sent : SUBSET Window]
Scan == [now : Day, expiry : ExpiryDay, sent : SUBSET Window]

\* The scan under way is told from none.
ASSUME NoScanAssumption == NoScan \notin Scan

UpdateOp == [op : {"update"}, status : StatusSent]
CompleteOp == [op : {"complete"}]

RoundTypeOK ==
  /\ today \in Day
  /\ round \in Round
  /\ roundReq \in [RoundReq -> UpdateOp \cup CompleteOp \cup {NoRound}]
  /\ scan \in Scan \cup {NoScan}
  /\ unpublished \subseteq Window
  /\ completions \in 0..MaxCompletions
  /\ published \in [Window -> Nat]

RoundInit ==
  /\ today = 0
  /\ round = [status |-> "planning", expiry |-> NoDate, sent |-> {}]
  /\ roundReq = [s \in RoundReq |-> NoRound]
  /\ scan = NoScan
  /\ unpublished = {}
  /\ completions = 0
  /\ published = [w \in Window |-> 0]

-----------------------------------------------------------------------------
NextDay ==
  /\ today < LastDay
  /\ today' = today + 1
  /\ UNCHANGED <<round, roundReq, scan, unpublished, completions, published>>

\* updateRound and completeRound read the row and refuse one that is over...
ReadRound(s, op) ==
  /\ roundReq[s] = NoRound
  /\ round.status \notin Over
  /\ roundReq' = [roundReq EXCEPT ![s] = op]
  /\ UNCHANGED <<today, round, scan, unpublished, completions, published>>

\* ... updateRound then writes the status it was sent (it may send an expiry too)...
WriteUpdateRound(s) ==
  /\ roundReq[s] # NoRound
  /\ roundReq[s].op = "update"
  /\ \E expiry \in ExpiryDay \cup {round.expiry} :
       round' = [round EXCEPT !.status = roundReq[s].status, !.expiry = expiry]
  /\ roundReq' = [roundReq EXCEPT ![s] = NoRound]
  /\ UNCHANGED <<today, scan, unpublished, completions, published>>

\* ... and completeRound the completion: the earliest expiry of the approved
\* cards, if any has one, and no alert sent.
WriteCompleteRound(s) ==
  /\ roundReq[s] # NoRound
  /\ roundReq[s].op = "complete"
  /\ completions < MaxCompletions
  /\ \E earliest \in Expiry :
       round' = [status |-> "completed", expiry |-> earliest, sent |-> {}]
  /\ completions' = completions + 1
  /\ roundReq' = [roundReq EXCEPT ![s] = NoRound]
  /\ UNCHANGED <<today, scan, unpublished, published>>

\* The two routes that write the status, and one of them the expiry, whatever the
\* round is in; neither touches the alert flags.
PutRound(status) ==
  /\ \E expiry \in Expiry :
       round' = [round EXCEPT !.status = status, !.expiry = expiry]
  /\ UNCHANGED <<today, roundReq, scan, unpublished, completions, published>>

-----------------------------------------------------------------------------
\* The date a job carries and its scan takes for today.  A job queued by triggerNow
\* has the day it was queued; every scheduled one has the date of the template,
\* which is the day the scheduler was last set up, however long ago.
JobDates == 0..today

\* runAprExpiryScan selects the round...
Candidate(now) ==
  /\ round.status = "completed"
  /\ round.expiry # NoDate
  /\ now <= round.expiry
  /\ round.expiry <= now + LookAhead
  /\ round.sent # Window

BeginScan(now) ==
  /\ scan = NoScan
  /\ Candidate(now)
  /\ scan' = [now |-> now, expiry |-> round.expiry, sent |-> round.sent]
  /\ UNCHANGED <<today, round, roundReq, unpublished, completions, published>>

\* ... and evaluateAprAlerts goes through the windows, widest first: those whose
\* flag was not set when the row was read and that the expiry has entered.
Due(w) == w \notin scan.sent /\ scan.expiry - scan.now <= w

\* Mutant: the flag is not stored.
FlagWindowInMemory(w) ==
  /\ scan # NoScan
  /\ unpublished = {}
  /\ Due(w)
  /\ \A x \in Window : Due(x) => x <= w
  /\ scan' = [scan EXCEPT !.sent = @ \cup {w}]
  /\ unpublished' = {w}
  /\ UNCHANGED <<today, round, roundReq, completions, published>>

\* The flag is set before the event is published...
FlagWindow(w) ==
  /\ scan # NoScan
  /\ unpublished = {}
  /\ Due(w)
  /\ \A x \in Window : Due(x) => x <= w
  /\ round' = [round EXCEPT !.sent = @ \cup {w}]
  /\ scan' = [scan EXCEPT !.sent = @ \cup {w}]
  /\ unpublished' = {w}
  /\ UNCHANGED <<today, roundReq, completions, published>>

Publish(w) ==
  /\ w \in unpublished
  /\ published' = [published EXCEPT ![w] = @ + 1]
  /\ unpublished' = {}
  /\ UNCHANGED <<today, round, roundReq, scan, completions>>

\* ... and if the publication fails, or the process dies, the scan is over for
\* this round: its error is logged, and the flag stays.
AbandonScan ==
  /\ scan # NoScan
  /\ scan' = NoScan
  /\ unpublished' = {}
  /\ UNCHANGED <<today, round, roundReq, completions, published>>

EndScan ==
  /\ scan # NoScan
  /\ unpublished = {}
  /\ \A w \in Window : ~Due(w)
  /\ scan' = NoScan
  /\ UNCHANGED <<today, round, roundReq, unpublished, completions, published>>

RoundNext ==
  \/ NextDay
  \/ \E s \in RoundReq, op \in UpdateOp \cup CompleteOp : ReadRound(s, op)
  \/ \E s \in RoundReq : WriteUpdateRound(s) \/ WriteCompleteRound(s)
  \/ \E status \in StatusSent : PutRound(status)
  \/ \E now \in JobDates : BeginScan(now)
  \/ \E w \in Window : FlagWindow(w) \/ Publish(w)
  \/ AbandonScan
  \/ EndScan

RoundSpec == RoundInit /\ [][RoundNext]_roundVars

-----------------------------------------------------------------------------
\* No window is announced more often than its flag was clear to begin with or was
\* cleared by a completion, however the scans, the completions, crashes and failed
\* publications interleave ("Mark the flag immediately to prevent duplicate fires",
\* funding-round.service.ts:356).
AlertsAtMostOncePerReset ==
  \A w \in Window : published[w] <= 1 + completions

\* An alert may come late, for its scan may carry an old date, but never early: when
\* it is published, the expiry the scan read is within the window.
NeverEarly ==
  \A w \in unpublished : scan.expiry - today <= w

\* Between scans, a window that is marked has been announced ("marks alertSentXX
\* flags so each window is fired exactly once per round", apr-expiry-checker.ts:9).
\* Refuted: the flag is written before the event is published, so a publication
\* that fails, or a process that dies in between, leaves a window marked that no
\* later scan announces.
MarkedWindowsFired ==
  scan = NoScan => \A w \in round.sent : published[w] > 0

=============================================================================
