--------------------------- MODULE DealCommittee ---------------------------
(***************************************************************************)
(* One deal review and the requests on it: deal-committee.service behind   *)
(* its routes.  A vote and an update read the row, and later write columns *)
(* computed from what they read; another request may have written in       *)
(* between.  A sign-off writes its own column only.                        *)
(*                                                                         *)
(* The ledger event each request publishes at its end is left out: nothing *)
(* in the service reads it back.                                           *)
(***************************************************************************)
EXTENDS FiniteSets, Naturals

CONSTANTS
  Member,     \* the members of the committee
  QUORUM,     \* three in castVote
  Choice,     \* the votes cast, of VoteChoice
  Ruling,     \* the statuses officers send, of ReviewStatus, and "keep"
  DeskReq,    \* request slots
  NoRequest

VARIABLES
  review,     \* the row: [status, votes, dated]
  signoffs,   \* the columns counselSignoff and accountantSignoff, as a set
  deskReq,    \* per slot: NoRequest or what the request read and will write
  stale,      \* history: slots whose row has been written since they read it
  ruled,      \* history: the status was last written by an update
  cleared     \* history: a response has said that both have signed off

committeeVars == <<review, signoffs, deskReq, stale, ruled, cleared>>

\* The abstract ballot, of which the row is the state.
Board == INSTANCE DealBallot WITH
  status <- review.status, votes <- review.votes, dated <- review.dated

Closed == {"approved", "approved_conditional", "rejected"}
ReviewStatus == Closed \cup {"pending", "in_review", "escalated"}
VoteChoice == {"approve", "reject", "abstain"}
SignoffType == {"counsel", "accountant"}
Ballots == [Member -> VoteChoice \cup {"none"}]

Row == [status : ReviewStatus, votes : Ballots, dated : BOOLEAN]
VoteRequest == [op : {"vote"}, member : Member, choice : Choice,
                votes : Ballots, dated : BOOLEAN]
UpdateRequest == [op : {"update"}, to : Ruling, dated : BOOLEAN]

ASSUME ChoiceAssumption == Choice \subseteq VoteChoice
ASSUME RulingAssumption == Ruling \subseteq ReviewStatus \cup {"keep"}

CommitteeTypeOK ==
  /\ review \in Row
  /\ signoffs \subseteq SignoffType
  /\ deskReq \in [DeskReq -> VoteRequest \cup UpdateRequest \cup {NoRequest}]
  /\ stale \subseteq DeskReq
  /\ ruled \in BOOLEAN
  /\ cleared \in BOOLEAN

-----------------------------------------------------------------------------
\* determineRiskTier, by the suitability score and the compliance risk.
RiskTier(score, risk) ==
  IF score < 30 \/ risk = "critical" THEN "critical"
  ELSE IF score < 50 \/ risk = "high" THEN "high"
  ELSE IF score < 70 \/ risk = "medium" THEN "elevated"
  ELSE "standard"

\* Mutant: the tier is written for the status.
InitialStatusTier(score, risk) == RiskTier(score, risk)

\* createDealReview writes a review that is escalated if its tier requires the
\* committee (requiresCommitteeEscalation) and pending otherwise.
InitialStatus(score, risk) ==
  IF RiskTier(score, risk) \in {"high", "critical"} THEN "escalated" ELSE "pending"

CommitteeInit ==
  /\ \E score \in {29, 30, 49, 50, 69, 70}, risk \in {"low", "medium", "high", "critical"} :
       review = [status |-> InitialStatus(score, risk),
                 votes |-> [m \in Member |-> "none"],
                 dated |-> FALSE]
  /\ signoffs = {}
  /\ deskReq = [s \in DeskReq |-> NoRequest]
  /\ stale = {}
  /\ ruled = FALSE
  /\ cleared = FALSE

-----------------------------------------------------------------------------
Voters(v) == {m \in Member : v[m] # "none"}
Count(v, choice) == Cardinality({m \in Member : v[m] = choice})
Quorate(v) == Cardinality(Voters(v)) >= QUORUM

\* The status a vote writes: a decision at quorum, by majority, else in_review.
Outcome(v) ==
  IF ~Quorate(v) THEN "in_review"
  ELSE IF Count(v, "approve") > Count(v, "reject") THEN "approved" ELSE "rejected"

Busy(s) == deskReq[s] # NoRequest

\* A write of slot s ends its request and makes what the others have read stale.
EndRequest(s) ==
  /\ deskReq' = [deskReq EXCEPT ![s] = NoRequest]
  /\ stale' = {x \in DeskReq : Busy(x)} \ {s}

\* Mutant: a second vote of a member is not refused.
ReadVoteAgain(s, m, choice) ==
  /\ ~Busy(s)
  /\ review.status \notin Closed
  /\ deskReq' = [deskReq EXCEPT ![s] =
       [op |-> "vote", member |-> m, choice |-> choice,
        votes |-> review.votes, dated |-> review.dated]]
  /\ UNCHANGED <<review, signoffs, stale, ruled, cleared>>

\* castVote reads the review, and refuses a closed one and a second vote.
ReadVote(s, m, choice) ==
  /\ ~Busy(s)
  /\ review.status \notin Closed
  /\ review.votes[m] = "none"
  /\ deskReq' = [deskReq EXCEPT ![s] =
       [op |-> "vote", member |-> m, choice |-> choice,
        votes |-> review.votes, dated |-> review.dated]]
  /\ UNCHANGED <<review, signoffs, stale, ruled, cleared>>

\* Mutant: the votes are counted before the new one is added.
WriteVoteCountedEarly(s) ==
  /\ Busy(s)
  /\ deskReq[s].op = "vote"
  /\ LET updated == [deskReq[s].votes EXCEPT ![deskReq[s].member] = deskReq[s].choice]
     IN  review' = [status |-> Outcome(deskReq[s].votes),
                    votes |-> updated,
                    dated |-> deskReq[s].dated \/ Quorate(deskReq[s].votes)]
  /\ EndRequest(s)
  /\ ruled' = FALSE
  /\ UNCHANGED <<signoffs, cleared>>

\* ... and writes the votes it read with one more, and what follows from them.
WriteVote(s) ==
  /\ Busy(s)
  /\ deskReq[s].op = "vote"
  /\ LET updated == [deskReq[s].votes EXCEPT ![deskReq[s].member] = deskReq[s].choice]
     IN  review' = [status |-> Outcome(updated),
                    votes |-> updated,
                    dated |-> deskReq[s].dated \/ Quorate(updated)]
  /\ EndRequest(s)
  /\ ruled' = FALSE
  /\ UNCHANGED <<signoffs, cleared>>

\* updateDealReview reads the review; it refuses no status.
ReadUpdate(s, to) ==
  /\ ~Busy(s)
  /\ deskReq' = [deskReq EXCEPT ![s] = [op |-> "update", to |-> to, dated |-> review.dated]]
  /\ UNCHANGED <<review, signoffs, stale, ruled, cleared>>

\* ... and writes the status, if one was sent, and decidedAt, always.
WriteUpdate(s) ==
  /\ Busy(s)
  /\ deskReq[s].op = "update"
  /\ LET to == deskReq[s].to
     IN  /\ review' = [review EXCEPT
              !.status = IF to = "keep" THEN @ ELSE to,
              !.dated = to \in Closed \/ deskReq[s].dated]
         /\ ruled' = (ruled \/ to # "keep")
  /\ EndRequest(s)
  /\ UNCHANGED <<signoffs, cleared>>

\* Mutant: the answer is taken from the row as it was before.
RecordSignoffFromOldRow(type) ==
  /\ signoffs' = signoffs \cup {type}
  /\ cleared' = (cleared \/ signoffs = SignoffType)
  /\ UNCHANGED <<review, deskReq, stale, ruled>>

\* recordSignoff writes one column and answers from the row the write returned.
RecordSignoff(type) ==
  /\ signoffs' = signoffs \cup {type}
  /\ cleared' = (cleared \/ signoffs' = SignoffType)
  /\ UNCHANGED <<review, deskReq, stale, ruled>>

CommitteeNext ==
  \/ \E s \in DeskReq, m \in Member, choice \in Choice : ReadVote(s, m, choice)
  \/ \E s \in DeskReq, to \in Ruling : ReadUpdate(s, to)
  \/ \E s \in DeskReq : WriteVote(s) \/ WriteUpdate(s)
  \/ \E type \in SignoffType : RecordSignoff(type)

CommitteeSpec == CommitteeInit /\ [][CommitteeNext]_committeeVars

-----------------------------------------------------------------------------
\* Whatever votes and updates overlap, the stored votes and the stored status tell
\* one story: unless an officer ruled, the status is the outcome of the very votes
\* stored with it, so no decision rests on votes that are gone (castVote writes
\* votes, status and date in one update).
StatusMatchesVotes ==
  ~ruled /\ Voters(review.votes) # {} => review.status = Outcome(review.votes)

\* A review changes as the ballot promises, except by a request that read it
\* before another one wrote: a vote is lost, a closed review reopened or its date
\* erased only that way (the read and the write of castVote and of
\* updateDealReview, with nothing held between them).
StaleWrite == \E s \in stale : WriteVote(s) \/ WriteUpdate(s)
OnlyOverlapsBreakBallot ==
  Board!BallotInit /\ [][StaleWrite \/ Board!BallotNext]_review

\* Once counsel and accountant have both signed, someone has been told so, in
\* whichever order and however close together they signed (bothSignedOff is taken
\* from the row the update returns, not from the one read before).
BothSignoffsNoticed == signoffs = SignoffType => cleared

============================================================================
