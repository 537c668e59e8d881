----------------------------- MODULE DealBallot ----------------------------
(***************************************************************************)
(* What a deal committee promises about one review when its requests do    *)
(* not overlap: a member votes at most once and only while the review is   *)
(* open, the third vote decides it by majority, an officer may rule        *)
(* otherwise, and a review that is closed has a decision date.             *)
(***************************************************************************)
EXTENDS FiniteSets, Naturals

CONSTANTS Member, QUORUM

VARIABLES
  status,   \* REVIEW_STATUS
  votes,    \* per member: "none" or the vote
  dated     \* whether decidedAt is set

ballotVars == <<status, votes, dated>>

Vote == {"approve", "reject", "abstain"}
Closed == {"approved", "approved_conditional", "rejected"}
ReviewStatus == Closed \cup {"pending", "in_review", "escalated"}

Voters(v) == {m \in Member : v[m] # "none"}
Count(v, choice) == Cardinality({m \in Member : v[m] = choice})

Quorate(v) == Cardinality(Voters(v)) >= QUORUM

\* Quorum is three votes, abstentions included; a majority of approvals wins.
Verdict(v) ==
  IF ~Quorate(v) THEN "in_review"
  ELSE IF Count(v, "approve") > Count(v, "reject") THEN "approved" ELSE "rejected"

BallotInit ==
  /\ status \in {"pending", "escalated"}
  /\ votes = [m \in Member |-> "none"]
  /\ dated = FALSE

Cast(m, choice) ==
  /\ status \notin Closed
  /\ votes[m] = "none"
  /\ votes' = [votes EXCEPT ![m] = choice]
  /\ status' = Verdict(votes')
  /\ dated' = (dated \/ Quorate(votes'))

Rule(to) ==
  /\ status' = to
  /\ dated' = (dated \/ to \in Closed)
  /\ UNCHANGED votes

BallotNext ==
  \/ \E m \in Member, choice \in Vote : Cast(m, choice)
  \/ \E to \in ReviewStatus : Rule(to)

BallotSpec == BallotInit /\ [][BallotNext]_ballotVars

\* What the ballot keeps: a vote once cast stands, a closed review has its decision
\* date, and a date once set is not erased.
ClosedIsDated == status \in Closed => dated

VotesStand ==
  [][/\ \A m \in Member : votes[m] # "none" => votes'[m] = votes[m]
     /\ dated => dated']_ballotVars

============================================================================
