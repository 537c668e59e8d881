----------------------------- MODULE DealProofs ----------------------------
(***************************************************************************)
(* The safety properties of DealCommittee, for any committee, quorum and   *)
(* requests, and of FundingRounds, for any windows, dates and requests.    *)
(*                                                                         *)
(* Review: a request that nobody overtook still holds what the row holds   *)
(* (Fresh), so its write is the ballot's; the tally needs no more than     *)
(* that votes and status are written together.                             *)
(*                                                                         *)
(* Alerts: a window in hand or gone out is matched by a completion or by   *)
(* its flag (Matched), and a scan never sees fewer flags than are set.     *)
(*                                                                         *)
(* And what each falls short of: the review is the ballot if no write      *)
(* comes too late, and a window marked is announced if no alert is lost.   *)
(***************************************************************************)
EXTENDS DealCommittee, FundingRounds, TLAPS

\* What a request that nobody overtook has read is what the row still holds.
Fresh(s) ==
  s \notin stale /\ Busy(s) =>
    /\ deskReq[s].dated = review.dated
    /\ deskReq[s].op = "vote" => /\ deskReq[s].votes = review.votes
                                 /\ review.status \notin Closed
                                 /\ review.votes[deskReq[s].member] = "none"

CommitteeInv ==
  /\ CommitteeTypeOK
  /\ \A s \in DeskReq : Fresh(s)
  /\ StatusMatchesVotes
  /\ BothSignoffsNoticed

-----------------------------------------------------------------------------
\* The status a vote writes is one of the review's.
LEMMA OutcomeStatus == \A v : Outcome(v) \in ReviewStatus
BY DEF Outcome, ReviewStatus, Closed

LEMMA InitCommittee == CommitteeInit => CommitteeInv
<1> SUFFICES ASSUME CommitteeInit PROVE CommitteeInv
  OBVIOUS
<1>1. PICK st \in ReviewStatus :
        review = [status |-> st, votes |-> [m \in Member |-> "none"], dated |-> FALSE]
  BY DEF CommitteeInit, InitialStatus, ReviewStatus
<1>2. [m \in Member |-> "none"] \in Ballots
  BY DEF Ballots
<1>3. review \in Row
  BY <1>1, <1>2 DEF Row
<1>4. Voters(review.votes) = {}
  BY <1>1 DEF Voters
<1>5. CommitteeTypeOK
  BY <1>3 DEF CommitteeInit, CommitteeTypeOK
<1>6. \A s \in DeskReq : Fresh(s)
  BY DEF CommitteeInit, Fresh, Busy
<1>7. StatusMatchesVotes /\ BothSignoffsNoticed
  BY <1>4 DEF CommitteeInit, StatusMatchesVotes, BothSignoffsNoticed, SignoffType
<1> QED
  BY <1>5, <1>6, <1>7 DEF CommitteeInv

\* The end of a request leaves the others overtaken.
LEMMA EndsFresh ==
  ASSUME CommitteeTypeOK, NEW s \in DeskReq, EndRequest(s)
  PROVE  /\ deskReq' \in [DeskReq -> VoteRequest \cup UpdateRequest \cup {NoRequest}]
         /\ stale' \subseteq DeskReq
         /\ \A x \in DeskReq : Fresh(x)'
<1>1. \A x \in DeskReq : x # s => deskReq'[x] = deskReq[x]
  BY DEF EndRequest, CommitteeTypeOK
<1>2. deskReq'[s] = NoRequest
  BY DEF EndRequest, CommitteeTypeOK
<1>3. \A x \in DeskReq : Busy(x)' => x \in stale'
  BY <1>1, <1>2 DEF EndRequest, Busy
<1>4. \A x \in DeskReq : Fresh(x)'
  BY <1>3 DEF Fresh
<1> QED
  BY <1>4 DEF EndRequest, CommitteeTypeOK

\* A request that begins leaves the others as they were.
LEMMA BeginsFresh ==
  ASSUME CommitteeInv, NEW s \in DeskReq, NEW request,
         deskReq' = [deskReq EXCEPT ![s] = request],
         UNCHANGED <<review, signoffs, stale, ruled, cleared>>,
         request \in VoteRequest \cup UpdateRequest,
         Fresh(s)'
  PROVE  CommitteeInv'
<1>1. \A x \in DeskReq : x # s => deskReq'[x] = deskReq[x]
  BY DEF CommitteeInv, CommitteeTypeOK
<1>2. \A x \in DeskReq : x # s => Fresh(x)'
  BY <1>1 DEF CommitteeInv, Fresh, Busy
<1>3. CommitteeTypeOK'
  BY DEF CommitteeInv, CommitteeTypeOK
<1> QED
  BY <1>2, <1>3 DEF CommitteeInv, StatusMatchesVotes, BothSignoffsNoticed

LEMMA ReadVoteKeeps ==
  ASSUME CommitteeInv, NEW s \in DeskReq, NEW m \in Member, NEW choice \in Choice,
         ReadVote(s, m, choice)
  PROVE  CommitteeInv'
<1> DEFINE request == [op |-> "vote", member |-> m, choice |-> choice,
                       votes |-> review.votes, dated |-> review.dated]
<1>1. deskReq'[s] = request
  BY DEF ReadVote, CommitteeInv, CommitteeTypeOK
<1>2. request \in VoteRequest
  BY DEF CommitteeInv, CommitteeTypeOK, Row, VoteRequest
<1>3. Fresh(s)'
  BY <1>1 DEF ReadVote, Fresh
<1> QED
  BY <1>2, <1>3, BeginsFresh DEF ReadVote

LEMMA ReadUpdateKeeps ==
  ASSUME CommitteeInv, NEW s \in DeskReq, NEW to \in Ruling, ReadUpdate(s, to)
  PROVE  CommitteeInv'
<1> DEFINE request == [op |-> "update", to |-> to, dated |-> review.dated]
<1>1. deskReq'[s] = request
  BY DEF ReadUpdate, CommitteeInv, CommitteeTypeOK
<1>2. request \in UpdateRequest
  BY DEF CommitteeInv, CommitteeTypeOK, Row, UpdateRequest
<1>3. Fresh(s)'
  BY <1>1 DEF ReadUpdate, Fresh
<1> QED
  BY <1>2, <1>3, BeginsFresh DEF ReadUpdate

\* What is under way to be written, by kind.
LEMMA UnderWay ==
  ASSUME CommitteeTypeOK, NEW s \in DeskReq, Busy(s)
  PROVE  /\ deskReq[s].op = "vote" => deskReq[s] \in VoteRequest
         /\ deskReq[s].op = "update" => deskReq[s] \in UpdateRequest
         /\ deskReq[s].dated \in BOOLEAN
<1>1. deskReq[s] \in VoteRequest \cup UpdateRequest
  BY DEF CommitteeTypeOK, Busy
<1>2. CASE deskReq[s] \in VoteRequest
  BY <1>2 DEF VoteRequest
<1>3. CASE deskReq[s] \in UpdateRequest
  BY <1>3 DEF UpdateRequest
<1> QED
  BY <1>1, <1>2, <1>3

LEMMA WriteVoteKeeps ==
  ASSUME CommitteeInv, NEW s \in DeskReq, WriteVote(s)
  PROVE  CommitteeInv'
<1> DEFINE updated == [deskReq[s].votes EXCEPT ![deskReq[s].member] = deskReq[s].choice]
<1>1. deskReq[s] \in VoteRequest
  BY UnderWay DEF WriteVote, CommitteeInv
<1>2. updated \in Ballots
  BY <1>1, ChoiceAssumption DEF VoteRequest, Ballots
<1> HIDE DEF updated
<1>3. review' = [status |-> Outcome(updated), votes |-> updated,
                 dated |-> deskReq[s].dated \/ Quorate(updated)]
  BY DEF WriteVote, updated
<1>4. (deskReq[s].dated \/ Quorate(updated)) \in BOOLEAN
  OBVIOUS
<1>5. review' \in Row
  BY <1>2, <1>3, <1>4, OutcomeStatus DEF Row
<1>6. /\ deskReq' \in [DeskReq -> VoteRequest \cup UpdateRequest \cup {NoRequest}]
      /\ stale' \subseteq DeskReq
      /\ \A x \in DeskReq : Fresh(x)'
  BY EndsFresh DEF WriteVote, CommitteeInv
<1>7. CommitteeTypeOK'
  BY <1>5, <1>6 DEF CommitteeInv, CommitteeTypeOK, WriteVote
<1>8. StatusMatchesVotes'
  BY <1>3 DEF StatusMatchesVotes, Outcome, Quorate, Voters, Count
<1>9. BothSignoffsNoticed'
  BY DEF CommitteeInv, BothSignoffsNoticed, WriteVote
<1> QED
  BY <1>6, <1>7, <1>8, <1>9 DEF CommitteeInv

LEMMA WriteUpdateKeeps ==
  ASSUME CommitteeInv, NEW s \in DeskReq, WriteUpdate(s)
  PROVE  CommitteeInv'
<1> DEFINE to == deskReq[s].to
           status == IF to = "keep" THEN review.status ELSE to
           dated == to \in Closed \/ deskReq[s].dated
<1>1. deskReq[s] \in UpdateRequest
  BY UnderWay DEF WriteUpdate, CommitteeInv
<1>2. to \in Ruling
  BY <1>1 DEF UpdateRequest
<1>3. review' = [review EXCEPT !.status = status, !.dated = dated]
  BY DEF WriteUpdate
<1>4. status \in ReviewStatus /\ dated \in BOOLEAN
  BY <1>2, RulingAssumption DEF CommitteeInv, CommitteeTypeOK, Row
<1> HIDE DEF status, dated
<1>5. /\ review' \in Row
      /\ review'.status = status
      /\ review'.votes = review.votes
  BY <1>3, <1>4 DEF CommitteeInv, CommitteeTypeOK, Row
<1>6. /\ deskReq' \in [DeskReq -> VoteRequest \cup UpdateRequest \cup {NoRequest}]
      /\ stale' \subseteq DeskReq
      /\ \A x \in DeskReq : Fresh(x)'
  BY EndsFresh DEF WriteUpdate, CommitteeInv
<1>7. ruled' = (ruled \/ to # "keep")
  BY DEF WriteUpdate
<1>8. CommitteeTypeOK'
  BY <1>5, <1>6, <1>7 DEF CommitteeInv, CommitteeTypeOK, WriteUpdate
<1>9. StatusMatchesVotes'
  <2>1. SUFFICES ASSUME ~ruled', Voters(review'.votes) # {}
                 PROVE  review'.status = Outcome(review'.votes)
    BY DEF StatusMatchesVotes, Outcome, Quorate, Voters, Count
  <2>2. ~ruled /\ to = "keep"
    BY <1>7, <2>1
  <2>3. review.status = Outcome(review.votes)
    BY <1>5, <2>1, <2>2 DEF CommitteeInv, StatusMatchesVotes
  <2> QED
    BY <1>5, <2>2, <2>3 DEF status
<1>10. BothSignoffsNoticed'
  BY DEF CommitteeInv, BothSignoffsNoticed, WriteUpdate
<1> QED
  BY <1>6, <1>8, <1>9, <1>10 DEF CommitteeInv

LEMMA SignoffKeeps ==
  ASSUME CommitteeInv, NEW type \in SignoffType, RecordSignoff(type)
  PROVE  CommitteeInv'
<1>1. CommitteeTypeOK'
  BY DEF CommitteeInv, CommitteeTypeOK, RecordSignoff
<1>2. \A s \in DeskReq : Fresh(s)'
  BY DEF CommitteeInv, Fresh, Busy, RecordSignoff
<1>3. StatusMatchesVotes'
  BY DEF CommitteeInv, StatusMatchesVotes, RecordSignoff
<1>4. BothSignoffsNoticed'
  BY DEF BothSignoffsNoticed, RecordSignoff
<1> QED
  BY <1>1, <1>2, <1>3, <1>4 DEF CommitteeInv

LEMMA CommitteeInductive ==
  ASSUME CommitteeInv, [CommitteeNext]_committeeVars
  PROVE  CommitteeInv'
<1>1. CASE UNCHANGED committeeVars
  BY <1>1 DEF committeeVars, CommitteeInv, CommitteeTypeOK, Fresh, Busy, StatusMatchesVotes,
              BothSignoffsNoticed
<1>2. CASE CommitteeNext
  BY <1>2, ReadVoteKeeps, ReadUpdateKeeps, WriteVoteKeeps, WriteUpdateKeeps, SignoffKeeps
     DEF CommitteeNext
<1> QED
  BY <1>1, <1>2

-----------------------------------------------------------------------------
(* A write that nobody overtook is a step of the ballot.                   *)

LEMMA FreshVoteCasts ==
  ASSUME CommitteeInv, NEW s \in DeskReq, s \notin stale, WriteVote(s)
  PROVE  Board!BallotNext
<1> DEFINE m == deskReq[s].member
           choice == deskReq[s].choice
           updated == [deskReq[s].votes EXCEPT ![m] = choice]
<1>1. deskReq[s] \in VoteRequest /\ Busy(s) /\ deskReq[s].op = "vote"
  BY UnderWay DEF WriteVote, CommitteeInv
<1>2. m \in Member /\ choice \in Board!Vote
  BY <1>1, ChoiceAssumption DEF VoteRequest, VoteChoice, Board!Vote
<1>3. /\ deskReq[s].votes = review.votes
      /\ deskReq[s].dated = review.dated
      /\ review.status \notin Closed
      /\ review.votes[m] = "none"
  BY <1>1 DEF CommitteeInv, Fresh
<1>4. /\ review'.votes = [review.votes EXCEPT ![m] = choice]
      /\ review'.status = Outcome(review'.votes)
      /\ review'.dated = (review.dated \/ Quorate(review'.votes))
  BY <1>3 DEF WriteVote
<1>5. Board!Cast(m, choice)
  <2>1. \A S : Board!Cardinality(S) = Cardinality(S)
    BY DEF Board!Cardinality, Cardinality
  <2>2. \A v : Board!Quorate(v) = Quorate(v)
    BY <2>1 DEF Board!Quorate, Quorate, Board!Voters, Voters
  <2>3. \A v : Board!Verdict(v) = Outcome(v)
    BY <2>1, <2>2 DEF Board!Verdict, Outcome, Board!Count, Count
  <2>4. review.status \notin Board!Closed
    BY <1>3 DEF Board!Closed, Closed
  <2> HIDE DEF m, choice
  <2> QED
    BY <1>3, <1>4, <2>2, <2>3, <2>4 DEF Board!Cast
<1> QED
  BY <1>2, <1>5 DEF Board!BallotNext

LEMMA FreshUpdateRules ==
  ASSUME CommitteeInv, NEW s \in DeskReq, s \notin stale, WriteUpdate(s)
  PROVE  Board!BallotNext \/ UNCHANGED review
<1> DEFINE to == deskReq[s].to
<1>1. deskReq[s] \in UpdateRequest /\ Busy(s)
  BY UnderWay DEF WriteUpdate, CommitteeInv
<1>2. to \in Ruling
  BY <1>1 DEF UpdateRequest
<1>3. deskReq[s].dated = review.dated /\ review \in Row
  BY <1>1 DEF CommitteeInv, Fresh, CommitteeTypeOK
<1>4. CASE to = "keep"
  <2>1. review' = [review EXCEPT !.status = review.status, !.dated = review.dated]
    BY <1>3, <1>4 DEF WriteUpdate, Closed, Row
  <2> QED
    BY <1>3, <2>1 DEF Row
<1>5. CASE to # "keep"
  <2>1. review' = [review EXCEPT !.status = to, !.dated = to \in Closed \/ review.dated]
    BY <1>3, <1>5 DEF WriteUpdate
  <2>2. /\ review'.status = to
        /\ review'.votes = review.votes
        /\ review'.dated = (review.dated \/ to \in Closed)
    BY <1>3, <2>1 DEF Row
  <2>3. Board!Rule(to)
    BY <2>2 DEF Board!Rule, Board!Closed, Closed
  <2>4. to \in Board!ReviewStatus
    BY <1>2, <1>5, RulingAssumption DEF ReviewStatus, Closed, Board!ReviewStatus, Board!Closed
  <2> QED
    BY <2>3, <2>4 DEF Board!BallotNext
<1> QED
  BY <1>4, <1>5

\* The strengthening is invariant.
THEOREM CommitteeInvariant == CommitteeSpec => []CommitteeInv
BY InitCommittee, CommitteeInductive, PTL DEF CommitteeSpec

\* Every reachable state is of the declared type.
THEOREM CommitteeTypeCorrect == CommitteeSpec => []CommitteeTypeOK
<1>1. CommitteeInv => CommitteeTypeOK
  BY DEF CommitteeInv
<1> QED
  BY <1>1, CommitteeInvariant, PTL

\* Whatever overlaps, a status no officer wrote is the outcome of the stored votes.
THEOREM OneStory == CommitteeSpec => []StatusMatchesVotes
<1>1. CommitteeInv => StatusMatchesVotes
  BY DEF CommitteeInv
<1> QED
  BY <1>1, CommitteeInvariant, PTL

\* When both have signed off, somebody was told so.
THEOREM SignoffsNoticed == CommitteeSpec => []BothSignoffsNoticed
<1>1. CommitteeInv => BothSignoffsNoticed
  BY DEF CommitteeInv
<1> QED
  BY <1>1, CommitteeInvariant, PTL

\* The review implements the ballot, step by step, but for the writes of requests
\* that another overtook.
THEOREM ReviewFollowsBallot == CommitteeSpec => OnlyOverlapsBreakBallot
<1>1. CommitteeInit => Board!BallotInit
  BY DEF CommitteeInit, InitialStatus, Board!BallotInit
<1>2. ASSUME CommitteeInv, [CommitteeNext]_committeeVars
      PROVE  [StaleWrite \/ Board!BallotNext]_review
  <2>1. CASE UNCHANGED committeeVars
    BY <2>1 DEF committeeVars
  <2>2. ASSUME NEW s \in DeskReq, NEW m \in Member, NEW choice \in Choice,
               ReadVote(s, m, choice)
        PROVE  UNCHANGED review
    BY <2>2 DEF ReadVote
  <2>3. ASSUME NEW s \in DeskReq, NEW to \in Ruling, ReadUpdate(s, to)
        PROVE  UNCHANGED review
    BY <2>3 DEF ReadUpdate
  <2>4. ASSUME NEW s \in DeskReq, WriteVote(s)
        PROVE  StaleWrite \/ Board!BallotNext
    BY <1>2, <2>4, FreshVoteCasts DEF StaleWrite, CommitteeInv, CommitteeTypeOK
  <2>5. ASSUME NEW s \in DeskReq, WriteUpdate(s)
        PROVE  StaleWrite \/ Board!BallotNext \/ UNCHANGED review
    BY <1>2, <2>5, FreshUpdateRules DEF StaleWrite, CommitteeInv, CommitteeTypeOK
  <2>6. ASSUME NEW type \in SignoffType, RecordSignoff(type)
        PROVE  UNCHANGED review
    BY <2>6 DEF RecordSignoff
  <2> QED
    BY <1>2, <2>1, <2>2, <2>3, <2>4, <2>5, <2>6 DEF CommitteeNext
<1> QED
  BY <1>1, <1>2, CommitteeInvariant, PTL DEF CommitteeSpec, OnlyOverlapsBreakBallot

\* The ballot keeps what is promised of it: a vote stands, a closed review is dated,
\* and its date is not erased.
THEOREM BallotKeeps == Board!BallotSpec => []Board!ClosedIsDated /\ Board!VotesStand
<1> DEFINE Typed == review.votes = [m \in Member |-> review.votes[m]]
           Stand == /\ \A m \in Member : review.votes[m] # "none" => review.votes'[m] = review.votes[m]
                    /\ review.dated => review.dated'
           Inv == Typed /\ Board!ClosedIsDated
<1>1. Board!BallotInit => Inv
  BY DEF Board!BallotInit, Board!ClosedIsDated, Board!Closed
<1>2. ASSUME Inv, Board!BallotNext
      PROVE  Inv' /\ Stand
  <2>1. ASSUME NEW m \in Member, NEW choice \in Board!Vote, Board!Cast(m, choice)
        PROVE  Inv' /\ Stand
    <3>1. /\ review.votes[m] = "none"
          /\ review'.votes = [review.votes EXCEPT ![m] = choice]
          /\ review'.status = Board!Verdict(review'.votes)
          /\ review'.dated = (review.dated \/ Board!Quorate(review'.votes))
      BY <2>1 DEF Board!Cast
    <3>2. ~Board!Quorate(review'.votes) => Board!Verdict(review'.votes) \notin Board!Closed
      BY DEF Board!Verdict, Board!Closed
    <3>3. Board!ClosedIsDated'
      BY <3>1, <3>2 DEF Board!ClosedIsDated
    <3>4. Typed' /\ \A x \in Member : review.votes[x] # "none" => review'.votes[x] = review.votes[x]
      BY <1>2, <3>1
    <3> QED
      BY <3>1, <3>3, <3>4
  <2>2. ASSUME NEW to \in Board!ReviewStatus, Board!Rule(to)
        PROVE  Inv' /\ Stand
    BY <1>2, <2>2 DEF Board!Rule, Board!ClosedIsDated
  <2> HIDE DEF Inv, Stand
  <2> QED
    BY <1>2, <2>1, <2>2 DEF Board!BallotNext
<1>3. Inv /\ [Board!BallotNext]_(Board!ballotVars) => Inv' /\ [Stand]_(Board!ballotVars)
  BY <1>2 DEF Board!ballotVars, Board!ClosedIsDated
<1>4. Inv => Board!ClosedIsDated
  OBVIOUS
<1> HIDE DEF Inv
<1> QED
  BY <1>1, <1>3, <1>4, PTL DEF Board!BallotSpec, Board!VotesStand

\* If a write is refused whenever the row has been written since it was read, as a
\* version column would have it, the review is the ballot: castVote and
\* updateDealReview need nothing else.
THEOREM CheckedReviewIsBallot ==
  CommitteeSpec /\ [][~StaleWrite]_committeeVars => Board!BallotSpec
<1>1. [StaleWrite \/ Board!BallotNext]_review /\ [~StaleWrite]_committeeVars
        => [Board!BallotNext]_(Board!ballotVars)
  BY DEF committeeVars, Board!ballotVars
<1> QED
  BY <1>1, ReviewFollowsBallot, PTL DEF OnlyOverlapsBreakBallot, Board!BallotSpec

\* One request at a time.
OneDesk == \A s, t \in DeskReq : s = t

\* Requests one at a time overtake none, so the review they work on is the ballot as
\* the code stands, and keeps what the ballot does.
THEOREM SerialReviewIsBallot ==
  ASSUME OneDesk
  PROVE  CommitteeSpec => /\ Board!BallotSpec
                          /\ []Board!ClosedIsDated /\ Board!VotesStand
<1> DEFINE NoneStale == stale = {}
<1>1. CommitteeInit => NoneStale
  BY DEF CommitteeInit
<1>2. NoneStale /\ [CommitteeNext]_committeeVars => NoneStale'
  BY DEF CommitteeNext, committeeVars, ReadVote, ReadUpdate, WriteVote, WriteUpdate,
     RecordSignoff, EndRequest, OneDesk
<1>3. NoneStale => [~StaleWrite]_committeeVars
  BY DEF StaleWrite
<1>4. CommitteeSpec => Board!BallotSpec
  <2> HIDE DEF NoneStale
  <2> QED
    BY <1>1, <1>2, <1>3, CheckedReviewIsBallot, PTL DEF CommitteeSpec
<1> QED
  BY <1>4, BallotKeeps, PTL

-----------------------------------------------------------------------------
(* Funding rounds.                                                         *)

Flagged(w) == IF w \in round.sent THEN 1 ELSE 0
InHand(w) == IF w \in unpublished THEN 1 ELSE 0

\* Every alert gone out or in hand is matched by a completion or by the flag.
Matched == \A w \in Window : published[w] + InHand(w) <= completions + Flagged(w)

\* The scan sees every flag that is set, and holds an alert that is due.
ScanSound ==
  /\ scan # NoScan => round.sent \subseteq scan.sent /\ scan.now <= today
  /\ \A w \in unpublished : scan # NoScan /\ scan.expiry - scan.now <= w

RoundInv == RoundTypeOK /\ Matched /\ ScanSound

\* A step that leaves the scan and the alerts alone, and clears flags only for a
\* completion, keeps it all.
LEMMA RowWritesKeep ==
  ASSUME RoundInv, RoundTypeOK',
         UNCHANGED <<scan, unpublished, published>>, today <= today',
         \/ round'.sent = round.sent /\ completions' = completions
         \/ round'.sent = {} /\ completions' = completions + 1
  PROVE  RoundInv'
<1>1. completions \in Nat /\ today \in Int /\ today' \in Int
  BY WindowAssumption DEF RoundInv, RoundTypeOK, Day
<1>2. Matched'
  <2> SUFFICES ASSUME NEW w \in Window
               PROVE  published'[w] + InHand(w)' <= completions' + Flagged(w)'
    BY DEF Matched, Window
  <2>1. /\ published[w] \in Nat
        /\ InHand(w) \in {0, 1} /\ Flagged(w) \in {0, 1}
        /\ published[w] + InHand(w) <= completions + Flagged(w)
    BY DEF RoundInv, RoundTypeOK, Matched, InHand, Flagged
  <2>2. InHand(w)' = InHand(w) /\ published'[w] = published[w]
    BY DEF InHand
  <2>3. CASE round'.sent = round.sent /\ completions' = completions
    BY <2>1, <2>2, <2>3 DEF Flagged
  <2>4. CASE round'.sent = {} /\ completions' = completions + 1
    <3>1. Flagged(w)' = 0
      BY <2>4 DEF Flagged
    <3> QED
      BY <1>1, <2>1, <2>2, <2>4, <3>1
  <2> QED
    BY <2>3, <2>4
<1>3. ScanSound'
  <2>1. ASSUME scan # NoScan
        PROVE  round'.sent \subseteq scan.sent /\ scan.now <= today'
    <3>1. scan.now \in Int /\ scan.now <= today /\ round.sent \subseteq scan.sent
      BY <2>1, WindowAssumption DEF RoundInv, RoundTypeOK, Scan, Day, ScanSound
    <3> QED
      BY <1>1, <3>1
  <2> QED
    BY <2>1 DEF RoundInv, ScanSound
<1> QED
  BY <1>2, <1>3 DEF RoundInv

LEMMA InitRound == RoundInit => RoundInv
<1> SUFFICES ASSUME RoundInit PROVE RoundInv
  OBVIOUS
<1>1. RoundTypeOK
  BY WindowAssumption DEF RoundInit, RoundTypeOK, Day, Round, RoundStatus, Expiry
<1>2. Matched
  BY DEF RoundInit, Matched, InHand, Flagged
<1>3. ScanSound
  BY DEF RoundInit, ScanSound
<1> QED
  BY <1>1, <1>2, <1>3 DEF RoundInv

LEMMA NextDayKeeps ==
  ASSUME RoundInv, NextDay
  PROVE  RoundInv'
<1>1. today \in Int /\ today' = today + 1 /\ today' \in Day
  BY WindowAssumption DEF RoundInv, RoundTypeOK, NextDay, Day
<1>2. RoundTypeOK'
  BY <1>1 DEF RoundInv, RoundTypeOK, NextDay
<1>3. today <= today'
  BY <1>1
<1> QED
  BY <1>2, <1>3, RowWritesKeep DEF NextDay

LEMMA ReadRoundKeeps ==
  ASSUME RoundInv, NEW s \in RoundReq, NEW op \in UpdateOp \cup CompleteOp, ReadRound(s, op)
  PROVE  RoundInv'
<1>1. RoundTypeOK'
  BY DEF RoundInv, RoundTypeOK, ReadRound
<1>2. today <= today'
  BY WindowAssumption DEF RoundInv, RoundTypeOK, ReadRound, Day
<1> QED
  BY <1>1, <1>2, RowWritesKeep DEF ReadRound

LEMMA UpdateRoundKeeps ==
  ASSUME RoundInv, NEW s \in RoundReq, WriteUpdateRound(s)
  PROVE  RoundInv'
<1>1. roundReq[s] \in UpdateOp
  BY DEF RoundInv, RoundTypeOK, WriteUpdateRound, UpdateOp, CompleteOp
<1>2. PICK expiry \in ExpiryDay \cup {round.expiry} :
        round' = [round EXCEPT !.status = roundReq[s].status, !.expiry = expiry]
  BY DEF WriteUpdateRound
<1>3. roundReq[s].status \in RoundStatus /\ expiry \in Expiry /\ round \in Round
  BY <1>1, <1>2, InputAssumption DEF UpdateOp, Expiry, RoundInv, RoundTypeOK, Round
<1>4. round' \in Round /\ round'.sent = round.sent
  BY <1>2, <1>3 DEF Round
<1>5. RoundTypeOK'
  BY <1>4 DEF RoundInv, RoundTypeOK, WriteUpdateRound
<1>6. today <= today'
  BY WindowAssumption DEF RoundInv, RoundTypeOK, WriteUpdateRound, Day
<1> QED
  BY <1>4, <1>5, <1>6, RowWritesKeep DEF WriteUpdateRound

LEMMA CompleteRoundKeeps ==
  ASSUME RoundInv, NEW s \in RoundReq, WriteCompleteRound(s)
  PROVE  RoundInv'
<1>1. PICK earliest \in Expiry :
        round' = [status |-> "completed", expiry |-> earliest, sent |-> {}]
  BY DEF WriteCompleteRound
<1>2. round' \in Round /\ round'.sent = {}
  BY <1>1 DEF Round, RoundStatus
<1>3. completions' = completions + 1 /\ completions' \in 0..MaxCompletions
  BY WindowAssumption DEF RoundInv, RoundTypeOK, WriteCompleteRound
<1>4. RoundTypeOK'
  BY <1>2, <1>3 DEF RoundInv, RoundTypeOK, WriteCompleteRound
<1>5. today <= today'
  BY WindowAssumption DEF RoundInv, RoundTypeOK, WriteCompleteRound, Day
<1> QED
  BY <1>2, <1>3, <1>4, <1>5, RowWritesKeep DEF WriteCompleteRound

LEMMA PutRoundKeeps ==
  ASSUME RoundInv, NEW status \in StatusSent, PutRound(status)
  PROVE  RoundInv'
<1>1. PICK expiry \in Expiry :
        round' = [round EXCEPT !.status = status, !.expiry = expiry]
  BY DEF PutRound
<1>2. round' \in Round /\ round'.sent = round.sent
  BY <1>1, InputAssumption DEF RoundInv, RoundTypeOK, Round
<1>3. RoundTypeOK'
  BY <1>2 DEF RoundInv, RoundTypeOK, PutRound
<1>4. today <= today'
  BY WindowAssumption DEF RoundInv, RoundTypeOK, PutRound, Day
<1> QED
  BY <1>2, <1>3, <1>4, RowWritesKeep DEF PutRound

\* A step of the scan that neither flags nor publishes keeps the count.
LEMMA CountKept ==
  ASSUME Matched, UNCHANGED <<round, completions, published>>,
         RoundTypeOK, unpublished' \subseteq unpublished
  PROVE  Matched'
<1> SUFFICES ASSUME NEW w \in Window
             PROVE  published'[w] + InHand(w)' <= completions' + Flagged(w)'
  BY DEF Matched, Window
<1>1. /\ published[w] \in Nat /\ completions \in Nat
      /\ InHand(w) \in {0, 1} /\ Flagged(w) \in {0, 1}
      /\ published[w] + InHand(w) <= completions + Flagged(w)
  BY WindowAssumption DEF RoundTypeOK, Matched, InHand, Flagged
<1>2. InHand(w)' \in Nat /\ InHand(w)' <= InHand(w)
  BY DEF InHand
<1>3. Flagged(w)' = Flagged(w)
  BY DEF Flagged
<1> QED
  BY <1>1, <1>2, <1>3

LEMMA BeginScanKeeps ==
  ASSUME RoundInv, NEW now \in JobDates, BeginScan(now)
  PROVE  RoundInv'
<1>1. /\ now \in Day /\ now <= today
      /\ round.expiry \in ExpiryDay
      /\ round.sent \subseteq Window
  BY WindowAssumption DEF RoundInv, RoundTypeOK, JobDates, Day, BeginScan, Candidate, Round,
     Expiry
<1>2. scan' = [now |-> now, expiry |-> round.expiry, sent |-> round.sent]
  BY DEF BeginScan
<1>3. scan' \in Scan /\ scan'.now = now /\ scan'.sent = round.sent
  BY <1>1, <1>2 DEF Scan
<1>4. RoundTypeOK'
  BY <1>3 DEF RoundInv, RoundTypeOK, BeginScan
<1>5. unpublished = {}
  BY DEF RoundInv, ScanSound, BeginScan
<1>6. ScanSound'
  BY <1>1, <1>3, <1>5 DEF ScanSound, BeginScan
<1>7. Matched'
  BY CountKept DEF RoundInv, BeginScan
<1> QED
  BY <1>4, <1>6, <1>7 DEF RoundInv

LEMMA FlagWindowKeeps ==
  ASSUME RoundInv, NEW w \in Window, FlagWindow(w)
  PROVE  RoundInv'
<1>1. /\ scan \in Scan /\ round \in Round
      /\ w \notin scan.sent /\ w \notin round.sent
      /\ scan.expiry - scan.now <= w
      /\ round.sent \subseteq scan.sent /\ scan.now <= today
  BY DEF RoundInv, RoundTypeOK, ScanSound, FlagWindow, Due
<1>2. /\ round' \in Round
      /\ round'.sent = round.sent \cup {w}
  BY <1>1 DEF FlagWindow, Round
<1>3. /\ scan' \in Scan
      /\ scan'.sent = scan.sent \cup {w}
      /\ scan'.now = scan.now /\ scan'.expiry = scan.expiry
  BY <1>1 DEF FlagWindow, Scan
<1>4. RoundTypeOK'
  BY <1>2, <1>3 DEF RoundInv, RoundTypeOK, FlagWindow
<1>5. ScanSound'
  BY <1>1, <1>2, <1>3, NoScanAssumption DEF ScanSound, FlagWindow
<1>6. Matched'
  <2> SUFFICES ASSUME NEW x \in Window
               PROVE  published'[x] + InHand(x)' <= completions' + Flagged(x)'
    BY DEF Matched, Window
  <2>1. /\ published[x] \in Nat /\ completions \in Nat
        /\ Flagged(x) \in {0, 1}
        /\ InHand(x) = 0
        /\ published[x] + InHand(x) <= completions + Flagged(x)
    BY WindowAssumption DEF RoundInv, RoundTypeOK, Matched, InHand, Flagged, FlagWindow
  <2>2. published' = published /\ completions' = completions
    BY DEF FlagWindow
  <2>3. CASE x = w
    <3>1. Flagged(x) = 0 /\ Flagged(x)' = 1 /\ InHand(x)' = 1
      BY <1>1, <1>2, <2>3 DEF Flagged, InHand, FlagWindow
    <3> QED
      BY <2>1, <2>2, <3>1
  <2>4. CASE x # w
    <3>1. Flagged(x)' = Flagged(x) /\ InHand(x)' = 0
      BY <1>2, <2>4 DEF Flagged, InHand, FlagWindow
    <3> QED
      BY <2>1, <2>2, <3>1
  <2> QED
    BY <2>3, <2>4
<1> QED
  BY <1>4, <1>5, <1>6 DEF RoundInv

LEMMA PublishKeeps ==
  ASSUME RoundInv, NEW w \in Window, Publish(w)
  PROVE  RoundInv'
<1>1. \A x \in Window :
        /\ published[x] \in Nat
        /\ published'[x] = IF x = w THEN published[x] + 1 ELSE published[x]
  BY DEF RoundInv, RoundTypeOK, Publish
<1>2. RoundTypeOK'
  <2>1. published' \in [Window -> Nat]
    BY <1>1 DEF RoundInv, RoundTypeOK, Publish
  <2> QED
    BY <2>1 DEF RoundInv, RoundTypeOK, Publish
<1>3. ScanSound'
  BY DEF RoundInv, ScanSound, Publish
<1>4. Matched'
  <2> SUFFICES ASSUME NEW x \in Window
               PROVE  published'[x] + InHand(x)' <= completions' + Flagged(x)'
    BY DEF Matched, Window
  <2>1. /\ completions \in Nat /\ Flagged(x) \in {0, 1}
        /\ published[x] + InHand(x) <= completions + Flagged(x)
    BY WindowAssumption DEF RoundInv, RoundTypeOK, Matched, Flagged
  <2>2. InHand(x) \in {0, 1} /\ InHand(x)' = 0 /\ (x = w => InHand(x) = 1)
    BY DEF InHand, Publish
  <2>3. completions' = completions /\ Flagged(x)' = Flagged(x)
    BY DEF Publish, Flagged
  <2> QED
    BY <1>1, <2>1, <2>2, <2>3
<1> QED
  BY <1>2, <1>3, <1>4 DEF RoundInv

LEMMA ScanEndKeeps ==
  ASSUME RoundInv, AbandonScan \/ EndScan
  PROVE  RoundInv'
<1>1. /\ scan' = NoScan
      /\ unpublished' = {}
      /\ UNCHANGED <<today, round, roundReq, completions, published>>
  BY DEF AbandonScan, EndScan
<1>2. RoundTypeOK' /\ ScanSound'
  BY <1>1 DEF RoundInv, RoundTypeOK, ScanSound
<1>3. Matched'
  BY <1>1, CountKept DEF RoundInv
<1> QED
  BY <1>2, <1>3 DEF RoundInv

LEMMA RoundInductive ==
  ASSUME RoundInv, [RoundNext]_roundVars
  PROVE  RoundInv'
<1>1. CASE UNCHANGED roundVars
  BY <1>1 DEF roundVars, RoundInv, RoundTypeOK, Matched, InHand, Flagged, ScanSound, Window
<1>2. CASE RoundNext
  BY <1>2, NextDayKeeps, ReadRoundKeeps, UpdateRoundKeeps, CompleteRoundKeeps, PutRoundKeeps,
     BeginScanKeeps, FlagWindowKeeps, PublishKeeps, ScanEndKeeps DEF RoundNext
<1> QED
  BY <1>1, <1>2

\* The strengthening is invariant.
THEOREM RoundInvariant == RoundSpec => []RoundInv
BY InitRound, RoundInductive, PTL DEF RoundSpec

\* Every reachable state is of the declared type.
THEOREM RoundTypeCorrect == RoundSpec => []RoundTypeOK
<1>1. RoundInv => RoundTypeOK
  BY DEF RoundInv
<1> QED
  BY <1>1, RoundInvariant, PTL

\* No window is announced more often than its flag was clear or was cleared.
THEOREM AlertsBounded == RoundSpec => []AlertsAtMostOncePerReset
<1>1. RoundInv => AlertsAtMostOncePerReset
  <2> SUFFICES ASSUME RoundInv, NEW w \in Window
               PROVE  published[w] <= 1 + completions
    BY DEF AlertsAtMostOncePerReset
  <2>1. /\ published[w] \in Nat /\ completions \in Nat
        /\ InHand(w) \in {0, 1} /\ Flagged(w) \in {0, 1}
        /\ published[w] + InHand(w) <= completions + Flagged(w)
    BY WindowAssumption DEF RoundInv, RoundTypeOK, Matched, InHand, Flagged
  <2> QED
    BY <2>1
<1> QED
  BY <1>1, RoundInvariant, PTL

\* No alert goes out before its window, whatever date its scan carries.
THEOREM AlertsNeverEarly == RoundSpec => []NeverEarly
<1>1. RoundInv => NeverEarly
  <2> SUFFICES ASSUME RoundInv, NEW w \in unpublished
               PROVE  scan.expiry - today <= w
    BY DEF NeverEarly
  <2>1. /\ scan \in Scan /\ scan.now <= today /\ scan.expiry - scan.now <= w
    BY DEF RoundInv, RoundTypeOK, ScanSound
  <2>2. Day \subseteq Int /\ ExpiryDay \subseteq Int
    BY WindowAssumption, InputAssumption DEF Day
  <2>3. scan.now \in Int /\ scan.expiry \in Int
    BY <2>1, <2>2 DEF Scan
  <2>4. today \in Int
    BY <2>2 DEF RoundInv, RoundTypeOK
  <2>5. w \in Int
    BY WindowAssumption DEF RoundInv, RoundTypeOK, Window
  <2> QED
    BY <2>1, <2>3, <2>4, <2>5
<1> QED
  BY <1>1, RoundInvariant, PTL

\* No alert that was flagged is dropped before it is out.
AlertsSurvive ==
  \A w \in unpublished : w \in unpublished' \/ published'[w] > published[w]

\* A window that is marked has been announced, or is in hand.
MarkedOrInHand == \A w \in round.sent : published[w] > 0 \/ w \in unpublished

LEMMA MarkedStep ==
  ASSUME RoundInv, MarkedOrInHand, [RoundNext]_roundVars, [AlertsSurvive]_roundVars
  PROVE  MarkedOrInHand'
<1>1. /\ round \in Round /\ published \in [Window -> Nat] /\ round.sent \subseteq Window
  BY DEF RoundInv, RoundTypeOK, Round
<1>2. ASSUME round'.sent \subseteq round.sent,
             published' = published, unpublished \subseteq unpublished'
      PROVE  MarkedOrInHand'
  BY <1>2 DEF MarkedOrInHand
<1>3. ASSUME NEW s \in RoundReq, WriteUpdateRound(s) \/ WriteCompleteRound(s)
      PROVE  MarkedOrInHand'
  <2>1. CASE WriteUpdateRound(s)
    <3>1. PICK expiry \in ExpiryDay \cup {round.expiry} :
            round' = [round EXCEPT !.status = roundReq[s].status, !.expiry = expiry]
      BY <2>1 DEF WriteUpdateRound
    <3>2. round'.sent = round.sent
      BY <1>1, <3>1 DEF Round
    <3> QED
      BY <1>2, <2>1, <3>2 DEF WriteUpdateRound
  <2>2. CASE WriteCompleteRound(s)
    <3>1. round'.sent = {}
      BY <2>2 DEF WriteCompleteRound
    <3> QED
      BY <3>1 DEF MarkedOrInHand
  <2> QED
    BY <1>3, <2>1, <2>2
<1>4. ASSUME NEW st \in StatusSent, PutRound(st)
      PROVE  MarkedOrInHand'
  BY <1>1, <1>2, <1>4 DEF PutRound, Round
<1>5. ASSUME NEW w \in Window, FlagWindow(w)
      PROVE  MarkedOrInHand'
  <2>1. /\ round'.sent = round.sent \cup {w} /\ unpublished' = {w}
        /\ published' = published /\ unpublished = {}
    BY <1>1, <1>5 DEF FlagWindow, Round
  <2> QED
    BY <2>1 DEF MarkedOrInHand
<1>6. ASSUME NEW w \in Window, Publish(w)
      PROVE  MarkedOrInHand'
  <2>1. /\ round' = round
        /\ \A x \in Window : published'[x] >= published[x]
        /\ \A x \in unpublished : x \in Window /\ published'[x] > published[x]
    <3>1. published' = [published EXCEPT ![w] = @ + 1] /\ unpublished' = {} /\ round' = round
      BY <1>6 DEF Publish
    <3>2. w \in unpublished
      BY <1>6 DEF Publish
    <3>3. \A x \in unpublished : published'[x] > published[x]
      <4>1. published[w] \in Nat /\ published'[w] = published[w] + 1
        BY <1>1, <3>1
      <4>2. published' # published
        BY <4>1
      <4> QED
        BY <3>1, <4>2 DEF AlertsSurvive, roundVars
    <3> QED
      BY <1>1, <3>1, <3>3 DEF RoundInv, RoundTypeOK
  <2>2. ASSUME NEW x \in round'.sent
        PROVE  published'[x] > 0 \/ x \in unpublished'
    <3>1. /\ published[x] \in Nat /\ published'[x] \in Nat
          /\ published[x] > 0 \/ x \in unpublished
      BY <1>1, <1>6, <2>1, <2>2 DEF MarkedOrInHand, Publish
    <3> QED
      BY <2>1, <1>1, <2>2, <3>1
  <2> QED
    BY <2>2 DEF MarkedOrInHand
<1>7. CASE AbandonScan \/ EndScan
  <2>1. unpublished' = {} /\ round' = round /\ published' = published
    BY <1>7 DEF AbandonScan, EndScan
  <2>2. unpublished = {}
    BY <2>1, <1>1 DEF AlertsSurvive, roundVars, RoundInv, RoundTypeOK
  <2> QED
    BY <1>2, <2>1, <2>2
<1>8. CASE \/ NextDay \/ \E now \in JobDates : BeginScan(now)
           \/ \E s \in RoundReq, op \in UpdateOp \cup CompleteOp : ReadRound(s, op)
  BY <1>2, <1>8 DEF NextDay, BeginScan, ReadRound
<1>9. CASE UNCHANGED roundVars
  BY <1>2, <1>9 DEF roundVars
<1> QED
  BY <1>3, <1>4, <1>5, <1>6, <1>7, <1>8, <1>9 DEF RoundNext

\* If no publication fails and no process dies between the flag and its event, every
\* window marked has been announced, whatever else overlaps: that crash is the only
\* way MarkedWindowsFired goes wrong (runAprExpiryScan, evaluateAprAlerts).
THEOREM MarkedWindowsFiredUnlessLost ==
  RoundSpec /\ [][AlertsSurvive]_roundVars => []MarkedWindowsFired
<1>1. RoundInit => MarkedOrInHand
  BY DEF RoundInit, MarkedOrInHand
<1>2. RoundInv /\ MarkedOrInHand /\ [RoundNext]_roundVars /\ [AlertsSurvive]_roundVars
        => MarkedOrInHand'
  BY MarkedStep
<1>3. RoundInv /\ MarkedOrInHand => MarkedWindowsFired
  BY DEF RoundInv, ScanSound, MarkedOrInHand, MarkedWindowsFired
<1> QED
  BY <1>1, <1>2, <1>3, RoundInvariant, PTL DEF RoundSpec

============================================================================
