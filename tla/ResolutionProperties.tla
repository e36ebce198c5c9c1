------------------------ MODULE ResolutionProperties ------------------------
(***************************************************************************)
(* What resolution must guarantee, stated over ResolutionModule.           *)
(***************************************************************************)
EXTENDS ResolutionModule, FiniteSetsExt

(* A committee has answered and nobody has challenged the answer since.    *)
HasProposal(m) == round[m].index # 0 /\ round[m].proposed # NONE

(* Some committee of this market answered, challenged or not.              *)
WasAnswered(m) == HasProposal(m) \/ roundOneOutcome[m] # NONE

RoundEnds(m) == ~round[m].finalized /\ round'[m].finalized

Voters(m, outcome) == {a \in committee[m] : reveal[m][a] = outcome}

Overturned(m) ==
    /\ viaCommittee[m]
    /\ roundOneOutcome[m] \notin {NONE, round[m].proposed}

-----------------------------------------------------------------------------
(* The market and the module keep separate state about the same process.   *)
(* While a market is live they agree: the market is Proposed exactly while *)
(* an unchallenged answer stands, Disputed exactly while round 2 has not   *)
(* answered, and no live market has a finalized round.                     *)
StatusFollowsRound ==
    \A m \in Markets : ~Terminal(m) =>
        /\ status[m] = "Proposed" <=> HasProposal(m)
        /\ status[m] = "Disputed" <=> round[m].index = 2 /\ ~HasProposal(m)
        /\ ~round[m].finalized

(* Whatever settled through the committee settled as the committee said,   *)
(* and without the direct path nothing settles any other way.              *)
VerdictCarriedOut ==
    \A m \in Markets :
        /\ viaCommittee[m] =>
             /\ HasProposal(m)
             /\ IF round[m].proposed = UNRESOLVABLE
                THEN status[m] = "Failed"
                ELSE status[m] = "Settled" /\ winningOutcome[m] = round[m].proposed
        /\ status[m] = "Settled" /\ ~AllowlistOpen => viaCommittee[m]

(* An answer rests on revealed votes of a majority of the sampled members, *)
(* whatever order they revealed in, and no second outcome reaches the      *)
(* threshold beside it (`_shapeOf` insists on k * 2 > n for this).         *)
VerdictIsMajority ==
    \A m \in Markets : HasProposal(m) =>
        /\ 2 * Cardinality(Voters(m, round[m].proposed)) > Cardinality(committee[m])
        /\ \A o \in Outcomes \ {round[m].proposed} :
              Cardinality(Voters(m, o)) < round[m].k

(* Nobody sits on the committee that reviews their own answer, though the  *)
(* draw may be asked for again and stake moves between the rounds.         *)
RoundTwoIsFresh ==
    \A m \in Markets : round[m].index = 2 => committee[m] \cap roundOne[m] = {}

(* A draw in hand can only open the round the market is waiting to open.   *)
DrawMatchesRound ==
    \A m \in Markets : draw[m].phase # "none" =>
        \/ draw[m].index = 1 /\ round[m].index = 0
        \/ draw[m].index = 2 /\ round[m].index = 2 /\ round[m].n = 0

(* The module can pay every resolver it owes and every bond it holds, in   *)
(* any order of finalisations, claims and failures across markets, and     *)
(* `totalOwed` is the sum of what it owes.                                 *)
LedgerCovered ==
    /\ totalOwed = MapThenSumSet(LAMBDA a : owedTo[a], Agents)
    /\ balance >= totalOwed
         + DisputeBond * Cardinality({m \in Markets : bond[m] = "held"})

(* The challenger is made whole exactly when round 2 concluded against     *)
(* round 1; a finalized dispute of any other ending forfeits the bond.     *)
BondFollowsVerdict ==
    \A m \in Markets : round[m].finalized /\ disputer[m] # Nobody =>
        bond[m] = IF Overturned(m) THEN "refunded" ELSE "forfeited"

(* A resolver's public record counts the verdicts it agreed with and the   *)
(* answers of its own that were overturned, each once.                     *)
ReputationIsEarned ==
    \A a \in Agents :
        /\ reputation[a].agreed =
             Cardinality({m \in Markets :
                 viaCommittee[m] /\ a \in Voters(m, round[m].proposed)})
        /\ reputation[a].overturned =
             Cardinality({m \in Markets :
                 /\ Overturned(m)
                 /\ a \in roundOne[m]
                 /\ reveal[m][a] = roundOneOutcome[m]})

-----------------------------------------------------------------------------
(* A market with an unchallenged answer is not failed by anybody before    *)
(* the grace is over, by any of the three paths to `Market.fail`, unless   *)
(* the answer itself is that the question has none.                        *)
VerdictOutlivesDeadline ==
    [][\A m \in Markets :
          status[m] = "Proposed" /\ status'[m] = "Failed" =>
            \/ now >= SettlementDeadline + ProposedFailGrace
            \/ viaCommittee'[m] /\ round[m].proposed = UNRESOLVABLE]_vars

(* No member can copy another: from the first reveal of a committee on,    *)
(* none of its commitments changes.                                        *)
CommitmentsPrecedeReveals ==
    [][\A m \in Markets, a, b \in Agents :
          /\ a \in committee[m]
          /\ b \in committee[m]
          /\ reveal[m][b] # NONE
          => commitment'[m][a] = commitment[m][a]]_vars

(* Only the absent and, against a verdict, those who gave another answer   *)
(* lose stake, in either round: never a member who said what the verdict   *)
(* says, and nobody for an answer when the market failed without one.      *)
SlashesAreDeserved ==
    [][\A m \in Markets, a \in Agents :
          RoundEnds(m) /\ staked'[a] + cooling'[a] < staked[a] + cooling[a] =>
             \/ a \in committee[m] /\ reveal[m][a] = NONE
             \/ /\ viaCommittee'[m]
                /\ a \in committee[m] \cup roundOne[m]
                /\ reveal[m][a] \notin {NONE, round[m].proposed}]_vars

(* When a verdict is carried out nobody is judged absent while they could  *)
(* still have revealed.                                                    *)
AbsenteesHadTheirTime ==
    [][\A m \in Markets :
          RoundEnds(m) /\ viaCommittee'[m] /\ NoShows(m) # {} =>
             now > round[m].revealDeadline]_vars

-----------------------------------------------------------------------------
(* Time passes, and somebody with a position calls the permissionless      *)
(* rescue once it is open (the keeper does on each pass).                  *)
Fairness ==
    /\ WF_vars(Time)
    /\ \A m \in Markets : WF_vars(Fail(m))

FairSpec == Spec /\ Fairness

(* No market holds its collateral for ever: whatever the committee, the    *)
(* challengers and the re-requesters of draws do, every market ends.       *)
EveryMarketEnds == \A m \in Markets : <>Terminal(m)

-----------------------------------------------------------------------------
(* The promise kept to the holders of each market (module Judgement).      *)

JudgementPhase(m) ==
    IF status[m] = "Settled" THEN "settled"
    ELSE IF Terminal(m) THEN "refunded"
    ELSE IF HasProposal(m) THEN "answered"
    ELSE "pending"

StandingAnswer(m) == IF HasProposal(m) THEN round[m].proposed ELSE NONE

Judged(m) == INSTANCE Judgement WITH
    Answers <- Outcomes, Payable <- {NO, YES}, Absent <- NONE,
    RefundOpenAt <- SettlementDeadline + ProposedFailGrace,
    clock <- now,
    phase <- JudgementPhase(m),
    answer <- StandingAnswer(m),
    challenged <- disputer[m] # Nobody,
    winner <- winningOutcome[m]

(* Commit, reveal, dispute, finalize and the rescues, with every draw and  *)
(* every interleaving of them, implement Judgement on each market: this is *)
(* Judged(m)!Spec for every m, with the quantifier inside the box.         *)
ImplementsJudgement ==
    /\ \A m \in Markets : Judged(m)!Init
    /\ [][\A m \in Markets :
            Judged(m)!Next \/ UNCHANGED Judged(m)!judgementVars]_vars
=============================================================================
