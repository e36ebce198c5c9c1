-------------------------- MODULE ResolutionModule --------------------------
(***************************************************************************)
(* core/ResolutionModule.sol, composed with the market lifecycle it drives *)
(* and the resolver stake it slashes: the deferred draw of a committee,    *)
(* commit and reveal, the proposal, the dispute round, finalisation, the   *)
(* two ways a market is abandoned at its deadline, the direct path, and    *)
(* the ledger resolvers are paid from.                                     *)
(*                                                                         *)
(* Abstractions.  Blocks are not counted: a requested draw is "waiting"    *)
(* until its block is mined, "live" while the EVM still knows the hash,    *)
(* and "expired" after.  A sample is any committee of the right size, since *)
(* the hash is unknown when it is asked for.  A commitment is the outcome  *)
(* and the key it binds; salt and receipt are left out.  One collateral,   *)
(* equal to the stake token, as deployed, and one tier for every market.   *)
(***************************************************************************)
EXTENDS MarketStatus, ResolverStake, FiniteSets

CONSTANTS
    CommitWindow, RevealWindow, DisputeWindow,
    TierShapes,         \* <<n, k>> the tier's parameter may hold
    DisputeShape,       \* <<n, k>> of COMMITTEE_DISPUTE
    VoteChoices,        \* outcomes members may commit to
    MinResolverStake,
    NoShowSlashBps, DisagreeSlashBps, OverturnSlashBps,
    DisputeBond,
    Challengers,        \* accounts that may dispute
    Nobody,             \* address(0)
    AllowlistOpen,      \* TRUE: the owner filled the direct-path allowlist
    SweepAmounts        \* amounts the owner may sweep

ASSUME ResolutionAssumption ==
    /\ {CommitWindow, RevealWindow, DisputeWindow} \subseteq Nat
    /\ IsFiniteSet(Agents)
    /\ TierShapes \subseteq Nat \X Nat
    /\ DisputeShape \in Nat \X Nat
    /\ VoteChoices \subseteq Outcomes
    /\ MinResolverStake \in Nat \ {0}
    /\ {NoShowSlashBps, DisagreeSlashBps, OverturnSlashBps} \subseteq 0..BPS
    /\ DisputeBond \in Nat
    /\ Nobody \notin Challengers
    /\ AllowlistOpen \in BOOLEAN
    /\ SweepAmounts \subseteq Nat

VARIABLES
    draw,             \* _draws
    round,            \* _rounds
    committee,        \* _committee
    roundOne,         \* _roundOne
    commitment,       \* commitmentOf
    reveal,           \* _revealPlusOne, NONE for zero
    tally,            \* _tally
    roundOneOutcome,  \* _roundOneOutcome, NONE for zero
    disputer,         \* disputerOf
    bond,             \* disputeBondOf, and where a released bond went
    viaCommittee,
    owedTo, totalOwed,
    balance           \* what the module holds of the collateral

roundVars  == <<draw, round, committee, roundOne, tally, roundOneOutcome>>
voteVars   == <<commitment, reveal>>
bondVars   == <<disputer, bond>>
ledgerVars == <<owedTo, totalOwed, balance>>

vars == <<now, marketVars, stakeVars, roundVars, voteVars, bondVars,
          viaCommittee, ledgerVars>>

-----------------------------------------------------------------------------
DrawPhases == {"none", "waiting", "live", "expired"}
NoDraw     == [phase |-> "none", index |-> 0]
BondStates == {"none", "held", "refunded", "forfeited"}

NoCommitment == [outcome |-> NONE, key |-> NoKey]

(* An unwritten `Round`.  Its proposed outcome is 0, which is NO, not NONE. *)
EmptyRound ==
    [n |-> 0, k |-> 0, index |-> 0, proposed |-> NO, commitDeadline |-> 0,
     revealDeadline |-> 0, disputeDeadline |-> 0, finalized |-> FALSE]

Rounds ==
    [n: Nat, k: Nat, index: 0..2, proposed: 0..3, commitDeadline: Nat,
     revealDeadline: Nat, disputeDeadline: Nat, finalized: BOOLEAN]

Commitments == [outcome: 0..3, key: Keys]

ResolutionTypeOK ==
    /\ draw \in [Markets -> [phase: DrawPhases, index: 0..2]]
    /\ round \in [Markets -> Rounds]
    /\ committee \in [Markets -> SUBSET Agents]
    /\ roundOne \in [Markets -> SUBSET Agents]
    /\ commitment \in [Markets -> [Agents -> Commitments]]
    /\ reveal \in [Markets -> [Agents -> 0..3]]
    /\ tally \in [Markets -> [Outcomes -> Nat]]
    /\ roundOneOutcome \in [Markets -> 0..3]
    /\ disputer \in [Markets -> Challengers \cup {Nobody}]
    /\ bond \in [Markets -> BondStates]
    /\ viaCommittee \in [Markets -> BOOLEAN]
    /\ owedTo \in [Agents -> Nat]
    /\ totalOwed \in Int
    /\ balance \in Int

TypeOK == /\ now \in Nat
          /\ MarketTypeOK
          /\ StakeTypeOK
          /\ ResolutionTypeOK

Init ==
    /\ ChainInit
    /\ MarketInit
    /\ StakeInit
    /\ draw = [m \in Markets |-> NoDraw]
    /\ round = [m \in Markets |-> EmptyRound]
    /\ committee = [m \in Markets |-> {}]
    /\ roundOne = [m \in Markets |-> {}]
    /\ commitment = [m \in Markets |-> [a \in Agents |-> NoCommitment]]
    /\ reveal = [m \in Markets |-> [a \in Agents |-> NONE]]
    /\ tally = [m \in Markets |-> [o \in Outcomes |-> 0]]
    /\ roundOneOutcome = [m \in Markets |-> NONE]
    /\ disputer = [m \in Markets |-> Nobody]
    /\ bond = [m \in Markets |-> "none"]
    /\ viaCommittee = [m \in Markets |-> FALSE]
    /\ owedTo = [a \in Agents |-> 0]
    /\ totalOwed = 0
    /\ balance = 0

-----------------------------------------------------------------------------
(* The deferred draw.                                                      *)

RequestDraw(m, index) ==
    draw' = [draw EXCEPT ![m] = [phase |-> "waiting", index |-> index]]

RequestResolution(m) ==
    /\ ~round[m].finalized
    /\ \/ /\ round[m].index = 0
          /\ status[m] = "Closed"
          /\ RequestDraw(m, 1)
       \/ /\ round[m].index = 2
          /\ round[m].n = 0
          /\ RequestDraw(m, 2)
    /\ UNCHANGED <<now, marketVars, stakeVars, round, committee, roundOne, tally,
                   roundOneOutcome, voteVars, bondVars, viaCommittee, ledgerVars>>

(* The draw's block is mined; 256 blocks later its hash is gone.           *)
DrawAges(m) ==
    /\ \/ /\ draw[m].phase = "waiting"
          /\ draw' = [draw EXCEPT ![m].phase = "live"]
       \/ /\ draw[m].phase = "live"
          /\ draw' = [draw EXCEPT ![m].phase = "expired"]
    /\ UNCHANGED <<now, marketVars, stakeVars, round, committee, roundOne, tally,
                   roundOneOutcome, voteVars, bondVars, viaCommittee, ledgerVars>>

(* Mutant: the draw is left in place and can be used twice.                *)
UseDraw(m, index) ==
    /\ draw[m] = [phase |-> "live", index |-> index]
    /\ UNCHANGED draw

ConsumeDraw(m, index) ==
    /\ draw[m] = [phase |-> "live", index |-> index]
    /\ draw' = [draw EXCEPT ![m] = NoDraw]

(* Mutant: a threshold two outcomes can both reach.                        *)
AnyShape(n, k) == n >= 3 /\ k <= n

(* A committee of at least three in which the threshold is a majority.     *)
ValidShape(n, k) == n >= 3 /\ k <= n /\ 2 * k > n

Eligible(exclude) ==
    {a \in Agents : staked[a] >= MinResolverStake} \ exclude

(* Mutant: round 2 may sample members of round 1.                          *)
SamplesOfAll(n, exclude) ==
    {picked \in SUBSET Eligible({}) : Cardinality(picked) = n}

Samples(n, exclude) ==
    {picked \in SUBSET Eligible(exclude) : Cardinality(picked) = n}

OpenResolution(m) ==
    /\ round[m].index = 0
    /\ status[m] = "Closed"
    /\ ConsumeDraw(m, 1)
    /\ \E shape \in TierShapes :
         /\ ValidShape(shape[1], shape[2])
         /\ \E picked \in Samples(shape[1], {}) :
              /\ committee' = [committee EXCEPT ![m] = picked]
              /\ roundOne' = [roundOne EXCEPT ![m] = picked]
         /\ round' = [round EXCEPT ![m] =
              [EmptyRound EXCEPT
                 !.n = shape[1], !.k = shape[2], !.index = 1,
                 !.proposed = NONE,
                 !.commitDeadline = now + CommitWindow,
                 !.revealDeadline = now + CommitWindow + RevealWindow]]
    /\ UNCHANGED <<now, marketVars, stakeVars, tally, roundOneOutcome, voteVars,
                   bondVars, viaCommittee, ledgerVars>>

-----------------------------------------------------------------------------
(* Commit and reveal.                                                      *)

CommitOpen(m) == round[m].n # 0 /\ now <= round[m].commitDeadline

(* Mutant: the two windows share their boundary.                           *)
RevealOpenEarly(m) ==
    round[m].n # 0 /\ round[m].commitDeadline <= now /\ now <= round[m].revealDeadline

RevealOpen(m) ==
    round[m].n # 0 /\ round[m].commitDeadline < now /\ now <= round[m].revealDeadline

(* Called by the member's operator; a member may commit again.             *)
CommitVote(m, a, outcome) ==
    /\ CommitOpen(m)
    /\ a \in committee[m]
    /\ operatorOf[a] # NoKey
    /\ commitment' = [commitment EXCEPT ![m][a] =
                        [outcome |-> outcome, key |-> operatorOf[a]]]
    /\ UNCHANGED <<now, marketVars, stakeVars, roundVars, reveal, bondVars,
                   viaCommittee, ledgerVars>>

(* The reveal that reaches the threshold proposes its outcome.             *)
RevealVote(m, a) ==
    LET outcome == commitment[m][a].outcome
        votes   == tally[m][outcome] + 1
        proposes == votes >= round[m].k /\ round[m].proposed = NONE
    IN /\ RevealOpen(m)
       /\ a \in committee[m]
       /\ outcome # NONE
       /\ reveal[m][a] = NONE
       /\ operatorOf[a] # NoKey
       /\ commitment[m][a].key = operatorOf[a]
       /\ reveal' = [reveal EXCEPT ![m][a] = outcome]
       /\ tally' = [tally EXCEPT ![m][outcome] = votes]
       /\ \/ /\ proposes
             /\ round' = [round EXCEPT ![m] = [@ EXCEPT
                              !.proposed = outcome,
                              !.disputeDeadline = now + DisputeWindow]]
             /\ MarkMarketProposed(m)
          \/ /\ ~proposes
             /\ UNCHANGED <<round, marketVars>>
       /\ UNCHANGED <<now, stakeVars, draw, committee, roundOne, roundOneOutcome,
                      commitment, bondVars, viaCommittee, ledgerVars>>

-----------------------------------------------------------------------------
(* The dispute round.                                                      *)

(* Mutant: the proposed outcome left at its default, which is NO.          *)
DisputedRoundUnset == [EmptyRound EXCEPT !.index = 2]

DisputedRound == [EmptyRound EXCEPT !.index = 2, !.proposed = NONE]

Dispute(m, challenger) ==
    /\ round[m].proposed # NONE
    /\ ~round[m].finalized
    /\ now <= round[m].disputeDeadline
    /\ disputer[m] = Nobody
    /\ disputer' = [disputer EXCEPT ![m] = challenger]
    /\ bond' = [bond EXCEPT ![m] = "held"]
    /\ balance' = balance + DisputeBond
    /\ RequestDraw(m, 2)
    /\ committee' = [committee EXCEPT ![m] = {}]
    /\ round' = [round EXCEPT ![m] = DisputedRound]
    /\ tally' = [tally EXCEPT ![m] = [o \in Outcomes |-> 0]]
    /\ roundOneOutcome' = [roundOneOutcome EXCEPT ![m] = round[m].proposed]
    /\ MarkMarketDisputed(m)
    /\ UNCHANGED <<now, stakeVars, roundOne, voteVars, viaCommittee, owedTo, totalOwed>>

OpenDisputeRound(m) ==
    /\ round[m].index = 2
    /\ ~round[m].finalized
    /\ round[m].n = 0
    /\ ConsumeDraw(m, 2)
    /\ ValidShape(DisputeShape[1], DisputeShape[2])
    /\ \E picked \in Samples(DisputeShape[1], roundOne[m]) :
         committee' = [committee EXCEPT ![m] = picked]
    /\ round' = [round EXCEPT ![m] = [@ EXCEPT
                    !.n = DisputeShape[1], !.k = DisputeShape[2],
                    !.commitDeadline = now + CommitWindow,
                    !.revealDeadline = now + CommitWindow + RevealWindow]]
    /\ UNCHANGED <<now, marketVars, stakeVars, roundOne, tally, roundOneOutcome,
                   voteVars, bondVars, viaCommittee, ledgerVars>>

-----------------------------------------------------------------------------
(* Judging the members of a committee.  `outcome` is the verdict, or NONE  *)
(* when the module fails the market without one.                           *)

NoShows(m) == {a \in committee[m] : reveal[m][a] = NONE}

(* Mutant: judging answers where no verdict was reached.                   *)
DissentersFromNothing(m, outcome) ==
    {a \in committee[m] : reveal[m][a] \notin {NONE, outcome}}

Dissenters(m, outcome) ==
    IF outcome = NONE THEN {}
    ELSE {a \in committee[m] : reveal[m][a] \notin {NONE, outcome}}

(* Without a verdict, members who said UNRESOLVABLE are the ones paid.     *)
Agreed(m, outcome) ==
    {a \in committee[m] :
        reveal[m][a] = (IF outcome = NONE THEN UNRESOLVABLE ELSE outcome)}

(* Mutant: a round 2 that never concluded counts as an overturn.           *)
OverturnsUnlessSame(m, outcome) ==
    round[m].index = 2 /\ roundOneOutcome[m] \notin {NONE, outcome}

(* A dispute round that concluded, against what round 1 had proposed.      *)
Overturns(m, outcome) ==
    /\ round[m].index = 2
    /\ outcome # NONE
    /\ roundOneOutcome[m] \notin {NONE, outcome}

Backers(m, outcome) ==
    IF Overturns(m, outcome)
    THEN {a \in roundOne[m] : reveal[m][a] = roundOneOutcome[m]}
    ELSE {}

SlashBps(m, outcome, a) ==
    CASE a \in NoShows(m)             -> NoShowSlashBps
      [] a \in Dissenters(m, outcome) -> DisagreeSlashBps
      [] a \in Backers(m, outcome)    -> OverturnSlashBps
      [] OTHER                        -> 0

(* The rate is of bonded stake only.                                       *)
Penalty(m, outcome) ==
    [a \in Agents |-> (staked[a] * SlashBps(m, outcome, a)) \div BPS]

(* Mutant: the share rounded up.                                           *)
EachEarnsUp(m, count) ==
    IF count = 0 THEN 0 ELSE (ToResolvers(m, FALSE) + count - 1) \div count

(* An even share of what the market is about to send; the rest is residue. *)
EachEarns(m, count) ==
    IF count = 0 THEN 0 ELSE ToResolvers(m, FALSE) \div count

CreditResolvers(m, agreed) ==
    LET each == EachEarns(m, Cardinality(agreed))
    IN /\ owedTo' = [a \in Agents |-> owedTo[a] + (IF a \in agreed THEN each ELSE 0)]
       /\ totalOwed' = totalOwed + each * Cardinality(agreed)

(* In the dispute round the bond leaves before the market's money arrives: *)
(* to the challenger on an overturn, to the treasury otherwise.            *)
SettleDispute(m, outcome) ==
    IF round[m].index = 2 /\ bond[m] = "held"
    THEN /\ balance >= DisputeBond
         /\ bond' = [bond EXCEPT ![m] =
                       IF Overturns(m, outcome) THEN "refunded" ELSE "forfeited"]
         /\ balance' = balance - DisputeBond + ToResolvers(m, FALSE)
    ELSE /\ UNCHANGED bond
         /\ balance' = balance + ToResolvers(m, FALSE)

(* Mutant: agreement recorded where there was nothing to agree with.       *)
RecordedAlways(m, outcome) == Agreed(m, outcome)

Recorded(m, outcome) == IF outcome = NONE THEN {} ELSE Agreed(m, outcome)

SettleAccounts(m, outcome) ==
    /\ SlashAll(Penalty(m, outcome))
    /\ RecordAll(Recorded(m, outcome), Backers(m, outcome))
    /\ CreditResolvers(m, Agreed(m, outcome))
    /\ SettleDispute(m, outcome)

(* Mutant: round 2 final as soon as it has proposed.                       *)
FinalUnlessDisputable(m) == round[m].index = 1 => now > round[m].disputeDeadline

(* Round 1 waits out its disputes, round 2 its remaining reveals.          *)
AnswerIsFinal(m) ==
    /\ round[m].index = 1 => now > round[m].disputeDeadline
    /\ round[m].index = 2 => now > round[m].revealDeadline

Finalize(m) ==
    /\ round[m].n # 0
    /\ ~round[m].finalized
    /\ round[m].proposed # NONE
    /\ AnswerIsFinal(m)
    /\ round' = [round EXCEPT ![m].finalized = TRUE]
    /\ viaCommittee' = [viaCommittee EXCEPT ![m] = TRUE]
    /\ SettleAccounts(m, round[m].proposed)
    /\ \/ round[m].proposed = UNRESOLVABLE /\ FailMarket(m, TRUE)
       \/ round[m].proposed # UNRESOLVABLE /\ SettleMarket(m, round[m].proposed)
    /\ UNCHANGED <<now, draw, committee, roundOne, tally, roundOneOutcome,
                   voteVars, disputer>>

(* Mutant: an answer buys no time.                                         *)
MarkFailedAtDeadline(m) == SettlementDeadline

(* The grace is read off `proposedOutcome`, which an unopened round holds  *)
(* as NO.                                                                  *)
MarkFailedOpenAt(m) ==
    SettlementDeadline + (IF round[m].proposed # NONE THEN ProposedFailGrace ELSE 0)

MarkFailed(m) ==
    /\ ~round[m].finalized
    /\ now >= MarkFailedOpenAt(m)
    /\ round' = [round EXCEPT ![m].finalized = TRUE]
    /\ SettleAccounts(m, NONE)
    /\ FailMarket(m, TRUE)
    /\ UNCHANGED <<now, draw, committee, roundOne, tally, roundOneOutcome,
                   voteVars, disputer, viaCommittee>>

-----------------------------------------------------------------------------
(* Calls on the market itself that reach the module's ledger or its round. *)

Close(m) ==
    /\ CloseMarket(m)
    /\ UNCHANGED <<now, stakeVars, roundVars, voteVars, bondVars, viaCommittee, ledgerVars>>

(* Market.fail called by anybody, the keeper included.                     *)
Fail(m) ==
    /\ FailMarket(m, FALSE)
    /\ balance' = balance + ToResolvers(m, FALSE)
    /\ UNCHANGED <<now, stakeVars, roundVars, voteVars, bondVars, viaCommittee,
                   owedTo, totalOwed>>

Void(m) ==
    /\ VoidMarket(m)
    /\ balance' = balance + ToResolvers(m, TRUE)
    /\ UNCHANGED <<now, stakeVars, roundVars, voteVars, bondVars, viaCommittee,
                   owedTo, totalOwed>>

(* The direct path: an allowlisted key drives the market with no committee *)
(* and no trace in the round.                                              *)
DirectSettle(m, outcome) ==
    /\ AllowlistOpen
    /\ SettleMarket(m, outcome)
    /\ balance' = balance + ToResolvers(m, FALSE)
    /\ UNCHANGED <<now, stakeVars, roundVars, voteVars, bondVars, viaCommittee,
                   owedTo, totalOwed>>

DirectFail(m) ==
    /\ AllowlistOpen
    /\ FailMarket(m, TRUE)
    /\ balance' = balance + ToResolvers(m, FALSE)
    /\ UNCHANGED <<now, stakeVars, roundVars, voteVars, bondVars, viaCommittee,
                   owedTo, totalOwed>>

DirectMark(m) ==
    /\ AllowlistOpen
    /\ MarkMarketProposed(m) \/ MarkMarketDisputed(m)
    /\ UNCHANGED <<now, stakeVars, roundVars, voteVars, bondVars, viaCommittee, ledgerVars>>

-----------------------------------------------------------------------------
(* Stake and earnings.                                                     *)

Stake(a, amount) ==
    /\ StakeMore(a, amount)
    /\ UNCHANGED <<now, marketVars, roundVars, voteVars, bondVars, viaCommittee, ledgerVars>>

RequestUnstake(a, amount) ==
    /\ GiveNotice(a, amount)
    /\ UNCHANGED <<now, marketVars, roundVars, voteVars, bondVars, viaCommittee, ledgerVars>>

WithdrawUnstaked(a) ==
    /\ Withdraw(a)
    /\ UNCHANGED <<now, marketVars, roundVars, voteVars, bondVars, viaCommittee, ledgerVars>>

SetOperator(a, key) ==
    /\ Rotate(a, key)
    /\ UNCHANGED <<now, marketVars, roundVars, voteVars, bondVars, viaCommittee, ledgerVars>>

Claim(a) ==
    /\ owedTo[a] > 0
    /\ balance >= owedTo[a]
    /\ owedTo' = [owedTo EXCEPT ![a] = 0]
    /\ totalOwed' = totalOwed - owedTo[a]
    /\ balance' = balance - owedTo[a]
    /\ UNCHANGED <<now, marketVars, stakeVars, roundVars, voteVars, bondVars, viaCommittee>>

(* Mutant: everything is free.                                             *)
FreeOfDebt == IF balance > 0 THEN balance ELSE 0

(* What the owner may sweep: the balance over what resolvers are owed.     *)
Free == IF balance > totalOwed THEN balance - totalOwed ELSE 0

SweepUnallocated(amount) ==
    /\ amount > 0
    /\ amount <= Free
    /\ balance' = balance - amount
    /\ UNCHANGED <<now, marketVars, stakeVars, roundVars, voteVars, bondVars,
                   viaCommittee, owedTo, totalOwed>>

Time == Tick /\ UNCHANGED <<marketVars, stakeVars, roundVars, voteVars, bondVars,
                            viaCommittee, ledgerVars>>

(* The bounded clock has run out and every market has ended.               *)
Finished == /\ now = MaxTime
            /\ \A m \in Markets : Terminal(m)
            /\ UNCHANGED vars

MarketNext(m) ==
    \/ Close(m)
    \/ Fail(m)
    \/ Void(m)
    \/ RequestResolution(m)
    \/ DrawAges(m)
    \/ OpenResolution(m)
    \/ \E challenger \in Challengers : Dispute(m, challenger)
    \/ OpenDisputeRound(m)
    \/ Finalize(m)
    \/ MarkFailed(m)
    \/ \E outcome \in {NO, YES} : DirectSettle(m, outcome)
    \/ DirectFail(m)
    \/ DirectMark(m)
    \/ \E a \in Agents, outcome \in VoteChoices : CommitVote(m, a, outcome)
    \/ \E a \in Agents : RevealVote(m, a)

AgentNext(a) ==
    \/ \E amount \in TopUps : Stake(a, amount)
    \/ \E amount \in UnstakeAmounts : RequestUnstake(a, amount)
    \/ WithdrawUnstaked(a)
    \/ \E key \in SpareKeys : SetOperator(a, key)
    \/ Claim(a)

Next ==
    \/ Time
    \/ \E m \in Markets : MarketNext(m)
    \/ \E a \in Agents : AgentNext(a)
    \/ \E amount \in SweepAmounts : SweepUnallocated(amount)
    \/ Finished

Spec == Init /\ [][Next]_vars
=============================================================================
