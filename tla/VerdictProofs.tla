---------------------------- MODULE VerdictProofs ----------------------------
(***************************************************************************)
(* Types, what a verdict may rest on and what follows from it, proved for  *)
(* every number of markets, resolvers and challengers, every committee     *)
(* shape and draw, every window, rate and amount.                          *)
(***************************************************************************)
EXTENDS ResolutionProperties, FiniteSetTheorems, TLAPS

-----------------------------------------------------------------------------
(* Arithmetic the provers need in pieces.                                  *)

(* Integer division of naturals stays a natural.                           *)
LEMMA DivNat == \A a \in Nat, b \in Nat \ {0} : a \div b \in Nat
OBVIOUS

(* A rate in basis points of an amount is an amount.                       *)
LEMMA RateOf == \A a \in Nat, b \in 0..BPS : (a * b) \div BPS \in Nat
<1>1. \A a \in Nat, b \in Nat : a * b \in Nat
  OBVIOUS
<1>2. BPS \in Nat \ {0}
  BY DEF BPS
<1> QED
  BY <1>1, <1>2, DivNat

(* Nothing is a rate of nothing.                                           *)
LEMMA NoRate == \A a \in Nat : (a * 0) \div BPS = 0
BY DEF BPS

-----------------------------------------------------------------------------
(* The market's handlers keep its types, whoever calls them.               *)

MarketHandler(m) ==
    \/ CloseMarket(m) \/ MarkMarketProposed(m) \/ MarkMarketDisputed(m)
    \/ \E outcome \in 0..3 : SettleMarket(m, outcome)
    \/ \E byModule \in BOOLEAN : FailMarket(m, byModule)
    \/ VoidMarket(m)

LEMMA MarketHandlerType ==
    ASSUME NEW m \in Markets, MarketTypeOK, MarketHandler(m)
    PROVE  MarketTypeOK'
BY DEF MarketTypeOK, MarketHandler, CloseMarket, MarkMarketProposed,
       MarkMarketDisputed, SettleMarket, FailMarket, VoidMarket, SetStatus,
       DistributeFees, Statuses

(* What a market sends to the module is never negative.                    *)
LEMMA ToResolversType ==
    ASSUME NEW m \in Markets, MarketTypeOK, NEW slash \in BOOLEAN
    PROVE  ToResolvers(m, slash) \in Nat
<1>1. (feeAccrued[m] * ResolverFeeShareBps) \div BPS \in Nat
  BY RateOf, MarketAssumption DEF MarketTypeOK
<1> QED
  BY <1>1 DEF ToResolvers, MarketTypeOK

-----------------------------------------------------------------------------
(* Stake.                                                                  *)

(* A slash never takes more than there is.                                 *)
LEMMA SlashType ==
    ASSUME NEW amount, \A a \in Agents : amount[a] \in Nat,
           NEW agreed, NEW overturned,
           StakeTypeOK, SlashAll(amount), RecordAll(agreed, overturned)
    PROVE  StakeTypeOK'
<1>1. ASSUME NEW a \in Agents
      PROVE  /\ staked[a] - FromStaked(a, amount[a]) \in Nat
             /\ cooling[a] - FromCooling(a, amount[a]) \in Nat
  BY DEF StakeTypeOK, FromStaked, FromCooling, Least
<1>2. staked' \in [Agents -> Nat] /\ cooling' \in [Agents -> Nat]
  BY <1>1 DEF SlashAll
<1>3. reputation' \in [Agents -> [agreed: Nat, overturned: Nat]]
  BY DEF StakeTypeOK, RecordAll
<1> QED
  BY <1>2, <1>3 DEF SlashAll, StakeTypeOK

(* What a verdict costs is an amount of stake.                             *)
LEMMA PenaltyType ==
    ASSUME NEW m \in Markets, NEW outcome, StakeTypeOK
    PROVE  \A a \in Agents : Penalty(m, outcome)[a] \in Nat
<1> SUFFICES ASSUME NEW a \in Agents
             PROVE  Penalty(m, outcome)[a] \in Nat
  OBVIOUS
<1>1. SlashBps(m, outcome, a) \in {NoShowSlashBps, DisagreeSlashBps, OverturnSlashBps, 0}
  BY DEF SlashBps
<1>2. SlashBps(m, outcome, a) \in 0..BPS
  <2>1. {NoShowSlashBps, DisagreeSlashBps, OverturnSlashBps} \subseteq 0..BPS
    BY ResolutionAssumption
  <2>2. 0 \in 0..BPS
    BY DEF BPS
  <2> QED
    BY <1>1, <2>1, <2>2
<1> QED
  BY <1>2, RateOf DEF Penalty, StakeTypeOK

(* The handlers of AgentRegistry keep its types.                           *)
LEMMA StakeHandlerType ==
    ASSUME StakeTypeOK, now \in Nat, NEW a \in Agents,
           \/ \E amount \in TopUps : StakeMore(a, amount)
           \/ \E amount \in UnstakeAmounts : GiveNotice(a, amount)
           \/ Withdraw(a)
           \/ \E key \in SpareKeys : Rotate(a, key)
    PROVE  StakeTypeOK'
<1> USE StakeAssumption
<1>1. CASE \E amount \in TopUps : StakeMore(a, amount)
  BY <1>1 DEF StakeTypeOK, StakeMore
<1>2. CASE \E amount \in UnstakeAmounts : GiveNotice(a, amount)
  BY <1>2 DEF StakeTypeOK, GiveNotice, MayGiveNotice
<1>3. CASE Withdraw(a)
  BY <1>3 DEF StakeTypeOK, Withdraw
<1>4. CASE \E key \in SpareKeys : Rotate(a, key)
  BY <1>4 DEF StakeTypeOK, Rotate, Keys
<1> QED
  BY <1>1, <1>2, <1>3, <1>4

-----------------------------------------------------------------------------
(* The module's books.                                                     *)

LedgerTypeOK ==
    /\ bond \in [Markets -> BondStates]
    /\ owedTo \in [Agents -> Nat]
    /\ totalOwed \in Int
    /\ balance \in Int

(* An even share of a market's money among finitely many is an amount.     *)
LEMMA EachEarnsType ==
    ASSUME NEW m \in Markets, MarketTypeOK, NEW agreed, agreed \subseteq Agents
    PROVE  /\ Cardinality(agreed) \in Nat
           /\ EachEarns(m, Cardinality(agreed)) \in Nat
<1>1. Cardinality(agreed) \in Nat
  BY ResolutionAssumption, FS_Subset, FS_CardinalityType
<1>2. ToResolvers(m, FALSE) \in Nat
  BY ToResolversType
<1>3. EachEarns(m, Cardinality(agreed)) \in Nat
  BY <1>1, <1>2, DivNat DEF EachEarns
<1> QED
  BY <1>1, <1>3

(* Settling accounts, with or without a verdict, keeps stake and books.    *)
LEMMA SettleAccountsType ==
    ASSUME NEW m \in Markets, NEW outcome, TypeOK, SettleAccounts(m, outcome)
    PROVE  StakeTypeOK' /\ LedgerTypeOK'
<1>1. StakeTypeOK'
  BY PenaltyType, SlashType DEF SettleAccounts, TypeOK
<1> DEFINE agreed == Agreed(m, outcome)
           each   == EachEarns(m, Cardinality(agreed))
<1>2. agreed \subseteq Agents
  BY DEF TypeOK, ResolutionTypeOK, Agreed
<1>3. each \in Nat /\ Cardinality(agreed) \in Nat
  BY <1>2, EachEarnsType DEF TypeOK
<1>4. owedTo' = [a \in Agents |-> owedTo[a] + (IF a \in agreed THEN each ELSE 0)]
      /\ totalOwed' = totalOwed + each * Cardinality(agreed)
  BY DEF SettleAccounts, CreditResolvers
<1> HIDE DEF each, agreed
<1>5. owedTo' \in [Agents -> Nat] /\ totalOwed' \in Int
  BY <1>3, <1>4 DEF TypeOK, ResolutionTypeOK
<1>6. bond' \in [Markets -> BondStates] /\ balance' \in Int
  <2>1. ToResolvers(m, FALSE) \in Nat
    BY ToResolversType DEF TypeOK
  <2>2. SettleDispute(m, outcome)
    BY DEF SettleAccounts
  <2>3. /\ bond \in [Markets -> BondStates]
        /\ balance \in Int
        /\ DisputeBond \in Nat
    BY ResolutionAssumption DEF TypeOK, ResolutionTypeOK
  <2>4. bond' \in [Markets -> BondStates]
    BY <2>2, <2>3 DEF SettleDispute, BondStates
  <2>5. balance' \in {balance - DisputeBond + ToResolvers(m, FALSE),
                      balance + ToResolvers(m, FALSE)}
    BY <2>2 DEF SettleDispute
  <2> QED
    BY <2>1, <2>3, <2>4, <2>5
<1> QED
  BY <1>1, <1>5, <1>6 DEF LedgerTypeOK

-----------------------------------------------------------------------------
(* The rounds.                                                             *)

(* A round stays one when any field of it is written.                      *)
LEMMA RoundFields ==
    ASSUME NEW r \in Rounds
    PROVE  /\ \A x \in Nat : [r EXCEPT !.n = x] \in Rounds
           /\ \A x \in Nat : [r EXCEPT !.k = x] \in Rounds
           /\ \A x \in 0..2 : [r EXCEPT !.index = x] \in Rounds
           /\ \A x \in 0..3 : [r EXCEPT !.proposed = x] \in Rounds
           /\ \A x \in Nat : [r EXCEPT !.commitDeadline = x] \in Rounds
           /\ \A x \in Nat : [r EXCEPT !.revealDeadline = x] \in Rounds
           /\ \A x \in Nat : [r EXCEPT !.disputeDeadline = x] \in Rounds
           /\ [r EXCEPT !.finalized = TRUE] \in Rounds
BY DEF Rounds

(* The ways the module rewrites a round.                                   *)
LEMMA RoundUpdates ==
    ASSUME NEW r \in Rounds, NEW n \in Nat, NEW k \in Nat,
           NEW p \in 0..3, NEW d \in Nat, NEW e \in Nat
    PROVE  /\ EmptyRound \in Rounds
           /\ [r EXCEPT !.proposed = p, !.disputeDeadline = d] \in Rounds
           /\ [r EXCEPT !.n = n, !.k = k, !.commitDeadline = d,
                        !.revealDeadline = e] \in Rounds
           /\ [r EXCEPT !.finalized = TRUE] \in Rounds
           /\ [r EXCEPT !.n = n, !.k = k, !.index = 1, !.proposed = NONE,
                        !.commitDeadline = d, !.revealDeadline = e] \in Rounds
           /\ DisputedRound \in Rounds
<1>1. EmptyRound \in Rounds
  BY DEF Rounds, EmptyRound, NO
<1>2. 1 \in 0..2 /\ 2 \in 0..2 /\ NONE \in 0..3
  BY DEF NONE
<1>3. [EmptyRound EXCEPT !.index = 2, !.proposed = NONE] \in Rounds
  BY <1>1, <1>2, RoundFields
<1>4. [r EXCEPT !.n = n, !.k = k, !.index = 1, !.proposed = NONE,
               !.commitDeadline = d, !.revealDeadline = e] \in Rounds
  BY <1>2, RoundFields
<1>5. [r EXCEPT !.n = n, !.k = k, !.commitDeadline = d,
               !.revealDeadline = e] \in Rounds
  BY RoundFields
<1> QED
  BY <1>1, <1>3, <1>4, <1>5, RoundFields DEF DisputedRound

(* Windows end at a time.                                                  *)
LEMMA WindowsType ==
    ASSUME now \in Nat
    PROVE  /\ now + CommitWindow \in Nat
           /\ now + CommitWindow + RevealWindow \in Nat
           /\ now + DisputeWindow \in Nat
BY ResolutionAssumption

(* An unwritten round is a round, and so is one just opened.               *)
LEMMA EmptyRoundType == EmptyRound \in Rounds
BY DEF Rounds, EmptyRound, NO

LEMMA OpenedRoundType ==
    ASSUME NEW n \in Nat, NEW k \in Nat, NEW d \in Nat, NEW e \in Nat
    PROVE  [EmptyRound EXCEPT !.n = n, !.k = k, !.index = 1,
               !.proposed = NONE, !.commitDeadline = d,
               !.revealDeadline = e] \in Rounds
<1>1. NONE \in 0..3
  BY DEF NONE
<1> QED
  BY <1>1, EmptyRoundType, RoundUpdates

LEMMA OpenResolutionType ==
    ASSUME NEW m \in Markets, TypeOK, OpenResolution(m)
    PROVE  ResolutionTypeOK'
<1> DEFINE opened(shape) ==
              [EmptyRound EXCEPT
                 !.n = shape[1], !.k = shape[2], !.index = 1,
                 !.proposed = NONE,
                 !.commitDeadline = now + CommitWindow,
                 !.revealDeadline = now + CommitWindow + RevealWindow]
<1>1. PICK shape \in TierShapes :
        /\ \E picked \in Samples(shape[1], {}) :
              /\ committee' = [committee EXCEPT ![m] = picked]
              /\ roundOne' = [roundOne EXCEPT ![m] = picked]
        /\ round' = [round EXCEPT ![m] = opened(shape)]
  BY DEF OpenResolution
<1>2. round' \in [Markets -> Rounds]
  <2>1. shape[1] \in Nat /\ shape[2] \in Nat
    BY ResolutionAssumption
  <2>2. now + CommitWindow \in Nat /\ now + CommitWindow + RevealWindow \in Nat
    BY WindowsType DEF TypeOK
  <2>3. opened(shape) \in Rounds
    BY <2>1, <2>2, OpenedRoundType
  <2>4. round \in [Markets -> Rounds]
    BY DEF TypeOK, ResolutionTypeOK
  <2> HIDE DEF opened
  <2> QED
    BY <1>1, <2>3, <2>4
<1>3. committee' \in [Markets -> SUBSET Agents] /\ roundOne' \in [Markets -> SUBSET Agents]
  BY <1>1 DEF TypeOK, ResolutionTypeOK, Samples, Eligible
<1>4. draw' \in [Markets -> [phase: DrawPhases, index: 0..2]]
  BY DEF TypeOK, ResolutionTypeOK, OpenResolution, ConsumeDraw, NoDraw, DrawPhases
<1> QED
  BY <1>2, <1>3, <1>4
  DEF OpenResolution, TypeOK, ResolutionTypeOK, voteVars, bondVars, ledgerVars

LEMMA RevealVoteType ==
    ASSUME NEW m \in Markets, NEW a \in Agents, TypeOK, RevealVote(m, a)
    PROVE  ResolutionTypeOK'
<1> DEFINE outcome == commitment[m][a].outcome
           answered == [round[m] EXCEPT !.proposed = outcome,
                                        !.disputeDeadline = now + DisputeWindow]
<1>1. outcome \in Outcomes /\ outcome \in 0..3
  BY DEF TypeOK, ResolutionTypeOK, Commitments, RevealVote, Outcomes,
         NO, YES, UNRESOLVABLE, NONE
<1>2. reveal' \in [Markets -> [Agents -> 0..3]]
  BY <1>1 DEF RevealVote, TypeOK, ResolutionTypeOK
<1>3. tally' \in [Markets -> [Outcomes -> Nat]]
  <2>1. tally' = [tally EXCEPT ![m][outcome] = tally[m][outcome] + 1]
    BY DEF RevealVote
  <2>2. tally \in [Markets -> [Outcomes -> Nat]]
    BY DEF TypeOK, ResolutionTypeOK
  <2> QED
    BY <1>1, <2>1, <2>2
<1>4. round' \in [Markets -> Rounds]
  <2>1. answered \in Rounds
    BY <1>1, WindowsType, RoundUpdates DEF TypeOK, ResolutionTypeOK
  <2>2. UNCHANGED round \/ round' = [round EXCEPT ![m] = answered]
    BY DEF RevealVote
  <2>3. round \in [Markets -> Rounds]
    BY DEF TypeOK, ResolutionTypeOK
  <2> HIDE DEF answered
  <2> QED
    BY <2>1, <2>2, <2>3
<1> QED
  BY <1>2, <1>3, <1>4
  DEF RevealVote, TypeOK, ResolutionTypeOK, bondVars, ledgerVars

LEMMA DisputeType ==
    ASSUME NEW m \in Markets, NEW challenger \in Challengers, TypeOK,
           Dispute(m, challenger)
    PROVE  ResolutionTypeOK'
<1>1. round' \in [Markets -> Rounds]
  <2>1. DisputedRound \in Rounds
    <3>1. 2 \in 0..2 /\ NONE \in 0..3
      BY DEF NONE
    <3> QED
      BY <3>1, EmptyRoundType, RoundFields DEF DisputedRound
  <2>2. round' = [round EXCEPT ![m] = DisputedRound]
    BY DEF Dispute
  <2>3. round \in [Markets -> Rounds]
    BY DEF TypeOK, ResolutionTypeOK
  <2> QED
    BY <2>1, <2>2, <2>3
<1>2. draw' \in [Markets -> [phase: DrawPhases, index: 0..2]]
  BY DEF Dispute, RequestDraw, TypeOK, ResolutionTypeOK, DrawPhases
<1>3. roundOneOutcome' \in [Markets -> 0..3] /\ tally' \in [Markets -> [Outcomes -> Nat]]
  BY DEF Dispute, TypeOK, ResolutionTypeOK, Rounds
<1>4. balance' \in Int /\ bond' \in [Markets -> BondStates]
  BY ResolutionAssumption DEF Dispute, TypeOK, ResolutionTypeOK, BondStates
<1> QED
  BY <1>1, <1>2, <1>3, <1>4
  DEF Dispute, TypeOK, ResolutionTypeOK, voteVars

LEMMA OpenDisputeRoundType ==
    ASSUME NEW m \in Markets, TypeOK, OpenDisputeRound(m)
    PROVE  ResolutionTypeOK'
<1>1. round' \in [Markets -> Rounds]
  <2>1. DisputeShape[1] \in Nat /\ DisputeShape[2] \in Nat
    BY ResolutionAssumption
  <2>2. now \in Nat /\ round \in [Markets -> Rounds]
    BY DEF TypeOK, ResolutionTypeOK
  <2>3. [round[m] EXCEPT !.n = DisputeShape[1], !.k = DisputeShape[2],
                         !.commitDeadline = now + CommitWindow,
                         !.revealDeadline = now + CommitWindow + RevealWindow] \in Rounds
    <3>1. round[m] \in Rounds /\ 0 \in 0..3
      BY <2>2
    <3>2. now + CommitWindow \in Nat /\ now + CommitWindow + RevealWindow \in Nat
      BY <2>2, WindowsType
    <3> QED
      BY <2>1, <3>1, <3>2, RoundUpdates
  <2> QED
    BY <2>2, <2>3 DEF OpenDisputeRound
<1>2. draw' \in [Markets -> [phase: DrawPhases, index: 0..2]]
  BY DEF TypeOK, ResolutionTypeOK, OpenDisputeRound, ConsumeDraw, NoDraw, DrawPhases
<1>3. committee' \in [Markets -> SUBSET Agents]
  BY DEF TypeOK, ResolutionTypeOK, OpenDisputeRound, Samples, Eligible
<1> QED
  BY <1>1, <1>2, <1>3
  DEF OpenDisputeRound, TypeOK, ResolutionTypeOK, voteVars, bondVars, ledgerVars

(* Closing a round leaves a round.                                         *)
LEMMA FinalizedType ==
    ASSUME NEW m \in Markets, round \in [Markets -> Rounds],
           round' = [round EXCEPT ![m].finalized = TRUE]
    PROVE  round' \in [Markets -> Rounds]
<1>1. [round[m] EXCEPT !.finalized = TRUE] \in Rounds
  BY RoundFields
<1>2. round' = [round EXCEPT ![m] = [round[m] EXCEPT !.finalized = TRUE]]
  OBVIOUS
<1> QED
  BY <1>1, <1>2

LEMMA FinalizeType ==
    ASSUME NEW m \in Markets, TypeOK, Finalize(m)
    PROVE  StakeTypeOK' /\ ResolutionTypeOK'
<1>1. StakeTypeOK' /\ LedgerTypeOK'
  BY SettleAccountsType DEF Finalize
<1>2. round' \in [Markets -> Rounds]
  BY FinalizedType DEF Finalize, TypeOK, ResolutionTypeOK
<1> QED
  BY <1>1, <1>2
  DEF Finalize, LedgerTypeOK, TypeOK, ResolutionTypeOK, voteVars

LEMMA MarkFailedType ==
    ASSUME NEW m \in Markets, TypeOK, MarkFailed(m)
    PROVE  StakeTypeOK' /\ ResolutionTypeOK'
<1>1. StakeTypeOK' /\ LedgerTypeOK'
  BY SettleAccountsType DEF MarkFailed
<1>2. round' \in [Markets -> Rounds]
  BY FinalizedType DEF MarkFailed, TypeOK, ResolutionTypeOK
<1> QED
  BY <1>1, <1>2
  DEF MarkFailed, LedgerTypeOK, TypeOK, ResolutionTypeOK, voteVars

(* Money that reaches the module, or leaves it, is an amount.              *)
LEMMA BalanceType ==
    ASSUME ResolutionTypeOK, UNCHANGED <<roundVars, voteVars, bondVars, viaCommittee>>,
           owedTo' \in [Agents -> Nat], totalOwed' \in Int, balance' \in Int
    PROVE  ResolutionTypeOK'
BY DEF ResolutionTypeOK, roundVars, voteVars, bondVars

-----------------------------------------------------------------------------
(* Type correctness.                                                       *)

(* The actions that only move the market and its money.                    *)
MarketOnly(m) ==
    \/ Close(m) \/ Fail(m) \/ Void(m)
    \/ \E outcome \in {NO, YES} : DirectSettle(m, outcome)
    \/ DirectFail(m) \/ DirectMark(m)

LEMMA MarketOnlyType ==
    ASSUME NEW m \in Markets, TypeOK, MarketOnly(m)
    PROVE  TypeOK'
<1>1. MarketHandler(m)
  <2>1. CASE Close(m) \/ Void(m) \/ DirectMark(m)
    BY <2>1 DEF MarketHandler, Close, Void, DirectMark
  <2>2. CASE Fail(m) \/ DirectFail(m)
    BY <2>2 DEF MarketHandler, Fail, DirectFail
  <2>3. CASE \E outcome \in {NO, YES} : DirectSettle(m, outcome)
    <3>1. PICK outcome \in {NO, YES} : DirectSettle(m, outcome)
      BY <2>3
    <3>2. outcome \in 0..3
      BY DEF NO, YES
    <3> QED
      BY <3>1, <3>2 DEF MarketHandler, DirectSettle
  <2> QED
    BY <2>1, <2>2, <2>3 DEF MarketOnly
<1>2. MarketTypeOK'
  BY <1>1, MarketHandlerType DEF TypeOK
<1>3. now' \in Nat /\ StakeTypeOK'
  BY DEF TypeOK, StakeTypeOK, stakeVars, MarketOnly, Close, Fail, Void,
         DirectSettle, DirectFail, DirectMark
<1>4. balance' \in Int
  <2>1. balance \in Int
    BY DEF TypeOK, ResolutionTypeOK
  <2>2. balance' \in {balance, balance + ToResolvers(m, FALSE),
                      balance + ToResolvers(m, TRUE)}
    BY DEF MarketOnly, Close, Fail, Void, DirectSettle, DirectFail, DirectMark,
           ledgerVars
  <2>3. ToResolvers(m, FALSE) \in Nat /\ ToResolvers(m, TRUE) \in Nat
    BY ToResolversType DEF TypeOK
  <2> QED
    BY <2>1, <2>2, <2>3
<1>5. /\ UNCHANGED <<roundVars, voteVars, bondVars, viaCommittee>>
      /\ UNCHANGED <<owedTo, totalOwed>>
  BY DEF MarketOnly, Close, Fail, Void, DirectSettle, DirectFail, DirectMark,
         ledgerVars
<1>6. ResolutionTypeOK'
  BY <1>4, <1>5, BalanceType DEF TypeOK, ResolutionTypeOK
<1> QED
  BY <1>2, <1>3, <1>6 DEF TypeOK

(* The actions of a market's draw, committee and verdict.                  *)
RoundStep(m) ==
    \/ RequestResolution(m) \/ DrawAges(m) \/ OpenResolution(m)
    \/ \E challenger \in Challengers : Dispute(m, challenger)
    \/ OpenDisputeRound(m) \/ Finalize(m) \/ MarkFailed(m)
    \/ \E a \in Agents, outcome \in VoteChoices : CommitVote(m, a, outcome)
    \/ \E a \in Agents : RevealVote(m, a)

LEMMA RoundStepMarketType ==
    ASSUME NEW m \in Markets, TypeOK, RoundStep(m)
    PROVE  now' \in Nat /\ MarketTypeOK'
<1>1. UNCHANGED now
  BY DEF RoundStep, RequestResolution, DrawAges, OpenResolution, Dispute,
         OpenDisputeRound, Finalize, MarkFailed, CommitVote, RevealVote
<1>2. UNCHANGED marketVars \/ MarketHandler(m)
  <2>1. CASE RequestResolution(m) \/ DrawAges(m) \/ OpenResolution(m)
             \/ OpenDisputeRound(m)
    BY <2>1 DEF RequestResolution, DrawAges, OpenResolution, OpenDisputeRound
  <2>2. CASE \E challenger \in Challengers : Dispute(m, challenger)
    BY <2>2 DEF Dispute, MarketHandler
  <2>3. CASE Finalize(m)
    <3>1. round[m].proposed \in 0..3
      BY DEF TypeOK, ResolutionTypeOK, Rounds
    <3> QED
      BY <2>3, <3>1 DEF Finalize, MarketHandler
  <2>4. CASE MarkFailed(m)
    BY <2>4 DEF MarkFailed, MarketHandler
  <2>5. CASE \E a \in Agents, outcome \in VoteChoices : CommitVote(m, a, outcome)
    BY <2>5 DEF CommitVote
  <2>6. CASE \E a \in Agents : RevealVote(m, a)
    BY <2>6 DEF RevealVote, MarketHandler
  <2> QED
    BY <2>1, <2>2, <2>3, <2>4, <2>5, <2>6 DEF RoundStep
<1>3. CASE UNCHANGED marketVars
  BY <1>1, <1>3 DEF TypeOK, MarketTypeOK, marketVars
<1>4. CASE MarketHandler(m)
  BY <1>1, <1>4, MarketHandlerType DEF TypeOK
<1> QED
  BY <1>2, <1>3, <1>4

LEMMA RoundStepType ==
    ASSUME NEW m \in Markets, TypeOK, RoundStep(m)
    PROVE  TypeOK'
<1>1. now' \in Nat /\ MarketTypeOK'
  BY RoundStepMarketType
<1>2. CASE Finalize(m) \/ MarkFailed(m)
  BY <1>1, <1>2, FinalizeType, MarkFailedType DEF TypeOK
<1>3. CASE ~(Finalize(m) \/ MarkFailed(m))
  <2>1. StakeTypeOK'
    BY <1>3 DEF TypeOK, StakeTypeOK, stakeVars, RoundStep, RequestResolution,
       DrawAges, OpenResolution, Dispute, OpenDisputeRound, CommitVote, RevealVote
  <2>2. CASE RequestResolution(m) \/ DrawAges(m)
    <3>1. draw' \in [Markets -> [phase: DrawPhases, index: 0..2]]
      <4>1. draw \in [Markets -> [phase: DrawPhases, index: 0..2]]
        BY DEF TypeOK, ResolutionTypeOK
      <4>2. PICK next \in [phase: DrawPhases, index: 0..2] :
              draw' = [draw EXCEPT ![m] = next]
        <5>1. CASE RequestResolution(m)
          <6>1. /\ [phase |-> "waiting", index |-> 1] \in [phase: DrawPhases, index: 0..2]
                /\ [phase |-> "waiting", index |-> 2] \in [phase: DrawPhases, index: 0..2]
            BY DEF DrawPhases
          <6> QED
            BY <5>1, <6>1 DEF RequestResolution, RequestDraw
        <5>2. CASE DrawAges(m)
          <6>1. /\ [draw[m] EXCEPT !.phase = "live"] \in [phase: DrawPhases, index: 0..2]
                /\ [draw[m] EXCEPT !.phase = "expired"] \in [phase: DrawPhases, index: 0..2]
            BY <4>1 DEF DrawPhases
          <6>2. \/ draw' = [draw EXCEPT ![m] = [draw[m] EXCEPT !.phase = "live"]]
                \/ draw' = [draw EXCEPT ![m] = [draw[m] EXCEPT !.phase = "expired"]]
            BY <5>2 DEF DrawAges
          <6> QED
            BY <6>1, <6>2
        <5> QED
          BY <2>2, <5>1, <5>2
      <4> QED
        BY <4>1, <4>2
    <3>2. ResolutionTypeOK'
      BY <2>2, <3>1 DEF RequestResolution, DrawAges, TypeOK, ResolutionTypeOK,
                        voteVars, bondVars, ledgerVars
    <3> QED
      BY <1>1, <2>1, <3>2 DEF TypeOK
  <2>3. CASE \E a \in Agents, outcome \in VoteChoices : CommitVote(m, a, outcome)
    <3>1. commitment' \in [Markets -> [Agents -> Commitments]]
      BY <2>3, ResolutionAssumption DEF CommitVote, TypeOK, ResolutionTypeOK,
         StakeTypeOK, Commitments, Outcomes, NO, YES, UNRESOLVABLE
    <3>2. ResolutionTypeOK'
      BY <2>3, <3>1 DEF CommitVote, TypeOK, ResolutionTypeOK, roundVars,
                        bondVars, ledgerVars
    <3> QED
      BY <1>1, <2>1, <3>2 DEF TypeOK
  <2>4. CASE \/ OpenResolution(m) \/ OpenDisputeRound(m)
             \/ \E challenger \in Challengers : Dispute(m, challenger)
             \/ \E a \in Agents : RevealVote(m, a)
    BY <1>1, <2>1, <2>4, OpenResolutionType, OpenDisputeRoundType, DisputeType,
       RevealVoteType DEF TypeOK
  <2> QED
    BY <1>3, <2>2, <2>3, <2>4 DEF RoundStep
<1> QED
  BY <1>2, <1>3

(* Stake, notice, keys and earnings.                                       *)
LEMMA AgentStepType ==
    ASSUME NEW a \in Agents, TypeOK, AgentNext(a)
    PROVE  TypeOK'
<1>1. CASE Claim(a)
  <2>1. owedTo' \in [Agents -> Nat] /\ totalOwed' \in Int /\ balance' \in Int
    BY <1>1 DEF Claim, TypeOK, ResolutionTypeOK
  <2>2. ResolutionTypeOK'
    BY <1>1, <2>1, BalanceType DEF Claim, TypeOK
  <2> QED
    BY <1>1, <2>2 DEF Claim, TypeOK, MarketTypeOK, StakeTypeOK, marketVars, stakeVars
<1>2. CASE ~Claim(a)
  <2>1. /\ UNCHANGED <<now, marketVars, roundVars, voteVars, bondVars,
                       viaCommittee, ledgerVars>>
        /\ \/ \E amount \in TopUps : StakeMore(a, amount)
           \/ \E amount \in UnstakeAmounts : GiveNotice(a, amount)
           \/ Withdraw(a)
           \/ \E key \in SpareKeys : Rotate(a, key)
    BY <1>2 DEF AgentNext, Stake, RequestUnstake, WithdrawUnstaked, SetOperator
  <2>2. StakeTypeOK'
    BY <2>1, StakeHandlerType DEF TypeOK
  <2> QED
    BY <2>1, <2>2 DEF TypeOK, MarketTypeOK, ResolutionTypeOK, marketVars, roundVars,
                      voteVars, bondVars, ledgerVars
<1> QED
  BY <1>1, <1>2

LEMMA StutterType ==
    ASSUME TypeOK, UNCHANGED vars
    PROVE  TypeOK'
BY DEF TypeOK, MarketTypeOK, StakeTypeOK, ResolutionTypeOK, vars, marketVars,
       stakeVars, roundVars, voteVars, bondVars, ledgerVars

(* Every action keeps the types.                                           *)
LEMMA TypeStep ==
    ASSUME TypeOK, [Next]_vars
    PROVE  TypeOK'
<1>1. CASE Time
  BY <1>1 DEF Time, Tick, TypeOK, MarketTypeOK, StakeTypeOK, ResolutionTypeOK,
     marketVars, stakeVars, roundVars, voteVars, bondVars, ledgerVars
<1>2. ASSUME NEW m \in Markets, MarketNext(m)
      PROVE  TypeOK'
  <2>1. MarketOnly(m) \/ RoundStep(m)
    BY <1>2 DEF MarketNext, MarketOnly, RoundStep
  <2> QED
    BY <2>1, MarketOnlyType, RoundStepType
<1>3. ASSUME NEW a \in Agents, AgentNext(a)
      PROVE  TypeOK'
  BY <1>3, AgentStepType
<1>4. CASE \E amount \in SweepAmounts : SweepUnallocated(amount)
  <2>1. owedTo' \in [Agents -> Nat] /\ totalOwed' \in Int /\ balance' \in Int
    BY <1>4, ResolutionAssumption DEF SweepUnallocated, TypeOK, ResolutionTypeOK
  <2>2. ResolutionTypeOK'
    BY <1>4, <2>1, BalanceType DEF SweepUnallocated, TypeOK
  <2> QED
    BY <1>4, <2>2 DEF SweepUnallocated, TypeOK, MarketTypeOK, StakeTypeOK,
                      marketVars, stakeVars
<1>5. CASE Finished \/ UNCHANGED vars
  BY <1>5, StutterType DEF Finished
<1> QED
  BY <1>1, <1>2, <1>3, <1>4, <1>5 DEF Next

(* The contracts start well typed.                                         *)
LEMMA TypeStart ==
    ASSUME Init
    PROVE  TypeOK
<1>1. now \in Nat /\ MarketTypeOK
  BY MarketAssumption DEF Init, ChainInit, MarketInit, MarketTypeOK, Statuses
<1>2. StakeTypeOK
  BY StakeAssumption DEF Init, StakeInit, StakeTypeOK, Keys
<1>3. round \in [Markets -> Rounds]
  BY EmptyRoundType DEF Init
<1>4. draw \in [Markets -> [phase: DrawPhases, index: 0..2]]
  BY DEF Init, NoDraw, DrawPhases
<1>5. commitment \in [Markets -> [Agents -> Commitments]]
  BY DEF Init, NoCommitment, Commitments, Keys, NONE
<1>6. /\ reveal \in [Markets -> [Agents -> 0..3]]
      /\ tally \in [Markets -> [Outcomes -> Nat]]
      /\ roundOneOutcome \in [Markets -> 0..3]
  BY DEF Init, NONE
<1>7. /\ committee \in [Markets -> SUBSET Agents]
      /\ roundOne \in [Markets -> SUBSET Agents]
      /\ disputer \in [Markets -> Challengers \cup {Nobody}]
      /\ bond \in [Markets -> BondStates]
      /\ viaCommittee \in [Markets -> BOOLEAN]
  BY DEF Init, BondStates
<1>8. owedTo \in [Agents -> Nat] /\ totalOwed \in Int /\ balance \in Int
  BY DEF Init
<1> QED
  BY <1>1, <1>2, <1>3, <1>4, <1>5, <1>6, <1>7, <1>8 DEF TypeOK, ResolutionTypeOK

(* Every behaviour of the contracts keeps their types: in particular no    *)
(* stake, notice or earning goes below zero, where the code would revert.  *)
THEOREM TypeCorrect == Spec => []TypeOK
<1>1. Init => TypeOK
  BY TypeStart
<1>2. TypeOK /\ [Next]_vars => TypeOK'
  BY TypeStep
<1> QED
  BY <1>1, <1>2, PTL DEF Spec

-----------------------------------------------------------------------------
(* The inductive invariant, market by market.                              *)

(* A round that was never opened has no committee and no history.          *)
Unopened(m) ==
    /\ round[m].index = 0 => round[m].n = 0 /\ roundOne[m] = {}
    /\ round[m].n = 0 => committee[m] = {}

(* Which committee is which: round 1 remembers its own, and round 2 exists *)
(* exactly when somebody disputed.                                         *)
Committees(m) ==
    /\ round[m].index = 1 => committee[m] = roundOne[m]
    /\ round[m].index = 2 => committee[m] \cap roundOne[m] = {}
    /\ round[m].index = 2 <=> disputer[m] # Nobody

(* Only sampled members reveal, and the sitting ones after commits closed. *)
RevealsInTurn(m) ==
    \A a \in Agents : reveal[m][a] # NONE =>
        /\ a \in roundOne[m] \cup committee[m]
        /\ a \in committee[m] => now > round[m].commitDeadline

(* A finalized round ended its market, as its verdict says if it had one.  *)
Closing(m) ==
    /\ round[m].finalized => Terminal(m)
    /\ viaCommittee[m] =>
         /\ round[m].finalized
         /\ HasProposal(m)
         /\ IF round[m].proposed = UNRESOLVABLE
            THEN status[m] = "Failed"
            ELSE status[m] = "Settled" /\ winningOutcome[m] = round[m].proposed
    /\ status[m] = "Settled" /\ ~AllowlistOpen => viaCommittee[m]

(* The bond is held while a dispute is open and paid when it is not.       *)
Bonded(m) ==
    round[m].index = 2 =>
        bond[m] = IF ~round[m].finalized THEN "held"
                  ELSE IF Overturned(m) THEN "refunded" ELSE "forfeited"

Drawn(m) ==
    draw[m].phase # "none" =>
        \/ draw[m].index = 1 /\ round[m].index = 0
        \/ draw[m].index = 2 /\ round[m].index = 2 /\ round[m].n = 0

InStep(m) ==
    ~AllowlistOpen /\ ~Terminal(m) =>
        /\ status[m] = "Proposed" <=> HasProposal(m)
        /\ status[m] = "Disputed" <=> round[m].index = 2 /\ ~HasProposal(m)
        /\ ~round[m].finalized

Consistent(m) ==
    /\ Unopened(m)
    /\ Committees(m)
    /\ RevealsInTurn(m)
    /\ Closing(m)
    /\ Bonded(m)
    /\ Drawn(m)
    /\ InStep(m)

IInv == TypeOK /\ \A m \in Markets : Consistent(m)

-----------------------------------------------------------------------------
(* Locality: a step disturbs the state of at most one market.              *)

MarketView(m) == <<status[m], winningOutcome[m], draw[m], round[m], committee[m],
             roundOne[m], commitment[m], reveal[m], roundOneOutcome[m],
             disputer[m], bond[m], viaCommittee[m]>>

(* An action of one market leaves the others as they are.                  *)
LEMMA Elsewhere ==
    ASSUME TypeOK, NEW m \in Markets, NEW b \in Markets, b # m, MarketNext(b)
    PROVE  UNCHANGED <<now, MarketView(m)>>
<1> USE DEF TypeOK, MarketTypeOK, ResolutionTypeOK, MarketView
<1>1. CASE MarketOnly(b)
  BY <1>1 DEF MarketOnly, Close, Fail, Void, DirectSettle, DirectFail, DirectMark,
     CloseMarket, FailMarket, VoidMarket, SettleMarket, MarkMarketProposed,
     MarkMarketDisputed, SetStatus, roundVars, voteVars, bondVars
<1>2. CASE RequestResolution(b) \/ DrawAges(b) \/ OpenResolution(b) \/ OpenDisputeRound(b)
  BY <1>2 DEF RequestResolution, RequestDraw, DrawAges, OpenResolution,
     OpenDisputeRound, ConsumeDraw, marketVars, voteVars, bondVars
<1>3. CASE \E challenger \in Challengers : Dispute(b, challenger)
  BY <1>3 DEF Dispute, RequestDraw, MarkMarketDisputed, SetStatus, voteVars
<1>4. CASE \E a \in Agents, outcome \in VoteChoices : CommitVote(b, a, outcome)
  BY <1>4 DEF CommitVote, marketVars, roundVars, bondVars
<1>5. CASE \E a \in Agents : RevealVote(b, a)
  <2>1. PICK a \in Agents : RevealVote(b, a)
    BY <1>5
  <2> QED
    BY <2>1 DEF RevealVote, MarkMarketProposed, SetStatus, marketVars, bondVars
<1>6. CASE Finalize(b) \/ MarkFailed(b)
  <2>1. /\ UNCHANGED <<now, draw, committee, roundOne, roundOneOutcome, voteVars,
                        disputer>>
        /\ UNCHANGED viaCommittee \/ viaCommittee' = [viaCommittee EXCEPT ![b] = TRUE]
        /\ round' = [round EXCEPT ![b].finalized = TRUE]
    BY <1>6 DEF Finalize, MarkFailed
  <2>2. bond'[m] = bond[m]
    <3>1. PICK outcome : SettleDispute(b, outcome)
      BY <1>6 DEF Finalize, MarkFailed, SettleAccounts
    <3>2. \/ UNCHANGED bond
          \/ \E after : bond' = [bond EXCEPT ![b] = after]
      BY <3>1 DEF SettleDispute
    <3> QED
      BY <3>2
  <2>3. status'[m] = status[m] /\ winningOutcome'[m] = winningOutcome[m]
    BY <1>6 DEF Finalize, MarkFailed, FailMarket, SettleMarket, SetStatus
  <2> QED
    BY <2>1, <2>2, <2>3 DEF voteVars
<1> QED
  BY <1>1, <1>2, <1>3, <1>4, <1>5, <1>6 DEF MarketNext, MarketOnly

(* So a step is one of the market's own, or leaves it alone and does not   *)
(* turn the clock back.                                                    *)
LEMMA Locality ==
    ASSUME TypeOK, NEW m \in Markets, [Next]_vars
    PROVE  MarketNext(m) \/ (UNCHANGED MarketView(m) /\ now' \in Nat /\ now' >= now)
<1> USE DEF TypeOK
<1>1. CASE Time
  BY <1>1 DEF Time, Tick, MarketView, marketVars, roundVars, voteVars, bondVars
<1>2. ASSUME NEW b \in Markets, MarketNext(b), b # m
      PROVE  UNCHANGED <<now, MarketView(m)>>
  BY <1>2, Elsewhere
<1>3. CASE \E a \in Agents : AgentNext(a)
  BY <1>3 DEF AgentNext, Stake, RequestUnstake, WithdrawUnstaked, SetOperator,
     Claim, MarketView, marketVars, roundVars, voteVars, bondVars
<1>4. CASE \E amount \in SweepAmounts : SweepUnallocated(amount)
  BY <1>4 DEF SweepUnallocated, MarketView, marketVars, roundVars, voteVars, bondVars
<1>5. CASE Finished \/ UNCHANGED vars
  BY <1>5 DEF Finished, vars, MarketView, marketVars, roundVars, voteVars, bondVars
<1> QED
  BY <1>1, <1>2, <1>3, <1>4, <1>5 DEF Next

-----------------------------------------------------------------------------
(* Preservation, action by action.                                         *)

(* A market left alone stays consistent as time passes.                    *)
LEMMA QuietKeeps ==
    ASSUME TypeOK, NEW m \in Markets, Consistent(m), UNCHANGED MarketView(m),
           now' \in Nat, now' >= now
    PROVE  Consistent(m)'
<1>1. \A a \in Agents : round[m].commitDeadline \in Nat /\ now \in Nat
  BY DEF TypeOK, ResolutionTypeOK, Rounds
<1>2. /\ Unopened(m)' /\ Committees(m)' /\ Closing(m)' /\ Bonded(m)' /\ Drawn(m)'
      /\ InStep(m)'
  BY DEF MarketView, Consistent, Unopened, Committees, Closing, Bonded, Drawn, InStep,
         Terminal, HasProposal, Overturned
<1>3. RevealsInTurn(m)'
  BY <1>1 DEF MarketView, Consistent, RevealsInTurn
<1> QED
  BY <1>2, <1>3 DEF Consistent

(* Closing, failing, voiding and the direct path.                          *)
LEMMA MarketOnlyKeeps ==
    ASSUME TypeOK, NEW m \in Markets, Consistent(m), MarketOnly(m)
    PROVE  Consistent(m)'
<1>1. /\ UNCHANGED <<now, draw[m], round[m], committee[m], roundOne[m], commitment[m],
                     reveal[m], roundOneOutcome[m], disputer[m], bond[m],
                     viaCommittee[m]>>
  BY DEF MarketOnly, Close, Fail, Void, DirectSettle, DirectFail, DirectMark,
     roundVars, voteVars, bondVars
<1>2. ~Terminal(m)
  BY DEF MarketOnly, Close, Fail, Void, DirectSettle, DirectFail, DirectMark,
     CloseMarket, FailMarket, VoidMarket, SettleMarket, MarkMarketProposed,
     MarkMarketDisputed, Terminal, TerminalStatuses
<1>3. AllowlistOpen \/ status'[m] \in {"Failed", "Voided"}
      \/ (status[m] = "Open" /\ status'[m] = "Closed")
  BY DEF MarketOnly, Close, Fail, Void, DirectSettle, DirectFail, DirectMark,
     CloseMarket, FailMarket, VoidMarket, SetStatus, TypeOK, MarketTypeOK
<1>4. ~round[m].finalized /\ ~viaCommittee[m]
  BY <1>2 DEF Consistent, Closing
<1>5. Unopened(m)' /\ Committees(m)' /\ RevealsInTurn(m)' /\ Bonded(m)' /\ Drawn(m)'
  BY <1>1 DEF Consistent, Unopened, Committees, RevealsInTurn, Bonded, Drawn, Overturned
<1>6. Closing(m)'
  BY <1>1, <1>3, <1>4 DEF Closing
<1>7. InStep(m)'
  BY <1>1, <1>2, <1>3 DEF Consistent, InStep, HasProposal, Terminal, TerminalStatuses
<1> QED
  BY <1>5, <1>6, <1>7 DEF Consistent

(* Asking for a draw, and a draw ageing.                                   *)
LEMMA DrawKeeps ==
    ASSUME TypeOK, NEW m \in Markets, Consistent(m),
           RequestResolution(m) \/ DrawAges(m)
    PROVE  Consistent(m)'
<1>1. UNCHANGED <<now, status, winningOutcome, round, committee, roundOne, reveal,
                  roundOneOutcome, disputer, bond, viaCommittee>>
  BY DEF RequestResolution, DrawAges, marketVars, voteVars, bondVars
<1>2. /\ Unopened(m)' /\ Committees(m)' /\ Closing(m)' /\ Bonded(m)'
      /\ InStep(m)' /\ RevealsInTurn(m)'
  BY <1>1 DEF Consistent, Unopened, Committees, Closing, Bonded, InStep, RevealsInTurn,
     Terminal, HasProposal, Overturned
<1>3. Drawn(m)'
  <2>1. CASE RequestResolution(m)
    BY <1>1, <2>1 DEF RequestResolution, RequestDraw, Drawn, TypeOK, ResolutionTypeOK
  <2>2. CASE DrawAges(m)
    <3>1. draw[m].phase # "none" /\ draw'[m].index = draw[m].index
      BY <2>2 DEF DrawAges, TypeOK, ResolutionTypeOK
    <3> QED
      BY <1>1, <3>1 DEF Consistent, Drawn
  <2> QED
    BY <2>1, <2>2
<1> QED
  BY <1>2, <1>3 DEF Consistent

(* A draw opens round 1 of a closed market.                                *)
LEMMA OpenResolutionKeeps ==
    ASSUME TypeOK, NEW m \in Markets, Consistent(m), OpenResolution(m)
    PROVE  Consistent(m)'
<1>1. /\ round[m].index = 0
      /\ status[m] = "Closed"
      /\ UNCHANGED <<now, status, winningOutcome, reveal, roundOneOutcome, disputer,
                     bond, viaCommittee>>
  BY DEF OpenResolution, marketVars, voteVars, bondVars
<1>2. /\ round'[m].index = 1
      /\ round'[m].n # 0
      /\ round'[m].proposed = NONE
      /\ round'[m].finalized = FALSE
      /\ committee'[m] = roundOne'[m]
  <2>1. PICK shape \in TierShapes :
        /\ ValidShape(shape[1], shape[2])
        /\ \E picked \in Samples(shape[1], {}) :
              /\ committee' = [committee EXCEPT ![m] = picked]
              /\ roundOne' = [roundOne EXCEPT ![m] = picked]
        /\ round' = [round EXCEPT ![m] =
              [EmptyRound EXCEPT
                 !.n = shape[1], !.k = shape[2], !.index = 1,
                 !.proposed = NONE,
                 !.commitDeadline = now + CommitWindow,
                 !.revealDeadline = now + CommitWindow + RevealWindow]]
    BY DEF OpenResolution
  <2>2. shape[1] # 0
    BY <2>1, ResolutionAssumption DEF ValidShape
  <2> QED
    BY <2>1, <2>2 DEF EmptyRound, TypeOK, ResolutionTypeOK
<1>3. draw'[m].phase = "none"
  BY DEF OpenResolution, ConsumeDraw, NoDraw, TypeOK, ResolutionTypeOK
<1>4. \A a \in Agents : reveal[m][a] = NONE
  BY <1>1 DEF Consistent, Unopened, RevealsInTurn
<1>5. Unopened(m)' /\ Drawn(m)' /\ Bonded(m)' /\ RevealsInTurn(m)'
  BY <1>1, <1>2, <1>3, <1>4 DEF Unopened, Drawn, Bonded, RevealsInTurn
<1>6. Committees(m)'
  BY <1>1, <1>2 DEF Consistent, Committees
<1>7. Closing(m)' /\ InStep(m)'
  BY <1>1, <1>2 DEF Consistent, Closing, InStep, HasProposal, Terminal, TerminalStatuses
<1> QED
  BY <1>5, <1>6, <1>7 DEF Consistent

LEMMA CommitVoteKeeps ==
    ASSUME TypeOK, NEW m \in Markets, NEW a \in Agents, NEW outcome,
           Consistent(m), CommitVote(m, a, outcome)
    PROVE  Consistent(m)'
BY DEF CommitVote, marketVars, roundVars, bondVars, Consistent, Unopened, Committees,
   Closing, Bonded, Drawn, InStep, RevealsInTurn, Terminal, HasProposal, Overturned

(* What a reveal does to its market: it may propose, and only where no     *)
(* answer stands and the market is waiting for one.                        *)
LEMMA RevealEffect ==
    ASSUME TypeOK, NEW m \in Markets, NEW a \in Agents, RevealVote(m, a)
    PROVE  /\ UNCHANGED <<now, draw[m], committee[m], roundOne[m],
                          roundOneOutcome[m], disputer[m], bond[m], viaCommittee[m],
                          winningOutcome[m], commitment[m]>>
           /\ a \in committee[m]
           /\ round[m].n # 0
           /\ now > round[m].commitDeadline
           /\ \A b \in Agents : b # a => reveal'[m][b] = reveal[m][b]
           /\ \/ UNCHANGED <<round[m], status[m]>>
              \/ /\ round[m].proposed = NONE
                 /\ round'[m].proposed \in Outcomes
                 /\ status[m] \in {"Closed", "Disputed"}
                 /\ status'[m] = "Proposed"
                 /\ round'[m].n = round[m].n
                 /\ round'[m].index = round[m].index
                 /\ round'[m].commitDeadline = round[m].commitDeadline
                 /\ round'[m].finalized = round[m].finalized
<1> DEFINE outcome == commitment[m][a].outcome
<1>1. outcome \in Outcomes
  BY DEF TypeOK, ResolutionTypeOK, Commitments, RevealVote, Outcomes,
         NO, YES, UNRESOLVABLE, NONE
<1>2. /\ UNCHANGED <<now, draw, committee, roundOne, roundOneOutcome, commitment,
                     disputer, bond, viaCommittee, winningOutcome>>
      /\ a \in committee[m]
      /\ RevealOpen(m)
      /\ reveal' = [reveal EXCEPT ![m][a] = outcome]
  BY DEF RevealVote, MarkMarketProposed, bondVars, marketVars
<1>3. round[m].commitDeadline \in Nat /\ now \in Nat
  BY DEF TypeOK, ResolutionTypeOK, Rounds
<1>4. \A b \in Agents : b # a => reveal'[m][b] = reveal[m][b]
  BY <1>2 DEF TypeOK, ResolutionTypeOK
<1>5. \/ UNCHANGED <<round, status>>
      \/ /\ round[m].proposed = NONE
         /\ round' = [round EXCEPT ![m] = [@ EXCEPT
                          !.proposed = outcome,
                          !.disputeDeadline = now + DisputeWindow]]
         /\ status[m] \in {"Closed", "Disputed"}
         /\ status' = [status EXCEPT ![m] = "Proposed"]
  BY DEF RevealVote, MarkMarketProposed, SetStatus, marketVars
<1> HIDE DEF outcome
<1>6. CASE UNCHANGED <<round, status>>
  BY <1>2, <1>3, <1>4, <1>6 DEF RevealOpen
<1>7. CASE ~UNCHANGED <<round, status>>
  <2>1. round \in [Markets -> Rounds] /\ status \in [Markets -> Statuses]
    BY DEF TypeOK, ResolutionTypeOK, MarketTypeOK
  <2>2. round'[m] = [round[m] EXCEPT !.proposed = outcome,
                                     !.disputeDeadline = now + DisputeWindow]
    BY <1>5, <1>7, <2>1
  <2>3. /\ round'[m].proposed = outcome
        /\ round'[m].n = round[m].n
        /\ round'[m].index = round[m].index
        /\ round'[m].commitDeadline = round[m].commitDeadline
        /\ round'[m].finalized = round[m].finalized
    BY <2>1, <2>2 DEF Rounds
  <2>4. status'[m] = "Proposed"
    BY <1>5, <1>7, <2>1
  <2> QED
    BY <1>1, <1>2, <1>4, <1>5, <1>7, <2>3, <2>4 DEF RevealOpen
<1> QED
  BY <1>6, <1>7

LEMMA RevealVoteKeeps ==
    ASSUME TypeOK, NEW m \in Markets, NEW a \in Agents, Consistent(m), RevealVote(m, a)
    PROVE  Consistent(m)'
<1>1. /\ UNCHANGED <<now, draw[m], committee[m], roundOne[m], roundOneOutcome[m],
                     disputer[m], bond[m], viaCommittee[m], winningOutcome[m]>>
      /\ a \in committee[m]
      /\ round[m].n # 0
      /\ now > round[m].commitDeadline
      /\ \A b \in Agents : b # a => reveal'[m][b] = reveal[m][b]
      /\ \/ UNCHANGED <<round[m], status[m]>>
         \/ /\ round[m].proposed = NONE
            /\ round'[m].proposed # NONE
            /\ status[m] \in {"Closed", "Disputed"}
            /\ status'[m] = "Proposed"
            /\ round'[m].n = round[m].n
            /\ round'[m].index = round[m].index
            /\ round'[m].commitDeadline = round[m].commitDeadline
            /\ round'[m].finalized = round[m].finalized
  BY RevealEffect DEF Outcomes, NO, YES, UNRESOLVABLE, NONE
<1>2. Unopened(m)' /\ Committees(m)' /\ Drawn(m)'
  BY <1>1 DEF Consistent, Unopened, Committees, Drawn
<1>3. RevealsInTurn(m)'
  BY <1>1 DEF Consistent, RevealsInTurn
<1>4. Closing(m)' /\ Bonded(m)'
  BY <1>1 DEF Consistent, Closing, Bonded, HasProposal, Terminal, TerminalStatuses,
              Overturned
<1>5. InStep(m)'
  BY <1>1 DEF Consistent, Unopened, InStep, HasProposal, Terminal, TerminalStatuses
<1> QED
  BY <1>2, <1>3, <1>4, <1>5 DEF Consistent

(* A challenge empties the round and the committee.                        *)
LEMMA DisputeKeeps ==
    ASSUME TypeOK, NEW m \in Markets, NEW challenger \in Challengers,
           Consistent(m), Dispute(m, challenger)
    PROVE  Consistent(m)'
<1>1. /\ round[m].proposed # NONE
      /\ ~round[m].finalized
      /\ disputer[m] = Nobody
      /\ status[m] = "Proposed"
      /\ UNCHANGED <<now, winningOutcome, roundOne, reveal, viaCommittee>>
  BY DEF Dispute, MarkMarketDisputed, voteVars
<1>2. /\ round'[m].index = 2
      /\ round'[m].n = 0
      /\ round'[m].proposed = NONE
      /\ round'[m].finalized = FALSE
      /\ committee'[m] = {}
      /\ disputer'[m] = challenger
      /\ bond'[m] = "held"
      /\ draw'[m].index = 2
      /\ status'[m] = "Disputed"
  BY DEF Dispute, DisputedRound, EmptyRound, RequestDraw, MarkMarketDisputed, SetStatus,
         TypeOK, ResolutionTypeOK, MarketTypeOK
<1>3. challenger # Nobody
  BY ResolutionAssumption
<1>4. Unopened(m)' /\ Committees(m)' /\ Bonded(m)' /\ Drawn(m)'
  BY <1>1, <1>2, <1>3 DEF Unopened, Committees, Bonded, Drawn
<1>5. RevealsInTurn(m)'
  <2>1. round[m].index \in {0, 1}
    BY <1>1 DEF Consistent, Committees, TypeOK, ResolutionTypeOK, Rounds
  <2>2. committee[m] \subseteq roundOne[m]
    BY <2>1 DEF Consistent, Committees, Unopened
  <2> QED
    BY <1>1, <1>2, <2>2 DEF Consistent, RevealsInTurn
<1>6. Closing(m)' /\ InStep(m)'
  BY <1>1, <1>2 DEF Consistent, Closing, InStep, HasProposal, Terminal, TerminalStatuses
<1> QED
  BY <1>4, <1>5, <1>6 DEF Consistent

(* The second draw seats a committee that has not revealed anything yet.   *)
LEMMA OpenDisputeRoundKeeps ==
    ASSUME TypeOK, NEW m \in Markets, Consistent(m), OpenDisputeRound(m)
    PROVE  Consistent(m)'
<1>1. /\ round[m].index = 2
      /\ round[m].n = 0
      /\ ~round[m].finalized
      /\ UNCHANGED <<now, status, winningOutcome, roundOne, reveal, roundOneOutcome,
                     disputer, bond, viaCommittee>>
  BY DEF OpenDisputeRound, marketVars, voteVars, bondVars
<1>2. /\ round'[m].index = 2
      /\ round'[m].proposed = round[m].proposed
      /\ round'[m].finalized = round[m].finalized
      /\ round'[m].n = DisputeShape[1]
  <2>1. round \in [Markets -> Rounds]
    BY DEF TypeOK, ResolutionTypeOK
  <2>2. round'[m] = [round[m] EXCEPT
                    !.n = DisputeShape[1], !.k = DisputeShape[2],
                    !.commitDeadline = now + CommitWindow,
                    !.revealDeadline = now + CommitWindow + RevealWindow]
    BY <2>1 DEF OpenDisputeRound
  <2> QED
    BY <1>1, <2>1, <2>2 DEF Rounds
<1>3. round'[m].n # 0
  BY <1>2, ResolutionAssumption DEF OpenDisputeRound, ValidShape
<1>4. committee'[m] \cap roundOne[m] = {} /\ draw'[m].phase = "none"
  BY DEF OpenDisputeRound, Samples, Eligible, ConsumeDraw, NoDraw, TypeOK,
         ResolutionTypeOK
<1>5. Unopened(m)' /\ Committees(m)' /\ Drawn(m)'
  BY <1>1, <1>2, <1>3, <1>4 DEF Consistent, Unopened, Committees, Drawn
<1>6. RevealsInTurn(m)'
  BY <1>1, <1>4 DEF Consistent, Unopened, RevealsInTurn
<1>7. Closing(m)' /\ Bonded(m)' /\ InStep(m)'
  BY <1>1, <1>2 DEF Consistent, Closing, Bonded, InStep, HasProposal, Terminal,
     TerminalStatuses, Overturned
<1> QED
  BY <1>5, <1>6, <1>7 DEF Consistent

(* What both endings of a round share.                                     *)
LEMMA EndingEffect ==
    ASSUME TypeOK, NEW m \in Markets, Finalize(m) \/ MarkFailed(m)
    PROVE  /\ UNCHANGED <<now, draw, committee, roundOne, roundOneOutcome, voteVars,
                          disputer>>
           /\ ~round[m].finalized
           /\ round'[m] = [round[m] EXCEPT !.finalized = TRUE]
           /\ round'[m].finalized
           /\ round'[m].index = round[m].index
           /\ round'[m].n = round[m].n
           /\ round'[m].proposed = round[m].proposed
           /\ round'[m].commitDeadline = round[m].commitDeadline
<1>1. /\ round \in [Markets -> Rounds]
      /\ round' = [round EXCEPT ![m].finalized = TRUE]
  BY DEF TypeOK, ResolutionTypeOK, Finalize, MarkFailed
<1>2. round'[m] = [round[m] EXCEPT !.finalized = TRUE]
  BY <1>1
<1> QED
  BY <1>1, <1>2 DEF Finalize, MarkFailed, Rounds

(* Where the bond goes.                                                    *)
LEMMA BondEffect ==
    ASSUME TypeOK, NEW m \in Markets, NEW outcome, SettleAccounts(m, outcome),
           round[m].index = 2, bond[m] = "held"
    PROVE  bond'[m] = IF Overturns(m, outcome) THEN "refunded" ELSE "forfeited"
BY DEF SettleAccounts, SettleDispute, TypeOK, ResolutionTypeOK

LEMMA FinalizeKeeps ==
    ASSUME TypeOK, NEW m \in Markets, Consistent(m), Finalize(m)
    PROVE  Consistent(m)'
<1>1. /\ UNCHANGED <<now, draw, committee, roundOne, roundOneOutcome, reveal, disputer>>
      /\ ~round[m].finalized
      /\ round'[m].finalized
      /\ round'[m].index = round[m].index
      /\ round'[m].n = round[m].n
      /\ round'[m].proposed = round[m].proposed
      /\ round'[m].commitDeadline = round[m].commitDeadline
  BY EndingEffect DEF voteVars
<1>2. /\ round[m].n # 0
      /\ round[m].proposed # NONE
      /\ viaCommittee'[m]
  BY DEF Finalize, TypeOK, ResolutionTypeOK
<1>3. HasProposal(m)'
  BY <1>1, <1>2 DEF Consistent, Unopened, HasProposal
<1>4. IF round[m].proposed = UNRESOLVABLE
      THEN status'[m] = "Failed"
      ELSE status'[m] = "Settled" /\ winningOutcome'[m] = round[m].proposed
  BY DEF Finalize, FailMarket, SettleMarket, SetStatus, TypeOK, MarketTypeOK
<1>5. Terminal(m)'
  BY <1>4 DEF Terminal, TerminalStatuses
<1>6. Unopened(m)' /\ Committees(m)' /\ Drawn(m)' /\ RevealsInTurn(m)'
  BY <1>1 DEF Consistent, Unopened, Committees, Drawn, RevealsInTurn
<1>7. Closing(m)' /\ InStep(m)'
  BY <1>1, <1>2, <1>3, <1>4, <1>5 DEF Closing, InStep
<1>8. Bonded(m)'
  <2>1. ASSUME round[m].index = 2
        PROVE  bond'[m] = IF Overturned(m)' THEN "refunded" ELSE "forfeited"
    <3>1. bond[m] = "held"
      BY <1>1, <2>1 DEF Consistent, Bonded
    <3>2. SettleAccounts(m, round[m].proposed)
      BY DEF Finalize
    <3>3. Overturns(m, round[m].proposed) <=> Overturned(m)'
      BY <1>1, <1>2, <2>1 DEF Overturns, Overturned
    <3> QED
      BY <2>1, <3>1, <3>2, <3>3, BondEffect
  <2> QED
    BY <1>1, <2>1 DEF Bonded
<1> QED
  BY <1>6, <1>7, <1>8 DEF Consistent

LEMMA MarkFailedKeeps ==
    ASSUME TypeOK, NEW m \in Markets, Consistent(m), MarkFailed(m)
    PROVE  Consistent(m)'
<1>1. /\ UNCHANGED <<now, draw, committee, roundOne, roundOneOutcome, reveal, disputer,
                     viaCommittee>>
      /\ ~round[m].finalized
      /\ round'[m].finalized
      /\ round'[m].index = round[m].index
      /\ round'[m].n = round[m].n
      /\ round'[m].commitDeadline = round[m].commitDeadline
  BY EndingEffect DEF voteVars, MarkFailed
<1>2. status'[m] = "Failed"
  BY DEF MarkFailed, FailMarket, SetStatus, TypeOK, MarketTypeOK
<1>3. ~viaCommittee[m]
  BY <1>1 DEF Consistent, Closing
<1>4. Unopened(m)' /\ Committees(m)' /\ Drawn(m)' /\ RevealsInTurn(m)'
  BY <1>1 DEF Consistent, Unopened, Committees, Drawn, RevealsInTurn
<1>5. Closing(m)' /\ InStep(m)'
  BY <1>1, <1>2, <1>3 DEF Closing, InStep, Terminal, TerminalStatuses
<1>6. Bonded(m)'
  <2>1. ASSUME round[m].index = 2
        PROVE  bond'[m] = "forfeited"
    <3>1. bond[m] = "held"
      BY <1>1, <2>1 DEF Consistent, Bonded
    <3>2. SettleAccounts(m, NONE) /\ ~Overturns(m, NONE)
      BY DEF MarkFailed, Overturns
    <3> QED
      BY <2>1, <3>1, <3>2, BondEffect
  <2> QED
    BY <1>1, <1>3, <2>1 DEF Bonded, Overturned
<1> QED
  BY <1>4, <1>5, <1>6 DEF Consistent

-----------------------------------------------------------------------------
(* The invariant.                                                          *)

LEMMA ConsistentStep ==
    ASSUME TypeOK, NEW m \in Markets, Consistent(m), [Next]_vars
    PROVE  Consistent(m)'
<1>1. CASE UNCHANGED MarketView(m) /\ now' \in Nat /\ now' >= now
  BY <1>1, QuietKeeps
<1>2. CASE MarketNext(m)
  <2>1. CASE MarketOnly(m)
    BY <2>1, MarketOnlyKeeps
  <2>2. CASE RequestResolution(m) \/ DrawAges(m)
    BY <2>2, DrawKeeps
  <2>3. CASE OpenResolution(m)
    BY <2>3, OpenResolutionKeeps
  <2>4. CASE \E challenger \in Challengers : Dispute(m, challenger)
    BY <2>4, DisputeKeeps
  <2>5. CASE OpenDisputeRound(m)
    BY <2>5, OpenDisputeRoundKeeps
  <2>6. CASE Finalize(m)
    BY <2>6, FinalizeKeeps
  <2>7. CASE MarkFailed(m)
    BY <2>7, MarkFailedKeeps
  <2>8. CASE \E a \in Agents, outcome \in VoteChoices : CommitVote(m, a, outcome)
    BY <2>8, CommitVoteKeeps
  <2>9. CASE \E a \in Agents : RevealVote(m, a)
    BY <2>9, RevealVoteKeeps
  <2> QED
    BY <1>2, <2>1, <2>2, <2>3, <2>4, <2>5, <2>6, <2>7, <2>8, <2>9
    DEF MarketNext, MarketOnly
<1> QED
  BY <1>1, <1>2, Locality

LEMMA ConsistentStart ==
    ASSUME Init, NEW m \in Markets
    PROVE  Consistent(m)
<1>1. /\ round[m] = EmptyRound
      /\ committee[m] = {}
      /\ roundOne[m] = {}
      /\ disputer[m] = Nobody
      /\ draw[m] = NoDraw
      /\ status[m] = "Open"
      /\ viaCommittee[m] = FALSE
      /\ \A a \in Agents : reveal[m][a] = NONE
  BY DEF Init, MarketInit
<1>2. round[m].index = 0 /\ round[m].n = 0 /\ round[m].finalized = FALSE
  BY <1>1 DEF EmptyRound
<1> QED
  BY <1>1, <1>2 DEF Consistent, Unopened, Committees, RevealsInTurn, Closing, Bonded,
     Drawn, InStep, HasProposal, NoDraw

(* Every market's round, committee, draw, bond and status stay consistent  *)
(* with one another, whatever the others do.                               *)
THEOREM InvariantHolds == Spec => []IInv
<1>1. Init => IInv
  BY TypeStart, ConsistentStart DEF IInv
<1>2. IInv /\ [Next]_vars => IInv'
  <2> SUFFICES ASSUME IInv, [Next]_vars
               PROVE  IInv'
    OBVIOUS
  <2>1. TypeOK'
    BY TypeStep DEF IInv
  <2>2. \A m \in Markets : Consistent(m)'
    BY ConsistentStep DEF IInv
  <2> QED
    BY <2>1, <2>2 DEF IInv
<1> QED
  BY <1>1, <1>2, PTL DEF Spec

-----------------------------------------------------------------------------
(* What follows.                                                           *)

(* The bond of a finalized dispute is where the verdict sends it.          *)
LEMMA BondOf ==
    ASSUME IInv
    PROVE  BondFollowsVerdict
BY DEF IInv, Consistent, Committees, Bonded, BondFollowsVerdict

(* A market never settles but as its committee said.                       *)
THEOREM VerdictsAreCarriedOut == Spec => []VerdictCarriedOut
<1>1. IInv => VerdictCarriedOut
  BY DEF IInv, Consistent, Closing, VerdictCarriedOut
<1> QED
  BY <1>1, InvariantHolds, PTL

(* No member of round 1 sits on round 2, however often draws are asked for *)
(* and stake moves in between.                                             *)
THEOREM RoundTwoStaysFresh == Spec => []RoundTwoIsFresh
<1>1. IInv => RoundTwoIsFresh
  BY DEF IInv, Consistent, Committees, RoundTwoIsFresh
<1> QED
  BY <1>1, InvariantHolds, PTL

(* A draw in hand is always for the round the market waits to open.        *)
THEOREM DrawsMatchRounds == Spec => []DrawMatchesRound
<1>1. IInv => DrawMatchesRound
  BY DEF IInv, Consistent, Drawn, DrawMatchesRound
<1> QED
  BY <1>1, InvariantHolds, PTL

(* The challenger's bond is refunded by an overturn and by nothing else.   *)
THEOREM BondsFollowVerdicts == Spec => []BondFollowsVerdict
<1>1. IInv => BondFollowsVerdict
  BY BondOf
<1> QED
  BY <1>1, InvariantHolds, PTL

(* With the direct path closed, market and module agree on where every     *)
(* live market stands.                                                     *)
THEOREM StatusesFollowRounds ==
    ASSUME ~AllowlistOpen
    PROVE  Spec => []StatusFollowsRound
<1>1. IInv => StatusFollowsRound
  BY DEF IInv, Consistent, InStep, StatusFollowsRound
<1> QED
  BY <1>1, InvariantHolds, PTL

(* With the direct path closed, no path to `Market.fail` refunds a market  *)
(* with an unchallenged payable answer before the grace is over.           *)
THEOREM VerdictsOutliveDeadlines ==
    ASSUME ~AllowlistOpen
    PROVE  Spec => VerdictOutlivesDeadline
<1> DEFINE Kept(m) == status[m] = "Proposed" /\ status'[m] = "Failed" =>
              \/ now >= SettlementDeadline + ProposedFailGrace
              \/ viaCommittee'[m] /\ round[m].proposed = UNRESOLVABLE
<1>1. ASSUME IInv, [Next]_vars, NEW m \in Markets, status[m] = "Proposed",
             status'[m] = "Failed"
      PROVE  \/ now >= SettlementDeadline + ProposedFailGrace
             \/ viaCommittee'[m] /\ round[m].proposed = UNRESOLVABLE
  <2>1. MarketNext(m)
    BY <1>1, Locality DEF IInv, MarketView
  <2>2. round[m].proposed # NONE
    BY <1>1 DEF IInv, Consistent, InStep, HasProposal, Terminal, TerminalStatuses
  <2>3. CASE MarketOnly(m)
    BY <1>1, <2>3 DEF MarketOnly, Close, Fail, Void, DirectSettle, DirectFail,
       DirectMark, CloseMarket, FailMarket, VoidMarket, MayFail, FailOpenAt,
       SetStatus, IInv, TypeOK, MarketTypeOK
  <2>4. CASE MarkFailed(m)
    BY <2>2, <2>4 DEF MarkFailed, MarkFailedOpenAt
  <2>5. CASE Finalize(m)
    BY <1>1, <2>5 DEF Finalize, SettleMarket, SetStatus, IInv, TypeOK, MarketTypeOK,
       ResolutionTypeOK
  <2>6. CASE ~(MarketOnly(m) \/ MarkFailed(m) \/ Finalize(m))
    <3>1. UNCHANGED status \/ status'[m] \in {"Proposed", "Disputed"}
      BY <1>1, <2>1, <2>6 DEF MarketNext, MarketOnly, RequestResolution, DrawAges,
         OpenResolution, Dispute, OpenDisputeRound, CommitVote, RevealVote,
         MarkMarketProposed, MarkMarketDisputed, SetStatus, marketVars, IInv, TypeOK,
         MarketTypeOK
    <3> QED
      BY <1>1, <3>1
  <2> QED
    BY <2>3, <2>4, <2>5, <2>6
<1>2. IInv /\ [Next]_vars => \A m \in Markets : Kept(m)
  BY <1>1
<1> QED
  BY <1>2, InvariantHolds, PTL DEF Spec, VerdictOutlivesDeadline

(* Commitments are sealed by the first reveal of their committee.          *)
THEOREM CommitmentsAreSealed == Spec => CommitmentsPrecedeReveals
<1> DEFINE Sealed == \A m \in Markets, a, b \in Agents :
              /\ a \in committee[m]
              /\ b \in committee[m]
              /\ reveal[m][b] # NONE
              => commitment'[m][a] = commitment[m][a]
<1>1. ASSUME IInv, [Next]_vars, NEW m \in Markets, NEW a \in Agents, NEW b \in Agents,
             b \in committee[m], reveal[m][b] # NONE
      PROVE  commitment'[m][a] = commitment[m][a]
  <2>1. now > round[m].commitDeadline
    BY <1>1 DEF IInv, Consistent, RevealsInTurn
  <2>2. ASSUME NEW c \in Agents, NEW outcome, CommitVote(m, c, outcome)
        PROVE  FALSE
    <3>1. round[m].commitDeadline \in Nat /\ now \in Nat
      BY <1>1 DEF IInv, TypeOK, ResolutionTypeOK, Rounds
    <3> QED
      BY <2>1, <2>2, <3>1 DEF CommitVote, CommitOpen
  <2>3. CASE MarketNext(m)
    BY <2>2, <2>3 DEF MarketNext, Close, Fail, Void, RequestResolution, DrawAges,
       OpenResolution, Dispute, OpenDisputeRound, Finalize, MarkFailed, DirectSettle,
       DirectFail, DirectMark, RevealVote, voteVars
  <2> QED
    BY <1>1, <2>3, Locality DEF IInv, MarketView
<1>2. IInv /\ [Next]_vars => Sealed
  BY <1>1
<1> QED
  BY <1>2, InvariantHolds, PTL DEF Spec, CommitmentsPrecedeReveals

(* No penalty, no loss.                                                    *)
LEMMA NoPenaltyNoLoss ==
    ASSUME TypeOK, NEW m \in Markets, NEW a \in Agents, NEW outcome,
           SettleAccounts(m, outcome), SlashBps(m, outcome, a) = 0
    PROVE  staked'[a] + cooling'[a] = staked[a] + cooling[a]
<1>1. staked[a] \in Nat /\ cooling[a] \in Nat
  BY DEF TypeOK, StakeTypeOK
<1>2. Penalty(m, outcome)[a] = 0
  BY <1>1, NoRate DEF Penalty
<1>3. /\ staked'[a] = staked[a] - FromStaked(a, 0)
      /\ cooling'[a] = cooling[a] - FromCooling(a, 0)
  BY <1>2 DEF SettleAccounts, SlashAll
<1> QED
  BY <1>1, <1>3 DEF FromStaked, FromCooling, Least

(* Only the absent and those the verdict contradicts lose stake.           *)
THEOREM SlashesNeedCause == Spec => SlashesAreDeserved
<1> DEFINE Deserved == \A m \in Markets, a \in Agents :
              RoundEnds(m) /\ staked'[a] + cooling'[a] < staked[a] + cooling[a] =>
                 \/ a \in committee[m] /\ reveal[m][a] = NONE
                 \/ /\ viaCommittee'[m]
                    /\ a \in committee[m] \cup roundOne[m]
                    /\ reveal[m][a] \notin {NONE, round[m].proposed}
<1>1. ASSUME IInv, [Next]_vars, NEW m \in Markets, NEW a \in Agents, RoundEnds(m),
             staked'[a] + cooling'[a] < staked[a] + cooling[a]
      PROVE  \/ a \in committee[m] /\ reveal[m][a] = NONE
             \/ /\ viaCommittee'[m]
                /\ a \in committee[m] \cup roundOne[m]
                /\ reveal[m][a] \notin {NONE, round[m].proposed}
  <2>0. staked[a] \in Nat /\ cooling[a] \in Nat
    BY <1>1 DEF IInv, TypeOK, StakeTypeOK
  <2>1. MarketNext(m)
    BY <1>1, Locality DEF IInv, MarketView, RoundEnds
  <2>2. CASE Finalize(m)
    <3>1. SlashBps(m, round[m].proposed, a) # 0
      BY <1>1, <2>0, <2>2, NoPenaltyNoLoss DEF Finalize, IInv
    <3>2. viaCommittee'[m]
      BY <1>1, <2>2 DEF Finalize, IInv, TypeOK, ResolutionTypeOK
    <3> QED
      BY <3>1, <3>2 DEF SlashBps, NoShows, Dissenters, Backers, Overturns
  <2>3. CASE MarkFailed(m)
    <3>1. SlashBps(m, NONE, a) # 0
      BY <1>1, <2>0, <2>3, NoPenaltyNoLoss DEF MarkFailed, IInv
    <3> QED
      BY <3>1 DEF SlashBps, NoShows, Dissenters, Backers, Overturns
  <2>4. CASE ~(Finalize(m) \/ MarkFailed(m))
    <3>1. UNCHANGED stakeVars
      BY <2>1, <2>4 DEF MarketNext, Close, Fail, Void, RequestResolution, DrawAges,
         OpenResolution, Dispute, OpenDisputeRound, DirectSettle, DirectFail,
         DirectMark, CommitVote, RevealVote
    <3> QED
      BY <1>1, <2>0, <3>1 DEF stakeVars
  <2> QED
    BY <2>2, <2>3, <2>4
<1>2. IInv /\ [Next]_vars => Deserved
  BY <1>1
<1> QED
  BY <1>2, InvariantHolds, PTL DEF Spec, SlashesAreDeserved

-----------------------------------------------------------------------------
(* With the direct path closed, resolution implements Judgement on every   *)
(* market: each initial state maps to an initial state of Judgement, and   *)
(* each step to a step of Judgement or to a stutter.                       *)

JudgedStep(m) == Judged(m)!Next \/ UNCHANGED Judged(m)!judgementVars

(* The abstract variables depend on the market's own view only.            *)
LEMMA QuietStutters ==
    ASSUME NEW m \in Markets, UNCHANGED MarketView(m)
    PROVE  JudgedStep(m)
BY DEF JudgedStep, MarketView, Judged!judgementVars, JudgementPhase, StandingAnswer,
   HasProposal, Terminal

LEMMA JudgedStart ==
    ASSUME Init, NEW m \in Markets
    PROVE  Judged(m)!Init
<1>1. /\ round[m].index = 0
      /\ status[m] = "Open"
      /\ disputer[m] = Nobody
      /\ winningOutcome[m] \in {NO, YES}
  BY DEF Init, MarketInit, EmptyRound
<1> QED
  BY <1>1 DEF Judged!Init, JudgementPhase, StandingAnswer, HasProposal, Terminal,
     TerminalStatuses

(* Abandoning a live market refunds it: a standing payable answer has had  *)
(* its grace.                                                              *)
LEMMA RefundStep ==
    ASSUME NEW m \in Markets, ~Terminal(m), status'[m] \in {"Failed", "Voided"},
           UNCHANGED <<disputer[m], winningOutcome[m]>>,
           round'[m].index = round[m].index,
           round'[m].proposed = round[m].proposed,
           HasProposal(m) => \/ round[m].proposed = UNRESOLVABLE
                             \/ now >= SettlementDeadline + ProposedFailGrace
    PROVE  JudgedStep(m)
<1>1. JudgementPhase(m) \in {"pending", "answered"}
  BY DEF JudgementPhase, Terminal, TerminalStatuses
<1>2. JudgementPhase(m)' = "refunded"
  BY DEF JudgementPhase, Terminal, TerminalStatuses
<1>3. JudgementPhase(m) = "answered" => HasProposal(m)
  BY DEF JudgementPhase
<1>4. StandingAnswer(m)' = StandingAnswer(m)
  BY DEF StandingAnswer, HasProposal
<1>5. HasProposal(m) /\ round[m].proposed = UNRESOLVABLE
        => StandingAnswer(m) \notin {NO, YES}
  BY DEF StandingAnswer, NO, YES, UNRESOLVABLE
<1>6. Judged(m)!Refund
  BY <1>1, <1>2, <1>3, <1>4, <1>5 DEF Judged!Refund, Judged!Ended
<1> QED
  BY <1>6 DEF JudgedStep, Judged!Next

LEMMA MarketOnlyIsJudged ==
    ASSUME ~AllowlistOpen, IInv, NEW m \in Markets, MarketOnly(m)
    PROVE  JudgedStep(m)
<1>1. UNCHANGED <<round, disputer>>
  BY DEF MarketOnly, Close, Fail, Void, DirectSettle, DirectFail, DirectMark,
     roundVars, bondVars
<1>2. Consistent(m)
  BY DEF IInv
<1>3. CASE Close(m)
  <2>1. status[m] = "Open" /\ status'[m] = "Closed" /\ UNCHANGED winningOutcome
    BY <1>3 DEF Close, CloseMarket, SetStatus, IInv, TypeOK, MarketTypeOK
  <2> QED
    BY <1>1, <2>1 DEF JudgedStep, Judged!judgementVars, JudgementPhase,
       StandingAnswer, HasProposal, Terminal, TerminalStatuses
<1>4. CASE Fail(m)
  <2>1. /\ ~Terminal(m)
        /\ status'[m] = "Failed"
        /\ UNCHANGED winningOutcome
        /\ now >= FailOpenAt(m)
    BY <1>4 DEF Fail, FailMarket, MayFail, SetStatus, IInv, TypeOK, MarketTypeOK
  <2>2. HasProposal(m) => now >= SettlementDeadline + ProposedFailGrace
    BY <1>2, <2>1 DEF Consistent, InStep, FailOpenAt
  <2> QED
    BY <1>1, <2>1, <2>2, RefundStep
<1>5. CASE Void(m)
  <2>1. /\ status[m] = "Open"
        /\ status'[m] = "Voided"
        /\ UNCHANGED winningOutcome
    BY <1>5 DEF Void, VoidMarket, SetStatus, IInv, TypeOK, MarketTypeOK
  <2>2. ~Terminal(m)
    BY <2>1 DEF Terminal, TerminalStatuses
  <2>3. ~HasProposal(m)
    BY <1>2, <2>1, <2>2 DEF Consistent, InStep
  <2> QED
    BY <1>1, <2>1, <2>2, <2>3, RefundStep
<1> QED
  BY <1>3, <1>4, <1>5 DEF MarketOnly, DirectSettle, DirectFail, DirectMark

(* A reveal that proposes gives the answer the market was waiting for.     *)
LEMMA RevealIsJudged ==
    ASSUME IInv, NEW m \in Markets, NEW a \in Agents, RevealVote(m, a)
    PROVE  JudgedStep(m)
<1>1. /\ UNCHANGED <<disputer[m], winningOutcome[m]>>
      /\ round[m].n # 0
      /\ \/ UNCHANGED <<round[m], status[m]>>
         \/ /\ round[m].proposed = NONE
            /\ round'[m].proposed \in Outcomes
            /\ status[m] \in {"Closed", "Disputed"}
            /\ status'[m] = "Proposed"
            /\ round'[m].index = round[m].index
  BY RevealEffect DEF IInv
<1>2. round[m].index # 0
  BY <1>1 DEF IInv, Consistent, Unopened
<1>3. CASE UNCHANGED <<round[m], status[m]>>
  BY <1>1, <1>3 DEF JudgedStep, Judged!judgementVars, JudgementPhase, StandingAnswer,
     HasProposal, Terminal
<1>4. CASE ~UNCHANGED <<round[m], status[m]>>
  <2>1. JudgementPhase(m) = "pending"
    BY <1>1, <1>4 DEF JudgementPhase, HasProposal, Terminal, TerminalStatuses
  <2>2. HasProposal(m)'
    BY <1>1, <1>2, <1>4 DEF HasProposal, Outcomes, NO, YES, UNRESOLVABLE, NONE
  <2>3. JudgementPhase(m)' = "answered" /\ StandingAnswer(m)' = round'[m].proposed
    BY <1>1, <1>4, <2>2 DEF JudgementPhase, StandingAnswer, Terminal, TerminalStatuses
  <2>4. Judged(m)!Give(round'[m].proposed)
    BY <1>1, <2>1, <2>3 DEF Judged!Give
  <2> QED
    BY <1>1, <1>4, <2>4 DEF JudgedStep, Judged!Next
<1> QED
  BY <1>3, <1>4

(* A dispute is the one challenge.                                         *)
LEMMA DisputeIsJudged ==
    ASSUME ~AllowlistOpen, IInv, NEW m \in Markets, NEW challenger \in Challengers,
           Dispute(m, challenger)
    PROVE  JudgedStep(m)
<1>1. /\ disputer[m] = Nobody
      /\ status[m] = "Proposed"
      /\ UNCHANGED winningOutcome
  BY DEF Dispute, MarkMarketDisputed
<1>2. /\ round'[m].proposed = NONE
      /\ disputer'[m] = challenger
      /\ status'[m] = "Disputed"
  BY DEF Dispute, DisputedRound, EmptyRound, MarkMarketDisputed, SetStatus,
         IInv, TypeOK, ResolutionTypeOK, MarketTypeOK
<1>3. challenger # Nobody
  BY ResolutionAssumption
<1>4. HasProposal(m)
  BY <1>1 DEF IInv, Consistent, InStep, Terminal, TerminalStatuses
<1>5. JudgementPhase(m) = "answered"
  BY <1>1, <1>4 DEF JudgementPhase, Terminal, TerminalStatuses
<1>6. JudgementPhase(m)' = "pending" /\ StandingAnswer(m)' = NONE
  BY <1>2 DEF JudgementPhase, StandingAnswer, HasProposal, Terminal, TerminalStatuses
<1>7. Judged(m)!Challenge
  BY <1>1, <1>2, <1>3, <1>5, <1>6 DEF Judged!Challenge
<1> QED
  BY <1>7 DEF JudgedStep, Judged!Next

(* Finalising carries a payable answer out, and refunds when there is none.*)
LEMMA FinalizeIsJudged ==
    ASSUME IInv, NEW m \in Markets, Finalize(m)
    PROVE  JudgedStep(m)
<1>1. /\ UNCHANGED disputer
      /\ round'[m].index = round[m].index
      /\ round'[m].proposed = round[m].proposed
  BY EndingEffect DEF IInv
<1>2. HasProposal(m)
  BY DEF Finalize, IInv, Consistent, Unopened, HasProposal
<1>3. CASE round[m].proposed = UNRESOLVABLE
  <2>1. ~Terminal(m) /\ status'[m] = "Failed" /\ UNCHANGED winningOutcome
    BY <1>3 DEF Finalize, FailMarket, SetStatus, IInv, TypeOK, MarketTypeOK
  <2> QED
    BY <1>1, <1>3, <2>1, RefundStep
<1>4. CASE round[m].proposed # UNRESOLVABLE
  <2>1. /\ status[m] \in {"Closed", "Proposed", "Disputed"}
        /\ status'[m] = "Settled"
        /\ round[m].proposed \in {NO, YES}
        /\ winningOutcome'[m] = round[m].proposed
    BY <1>4 DEF Finalize, SettleMarket, SetStatus, IInv, TypeOK, MarketTypeOK
  <2>2. JudgementPhase(m) = "answered" /\ JudgementPhase(m)' = "settled"
    BY <1>2, <2>1 DEF JudgementPhase, Terminal, TerminalStatuses
  <2>3. StandingAnswer(m) = round[m].proposed /\ StandingAnswer(m)' = round[m].proposed
    BY <1>1, <1>2 DEF StandingAnswer, HasProposal
  <2>4. Judged(m)!CarryOut
    BY <1>1, <2>1, <2>2, <2>3 DEF Judged!CarryOut
  <2> QED
    BY <2>4 DEF JudgedStep, Judged!Next
<1> QED
  BY <1>3, <1>4

(* `markFailed` refunds, and not before an answer had its grace.           *)
LEMMA MarkFailedIsJudged ==
    ASSUME IInv, NEW m \in Markets, MarkFailed(m)
    PROVE  JudgedStep(m)
<1>1. /\ UNCHANGED disputer
      /\ round'[m].index = round[m].index
      /\ round'[m].proposed = round[m].proposed
  BY EndingEffect DEF IInv
<1>2. ~Terminal(m) /\ status'[m] = "Failed" /\ UNCHANGED winningOutcome
  BY DEF MarkFailed, FailMarket, SetStatus, IInv, TypeOK, MarketTypeOK
<1>3. HasProposal(m) => now >= SettlementDeadline + ProposedFailGrace
  BY DEF MarkFailed, MarkFailedOpenAt, HasProposal
<1> QED
  BY <1>1, <1>2, <1>3, RefundStep

(* Draws, openings and commitments are invisible to the holders.           *)
LEMMA PreparationStutters ==
    ASSUME IInv, NEW m \in Markets,
           \/ RequestResolution(m) \/ DrawAges(m) \/ OpenResolution(m)
           \/ OpenDisputeRound(m)
           \/ \E a \in Agents, outcome \in VoteChoices : CommitVote(m, a, outcome)
    PROVE  JudgedStep(m)
<1>1. UNCHANGED <<status, winningOutcome, disputer>>
  BY DEF RequestResolution, DrawAges, OpenResolution, OpenDisputeRound, CommitVote,
     marketVars, bondVars
<1>2. HasProposal(m)' = HasProposal(m) /\ StandingAnswer(m)' = StandingAnswer(m)
  <2>1. CASE OpenResolution(m)
    <3>1. PICK shape \in TierShapes :
            round' = [round EXCEPT ![m] =
              [EmptyRound EXCEPT
                 !.n = shape[1], !.k = shape[2], !.index = 1,
                 !.proposed = NONE,
                 !.commitDeadline = now + CommitWindow,
                 !.revealDeadline = now + CommitWindow + RevealWindow]]
      BY <2>1 DEF OpenResolution
    <3>2. round'[m].proposed = NONE
      BY <3>1 DEF EmptyRound, IInv, TypeOK, ResolutionTypeOK
    <3>3. round[m].index = 0
      BY <2>1 DEF OpenResolution
    <3> QED
      BY <3>2, <3>3 DEF HasProposal, StandingAnswer
  <2>2. CASE OpenDisputeRound(m)
    <3>1. round \in [Markets -> Rounds]
      BY DEF IInv, TypeOK, ResolutionTypeOK
    <3>2. round'[m] = [round[m] EXCEPT
                    !.n = DisputeShape[1], !.k = DisputeShape[2],
                    !.commitDeadline = now + CommitWindow,
                    !.revealDeadline = now + CommitWindow + RevealWindow]
      BY <2>2, <3>1 DEF OpenDisputeRound
    <3>3. round'[m].index = round[m].index /\ round'[m].proposed = round[m].proposed
      BY <3>1, <3>2 DEF Rounds
    <3> QED
      BY <3>3 DEF HasProposal, StandingAnswer
  <2>3. CASE UNCHANGED round
    BY <2>3 DEF HasProposal, StandingAnswer
  <2> QED
    BY <2>1, <2>2, <2>3 DEF RequestResolution, DrawAges, CommitVote, roundVars
<1> QED
  BY <1>1, <1>2 DEF JudgedStep, Judged!judgementVars, JudgementPhase, Terminal

(* Resolution keeps the promise of Judgement to the holders of each market.*)
THEOREM ResolutionImplementsJudgement ==
    ASSUME ~AllowlistOpen
    PROVE  Spec => ImplementsJudgement
<1> DEFINE Starts == \A m \in Markets : Judged(m)!Init
           Steps  == \A m \in Markets :
                        Judged(m)!Next \/ UNCHANGED Judged(m)!judgementVars
<1>1. Init => Starts
  BY JudgedStart
<1>2. ASSUME IInv, [Next]_vars, NEW m \in Markets
      PROVE  JudgedStep(m)
  <2>1. CASE UNCHANGED MarketView(m)
    BY <2>1, QuietStutters
  <2>2. CASE MarketNext(m)
    BY <1>2, <2>2, MarketOnlyIsJudged, RevealIsJudged, DisputeIsJudged,
       FinalizeIsJudged, MarkFailedIsJudged, PreparationStutters
    DEF MarketNext, MarketOnly
  <2> QED
    BY <1>2, <2>1, <2>2, Locality DEF IInv
<1>3. IInv /\ [Next]_vars => Steps
  BY <1>2 DEF JudgedStep
<1> QED
  BY <1>1, <1>3, InvariantHolds, PTL DEF Spec, ImplementsJudgement
=============================================================================
