--------------------------- MODULE OperatorsProofs ---------------------------
(***************************************************************************)
(* The scripts and keepers over the contracts, for every number of         *)
(* resolvers, keys held, markets, keepers and runs, whoever else calls and *)
(* wherever a process dies.                                                *)
(***************************************************************************)
EXTENDS Operators, CountingProofs

-----------------------------------------------------------------------------
(* What the contracts keep of a commitment.                                *)

(* Who has a commitment was drawn, what was revealed is what was committed *)
(* to, and a sitting committee has one of the shapes.                      *)
Sealed(m) ==
    /\ \A a \in Agents : commitment[m][a] # NoCommitment => a \in roundOne[m] \cup committee[m]
    /\ \A a \in Agents : reveal[m][a] # NONE => commitment[m][a].outcome = reveal[m][a]
    /\ round[m].n # 0 => <<round[m].n, round[m].k>> \in TierShapes \cup {DisputeShape}

SealInv == CountInv /\ \A m \in Markets : Sealed(m)

(* A round that opens finds an empty seat and nobody it seats committed.   *)
LEMMA OpeningIs ==
    ASSUME TypeOK, NEW m \in Markets, Consistent(m),
           OpenResolution(m) \/ OpenDisputeRound(m)
    PROVE  /\ committee[m] = {} /\ round[m].n = 0
           /\ roundOne[m] \subseteq roundOne'[m]
           /\ roundOne'[m] \subseteq roundOne[m] \cup committee'[m]
           /\ committee'[m] \cap roundOne[m] = {}
           /\ committee'[m] \subseteq Agents
           /\ UNCHANGED <<commitment[m], reveal[m], status[m], winningOutcome[m]>>
           /\ ~round[m].finalized
           /\ \/ round[m].index = 0 /\ roundOne[m] = {}
              \/ round[m].index = 2 /\ round'[m].index = 2
           /\ <<round'[m].n, round'[m].k>> \in TierShapes \cup {DisputeShape}
<1>1. round \in [Markets -> Rounds] /\ committee \in [Markets -> SUBSET Agents]
      /\ roundOne \in [Markets -> SUBSET Agents]
  BY DEF TypeOK, ResolutionTypeOK
<1>2. CASE OpenResolution(m)
  <2>0. PICK shape \in TierShapes :
        /\ \E picked \in Samples(shape[1], {}) :
             /\ committee' = [committee EXCEPT ![m] = picked]
             /\ roundOne' = [roundOne EXCEPT ![m] = picked]
        /\ round' = [round EXCEPT ![m] =
              [EmptyRound EXCEPT
                 !.n = shape[1], !.k = shape[2], !.index = 1,
                 !.proposed = NONE,
                 !.commitDeadline = now + CommitWindow,
                 !.revealDeadline = now + CommitWindow + RevealWindow]]
    BY <1>2 DEF OpenResolution
  <2>1. PICK picked \in Samples(shape[1], {}) :
        /\ committee' = [committee EXCEPT ![m] = picked]
        /\ roundOne' = [roundOne EXCEPT ![m] = picked]
    BY <2>0
  <2>2. round[m].index = 0 /\ status[m] = "Closed"
        /\ UNCHANGED <<commitment, reveal, status, winningOutcome>>
    BY <1>2 DEF OpenResolution, marketVars, voteVars
  <2>3. committee[m] = {} /\ round[m].n = 0 /\ roundOne[m] = {} /\ ~round[m].finalized
    BY <2>2 DEF Consistent, Unopened, Closing, Terminal, TerminalStatuses
  <2>4. committee'[m] = picked /\ roundOne'[m] = picked /\ picked \subseteq Agents
    BY <1>1, <2>1 DEF Samples, Eligible
  <2>5. round'[m].n = shape[1] /\ round'[m].k = shape[2] /\ shape = <<shape[1], shape[2]>>
    BY <1>1, <2>0, ResolutionAssumption DEF EmptyRound
  <2> QED
    BY <2>2, <2>3, <2>4, <2>5
<1>3. CASE OpenDisputeRound(m)
  <2>1. /\ round[m].index = 2 /\ ~round[m].finalized /\ round[m].n = 0
        /\ UNCHANGED <<commitment, reveal, status, winningOutcome, roundOne>>
        /\ round' = [round EXCEPT ![m] = [@ EXCEPT
                    !.n = DisputeShape[1], !.k = DisputeShape[2],
                    !.commitDeadline = now + CommitWindow,
                    !.revealDeadline = now + CommitWindow + RevealWindow]]
    BY <1>3 DEF OpenDisputeRound, marketVars, voteVars
  <2>2. PICK picked \in Samples(DisputeShape[1], roundOne[m]) :
          committee' = [committee EXCEPT ![m] = picked]
    BY <1>3 DEF OpenDisputeRound
  <2>3. committee'[m] = picked /\ picked \cap roundOne[m] = {} /\ picked \subseteq Agents
    BY <1>1, <2>2 DEF Samples, Eligible
  <2>4. round'[m].n = DisputeShape[1] /\ round'[m].k = DisputeShape[2] /\ round'[m].index = 2
    BY <1>1, <2>1 DEF Rounds
  <2>5. committee[m] = {} /\ DisputeShape = <<DisputeShape[1], DisputeShape[2]>>
    BY <2>1, ResolutionAssumption DEF Consistent, Unopened
  <2> QED
    BY <2>1, <2>3, <2>4, <2>5
<1> QED
  BY <1>2, <1>3

(* A dispute empties the seats of round 1, who stay remembered.            *)
LEMMA DisputeIs ==
    ASSUME TypeOK, NEW m \in Markets, Consistent(m), NEW challenger \in Challengers,
           Dispute(m, challenger)
    PROVE  /\ committee'[m] = {} /\ round'[m].index = 2 /\ round'[m].n = 0
           /\ roundOne'[m] = roundOne[m] /\ committee[m] \subseteq roundOne[m]
           /\ ~round[m].finalized
           /\ UNCHANGED <<commitment[m], reveal[m]>>
<1>1. /\ round \in [Markets -> Rounds] /\ committee \in [Markets -> SUBSET Agents]
      /\ round[m].index \in 0..2
  BY DEF TypeOK, ResolutionTypeOK, Rounds
<1>2. /\ disputer[m] = Nobody /\ ~round[m].finalized
      /\ committee' = [committee EXCEPT ![m] = {}]
      /\ round' = [round EXCEPT ![m] = DisputedRound]
      /\ UNCHANGED <<roundOne, commitment, reveal>>
  BY DEF Dispute, voteVars
<1>3. round[m].index # 2
  BY <1>2 DEF Consistent, Committees
<1>4. committee[m] \subseteq roundOne[m]
  BY <1>1, <1>3 DEF Consistent, Committees, Unopened
<1> QED
  BY <1>1, <1>2, <1>4 DEF DisputedRound, EmptyRound

(* What any step may do to the seats of a market.                          *)
SeatsStay(m) ==
    UNCHANGED <<committee[m], roundOne[m], round[m].index, round[m].n, round[m].k>>

SeatsOpen(m) ==
    /\ committee[m] = {} /\ round[m].n = 0
    /\ roundOne[m] \subseteq roundOne'[m]
    /\ roundOne'[m] \subseteq roundOne[m] \cup committee'[m]
    /\ committee'[m] \cap roundOne[m] = {}
    /\ UNCHANGED <<commitment[m], reveal[m]>>
    /\ \/ round[m].index = 0 /\ roundOne[m] = {}
       \/ round[m].index = 2 /\ round'[m].index = 2

SeatsEmpty(m) ==
    /\ committee'[m] = {} /\ round'[m].index = 2 /\ round'[m].n = 0
    /\ roundOne'[m] = roundOne[m] /\ committee[m] \subseteq roundOne[m]
    /\ UNCHANGED <<commitment[m], reveal[m]>>

(* A reveal or a commitment is of one member, in turn.                     *)
LEMMA VotesMove ==
    ASSUME TypeOK, NEW m \in Markets, NEW a \in Agents,
           (\E outcome \in VoteChoices : CommitVote(m, a, outcome)) \/ RevealVote(m, a)
    PROVE  /\ SeatsStay(m)
           /\ a \in committee[m]
           /\ \A b \in Agents \ {a} : commitment'[m][b] = commitment[m][b] /\ reveal'[m][b] = reveal[m][b]
           /\ RevealVote(m, a) => /\ commitment'[m][a] = commitment[m][a]
                                  /\ reveal'[m][a] = commitment[m][a].outcome
           /\ ~RevealVote(m, a) => reveal'[m][a] = reveal[m][a] /\ CommitOpen(m)
<1>1. /\ round \in [Markets -> Rounds]
      /\ commitment \in [Markets -> [Agents -> Commitments]]
      /\ reveal \in [Markets -> [Agents -> 0..3]]
  BY DEF TypeOK, ResolutionTypeOK
<1>2. CASE \E outcome \in VoteChoices : CommitVote(m, a, outcome)
  <2>1. PICK outcome \in VoteChoices : CommitVote(m, a, outcome)
    BY <1>2
  <2>2. /\ UNCHANGED <<round, committee, roundOne, reveal>> /\ a \in committee[m] /\ CommitOpen(m)
        /\ commitment' = [commitment EXCEPT ![m][a] = [outcome |-> outcome, key |-> operatorOf[a]]]
    BY <2>1 DEF CommitVote, roundVars
  <2>3. ~RevealVote(m, a)
    <3>1. CASE RevealVote(m, a)
      <4>1. now > round[m].commitDeadline /\ now <= round[m].commitDeadline
        BY <2>2, <3>1, <1>1 DEF RevealVote, RevealOpen, CommitOpen, TypeOK, Rounds
      <4> QED
        BY <4>1, <1>1 DEF TypeOK, Rounds
    <3> QED
      BY <3>1
  <2> QED
    BY <1>1, <2>2, <2>3 DEF SeatsStay
<1>3. CASE RevealVote(m, a)
  <2>1. /\ UNCHANGED <<committee, roundOne, commitment>> /\ a \in committee[m]
        /\ reveal' = [reveal EXCEPT ![m][a] = commitment[m][a].outcome]
        /\ \/ round' = round
           \/ round' = [round EXCEPT ![m] = [@ EXCEPT
                              !.proposed = commitment[m][a].outcome,
                              !.disputeDeadline = now + DisputeWindow]]
    BY <1>3 DEF RevealVote
  <2>2. round'[m].index = round[m].index /\ round'[m].n = round[m].n /\ round'[m].k = round[m].k
    <3>1. CASE round' = round
      BY <3>1
    <3>2. CASE round' = [round EXCEPT ![m] = [@ EXCEPT
                             !.proposed = commitment[m][a].outcome,
                             !.disputeDeadline = now + DisputeWindow]]
      BY <1>1, <3>2 DEF Rounds
    <3> QED
      BY <2>1, <3>1, <3>2
  <2> QED
    BY <1>1, <1>3, <2>1, <2>2 DEF SeatsStay
<1> QED
  BY <1>2, <1>3

(* Every step stays, opens or empties the seats of a market.               *)
LEMMA SeatsMove ==
    ASSUME TypeOK, NEW m \in Markets, Consistent(m), [Next]_vars
    PROVE  SeatsStay(m) \/ SeatsOpen(m) \/ SeatsEmpty(m)
<1>1. CASE ~MarketNext(m)
  BY <1>1, Locality DEF MarketView, SeatsStay
<1>2. CASE MarketOnly(m)
  BY <1>2 DEF MarketOnly, Close, Fail, Void, DirectSettle, DirectFail, DirectMark,
     roundVars, SeatsStay
<1>3. CASE RequestResolution(m) \/ DrawAges(m)
  BY <1>3 DEF RequestResolution, DrawAges, SeatsStay
<1>4. CASE OpenResolution(m) \/ OpenDisputeRound(m)
  <2>1. SeatsOpen(m)
    BY <1>4, OpeningIs DEF SeatsOpen
  <2> QED
    BY <2>1
<1>5. CASE \E challenger \in Challengers : Dispute(m, challenger)
  <2>1. SeatsEmpty(m)
    BY <1>5, DisputeIs DEF SeatsEmpty
  <2> QED
    BY <2>1
<1>6. CASE Finalize(m) \/ MarkFailed(m)
  <2>1. round[m] \in Rounds
    BY DEF TypeOK, ResolutionTypeOK
  <2>2. /\ UNCHANGED <<committee, roundOne>>
        /\ round'[m] = [round[m] EXCEPT !.finalized = TRUE]
    BY <1>6, EndingEffect
  <2> QED
    BY <2>1, <2>2 DEF SeatsStay, Rounds
<1>7. CASE \E a \in Agents : \/ \E outcome \in VoteChoices : CommitVote(m, a, outcome)
                             \/ RevealVote(m, a)
  BY <1>7, VotesMove
<1> QED
  BY <1>1, <1>2, <1>3, <1>4, <1>5, <1>6, <1>7 DEF MarketNext, MarketOnly

(* No vote of a market moves but by its member's hand.                     *)
LEMMA VotesStay ==
    ASSUME TypeOK, NEW m \in Markets, Consistent(m), [Next]_vars
    PROVE  \/ UNCHANGED <<commitment[m], reveal[m]>>
           \/ \E a \in Agents : \/ \E outcome \in VoteChoices : CommitVote(m, a, outcome)
                              \/ RevealVote(m, a)
<1>1. CASE ~MarketNext(m)
  BY <1>1, Locality DEF MarketView
<1>2. CASE MarketOnly(m)
  BY <1>2 DEF MarketOnly, Close, Fail, Void, DirectSettle, DirectFail, DirectMark, voteVars
<1>3. CASE RequestResolution(m) \/ DrawAges(m)
  BY <1>3 DEF RequestResolution, DrawAges, voteVars
<1>4. CASE OpenResolution(m) \/ OpenDisputeRound(m)
  BY <1>4, OpeningIs
<1>5. CASE \E challenger \in Challengers : Dispute(m, challenger)
  BY <1>5, DisputeIs
<1>6. CASE Finalize(m) \/ MarkFailed(m)
  BY <1>6, EndingEffect DEF voteVars
<1> QED
  BY <1>1, <1>2, <1>3, <1>4, <1>5, <1>6 DEF MarketNext, MarketOnly

(* A seal is kept by every step.                                           *)
LEMMA SealedStep ==
    ASSUME TypeOK, NEW m \in Markets, Consistent(m), Sealed(m), [Next]_vars
    PROVE  Sealed(m)'
<1>1. \A a \in Agents : commitment'[m][a] # NoCommitment =>
          a \in roundOne'[m] \cup committee'[m]
  <2>1. \A a \in Agents : a \in roundOne[m] \cup committee[m] =>
            a \in roundOne'[m] \cup committee'[m]
    BY SeatsMove DEF SeatsStay, SeatsOpen, SeatsEmpty
  <2>2. \A a \in Agents : \/ commitment'[m][a] = commitment[m][a]
                          \/ a \in committee[m]
    BY VotesStay, VotesMove
  <2> QED
    BY <2>1, <2>2 DEF Sealed
<1>2. \A a \in Agents : reveal'[m][a] # NONE => commitment'[m][a].outcome = reveal'[m][a]
  <2>1. CASE UNCHANGED <<commitment[m], reveal[m]>>
    BY <2>1 DEF Sealed
  <2>2. ASSUME NEW a \in Agents, RevealVote(m, a)
        PROVE  <1>2
    BY <2>2, VotesMove DEF Sealed
  <2>3. ASSUME NEW a \in Agents, \E outcome \in VoteChoices : CommitVote(m, a, outcome),
               ~RevealVote(m, a)
        PROVE  <1>2
    <3>1. a \in committee[m] /\ CommitOpen(m) /\ reveal'[m][a] = reveal[m][a]
      BY <2>3, VotesMove
    <3>2. now \in Nat /\ round[m].commitDeadline \in Nat
      BY DEF TypeOK, ResolutionTypeOK, Rounds
    <3>3. reveal[m][a] = NONE
      BY <3>1, <3>2 DEF Consistent, RevealsInTurn, CommitOpen
    <3> QED
      BY <2>3, <3>1, <3>3, VotesMove DEF Sealed
  <2> QED
    BY <2>1, <2>2, <2>3, VotesStay
<1>3. round'[m].n # 0 => <<round'[m].n, round'[m].k>> \in TierShapes \cup {DisputeShape}
  <2>1. CASE SeatsStay(m)
    BY <2>1 DEF SeatsStay, Sealed
  <2>2. CASE SeatsEmpty(m)
    BY <2>2 DEF SeatsEmpty
  <2>3. CASE OpenResolution(m) \/ OpenDisputeRound(m)
    BY <2>3, OpeningIs
  <2>4. SeatsStay(m) \/ SeatsEmpty(m) \/ OpenResolution(m) \/ OpenDisputeRound(m)
    <3>1. CASE ~MarketNext(m)
      BY <3>1, Locality DEF MarketView, SeatsStay
    <3>2. CASE MarketOnly(m) \/ RequestResolution(m) \/ DrawAges(m)
      BY <3>2 DEF MarketOnly, Close, Fail, Void, DirectSettle, DirectFail, DirectMark,
         RequestResolution, DrawAges, roundVars, SeatsStay
    <3>3. CASE \E challenger \in Challengers : Dispute(m, challenger)
      BY <3>3, DisputeIs DEF SeatsEmpty
    <3>4. CASE Finalize(m) \/ MarkFailed(m)
      <4>1. round[m] \in Rounds
        BY DEF TypeOK, ResolutionTypeOK
      <4>2. /\ UNCHANGED <<committee, roundOne>>
            /\ round'[m] = [round[m] EXCEPT !.finalized = TRUE]
        BY <3>4, EndingEffect
      <4> QED
        BY <4>1, <4>2 DEF SeatsStay, Rounds
    <3>5. CASE \E a \in Agents : \/ \E outcome \in VoteChoices : CommitVote(m, a, outcome)
                                 \/ RevealVote(m, a)
      BY <3>5, VotesMove
    <3> QED
      BY <3>1, <3>2, <3>3, <3>4, <3>5 DEF MarketNext, MarketOnly
  <2> QED
    BY <2>1, <2>2, <2>3, <2>4
<1> QED
  BY <1>1, <1>2, <1>3 DEF Sealed

(* A round once finalized ends its market as it is.                        *)
LEMMA FinalStays ==
    ASSUME TypeOK, NEW m \in Markets, Consistent(m), round[m].finalized, [Next]_vars
    PROVE  UNCHANGED <<status[m], winningOutcome[m], round[m].finalized, round[m].k>>
<1>1. Terminal(m) /\ round[m] \in Rounds
  BY DEF Consistent, Closing, TypeOK, ResolutionTypeOK
<1>2. CASE ~MarketNext(m)
  BY <1>2, Locality DEF MarketView
<1>3. ~MarketOnly(m)
  BY <1>1 DEF MarketOnly, Close, Fail, Void, DirectSettle, DirectFail, DirectMark,
     CloseMarket, FailMarket, VoidMarket, SettleMarket, MarkMarketProposed,
     MarkMarketDisputed, Terminal, TerminalStatuses
<1>4. CASE RequestResolution(m) \/ DrawAges(m)
  BY <1>4 DEF RequestResolution, DrawAges, marketVars
<1>5. ~OpenResolution(m)
  BY <1>1 DEF OpenResolution, Terminal, TerminalStatuses
<1>6. /\ ~OpenDisputeRound(m) /\ ~Finalize(m) /\ ~MarkFailed(m)
      /\ ~(\E challenger \in Challengers : Dispute(m, challenger))
  BY DEF OpenDisputeRound, Finalize, MarkFailed, Dispute
<1>7. CASE \E a \in Agents, outcome \in VoteChoices : CommitVote(m, a, outcome)
  BY <1>7 DEF CommitVote, marketVars, roundVars
<1>8. CASE \E a \in Agents : RevealVote(m, a)
  <2>1. UNCHANGED <<round, marketVars>>
    BY <1>1, <1>8 DEF RevealVote, MarkMarketProposed, Terminal, TerminalStatuses
  <2> QED
    BY <2>1 DEF marketVars
<1> QED
  BY <1>2, <1>3, <1>4, <1>5, <1>6, <1>7, <1>8 DEF MarketNext, MarketOnly

LEMMA SealStart == Init => SealInv
<1>1. ASSUME Init, NEW m \in Markets PROVE Sealed(m)
  BY <1>1 DEF Init, Sealed, EmptyRound
<1> QED
  BY <1>1, CountsStart DEF SealInv

LEMMA SealStep == SealInv /\ [Next]_vars => SealInv'
<1> SUFFICES ASSUME SealInv, [Next]_vars PROVE SealInv'
  OBVIOUS
<1>1. CountInv'
  BY CountsStep DEF SealInv
<1>2. \A m \in Markets : Sealed(m)'
  BY SealedStep DEF SealInv, CountInv, IInv
<1> QED
  BY <1>1, <1>2 DEF SealInv

-----------------------------------------------------------------------------
(* What the scripts keep in memory.                                        *)

RunStages == {"idle", "provisioning", "arriving", "requesting", "waiting", "seating", "committing",
              "revealing", "finalizing", "restoring", "done", "thrown"}

Runs == [script : Scripts, at : RunStages, starts : Nat, restore : SUBSET WindowNames,
         outcome : Outcomes \cup {NONE}, todo : SUBSET Agents,
         votes : [Agents -> Commitments], deadline : Nat,
         report : [status : Statuses \cup {"none"}, winner : 0..3]]

Alive(r) == r.at \notin {"idle", "done", "thrown"}

RunTypeOK ==
    /\ run \in Runs
    /\ windows \subseteq WindowNames
    /\ Alive(run) /\ run.script = "committee" => run.outcome \in VoteChoices

Voted(r) == {a \in Agents : r.votes[a] # NoVote}

(* Whom a run votes for: those it has voted for, and those it will.        *)
Carried(r) == r.todo \cup Voted(r)

Voting(r) == r.at \in {"committing", "revealing", "finalizing"}

(* What a run remembers is what the chain holds.                           *)
Remembers(r) ==
    \A a \in Voted(r) :
        /\ a \in HeldKeys
        /\ commitment[Subject][a] = r.votes[a]
        /\ a \in committee[Subject] \/ round[Subject].index = 2
        /\ r.script = "committee" => r.votes[a].outcome = r.outcome

(* A held member's commitment is of this run, or is about to be made again *)
(* by it; and the run has all the members it can vote for, or sits in a    *)
(* round that is over.                                                     *)
Owns(r) ==
    Voting(r) =>
        /\ Carried(r) \subseteq roundOne[Subject] \cup committee[Subject]
        /\ \A a \in committee[Subject] \cap HeldKeys :
              commitment[Subject][a] # NoCommitment => a \in Carried(r)
        /\ \/ Carried(r) \cap committee[Subject] = {}
           \/ r.script = "resolve" /\ Carried(r) = committee[Subject]
           \/ /\ r.script = "committee" /\ Carried(r) = Operable
              /\ Cardinality(Carried(r)) >= round[Subject].k
        /\ r.at # "committing" => r.todo \subseteq Voted(r)

Early == {"idle", "provisioning", "arriving", "requesting", "waiting", "seating"}

Fresh(r) == r.at \in Early => Carried(r) = {}

Memory(r) == Remembers(r) /\ Owns(r) /\ Fresh(r)

RunInv == RunTypeOK /\ Memory(run)

OpsInv == SealInv /\ RunInv

-----------------------------------------------------------------------------
(* Whatever a keeper, a script or a stranger does is one of the contracts' *)
(* own transactions or nothing at all.                                     *)

(* A call a keeper sends.                                                  *)
LEMMA CallIsATransaction ==
    ASSUME NEW m \in Markets, NEW fn, Call(fn, m)
    PROVE  Next /\ commitment' = commitment
<1>1. Close(m) \/ Fail(m) \/ RequestResolution(m) \/ OpenResolution(m) \/ OpenDisputeRound(m)
  BY DEF Call
<1>2. MarketNext(m)
  BY <1>1 DEF MarketNext
<1>3. commitment' = commitment
  BY <1>1 DEF Close, Fail, RequestResolution, OpenResolution, OpenDisputeRound, voteVars
<1> QED
  BY <1>2, <1>3 DEF Next

LEMMA KeeperOnlyCalls ==
    ASSUME NEW k, KeeperStep(k)
    PROVE  [Next]_vars /\ commitment' = commitment
<1>1. CASE UNCHANGED vars
  BY <1>1 DEF vars, voteVars
<1>2. CASE \E m \in Markets : \E fn \in SentCalls : Call(fn, m)
  BY <1>2, CallIsATransaction
<1>3. CASE Wakes(k) \/ Sleeps(k)
  BY <1>1, <1>3 DEF Wakes, Sleeps
<1>4. ASSUME NEW m \in Markets,
             LooksAt(k, m) \/ ReadsDraw(k, m) \/ ResendReverts(k, m)
      PROVE  UNCHANGED vars
  BY <1>4 DEF LooksAt, ReadsDraw, ResendReverts
<1>5. ASSUME NEW m \in Markets, NEW fn, Simulates(k, fn, m) \/ Aborts(k, fn, m)
      PROVE  UNCHANGED vars
  BY <1>5 DEF Simulates, Aborts
<1>6. ASSUME NEW m \in Markets, NEW fn, Sends(k, fn, m) \/ LosesReceipt(k, fn, m)
      PROVE  Call(fn, m) \/ UNCHANGED vars
  BY <1>6 DEF Sends, LosesReceipt
<1> QED
  BY <1>1, <1>2, <1>3, <1>4, <1>5, <1>6 DEF KeeperStep

(* Strangers hold no key that a script holds.                              *)
LEMMA OthersOnlyCall ==
    ASSUME TypeOK, NEW m \in Markets, Others(m)
    PROVE  Next /\ \A a \in HeldKeys : commitment'[Subject][a] = commitment[Subject][a]
<1>0. HeldKeys \subseteq Agents /\ commitment \in [Markets -> [Agents -> Commitments]]
  BY RunAssumption DEF TypeOK, ResolutionTypeOK
<1>1. MarketNext(m)
  BY DEF Others, MarketNext
<1>2. CASE \E b \in Agents \ HeldKeys, outcome \in VoteChoices : CommitVote(m, b, outcome)
  <2>1. PICK b \in Agents \ HeldKeys, outcome \in VoteChoices : CommitVote(m, b, outcome)
    BY <1>2
  <2>2. commitment' = [commitment EXCEPT ![m][b] = [outcome |-> outcome, key |-> operatorOf[b]]]
    BY <2>1 DEF CommitVote
  <2> QED
    BY <1>0, <1>1, <2>2, RunAssumption DEF Next
<1>3. CASE ~(\E b \in Agents \ HeldKeys, outcome \in VoteChoices : CommitVote(m, b, outcome))
  <2>1. commitment' = commitment
    BY <1>3 DEF Others, Close, Fail, RequestResolution, DrawAges, OpenResolution,
       OpenDisputeRound, Dispute, Finalize, MarkFailed, RevealVote, voteVars
  <2> QED
    BY <1>1, <2>1 DEF Next
<1> QED
  BY <1>2, <1>3

(* A script's steps that open a round, and those that shorten a window.    *)
Openings == Requests \/ Opens
Shortenings == \E w \in WindowNames : Shortens(w)

LEMMA RunnerSteps ==
    ASSUME RunnerStep
    PROVE  \/ Starts \/ Shortenings \/ Arrives \/ Openings \/ Seats \/ Committed
           \/ \E a \in Agents : Commits(a) \/ Reveals(a)
           \/ Revealed \/ Finalizes \/ PutsBack
           \/ Throws /\ Alive(run)
BY DEF RunnerStep, RunnerWorks, Shortenings, ResolversThrow, RequestReverts, OpenReverts, CommitThrows, RevealReverts,
   FinalizeReverts, Dies, Openings, Running, Alive

LEMMA RunnerOnlyCalls ==
    ASSUME TypeOK, RunTypeOK, RunnerStep
    PROVE  /\ [Next]_vars
           /\ \/ \E a \in Agents : Commits(a)
              \/ commitment' = commitment
<1>1. Subject \in Markets /\ HeldKeys \subseteq Agents
  BY RunAssumption
<1>2. CASE UNCHANGED vars
  BY <1>2 DEF vars, voteVars
<1>3. CASE Starts \/ Shortenings \/ Arrives \/ Seats \/ Committed \/ Revealed \/ PutsBack \/ Throws
  BY <1>2, <1>3 DEF Starts, Shortenings, Shortens, Arrives, Seats, Committed, Revealed, PutsBack, Throws
<1>4. CASE Openings
  <2>1. MarketNext(Subject) /\ commitment' = commitment
    BY <1>4 DEF Openings, Requests, Opens, MarketNext, RequestResolution, OpenResolution, voteVars
  <2> QED
    BY <1>1, <2>1 DEF Next
<1>5. ASSUME NEW a \in Agents, Commits(a) PROVE Next
  <2>1. PICK outcome \in JudgedOutcomes : CommitVote(Subject, a, outcome)
    BY <1>5 DEF Commits
  <2>2. outcome \in VoteChoices
    BY <1>5, <2>1 DEF Commits, JudgedOutcomes, RunTypeOK, Alive, Runs
  <2>3. MarketNext(Subject)
    BY <2>1, <2>2 DEF MarketNext
  <2> QED
    BY <1>1, <2>3 DEF Next
<1>6. ASSUME NEW a \in Agents, Reveals(a) PROVE Next /\ commitment' = commitment
  <2>1. MarketNext(Subject) /\ commitment' = commitment
    BY <1>6 DEF Reveals, RevealVote, MarketNext
  <2> QED
    BY <1>1, <2>1 DEF Next
<1>7. ASSUME Finalizes PROVE Next /\ commitment' = commitment
  <2>1. MarketNext(Subject) /\ commitment' = commitment
    BY <1>7 DEF Finalizes, Finalize, MarketNext, voteVars
  <2> QED
    BY <1>1, <2>1 DEF Next
<1> QED
  BY <1>3, <1>4, <1>5, <1>6, <1>7, RunnerSteps

(* So a step of them all is a step of the contracts, with the commitments  *)
(* of the held members as they were but for the script's own.              *)
LEMMA OpsStep ==
    ASSUME TypeOK, RunTypeOK, [OpsNext]_opsVars
    PROVE  /\ [Next]_vars
           /\ UNCHANGED runVars \/ RunnerStep
           /\ \/ \E a \in Agents : Commits(a)
              \/ \A a \in HeldKeys : commitment'[Subject][a] = commitment[Subject][a]
<1>1. CASE UNCHANGED opsVars
  BY <1>1 DEF opsVars, vars, voteVars
<1>2. CASE \E k \in Keepers : KeeperStep(k) /\ UNCHANGED runVars
  BY <1>2, KeeperOnlyCalls
<1>3. CASE RunnerStep
  BY <1>3, RunnerOnlyCalls
<1>4. CASE Time /\ UNCHANGED runVars
  BY <1>4 DEF Time, Next, voteVars
<1>5. CASE \E m \in Markets : Others(m) /\ UNCHANGED runVars
  BY <1>5, OthersOnlyCall
<1>6. CASE Finished /\ UNCHANGED runVars
  BY <1>6 DEF Finished, Next, vars, voteVars
<1> QED
  BY <1>1, <1>2, <1>3, <1>4, <1>5, <1>6 DEF OpsNext

-----------------------------------------------------------------------------
(* What is remembered stays true.                                          *)

(* A commitment is recorded as it is sent.                                 *)
LEMMA CommitIs ==
    ASSUME TypeOK, RunTypeOK, NEW a \in Agents, Commits(a)
    PROVE  \E outcome \in JudgedOutcomes :
             /\ run.at = "committing" /\ a \in run.todo /\ a \in HeldKeys
             /\ outcome \in VoteChoices
             /\ operatorOf[a] \in Keys /\ operatorOf[a] # NoKey
             /\ commitment' = [commitment EXCEPT ![Subject][a] =
                                  [outcome |-> outcome, key |-> operatorOf[a]]]
             /\ run' = [run EXCEPT
                          !.todo = run.todo \ {a},
                          !.votes = [run.votes EXCEPT ![a] =
                                       [outcome |-> outcome, key |-> operatorOf[a]]]]
             /\ UNCHANGED <<windows, round, committee, roundOne>>
             /\ a \in committee[Subject]
<1>1. PICK outcome \in JudgedOutcomes :
        /\ CommitVote(Subject, a, outcome)
        /\ run' = [run EXCEPT
                      !.todo = run.todo \ {a},
                      !.votes[a] = [outcome |-> outcome, key |-> operatorOf[a]]]
  BY DEF Commits
<1>2. /\ run.at = "committing" /\ a \in run.todo /\ a \in HeldKeys /\ UNCHANGED windows
  BY DEF Commits
<1>3. outcome \in VoteChoices
  BY <1>1, <1>2 DEF JudgedOutcomes, RunTypeOK, Alive, Runs
<1>4. run' = [run EXCEPT
                !.todo = run.todo \ {a},
                !.votes = [run.votes EXCEPT ![a] = [outcome |-> outcome, key |-> operatorOf[a]]]]
  BY <1>1 DEF RunTypeOK, Runs
<1>5. operatorOf[a] \in Keys
  BY DEF TypeOK, StakeTypeOK
<1> QED
  BY <1>1, <1>2, <1>3, <1>4, <1>5 DEF CommitVote, roundVars

(* Memory is well formed.                                                  *)
LEMMA RunTypeStep ==
    ASSUME TypeOK, TypeOK', RunTypeOK, UNCHANGED runVars \/ RunnerStep
    PROVE  RunTypeOK'
<1>1. run \in Runs /\ windows \subseteq WindowNames
      /\ (Alive(run) /\ run.script = "committee" => run.outcome \in VoteChoices)
  BY DEF RunTypeOK
<1>2. CASE UNCHANGED runVars
  BY <1>1, <1>2 DEF runVars, RunTypeOK, Alive
<1>3. CASE Starts
  <2>1. PICK outcome \in IF run.script = "committee" THEN VoteChoices \cap {NO, YES} ELSE {NONE},
             at \in {"provisioning", "arriving"} :
         run' = [run EXCEPT !.at = at, !.starts = run.starts + 1, !.outcome = outcome,
                            !.votes = NoVotes, !.todo = {}, !.restore = {},
                            !.deadline = 0, !.report = NoReport]
    BY <1>3 DEF Starts
  <2>2. outcome \in Outcomes \cup {NONE}
    BY <2>1 DEF Outcomes
  <2>3. NoVotes \in [Agents -> Commitments] /\ NoReport \in [status : Statuses \cup {"none"}, winner : 0..3]
    BY DEF NoVotes, NoVote, Commitments, NoReport, NONE, Keys
  <2>4. run.starts + 1 \in Nat
    BY <1>1 DEF Runs
  <2>5. run' \in Runs
    BY <1>1, <2>1, <2>2, <2>3, <2>4 DEF Runs, RunStages
  <2>6. run'.script = run.script /\ run'.outcome = outcome
    BY <1>1, <2>1 DEF Runs
  <2> QED
    BY <1>1, <1>3, <2>1, <2>5, <2>6 DEF Starts, RunTypeOK
<1>4. CASE Shortenings
  <2>1. PICK w \in WindowNames : Shortens(w)
    BY <1>4 DEF Shortenings
  <2>2. /\ run' = [run EXCEPT !.restore = run.restore \cup {w}]
        /\ windows' = windows \cup {w} /\ run.at = "provisioning"
    BY <2>1 DEF Shortens
  <2> QED
    BY <1>1, <2>2 DEF RunTypeOK, Runs, Alive
<1>5. ASSUME NEW at \in RunStages \ {"idle"}, run' = [run EXCEPT !.at = at], windows' \subseteq WindowNames,
             Alive(run) \/ at \in {"done", "thrown"}
      PROVE  RunTypeOK'
  BY <1>1, <1>5 DEF RunTypeOK, Runs, Alive, RunStages
<1>6. CASE Arrives \/ Openings \/ PutsBack \/ Throws
  <2>1. CASE Throws
    BY <1>1, <1>5, <2>1 DEF Throws, To, RunStages
  <2>2. CASE PutsBack
    <3>1. CASE run.restore = {}
      BY <1>1, <1>5, <2>2, <3>1 DEF PutsBack, To, RunStages
    <3>2. CASE run.restore # {}
      <4>1. PICK w \in run.restore : windows' = windows \ {w}
                                     /\ run' = [run EXCEPT !.restore = run.restore \ {w}]
        BY <2>2, <3>2 DEF PutsBack
      <4>2. run' \in Runs /\ run'.at = run.at /\ run'.script = run.script /\ run'.outcome = run.outcome
        BY <1>1, <4>1 DEF Runs
      <4> QED
        BY <1>1, <4>1, <4>2 DEF RunTypeOK, Alive
    <3> QED
      BY <3>1, <3>2
  <2>3. CASE Openings
    BY <1>1, <1>5, <2>3 DEF Openings, Requests, Opens, To, RunStages, Alive
  <2>4. CASE Arrives
    <3>1. PICK at \in {"seating", "requesting", "waiting"} : To(at)
      BY <2>4 DEF Arrives
    <3> QED
      BY <1>1, <1>5, <2>4, <3>1 DEF Arrives, To, RunStages, Alive
  <2> QED
    BY <1>6, <2>1, <2>2, <2>3, <2>4
<1>7. CASE Seats
  <2>1. CASE To("thrown")
    BY <1>1, <1>5, <1>7, <2>1 DEF Seats, To, RunStages
  <2>2. CASE ~To("thrown")
    <3>1. PICK voters \in {Operable, committee[Subject]} :
            run' = [run EXCEPT !.at = "committing", !.todo = voters]
      BY <1>7, <2>2 DEF Seats
    <3>2. voters \subseteq Agents
      BY <3>1, RunAssumption DEF Operable, TypeOK, ResolutionTypeOK
    <3> QED
      BY <1>1, <1>7, <3>1, <3>2 DEF Seats, RunTypeOK, Runs, RunStages, Alive
  <2> QED
    BY <2>1, <2>2
<1>8. ASSUME NEW a \in Agents, Commits(a) PROVE RunTypeOK'
  <2>1. PICK outcome \in JudgedOutcomes :
             /\ run.at = "committing" /\ a \in run.todo
             /\ outcome \in VoteChoices
             /\ operatorOf[a] \in Keys
             /\ run' = [run EXCEPT
                          !.todo = run.todo \ {a},
                          !.votes = [run.votes EXCEPT ![a] =
                                       [outcome |-> outcome, key |-> operatorOf[a]]]]
             /\ UNCHANGED windows
    BY <1>8, CommitIs
  <2>2. [outcome |-> outcome, key |-> operatorOf[a]] \in Commitments
    BY <2>1, ResolutionAssumption DEF Commitments, Outcomes, NO, YES, UNRESOLVABLE
  <2> QED
    BY <1>1, <2>1, <2>2 DEF RunTypeOK, Runs, Alive
<1>9. CASE Committed
  <2>1. run' = [run EXCEPT !.at = "revealing", !.deadline = round[Subject].commitDeadline,
                          !.todo = {a \in Agents : run.votes[a] # NoVote}]
        /\ run.at = "committing" /\ UNCHANGED windows
    BY <1>9 DEF Committed
  <2>2. round[Subject].commitDeadline \in Nat
    BY RunAssumption DEF TypeOK, ResolutionTypeOK, Rounds
  <2> QED
    BY <1>1, <2>1, <2>2 DEF RunTypeOK, Runs, RunStages, Alive
<1>10. ASSUME NEW a \in Agents, Reveals(a) PROVE RunTypeOK'
  <2>1. run' = [run EXCEPT !.todo = run.todo \ {a}] /\ run.at = "revealing" /\ UNCHANGED windows
    BY <1>10 DEF Reveals
  <2> QED
    BY <1>1, <2>1 DEF RunTypeOK, Runs, Alive
<1>11. CASE Revealed
  <2>1. run' = [run EXCEPT !.at = "finalizing", !.deadline = round[Subject].disputeDeadline]
        /\ run.at = "revealing" /\ UNCHANGED windows
    BY <1>11 DEF Revealed
  <2>2. round[Subject].disputeDeadline \in Nat
    BY RunAssumption DEF TypeOK, ResolutionTypeOK, Rounds
  <2> QED
    BY <1>1, <2>1, <2>2 DEF RunTypeOK, Runs, RunStages, Alive
<1>12. CASE Finalizes
  <2>1. PICK at \in {"restoring", "done"} : run' = [run EXCEPT !.at = at, !.report = Report]
    BY <1>12 DEF Finalizes
  <2>2. Report \in [status : Statuses \cup {"none"}, winner : 0..3]
    BY RunAssumption DEF Report, TypeOK, MarketTypeOK, NO, YES, NONE
  <2>3. UNCHANGED windows /\ run.at = "finalizing"
    BY <1>12 DEF Finalizes
  <2> HIDE DEF Report
  <2>4. run' \in Runs /\ run'.script = run.script /\ run'.outcome = run.outcome
    BY <1>1, <2>1, <2>2 DEF Runs, RunStages
  <2> QED
    BY <1>1, <2>3, <2>4 DEF RunTypeOK, Alive
<1> QED
  BY <1>2, <1>3, <1>4, <1>6, <1>7, <1>8, <1>9, <1>10, <1>11, <1>12, RunnerSteps

(* What is remembered of the chain stays so whatever the chain does, as    *)
(* long as the held members' commitments are left alone.                   *)
LEMMA ChainKeeps ==
    ASSUME TypeOK, Consistent(Subject), Sealed(Subject), [Next]_vars,
           \A a \in HeldKeys : commitment'[Subject][a] = commitment[Subject][a],
           NEW r, Remembers(r), Owns(r)
    PROVE  Remembers(r)' /\ Owns(r)'
<1>0. Subject \in Markets /\ HeldKeys \subseteq Agents
  BY RunAssumption
<1>1. SeatsStay(Subject) \/ SeatsOpen(Subject) \/ SeatsEmpty(Subject)
  BY <1>0, SeatsMove
<1>2. round[Subject].index = 0 => committee[Subject] = {}
  BY DEF Consistent, Unopened
<1>3. Remembers(r)'
  <2>1. \A a \in Voted(r) : /\ a \in HeldKeys
                            /\ commitment'[Subject][a] = r.votes[a]
                            /\ r.script = "committee" => r.votes[a].outcome = r.outcome
    BY <1>0 DEF Remembers
  <2>2. \A a \in Voted(r) : a \in committee[Subject] \/ round[Subject].index = 2
    BY DEF Remembers
  <2>3. \A a \in Voted(r) : a \in committee'[Subject] \/ round'[Subject].index = 2
    BY <1>1, <1>2, <2>2 DEF SeatsStay, SeatsOpen, SeatsEmpty
  <2> QED
    BY <2>1, <2>3 DEF Remembers
<1>4. ASSUME Voting(r)
      PROVE  /\ Carried(r) \subseteq roundOne'[Subject] \cup committee'[Subject]
             /\ \A a \in committee'[Subject] \cap HeldKeys :
                   commitment'[Subject][a] # NoCommitment => a \in Carried(r)
             /\ \/ Carried(r) \cap committee'[Subject] = {}
                \/ r.script = "resolve" /\ Carried(r) = committee'[Subject]
                \/ /\ r.script = "committee" /\ Carried(r) = committee'[Subject] \cap HeldKeys
                   /\ Cardinality(Carried(r)) >= round'[Subject].k
             /\ r.at # "committing" => r.todo \subseteq Voted(r)
  <2>1. /\ Carried(r) \subseteq roundOne[Subject] \cup committee[Subject]
        /\ \A a \in committee[Subject] \cap HeldKeys :
              commitment[Subject][a] # NoCommitment => a \in Carried(r)
        /\ \/ Carried(r) \cap committee[Subject] = {}
           \/ r.script = "resolve" /\ Carried(r) = committee[Subject]
           \/ /\ r.script = "committee" /\ Carried(r) = committee[Subject] \cap HeldKeys
              /\ Cardinality(Carried(r)) >= round[Subject].k
        /\ r.at # "committing" => r.todo \subseteq Voted(r)
    BY <1>4 DEF Owns, Operable
  <2>2. \A a \in HeldKeys : commitment[Subject][a] # NoCommitment =>
            a \in roundOne[Subject] \cup committee[Subject]
    BY <1>0 DEF Sealed
  <2>3. CASE SeatsStay(Subject)
    BY <2>1, <2>3 DEF SeatsStay
  <2>4. CASE SeatsOpen(Subject)
    BY <2>1, <2>2, <2>4 DEF SeatsOpen
  <2>5. CASE SeatsEmpty(Subject)
    BY <2>1, <2>5 DEF SeatsEmpty
  <2> QED
    BY <1>1, <2>3, <2>4, <2>5
<1>5. Owns(r)'
  BY <1>4 DEF Owns, Operable
<1> QED
  BY <1>3, <1>5

(* A step that sends no commitment keeps the memory in accord.             *)
LEMMA ReadingKeeps ==
    ASSUME TypeOK, RunTypeOK, Consistent(Subject), Sealed(Subject), [Next]_vars,
           commitment' = commitment, Memory(run),
           \/ Starts \/ Shortenings \/ Arrives \/ Openings \/ Seats \/ Committed
           \/ \E a \in Agents : Reveals(a)
           \/ Revealed \/ Finalizes \/ PutsBack
           \/ Throws
    PROVE  Memory(run)'
<1>0. Subject \in Markets /\ HeldKeys \subseteq Agents
  BY RunAssumption
<1>1. PICK r \in Runs : r = run
  BY DEF RunTypeOK
<1>2. PICK q : q = run'
  OBVIOUS
<1>3. Remembers(r) /\ Owns(r) /\ Fresh(r)
  BY <1>1 DEF Memory
<1>4. Remembers(r)' /\ Owns(r)'
  BY <1>3, ChainKeeps
<1> SUFFICES Remembers(q)' /\ Owns(q)' /\ Fresh(q)
  BY <1>2 DEF Memory
(* Whom it voted for, and how, stays.                                      *)
<1>5. ASSUME q.script = r.script, q.outcome = r.outcome, q.votes = r.votes
      PROVE  Remembers(q)' /\ Voted(q) = Voted(r)
  BY <1>4, <1>5 DEF Remembers, Voted
<1>6. ASSUME NEW at, q = [r EXCEPT !.at = at],
             \/ at \in {"thrown", "restoring", "done"}
             \/ /\ at \in {"requesting", "waiting", "seating"}
                /\ r.at \in {"arriving", "requesting", "waiting", "seating"}
      PROVE  Remembers(q)' /\ Owns(q)' /\ Fresh(q)
  <2>1. q.at = at /\ q.todo = r.todo /\ q.votes = r.votes
        /\ q.script = r.script /\ q.outcome = r.outcome
    BY <1>6 DEF Runs
  <2>2. Carried(q) = Carried(r) /\ Remembers(q)'
    BY <1>5, <2>1 DEF Carried
  <2>3. ~Voting(q)
    BY <1>6, <2>1 DEF Voting
  <2>4. Fresh(q)
    BY <1>3, <1>6, <2>1, <2>2 DEF Fresh, Early
  <2> QED
    BY <2>2, <2>3, <2>4 DEF Owns
<1>7. CASE Starts
  <2>1. q.votes = NoVotes /\ q.todo = {} /\ q.at \in {"provisioning", "arriving"}
    <3>1. PICK outcome : \E at \in {"provisioning", "arriving"} :
              run' = [run EXCEPT !.at = at, !.starts = run.starts + 1,
                                 !.outcome = outcome, !.votes = NoVotes, !.todo = {},
                                 !.restore = {}, !.deadline = 0, !.report = NoReport]
      BY <1>7 DEF Starts
    <3> QED
      BY <1>1, <1>2, <3>1 DEF Runs
  <2>2. Voted(q) = {} /\ Carried(q) = {}
    BY <2>1 DEF Voted, Carried, NoVotes
  <2> QED
    BY <2>1, <2>2 DEF Remembers, Owns, Fresh, Voting
(* What is put down to be put back is no vote.                             *)
<1>7b. ASSUME NEW rest, q = [r EXCEPT !.restore = rest], ~Voting(r)
       PROVE  Remembers(q)' /\ Owns(q)' /\ Fresh(q)
  <2>1. q.at = r.at /\ q.todo = r.todo /\ q.votes = r.votes
        /\ q.script = r.script /\ q.outcome = r.outcome
    BY <1>7b DEF Runs
  <2>2. Carried(q) = Carried(r) /\ Remembers(q)'
    BY <1>5, <2>1 DEF Carried
  <2> QED
    BY <1>3, <1>7b, <2>1, <2>2 DEF Owns, Fresh, Voting
<1>8. CASE Shortenings
  <2>1. \E rest : r.at = "provisioning" /\ q = [r EXCEPT !.restore = rest]
    BY <1>1, <1>2, <1>8 DEF Shortenings, Shortens
  <2> QED
    BY <1>7b, <2>1 DEF Voting
<1>9. CASE Arrives
  <2>1. PICK at \in {"seating", "requesting", "waiting"} : q = [r EXCEPT !.at = at]
    BY <1>1, <1>2, <1>9 DEF Arrives, To
  <2> QED
    BY <1>1, <1>6, <1>9, <2>1 DEF Arrives
<1>10. CASE Openings
  <2>1. PICK at \in {"waiting", "seating"} : q = [r EXCEPT !.at = at]
    BY <1>1, <1>2, <1>10 DEF Openings, Requests, Opens, To
  <2>2. r.at \in {"requesting", "waiting"}
    BY <1>1, <1>10 DEF Openings, Requests, Opens
  <2> QED
    BY <1>6, <2>1, <2>2
<1>11. CASE Throws \/ PutsBack
  <2>1. \/ \E at \in {"thrown", "done"} : q = [r EXCEPT !.at = at]
        \/ r.at = "restoring" /\ \E rest : q = [r EXCEPT !.restore = rest]
    BY <1>1, <1>2, <1>11 DEF Throws, PutsBack, To
  <2> QED
    BY <1>6, <1>7b, <2>1 DEF Voting
<1>12. CASE Seats
  <2>1. CASE q = [r EXCEPT !.at = "thrown"]
    BY <1>6, <2>1
  <2>2. CASE ~(q = [r EXCEPT !.at = "thrown"])
    <3>1. PICK voters \in {Operable, committee[Subject]} :
          /\ q = [r EXCEPT !.at = "committing", !.todo = voters]
          /\ voters = IF r.script = "committee" THEN Operable ELSE committee[Subject]
          /\ r.script = "committee" => ~(Cardinality(voters) < round[Subject].k)
      BY <1>1, <1>2, <1>12, <2>2 DEF Seats, To
    <3>2. /\ r.at = "seating" /\ UNCHANGED <<committee, round, roundOne, commitment>>
      BY <1>1, <1>12 DEF Seats, vars, roundVars, voteVars
    <3>3. q.at = "committing" /\ q.todo = voters /\ q.votes = r.votes
          /\ q.script = r.script /\ q.outcome = r.outcome
      BY <3>1 DEF Runs
    <3>4. Remembers(q)' /\ Voted(q) = {}
      BY <1>3, <1>5, <3>2, <3>3 DEF Fresh, Early, Carried
    <3>5. Carried(q) = voters
      BY <3>3, <3>4 DEF Carried
    <3>6. q.script \in {"resolve", "committee"}
      BY <3>3, RunAssumption DEF Runs
    <3>7. voters \subseteq committee[Subject]
          /\ committee[Subject] \cap HeldKeys \subseteq voters
          /\ (voters = committee[Subject] \/ voters = Operable)
      BY <3>1 DEF Operable
    <3>8. q.script = "committee" => Cardinality(voters) >= round[Subject].k
      <4>1. ASSUME q.script = "committee" PROVE Cardinality(voters) >= round[Subject].k
        <5>1. IsFiniteSet(voters)
          BY <3>7, <1>0, VotersAreFinite, FS_Subset
        <5>2. Cardinality(voters) \in Nat /\ round[Subject].k \in Nat
          BY <5>1, <1>0, FS_CardinalityType DEF TypeOK, ResolutionTypeOK, Rounds
        <5> QED
          BY <3>1, <3>3, <4>1, <5>2
      <4> QED
        BY <4>1
    <3>9. Operable' = Operable
      BY <3>2 DEF Operable
    <3>10. Owns(q)'
      <4>1. /\ voters \subseteq roundOne'[Subject] \cup committee'[Subject]
            /\ \A a \in committee'[Subject] \cap HeldKeys :
                  commitment'[Subject][a] # NoCommitment => a \in voters
        BY <3>2, <3>7
      <4>2. \/ q.script = "resolve" /\ voters = committee'[Subject]
            \/ /\ q.script = "committee" /\ voters = Operable'
               /\ Cardinality(voters) >= round'[Subject].k
        BY <3>1, <3>2, <3>3, <3>6, <3>8, <3>9
      <4> QED
        BY <4>1, <4>2, <3>3, <3>5 DEF Owns
    <3> QED
      BY <3>3, <3>4, <3>10 DEF Fresh, Early
  <2> QED
    BY <2>1, <2>2
<1>13. CASE Committed \/ Revealed \/ (\E a \in Agents : Reveals(a))
  <2>1. /\ Voting(r) /\ Voting(q) /\ q.at # "committing"
        /\ q.script = r.script /\ q.outcome = r.outcome /\ q.votes = r.votes
        /\ Carried(q) = Carried(r) /\ q.todo \subseteq Voted(r)
    <3>1. CASE Committed
      <4>1. r.at = "committing" /\ r.todo = {}
            /\ q = [r EXCEPT !.at = "revealing", !.deadline = round[Subject].commitDeadline,
                             !.todo = Voted(r)]
        BY <1>1, <1>2, <3>1 DEF Committed, Voted
      <4>2. q.at = "revealing" /\ q.todo = Voted(r) /\ q.votes = r.votes
            /\ q.script = r.script /\ q.outcome = r.outcome
        BY <4>1 DEF Runs
      <4> QED
        BY <4>1, <4>2 DEF Voting, Carried, Voted
    <3>2. CASE Revealed
      <4>1. r.at = "revealing" /\ r.todo = {}
            /\ q = [r EXCEPT !.at = "finalizing", !.deadline = round[Subject].disputeDeadline]
        BY <1>1, <1>2, <3>2 DEF Revealed
      <4>2. q.at = "finalizing" /\ q.todo = {} /\ q.votes = r.votes
            /\ q.script = r.script /\ q.outcome = r.outcome
        BY <4>1 DEF Runs
      <4> QED
        BY <4>1, <4>2 DEF Voting, Carried, Voted
    <3>3. CASE \E a \in Agents : Reveals(a)
      <4>1. PICK a \in Agents : r.at = "revealing" /\ q = [r EXCEPT !.todo = r.todo \ {a}]
        BY <1>1, <1>2, <3>3 DEF Reveals
      <4>2. q.at = "revealing" /\ q.todo = r.todo \ {a} /\ q.votes = r.votes
            /\ q.script = r.script /\ q.outcome = r.outcome
        BY <4>1 DEF Runs
      <4>3. r.todo \subseteq Voted(r)
        BY <1>3, <4>1 DEF Owns, Voting
      <4> QED
        BY <4>1, <4>2, <4>3 DEF Voting, Carried, Voted
    <3> QED
      BY <1>13, <3>1, <3>2, <3>3
  <2>2. Remembers(q)' /\ Voted(q) = Voted(r)
    BY <1>5, <2>1
  <2>3. Owns(q)'
    BY <1>4, <2>1, <2>2 DEF Owns
  <2> QED
    BY <2>1, <2>2, <2>3 DEF Fresh, Early, Voting
<1>14. CASE Finalizes
  <2>1. PICK at \in {"restoring", "done"} : q = [r EXCEPT !.at = at, !.report = Report]
    BY <1>1, <1>2, <1>14 DEF Finalizes
  <2> HIDE DEF Report
  <2>2. q.at = at /\ q.todo = r.todo /\ q.votes = r.votes
        /\ q.script = r.script /\ q.outcome = r.outcome
    BY <2>1 DEF Runs
  <2>3. Remembers(q)'
    BY <1>5, <2>2
  <2> QED
    BY <2>1, <2>2, <2>3 DEF Owns, Fresh, Early, Voting
<1> QED
  BY <1>7, <1>8, <1>9, <1>10, <1>11, <1>12, <1>13, <1>14

(* A commitment that is sent is remembered as it was sent.                 *)
LEMMA CommittingKeeps ==
    ASSUME TypeOK, RunTypeOK, Memory(run), NEW a \in Agents, Commits(a)
    PROVE  Memory(run)'
<1>0. Subject \in Markets /\ HeldKeys \subseteq Agents
  BY RunAssumption
<1>1. PICK r \in Runs : r = run
  BY DEF RunTypeOK
<1>2. PICK q : q = run'
  OBVIOUS
<1>3. PICK outcome \in JudgedOutcomes :
             /\ r.at = "committing" /\ a \in r.todo /\ a \in HeldKeys
             /\ outcome \in VoteChoices
             /\ operatorOf[a] \in Keys /\ operatorOf[a] # NoKey
             /\ commitment' = [commitment EXCEPT ![Subject][a] =
                                  [outcome |-> outcome, key |-> operatorOf[a]]]
             /\ q = [r EXCEPT
                          !.todo = r.todo \ {a},
                          !.votes = [r.votes EXCEPT ![a] =
                                       [outcome |-> outcome, key |-> operatorOf[a]]]]
             /\ UNCHANGED <<windows, round, committee, roundOne>>
             /\ a \in committee[Subject]
  BY <1>1, <1>2, CommitIs
<1>4. PICK vote : vote = [outcome |-> outcome, key |-> operatorOf[a]]
  OBVIOUS
<1>5. /\ q.at = "committing" /\ q.script = r.script /\ q.outcome = r.outcome
      /\ q.todo = r.todo \ {a} /\ q.votes[a] = vote
      /\ \A b \in Agents \ {a} : q.votes[b] = r.votes[b]
  BY <1>3, <1>4 DEF Runs
<1>6. vote # NoVote /\ vote.outcome = outcome
  BY <1>3, <1>4 DEF NoVote
<1>7. Voted(q) = Voted(r) \cup {a} /\ Carried(q) = Carried(r) /\ a \in Carried(q)
  BY <1>3, <1>5, <1>6 DEF Voted, Carried
<1>8. /\ commitment'[Subject][a] = vote
      /\ \A b \in Agents \ {a} : commitment'[Subject][b] = commitment[Subject][b]
  BY <1>0, <1>3, <1>4 DEF TypeOK, ResolutionTypeOK
<1>9. Remembers(r) /\ Owns(r)
  BY <1>1 DEF Memory
<1>10. r.script = "committee" => outcome = r.outcome
  BY <1>1, <1>3 DEF JudgedOutcomes
<1>11. Remembers(q)'
  <2>1. ASSUME NEW b \in Voted(q)
        PROVE  /\ b \in HeldKeys
               /\ commitment'[Subject][b] = q.votes[b]
               /\ b \in committee'[Subject] \/ round'[Subject].index = 2
               /\ q.script = "committee" => q.votes[b].outcome = q.outcome
    <3>1. CASE b = a
      BY <1>3, <1>5, <1>6, <1>8, <1>10, <3>1
    <3>2. CASE b # a
      BY <1>3, <1>5, <1>7, <1>8, <1>9, <2>1, <3>2 DEF Remembers, Voted
    <3> QED
      BY <3>1, <3>2
  <2> QED
    BY <2>1 DEF Remembers
<1>12. Owns(q)'
  <2>1. /\ Carried(r) \subseteq roundOne[Subject] \cup committee[Subject]
        /\ \A b \in committee[Subject] \cap HeldKeys :
              commitment[Subject][b] # NoCommitment => b \in Carried(r)
        /\ \/ Carried(r) \cap committee[Subject] = {}
           \/ r.script = "resolve" /\ Carried(r) = committee[Subject]
           \/ /\ r.script = "committee" /\ Carried(r) = committee[Subject] \cap HeldKeys
              /\ Cardinality(Carried(r)) >= round[Subject].k
    BY <1>3, <1>9 DEF Owns, Voting, Operable
  <2>2. \A b \in committee'[Subject] \cap HeldKeys :
            commitment'[Subject][b] # NoCommitment => b \in Carried(q)
    BY <1>0, <1>3, <1>7, <1>8, <2>1
  <2>3. Carried(q) = Carried(r) /\ q.script = r.script /\ q.at = "committing"
    BY <1>5, <1>7
  <2>4. UNCHANGED <<round, committee, roundOne>>
    BY <1>3
  <2> QED
    BY <2>1, <2>2, <2>3, <2>4 DEF Owns, Operable
<1>13. Fresh(q)
  BY <1>5 DEF Fresh, Early
<1> QED
  BY <1>2, <1>11, <1>12, <1>13 DEF Memory

-----------------------------------------------------------------------------
(* What always holds.                                                      *)

LEMMA RunStart == OpsInit => OpsInv
<1> SUFFICES ASSUME OpsInit PROVE OpsInv
  OBVIOUS
<1>1. SealInv
  BY SealStart DEF OpsInit
<1>2. /\ run \in [script : Scripts, at : {"idle"}, starts : {0}, restore : {{}},
                 outcome : {NONE}, todo : {{}}, votes : {NoVotes}, deadline : {0},
                 report : {NoReport}]
      /\ windows = {}
  BY DEF OpsInit, RunInit
<1>3. NoVotes \in [Agents -> Commitments] /\ NoReport \in [status : Statuses \cup {"none"}, winner : 0..3]
  BY DEF NoVotes, NoVote, Commitments, NoReport, NONE, Keys
<1>4. run \in Runs /\ run.at = "idle" /\ run.starts = 0 /\ run.todo = {} /\ run.votes = NoVotes
  <2>1. PICK script \in Scripts :
          run = [script |-> script, at |-> "idle", starts |-> 0, restore |-> {},
                 outcome |-> NONE, todo |-> {}, votes |-> NoVotes, deadline |-> 0,
                 report |-> NoReport]
    BY <1>2
  <2> HIDE DEF NoVotes, NoReport
  <2> QED
    BY <1>3, <2>1 DEF Runs, RunStages
<1>5. RunTypeOK
  BY <1>2, <1>4 DEF RunTypeOK, Alive
<1>6. Voted(run) = {} /\ Carried(run) = {}
  BY <1>4 DEF Voted, Carried, NoVotes
<1>7. Memory(run)
  BY <1>4, <1>6 DEF Memory, Remembers, Owns, Fresh, Voting
<1> QED
  BY <1>1, <1>5, <1>7 DEF OpsInv, RunInv

LEMMA RunKeeps == OpsInv /\ [OpsNext]_opsVars => OpsInv'
<1> SUFFICES ASSUME OpsInv, [OpsNext]_opsVars PROVE OpsInv'
  OBVIOUS
<1>0. Subject \in Markets
  BY RunAssumption
<1>1. /\ SealInv /\ TypeOK /\ Consistent(Subject) /\ Sealed(Subject)
      /\ RunTypeOK /\ Memory(run)
  BY <1>0 DEF OpsInv, SealInv, CountInv, IInv, RunInv
<1>2. /\ [Next]_vars
      /\ UNCHANGED runVars \/ RunnerStep
      /\ \/ \E a \in Agents : Commits(a)
         \/ \A a \in HeldKeys : commitment'[Subject][a] = commitment[Subject][a]
  BY <1>1, OpsStep
<1>3. SealInv'
  BY <1>1, <1>2, SealStep
<1>4. TypeOK'
  BY <1>3 DEF SealInv, CountInv, IInv
<1>5. RunTypeOK'
  BY <1>1, <1>2, <1>4, RunTypeStep
<1>6. Memory(run)'
  <2>1. CASE \E a \in Agents : Commits(a)
    BY <1>1, <2>1, CommittingKeeps
  <2>2. CASE UNCHANGED runVars /\ ~(\E a \in Agents : Commits(a))
    <3>1. PICK r : r = run
      OBVIOUS
    <3>2. Remembers(r) /\ Owns(r) /\ Fresh(r)
      BY <1>1, <3>1 DEF Memory
    <3>3. Remembers(r)' /\ Owns(r)'
      BY <1>1, <1>2, <2>2, <3>2, ChainKeeps
    <3>4. run' = r
      BY <2>2, <3>1 DEF runVars
    <3> QED
      BY <3>2, <3>3, <3>4 DEF Memory
  <2>3. CASE RunnerStep /\ ~(\E a \in Agents : Commits(a))
    <3>1. commitment' = commitment
      BY <1>1, <2>3, RunnerOnlyCalls
    <3> QED
      BY <1>1, <1>2, <2>3, <3>1, RunnerSteps, ReadingKeeps
  <2> QED
    BY <1>2, <2>1, <2>2, <2>3
<1> QED
  BY <1>3, <1>5, <1>6 DEF OpsInv, RunInv

(* Memory agrees with the chain, whoever calls first and whatever dies.    *)
THEOREM MemoryStaysTrue == OpsSpec => []OpsInv
<1>1. OpsInit => OpsInv
  BY RunStart
<1>2. OpsInv /\ [OpsNext]_opsVars => OpsInv'
  BY RunKeeps
<1> QED
  BY <1>1, <1>2, PTL DEF OpsSpec

(* Keepers, scripts and strangers do nothing the contracts do not allow:   *)
(* all that is proved of the contracts holds under them (keeper.ts,        *)
(* resolve.ts, committee-run.mjs send transactions and write nothing else). *)
THEOREM OperatorsOnlyTransact == OpsSpec => Spec
<1>1. OpsInit => Init
  BY DEF OpsInit
<1>2. OpsInv /\ [OpsNext]_opsVars => [Next]_vars
  <2> SUFFICES ASSUME OpsInv, [OpsNext]_opsVars PROVE [Next]_vars
    OBVIOUS
  <2>1. TypeOK /\ RunTypeOK
    BY DEF OpsInv, SealInv, CountInv, IInv, RunInv
  <2> QED
    BY <2>1, OpsStep
<1> QED
  BY <1>1, <1>2, MemoryStaysTrue, PTL DEF OpsSpec, Spec

(* The reveal of every vote a script remembers is one the chain will take. *)
THEOREM RememberedVotesAreOnChain == OpsSpec => []VotesAreOnChain
<1>1. OpsInv => VotesAreOnChain
  BY DEF OpsInv, RunInv, Memory, Remembers, Voted, VotesAreOnChain
<1> QED
  BY <1>1, MemoryStaysTrue, PTL

-----------------------------------------------------------------------------
(* What a script says at its end.                                          *)

(* Nobody can reach a threshold without a key that the scripts hold.       *)
KeysDecide ==
    \A shape \in TierShapes \cup {DisputeShape} :
        Cardinality(Agents \ HeldKeys) < shape[2]

(* A report is of a round that is over for good.                           *)
Reported ==
    /\ run.at \in {"restoring", "done"} => round[Subject].finalized
    /\ ReportIsTrue

(* The members whose remembered vote is o.                                 *)
Carrying(r, o) == {a \in Agents : r.votes[a].outcome = o}

(* When a round with an answer is finalized by a script, one of its own    *)
(* members gave that answer, so all that it voted for did, or as many as   *)
(* the threshold asks.                                                     *)
LEMMA AnswerIsCarried ==
    ASSUME KeysDecide, OpsInv, run.at = "finalizing", run.todo = {} \/ run.todo \subseteq Voted(run),
           round[Subject].n # 0, HasProposal(Subject), round[Subject].proposed \in Outcomes
    PROVE  Cardinality(Carrying(run, round[Subject].proposed)) >= round[Subject].k
<1>0. /\ Subject \in Markets /\ HeldKeys \subseteq Agents
      /\ TypeOK /\ Sealed(Subject) /\ Counted(Subject)
      /\ Remembers(run) /\ Owns(run)
      /\ run \in Runs
  BY RunAssumption DEF OpsInv, SealInv, CountInv, IInv, RunInv, Memory, RunTypeOK
<1>1. PICK o \in Outcomes : o = round[Subject].proposed
  OBVIOUS
<1>2. PICK k \in Nat : k = round[Subject].k
  BY <1>0 DEF TypeOK, ResolutionTypeOK, Rounds
<1>3. PICK r \in Runs : r = run
  BY <1>0
<1>4. PICK voters : voters = Voters(Subject, o)
  OBVIOUS
<1>5. PICK seated : seated = committee[Subject]
  OBVIOUS
<1>6. /\ IsFiniteSet(voters) /\ voters \subseteq seated /\ seated \subseteq Agents
      /\ Cardinality(voters) \in Nat
  BY <1>0, <1>4, <1>5, VotersAreFinite DEF TypeOK, ResolutionTypeOK
<1>7. Cardinality(voters) >= k
  BY <1>0, <1>1, <1>2, <1>4 DEF Counted, Tallied, HasProposal, Unopened, Rounds
<1>8. PICK member \in voters : member \in HeldKeys
  <2>1. SUFFICES ASSUME voters \cap HeldKeys = {} PROVE FALSE
    OBVIOUS
  <2>2. voters \subseteq Agents \ HeldKeys
    BY <1>6, <2>1
  <2>3. IsFiniteSet(Agents \ HeldKeys)
    BY ResolutionAssumption, FS_Subset
  <2>4. Cardinality(voters) <= Cardinality(Agents \ HeldKeys) /\ Cardinality(Agents \ HeldKeys) \in Nat
    BY <2>2, <2>3, FS_Subset, FS_CardinalityType
  <2>5. PICK shape \in TierShapes \cup {DisputeShape} : shape[2] = k
    BY <1>0, <1>2 DEF Sealed
  <2>6. Cardinality(Agents \ HeldKeys) < k
    BY <2>5 DEF KeysDecide
  <2> QED
    BY <1>2, <1>6, <1>7, <2>4, <2>6
<1>9. \A a \in voters : reveal[Subject][a] = o /\ commitment[Subject][a].outcome = o
                        /\ commitment[Subject][a] # NoCommitment
  BY <1>0, <1>1, <1>4, <1>6 DEF Voters, Sealed, Outcomes, NO, YES, UNRESOLVABLE, NONE, NoCommitment
<1>10. Carried(r) = Voted(r)
  BY <1>3 DEF Carried
<1>11. /\ \A a \in Voted(r) : /\ commitment[Subject][a] = r.votes[a]
                              /\ r.script = "committee" => r.votes[a].outcome = r.outcome
       /\ member \in Voted(r)
       /\ \/ Voted(r) = seated
          \/ r.script = "committee" /\ Cardinality(Voted(r)) >= k
  BY <1>0, <1>2, <1>3, <1>5, <1>6, <1>8, <1>9, <1>10 DEF Remembers, Owns, Voting
<1>12. IsFiniteSet(Carrying(r, o)) /\ Cardinality(Carrying(r, o)) \in Nat
  BY ResolutionAssumption, FS_Subset, FS_CardinalityType DEF Carrying
<1>13. CASE Voted(r) = seated
  <2>1. voters \subseteq Carrying(r, o)
    BY <1>6, <1>9, <1>11, <1>13 DEF Carrying
  <2>2. Cardinality(voters) <= Cardinality(Carrying(r, o))
    BY <1>12, <2>1, FS_Subset
  <2> QED
    BY <1>1, <1>2, <1>3, <1>6, <1>7, <1>12, <2>2
<1>14. CASE r.script = "committee" /\ Cardinality(Voted(r)) >= k
  <2>1. r.outcome = o
    BY <1>8, <1>9, <1>11, <1>14
  <2>2. Voted(r) \subseteq Carrying(r, o)
    BY <1>11, <1>14, <2>1 DEF Carrying, Voted
  <2>3. Cardinality(Voted(r)) <= Cardinality(Carrying(r, o)) /\ Cardinality(Voted(r)) \in Nat
    BY <1>12, <2>2, FS_Subset, FS_CardinalityType
  <2> QED
    BY <1>1, <1>2, <1>3, <1>12, <1>14, <2>3
<1> QED
  BY <1>11, <1>13, <1>14

LEMMA ReportStep ==
    ASSUME KeysDecide, OpsInv, OpsInv', [OpsNext]_opsVars, Reported
    PROVE  Reported'
<1>0. /\ Subject \in Markets
      /\ TypeOK /\ Consistent(Subject) /\ RunTypeOK /\ Owns(run)
  BY RunAssumption DEF OpsInv, SealInv, CountInv, IInv, RunInv, Memory
<1>1. [Next]_vars /\ (UNCHANGED runVars \/ RunnerStep)
  BY <1>0, OpsStep
<1>2. PICK r \in Runs : r = run
  BY <1>0 DEF RunTypeOK
<1>3. PICK q : q = run'
  OBVIOUS
<1> DEFINE Facts(p) ==
       /\ p.report.status = status[Subject]
       /\ Terminal(Subject)
       /\ status[Subject] = "Settled" =>
             /\ p.report.winner = winningOutcome[Subject]
             /\ Cardinality(Carrying(p, p.report.winner)) >= round[Subject].k
       /\ (status[Subject] # "Settled" /\ p.script = "resolve") => p.report.winner = NONE
<1>4. Reported <=> (r.at \in {"restoring", "done"} => round[Subject].finalized /\ Facts(r))
  BY <1>2 DEF Reported, ReportIsTrue, Carrying
<1>5. Reported' <=> (q.at \in {"restoring", "done"} => round'[Subject].finalized /\ Facts(q)')
  BY <1>3 DEF Reported, ReportIsTrue, Carrying
<1>6. ASSUME q.report = r.report, q.votes = r.votes, q.script = r.script,
             r.at \in {"restoring", "done"}
      PROVE  Reported'
  <2>1. round[Subject].finalized /\ Facts(r)
    BY <1>4, <1>6
  <2>2. UNCHANGED <<status[Subject], winningOutcome[Subject], round[Subject].finalized, round[Subject].k>>
    BY <1>0, <1>1, <2>1, FinalStays
  <2>3. Terminal(Subject)'
    BY <2>1, <2>2 DEF Terminal
  <2>4. \A o : Carrying(q, o) = Carrying(r, o)
    BY <1>6 DEF Carrying
  <2>5. Facts(q)'
    BY <1>6, <2>1, <2>2, <2>3, <2>4
  <2> QED
    BY <1>5, <2>1, <2>2, <2>5
<1>7. CASE UNCHANGED runVars
  BY <1>2, <1>3, <1>5, <1>6, <1>7 DEF runVars
<1>8. CASE PutsBack
  <2>1. /\ r.at = "restoring"
        /\ q = [r EXCEPT !.at = "done"] \/ \E rest : q = [r EXCEPT !.restore = rest]
    BY <1>2, <1>3, <1>8 DEF PutsBack, To
  <2>2. q.report = r.report /\ q.votes = r.votes /\ q.script = r.script
    BY <2>1 DEF Runs
  <2> QED
    BY <1>6, <2>1, <2>2
<1>9. CASE Finalizes
  <2>1. /\ r.at = "finalizing" /\ Finalize(Subject)
        /\ q = [r EXCEPT !.at = IF r.script = "committee" THEN "restoring" ELSE "done", !.report = Report]
    BY <1>2, <1>3, <1>9 DEF Finalizes
  <2>2. PICK report : report = Report
    OBVIOUS
  <2> HIDE DEF Report
  <2>3. q.report = report /\ q.votes = r.votes /\ q.script = r.script
    BY <2>1, <2>2 DEF Runs
  <2>4. /\ report.status = status'[Subject]
        /\ report.winner = IF r.script = "committee" \/ status'[Subject] = "Settled"
                           THEN winningOutcome'[Subject] ELSE NONE
    BY <1>2, <2>2 DEF Report
  <2>5. round[Subject] \in Rounds /\ status \in [Markets -> Statuses]
        /\ winningOutcome \in [Markets -> {NO, YES}]
    BY <1>0 DEF TypeOK, ResolutionTypeOK, MarketTypeOK
  <2>6. /\ round[Subject].n # 0 /\ round[Subject].proposed # NONE
        /\ round' = [round EXCEPT ![Subject].finalized = TRUE]
        /\ \/ round[Subject].proposed = UNRESOLVABLE /\ FailMarket(Subject, TRUE)
           \/ round[Subject].proposed # UNRESOLVABLE /\ SettleMarket(Subject, round[Subject].proposed)
    BY <2>1 DEF Finalize
  <2>7. round'[Subject].finalized /\ round'[Subject].k = round[Subject].k
    BY <1>0, <2>5, <2>6 DEF TypeOK, ResolutionTypeOK, Rounds
  <2>8. \/ status'[Subject] = "Failed"
        \/ /\ status'[Subject] = "Settled"
           /\ winningOutcome'[Subject] = round[Subject].proposed
           /\ round[Subject].proposed \in Outcomes
    BY <1>0, <2>5, <2>6 DEF FailMarket, SettleMarket, SetStatus, Outcomes
  <2>9. Terminal(Subject)'
    BY <2>8 DEF Terminal, TerminalStatuses
  <2>10. ASSUME status'[Subject] = "Settled"
         PROVE  Cardinality(Carrying(q, q.report.winner)) >= round'[Subject].k
    <3>1. q.report.winner = round[Subject].proposed /\ round[Subject].proposed \in Outcomes
      BY <2>3, <2>4, <2>8, <2>10
    <3>2. run.todo \subseteq Voted(run)
      BY <1>0, <1>2, <2>1 DEF Owns, Voting
    <3>3. HasProposal(Subject)
      BY <1>0, <2>6 DEF HasProposal, Consistent, Unopened
    <3>4. Cardinality(Carrying(run, round[Subject].proposed)) >= round[Subject].k
      BY <1>2, <2>1, <2>6, <3>1, <3>2, <3>3, AnswerIsCarried
    <3>5. Carrying(run, round[Subject].proposed) = Carrying(q, round[Subject].proposed)
      BY <1>2, <2>3 DEF Carrying
    <3> QED
      BY <2>7, <3>1, <3>4, <3>5
  <2>11. Facts(q)'
    <3>1. q.script \in {"resolve", "committee"}
      BY <2>3, RunAssumption DEF Runs
    <3> QED
      BY <2>3, <2>4, <2>8, <2>9, <2>10, <3>1
  <2> QED
    BY <1>5, <2>7, <2>11
<1>10. ASSUME q.at \notin {"restoring", "done"} PROVE Reported'
  BY <1>5, <1>10
<1>11. CASE ~PutsBack /\ ~Finalizes /\ RunnerStep
  <2>1. CASE Starts \/ Arrives \/ Openings \/ Seats \/ Committed \/ Revealed \/ Throws
    <3>1. CASE Starts
      <4>1. PICK outcome : \E at \in {"provisioning", "arriving"} :
                run' = [run EXCEPT !.at = at, !.starts = run.starts + 1,
                                   !.outcome = outcome, !.votes = NoVotes, !.todo = {},
                                   !.restore = {}, !.deadline = 0, !.report = NoReport]
        BY <3>1 DEF Starts
      <4> QED
        BY <1>2, <1>3, <1>10, <4>1 DEF Runs
    <3>2. CASE Committed \/ Revealed
      <4>1. CASE Committed
        <5>1. PICK deadline, todo :
                 q = [r EXCEPT !.at = "revealing", !.deadline = deadline, !.todo = todo]
          BY <1>2, <1>3, <4>1 DEF Committed
        <5> QED
          BY <1>10, <5>1 DEF Runs
      <4>2. CASE Revealed
        <5>1. PICK deadline : q = [r EXCEPT !.at = "finalizing", !.deadline = deadline]
          BY <1>2, <1>3, <4>2 DEF Revealed
        <5> QED
          BY <1>10, <5>1 DEF Runs
      <4> QED
        BY <3>2, <4>1, <4>2
    <3>3. CASE Arrives \/ Openings \/ Throws
      <4>1. PICK at \in {"seating", "requesting", "waiting", "thrown"} : q = [r EXCEPT !.at = at]
        BY <1>2, <1>3, <3>3 DEF Arrives, Openings, Requests, Opens, Throws, To
      <4> QED
        BY <1>10, <4>1 DEF Runs
    <3>4. CASE Seats
      <4>1. PICK voters : q = [r EXCEPT !.at = "thrown"]
                        \/ q = [r EXCEPT !.at = "committing", !.todo = voters]
        BY <1>2, <1>3, <3>4 DEF Seats, To
      <4>2. q.at \in {"thrown", "committing"}
        <5>1. CASE q = [r EXCEPT !.at = "thrown"]
          BY <5>1 DEF Runs
        <5>2. CASE q = [r EXCEPT !.at = "committing", !.todo = voters]
          BY <5>2 DEF Runs
        <5> QED
          BY <4>1, <5>1, <5>2
      <4> QED
        BY <1>10, <4>2
    <3> QED
      BY <2>1, <3>1, <3>2, <3>3, <3>4
  <2>2. CASE Shortenings
    BY <1>2, <1>3, <1>10, <2>2 DEF Shortenings, Shortens, Runs
  <2>3. CASE \E a \in Agents : Commits(a) \/ Reveals(a)
    BY <1>2, <1>3, <1>10, <2>3 DEF Commits, Reveals, Runs
  <2> QED
    BY <1>11, <2>1, <2>2, <2>3, RunnerSteps
<1> QED
  BY <1>1, <1>7, <1>8, <1>9, <1>11

(* Where the keys held elsewhere are too few to answer by themselves, a    *)
(* script that reached its end tells the truth about its market.           *)
THEOREM ReportsAreTrue ==
    ASSUME KeysDecide
    PROVE  OpsSpec => []ReportIsTrue
<1>1. OpsInit => Reported
  BY DEF OpsInit, RunInit, Reported, ReportIsTrue
<1>2. OpsInv /\ OpsInv' /\ Reported /\ [OpsNext]_opsVars => Reported'
  BY ReportStep
<1>3. Reported => ReportIsTrue
  BY DEF Reported
<1> QED
  BY <1>1, <1>2, <1>3, MemoryStaysTrue, PTL DEF OpsSpec

-----------------------------------------------------------------------------
(* What the page of the market says of its committee.                      *)

(* A promise is told as it is read, or not at all.                         *)
LEMMA PromisesAreTold == PromiseIsTold
<1> DEFINE Told(spec) ==
       /\ SettlementSources(spec).shown = "unavailable" <=> ~Promised(spec).verified
       /\ SettlementSources(spec).shown = "list" <=> Promised(spec).sources = "list"
       /\ Promised(spec).verified <=> Promised(spec).rules = "rules"
       /\ SettlementSources(spec).shown = "list" => SettlementSources(spec).sources = spec.sources
<1>1. ASSUME NEW spec, spec.read = FALSE
      PROVE  Told(spec)
  <2>1. /\ SettlementSources(spec).shown = "unavailable"
        /\ Promised(spec).verified = FALSE
        /\ Promised(spec).sources = "unavailable"
        /\ Promised(spec).rules = "unavailable"
    BY <1>1 DEF SettlementSources, Promised
  <2> QED
    BY <2>1
<1>2. ASSUME NEW spec, spec.read = TRUE
      PROVE  Told(spec)
  <2>1. /\ Promised(spec).verified = TRUE
        /\ Promised(spec).rules = "rules"
        /\ Promised(spec).sources = IF spec.sources = {} THEN "names none" ELSE "list"
    BY <1>2 DEF Promised
  <2>2. CASE spec.sources = {}
    <3>1. SettlementSources(spec).shown = "the chain itself"
      BY <1>2, <2>2 DEF SettlementSources
    <3> QED
      BY <2>1, <2>2, <3>1
  <2>3. CASE spec.sources # {}
    <3>1. SettlementSources(spec).shown = "list" /\ SettlementSources(spec).sources = spec.sources
      BY <1>2, <2>3 DEF SettlementSources
    <3> QED
      BY <2>1, <2>3, <3>1
  <2> QED
    BY <2>2, <2>3
<1>3. NoSpec.read = FALSE
  BY DEF NoSpec
<1>4. \A sources, prompt : Spec0(sources, prompt).read = TRUE
  BY DEF Spec0
<1> DEFINE Specs == {NoSpec} \cup {Spec0(sources, prompt) : sources \in SUBSET {1, 2}, prompt \in BOOLEAN}
<1>5. ASSUME NEW spec \in Specs PROVE spec.read = TRUE \/ spec.read = FALSE
  BY <1>3, <1>4
<1> HIDE DEF Told, Specs
<1>6. ASSUME NEW spec \in Specs PROVE Told(spec)
  <2>1. CASE spec.read = TRUE
    BY <1>2, <2>1
  <2>2. CASE spec.read = FALSE
    BY <1>1, <2>2
  <2> QED
    BY <1>5, <2>1, <2>2
<1> QED
  BY <1>6 DEF PromiseIsTold, Told, Specs

(* A document names a provider when it names a model, and its vote for a   *)
(* side is an enclave's.                                                   *)
LEMMA DocsOf ==
    ASSUME TypeOK, NEW docs \in Documents(Subject) \cup {Undocumented}, NEW a \in Anchored(Subject)
    PROVE  /\ docs[a].model \in BOOLEAN /\ docs[a].teed \in BOOLEAN
           /\ docs[a].provider = docs[a].model /\ docs[a].route # "0g-compute"
           /\ docs[a].model => (reveal[Subject][a] \in {NO, YES} => docs[a].teed)
<1>1. a \in Agents
  BY RunAssumption DEF Anchored, TypeOK, ResolutionTypeOK
<1> DEFINE Documented(b) ==
       /\ docs[b].model \in BOOLEAN /\ docs[b].teed \in BOOLEAN
       /\ docs[b].provider = docs[b].model /\ docs[b].route # "0g-compute"
       /\ docs[b].model => (reveal[Subject][b] \in {NO, YES} => docs[b].teed)
<1>2. CASE docs = Undocumented
  <2>1. docs[a] = Doc(FALSE, FALSE)
    BY <1>1, <1>2 DEF Undocumented
  <2> QED
    BY <2>1 DEF Doc
<1>3. CASE docs = [b \in Agents |-> Doc(TRUE, TRUE)]
  <2>1. docs[a] = Doc(TRUE, TRUE)
    BY <1>1, <1>3
  <2> QED
    BY <2>1 DEF Doc
<1>4. CASE docs = [b \in Agents |-> Doc(TRUE, reveal[Subject][b] \in {NO, YES})]
  <2>1. docs[a] = Doc(TRUE, reveal[Subject][a] \in {NO, YES})
    BY <1>1, <1>4
  <2>2. docs[a].model = TRUE /\ docs[a].provider = TRUE /\ docs[a].route = "broker"
    BY <2>1 DEF Doc
  <2>3. docs[a].teed = (reveal[Subject][a] \in {NO, YES})
    BY <2>1 DEF Doc
  <2>4. docs[a].teed \in BOOLEAN
    <3>1. \A P : P = (reveal[Subject][a] \in {NO, YES}) => P \in BOOLEAN
      OBVIOUS
    <3> QED
      BY <2>3, <3>1, Zenon
  <2> QED
    BY <2>2, <2>3, <2>4
<1> QED
  BY <1>2, <1>3, <1>4 DEF Documents

(* A receipt that can be read has a row for each member who revealed.      *)
LEMMA ReceiptIs ==
    ASSUME TypeOK, NEW docs \in Documents(Subject) \cup {Undocumented},
           NEW readable \in SUBSET Anchored(Subject), NEW first \in readable
    PROVE  \E data :
             /\ CommitteeReceipt(Subject, docs, readable, first) = [kind |-> "receipt", data |-> data]
             /\ DOMAIN data.votes = Anchored(Subject)
             /\ \A a \in Anchored(Subject) :
                   /\ data.votes[a].outcome = Shown(Subject, a)
                   /\ data.votes[a].teed <=> a \in readable /\ docs[a].model /\ docs[a].teed
             /\ data.viaCommittee
             /\ data.outcome = Stated(Subject, first)
             /\ data.route = docs[first].route /\ data.provider = docs[first].provider
<1> DEFINE votes == [a \in Anchored(Subject) |-> Row(Subject, a, docs, readable)]
           data == [ParseReceipt(Subject, first, docs[first]) EXCEPT
                      !.votes = votes, !.viaCommittee = TRUE]
<1>1. CommitteeReceipt(Subject, docs, readable, first) = [kind |-> "receipt", data |-> data]
  BY DEF CommitteeReceipt
<1>2. /\ data.votes = votes /\ data.viaCommittee = TRUE
      /\ data.outcome = Stated(Subject, first)
      /\ data.route = docs[first].route /\ data.provider = docs[first].provider
  <2> HIDE DEF votes
  <2> QED
    BY DEF ParseReceipt
<1>3. ASSUME NEW a \in Anchored(Subject)
      PROVE  /\ votes[a].outcome = Shown(Subject, a)
             /\ votes[a].teed <=> a \in readable /\ docs[a].model /\ docs[a].teed
  <2>1. votes[a] = Row(Subject, a, docs, readable)
    BY <1>3
  <2>2. Row(Subject, a, docs, readable).outcome = Shown(Subject, a)
    BY DEF Row
  <2>3. Row(Subject, a, docs, readable).teed
          = (a \in readable /\ \E v \in ParseReceipt(Subject, a, docs[a]).votes : v.teed)
    BY DEF Row
  <2>4. ParseReceipt(Subject, a, docs[a]).votes =
          IF docs[a].model THEN {[outcome |-> Stated(Subject, a), teed |-> docs[a].teed]} ELSE {}
    BY DEF ParseReceipt
  <2>5. docs[a].model \in BOOLEAN /\ docs[a].teed \in BOOLEAN
    BY <1>3, DocsOf
  <2>6. (\E v \in ParseReceipt(Subject, a, docs[a]).votes : v.teed)
          <=> docs[a].model /\ docs[a].teed
    <3>1. CASE docs[a].model
      <4>1. ParseReceipt(Subject, a, docs[a]).votes = {[outcome |-> Stated(Subject, a), teed |-> docs[a].teed]}
        BY <2>4, <3>1
      <4>2. [outcome |-> Stated(Subject, a), teed |-> docs[a].teed].teed = docs[a].teed
        OBVIOUS
      <4> QED
        BY <3>1, <4>1, <4>2
    <3>2. CASE ~docs[a].model
      BY <2>4, <3>2
    <3> QED
      BY <3>1, <3>2
  <2> HIDE DEF votes
  <2> QED
    BY <2>1, <2>2, <2>3, <2>6
<1>4. DOMAIN votes = Anchored(Subject)
  OBVIOUS
<1> HIDE DEF votes, data
<1> QED
  BY <1>1, <1>2, <1>3, <1>4

(* The reasons shown, the dissent and the enclaves, of a settled market.   *)
IsSo(evidence, docs, readable, first) ==
    /\ evidence.votes = "rows"
    /\ reveal[Subject][first] = winningOutcome[Subject] =>
         /\ evidence.reasoning = "verbatim"
         /\ evidence.dissents =
              {a \in Anchored(Subject) : reveal[Subject][a] # winningOutcome[Subject]}
    /\ evidence.provenance = "attested" =>
         \E a \in Anchored(Subject) \cap readable : docs[a].teed
    /\ evidence.provenance = "unattested" =>
         \A a \in Anchored(Subject) \cap readable : reveal[Subject][a] \notin {NO, YES}

(* What the panel shows of a receipt that can be read is so.               *)
LEMMA EvidenceIsTold ==
    ASSUME TypeOK, status[Subject] = "Settled",
           NEW docs \in Documents(Subject) \cup {Undocumented},
           NEW readable \in SUBSET Anchored(Subject), NEW first \in readable
    PROVE  \E data, evidence :
             /\ CommitteeReceipt(Subject, docs, readable, first) = [kind |-> "receipt", data |-> data]
             /\ data.viaCommittee
             /\ evidence = ResolutionEvidence(data)
             /\ IsSo(evidence, docs, readable, first)
<1>a. PICK data :
             /\ CommitteeReceipt(Subject, docs, readable, first) = [kind |-> "receipt", data |-> data]
             /\ DOMAIN data.votes = Anchored(Subject)
             /\ \A a \in Anchored(Subject) :
                   /\ data.votes[a].outcome = Shown(Subject, a)
                   /\ data.votes[a].teed <=> a \in readable /\ docs[a].model /\ docs[a].teed
             /\ data.viaCommittee
             /\ data.outcome = Stated(Subject, first)
             /\ data.route = docs[first].route /\ data.provider = docs[first].provider
  BY ReceiptIs
<1>b. PICK evidence : evidence = ResolutionEvidence(data)
  OBVIOUS
<1>0. /\ Subject \in Markets /\ winningOutcome[Subject] \in {NO, YES}
      /\ NoOutcome \notin 0..3
      /\ first \in Anchored(Subject) /\ Anchored(Subject) \subseteq Agents
      /\ \A a \in Agents : reveal[Subject][a] \in 0..3
  BY RunAssumption, ReceiptAssumption
     DEF TypeOK, MarketTypeOK, ResolutionTypeOK, Anchored
<1>1. /\ evidence.votes = IF DOMAIN data.votes # {} THEN "rows"
                          ELSE IF data.outcome = NoOutcome THEN "none yet" ELSE "decided directly"
      /\ evidence.dissents = {a \in DOMAIN data.votes : Dissents(data, a)}
      /\ evidence.provenance = InferenceProvenance(data)
      /\ evidence.reasoning = IF data.outcome = NoOutcome THEN "not resolved" ELSE "verbatim"
  BY <1>b DEF ResolutionEvidence
<1>2. evidence.votes = "rows"
  BY <1>a, <1>0, <1>1
<1>3. ASSUME reveal[Subject][first] = winningOutcome[Subject]
      PROVE  /\ evidence.reasoning = "verbatim"
             /\ evidence.dissents =
                  {a \in Anchored(Subject) : reveal[Subject][a] # winningOutcome[Subject]}
  <2>1. data.outcome = winningOutcome[Subject] /\ data.outcome # NoOutcome
    BY <1>a, <1>0, <1>3 DEF Stated, NO, YES
  <2>2. \A a \in Anchored(Subject) : Dissents(data, a) <=> reveal[Subject][a] # winningOutcome[Subject]
    BY <1>a, <1>0, <2>1 DEF Dissents, Shown, Anchored
  <2> QED
    BY <1>a, <1>1, <2>1, <2>2
<1>4. docs[first].route # "0g-compute" /\ docs[first].provider = docs[first].model
      /\ docs[first].model \in BOOLEAN
  BY <1>0, DocsOf
<1>5. evidence.provenance = "attested" =>
        \E a \in Anchored(Subject) \cap readable : docs[a].teed
  BY <1>a, <1>1, <1>4 DEF InferenceProvenance
<1>6. ASSUME evidence.provenance = "unattested", NEW a \in Anchored(Subject) \cap readable,
             reveal[Subject][a] \in {NO, YES}
      PROVE  FALSE
  <2>1. docs[first].model /\ ~data.votes[a].teed
    BY <1>a, <1>1, <1>4, <1>6 DEF InferenceProvenance
  <2>2. docs # Undocumented
    BY <1>0, <2>1 DEF Undocumented, Doc
  <2>3. docs[a].model
    BY <1>0, <1>6, <2>2 DEF Documents, Doc
  <2>4. docs[a].teed
    BY <1>6, <2>3, DocsOf
  <2> QED
    BY <1>a, <1>6, <2>1, <2>3, <2>4
<1>7. IsSo(evidence, docs, readable, first)
  BY <1>2, <1>3, <1>5, <1>6 DEF IsSo
<1> QED
  BY <1>a, <1>b, <1>7

(* Whatever its receipt's query has come to, the settled half of the page  *)
(* says nothing that is not so.                                            *)
LEMMA SettlementsAreTold ==
    ASSUME TypeOK, status[Subject] = "Settled",
           NEW docs \in Documents(Subject) \cup {Undocumented},
           NEW readable \in SUBSET Anchored(Subject), NEW first \in readable
    PROVE  SettlementIsTold(docs, readable, first)
<1>0. Subject \in Markets /\ winningOutcome[Subject] \in {NO, YES} /\ NoOutcome \notin 0..3
  BY RunAssumption, ReceiptAssumption DEF TypeOK, MarketTypeOK
<1>1. PICK data, evidence :
             /\ CommitteeReceipt(Subject, docs, readable, first) = [kind |-> "receipt", data |-> data]
             /\ data.viaCommittee
             /\ evidence = ResolutionEvidence(data)
             /\ IsSo(evidence, docs, readable, first)
  BY EvidenceIsTold
<1>4. Winner(Subject) = winningOutcome[Subject] /\ Winner(Subject) # NoOutcome
  BY <1>0 DEF Winner, NO, YES
<1>5. ASSUME NEW query
      PROVE  LET panel == SettlementPanel(Subject, NoSpec, query)
             IN /\ panel.final.winner = winningOutcome[Subject]
                /\ panel.final.eyebrow = IF Data(query).kind = "none" THEN "resolution"
                                         ELSE IF Data(query).data.viaCommittee THEN "committee"
                                         ELSE "one resolver"
                /\ panel.report.outcome = winningOutcome[Subject]
                /\ panel.report.record = ResolverRecord(query)
  <2>1. SettlementPanel(Subject, NoSpec, query) =
          [shown  |-> TRUE,
           final  |-> FinalOutcome(Subject, Data(query)),
           report |-> SettlementReport(Subject, NoSpec, query)]
    BY DEF SettlementPanel
  <2>2. FinalOutcome(Subject, Data(query)) =
          [shown   |-> "verdict",
           winner  |-> winningOutcome[Subject],
           eyebrow |-> IF Data(query).kind = "none" THEN "resolution"
                       ELSE IF Data(query).data.viaCommittee THEN "committee"
                       ELSE "one resolver"]
    BY <1>4 DEF FinalOutcome
  <2>3. SettlementReport(Subject, NoSpec, query).outcome = winningOutcome[Subject]
        /\ SettlementReport(Subject, NoSpec, query).record = ResolverRecord(query)
    BY <1>4 DEF SettlementReport, OutcomeLine
  <2>4. /\ SettlementPanel(Subject, NoSpec, query).final = FinalOutcome(Subject, Data(query))
        /\ SettlementPanel(Subject, NoSpec, query).report = SettlementReport(Subject, NoSpec, query)
    BY <2>1
  <2>5. /\ FinalOutcome(Subject, Data(query)).winner = winningOutcome[Subject]
        /\ FinalOutcome(Subject, Data(query)).eyebrow =
              IF Data(query).kind = "none" THEN "resolution"
              ELSE IF Data(query).data.viaCommittee THEN "committee"
              ELSE "one resolver"
    BY <1>4 DEF FinalOutcome
  <2> QED
    BY <2>3, <2>4, <2>5, Zenon
<1>6. ASSUME NEW state \in {"answered", "loading", "unavailable"}
      PROVE  LET query  == ReceiptQuery(Subject, docs, readable, first, state)
             IN IF state = "answered"
                THEN /\ Data(query).kind = "receipt" /\ Data(query).data.viaCommittee
                     /\ ResolverRecord(query).shown = "evidence"
                     /\ ResolverRecord(query).evidence = evidence
                ELSE /\ Data(query).kind = "none"
                     /\ ResolverRecord(query).shown = state
  <2>1. CASE state # "answered"
    BY <2>1 DEF ReceiptQuery, Data, ResolverRecord
  <2>2. CASE state = "answered"
    <3>1. ReceiptQuery(Subject, docs, readable, first, state)
            = [status |-> "ready", receipt |-> [kind |-> "receipt", data |-> data]]
      BY <1>1, <2>2 DEF ReceiptQuery
    <3>2. Data(ReceiptQuery(Subject, docs, readable, first, state)) = [kind |-> "receipt", data |-> data]
      BY <3>1 DEF Data
    <3>3. ResolverRecord(ReceiptQuery(Subject, docs, readable, first, state))
            = [shown |-> "evidence", evidence |-> evidence]
      <4>1. PICK query : query = ReceiptQuery(Subject, docs, readable, first, state)
        OBVIOUS
      <4>2. query.status = "ready" /\ query.receipt.kind = "receipt" /\ query.receipt.data = data
        BY <3>1, <4>1
      <4>3. ResolverRecord(query) = [shown |-> "evidence", evidence |-> ResolutionEvidence(data)]
        BY <4>2 DEF ResolverRecord
      <4> QED
        BY <1>1, <4>1, <4>3
    <3> QED
      BY <1>1, <2>2, <3>2, <3>3
  <2> QED
    BY <2>1, <2>2
<1>7. ASSUME NEW state \in {"answered", "loading", "unavailable"}
      PROVE  LET query  == ReceiptQuery(Subject, docs, readable, first, state)
                 panel  == SettlementPanel(Subject, NoSpec, query)
                 record == panel.report.record
             IN /\ panel.final.winner = winningOutcome[Subject]
                /\ panel.report.outcome = panel.final.winner
                /\ panel.final.eyebrow # "one resolver"
                /\ record.shown # "nothing anchored"
                /\ (panel.final.eyebrow = "committee") <=> (record.shown = "evidence")
                /\ record.shown = "evidence" => record.evidence = evidence
  <2> DEFINE query == ReceiptQuery(Subject, docs, readable, first, state)
             panel == SettlementPanel(Subject, NoSpec, query)
  <2>1. /\ panel.final.winner = winningOutcome[Subject]
        /\ panel.final.eyebrow = IF Data(query).kind = "none" THEN "resolution"
                                 ELSE IF Data(query).data.viaCommittee THEN "committee"
                                 ELSE "one resolver"
        /\ panel.report.outcome = winningOutcome[Subject]
        /\ panel.report.record = ResolverRecord(query)
    BY <1>5
  <2>2. IF state = "answered"
        THEN /\ Data(query).kind = "receipt" /\ Data(query).data.viaCommittee
             /\ ResolverRecord(query).shown = "evidence"
             /\ ResolverRecord(query).evidence = evidence
        ELSE /\ Data(query).kind = "none"
             /\ ResolverRecord(query).shown = state
    BY <1>6
  <2> HIDE DEF query, panel
  <2>3. CASE state = "answered"
    BY <2>1, <2>2, <2>3 DEF query, panel
  <2>4. CASE state # "answered"
    BY <2>1, <2>2, <2>4 DEF query, panel
  <2> QED
    BY <2>3, <2>4
<1> DEFINE decided == {a \in Anchored(Subject) \cap readable : reveal[Subject][a] \in {NO, YES}}
           others == {a \in Anchored(Subject) : reveal[Subject][a] # winningOutcome[Subject]}
<1>8. /\ first \notin others =>
             evidence.reasoning = "verbatim" /\ evidence.dissents = others
      /\ evidence.provenance = "unattested" => decided = {}
  BY <1>1 DEF IsSo
<1> QED
  BY <1>1, <1>7, <1>8 DEF SettlementIsTold, IsSo

(* With the direct path closed, the page of the market repeats the vote as *)
(* it was cast, under a settled market by the quorum of its round.         *)
THEOREM PagesRepeatTheVote ==
    ASSUME ~AllowlistOpen
    PROVE  OpsSpec => []VotesShownAreTheChains
<1>1. ASSUME OpsInv, NEW readable \in SUBSET Anchored(Subject), NEW first \in readable,
             NEW docs \in IF status[Subject] = "Settled" THEN Documents(Subject) ELSE {Undocumented}
      PROVE  LET row == CommitteeReceipt(Subject, docs, readable, first).data.votes
             IN /\ DOMAIN row = {a \in committee[Subject] : reveal[Subject][a] # NONE}
                /\ \A a \in DOMAIN row : row[a].outcome = commitment[Subject][a].outcome
                /\ status[Subject] = "Settled" =>
                     /\ Cardinality({a \in DOMAIN row : row[a].outcome = winningOutcome[Subject]})
                          >= round[Subject].k
                     /\ SettlementIsTold(docs, readable, first)
  <2>0. /\ Subject \in Markets /\ TypeOK /\ Consistent(Subject) /\ Sealed(Subject) /\ Counted(Subject)
        /\ docs \in Documents(Subject) \cup {Undocumented}
    BY <1>1, RunAssumption DEF OpsInv, SealInv, CountInv, IInv, Documents
  <2>1. PICK data :
             /\ CommitteeReceipt(Subject, docs, readable, first) = [kind |-> "receipt", data |-> data]
             /\ DOMAIN data.votes = Anchored(Subject)
             /\ \A a \in Anchored(Subject) :
                   /\ data.votes[a].outcome = Shown(Subject, a)
                   /\ data.votes[a].teed <=> a \in readable /\ docs[a].model /\ docs[a].teed
             /\ data.viaCommittee
             /\ data.outcome = Stated(Subject, first)
             /\ data.route = docs[first].route /\ data.provider = docs[first].provider
    BY <1>1, <2>0, ReceiptIs
  <2>2. PICK row : row = data.votes
    OBVIOUS
  <2>3. row = CommitteeReceipt(Subject, docs, readable, first).data.votes
    BY <2>1, <2>2
  <2>4. DOMAIN row = {a \in committee[Subject] : reveal[Subject][a] # NONE}
    BY <2>1, <2>2 DEF Anchored
  <2>5. \A a \in DOMAIN row : row[a].outcome = reveal[Subject][a]
    BY <2>1, <2>2 DEF Anchored, Shown
  <2>6. \A a \in DOMAIN row : row[a].outcome = commitment[Subject][a].outcome
    BY <2>0, <2>4, <2>5 DEF Sealed, TypeOK, ResolutionTypeOK
  <2>7. ASSUME status[Subject] = "Settled"
        PROVE  Cardinality({a \in DOMAIN row : row[a].outcome = winningOutcome[Subject]})
                 >= round[Subject].k
    <3>1. HasProposal(Subject) /\ winningOutcome[Subject] = round[Subject].proposed
          /\ winningOutcome[Subject] \in {NO, YES}
      BY <2>0, <2>7 DEF Consistent, Closing, TypeOK, MarketTypeOK
    <3>2. Cardinality(Voters(Subject, winningOutcome[Subject])) >= round[Subject].k
      BY <2>0, <3>1 DEF Counted, Tallied, HasProposal, Outcomes
    <3>3. {a \in DOMAIN row : row[a].outcome = winningOutcome[Subject]}
            = Voters(Subject, winningOutcome[Subject])
      BY <2>4, <2>5, <3>1 DEF Voters, NO, YES, NONE
    <3> QED
      BY <3>2, <3>3
  <2>8. ASSUME status[Subject] = "Settled" PROVE SettlementIsTold(docs, readable, first)
    BY <2>0, <2>8, SettlementsAreTold
  <2> QED
    BY <2>3, <2>4, <2>6, <2>7, <2>8
<1>2. OpsInv => VotesShownAreTheChains
  BY <1>1, PromisesAreTold DEF VotesShownAreTheChains
<1> QED
  BY <1>2, MemoryStaysTrue, PTL
=============================================================================
