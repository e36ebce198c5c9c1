--------------------------- MODULE CountingProofs ---------------------------
(***************************************************************************)
(* What resolution counts: the votes behind an answer, the verdicts in a   *)
(* resolver's record, the money the module owes.  Proved for every number  *)
(* of markets, resolvers and challengers, every shape, window and amount.  *)
(***************************************************************************)
EXTENDS VerdictProofs, TotalProofs

-----------------------------------------------------------------------------
(* Votes.                                                                  *)

(* The tally counts the members who revealed, a committee has the size and *)
(* the threshold of a valid shape, and an answer stands once a count has   *)
(* reached it and not before.                                              *)
Tallied(m) ==
    /\ \A o \in Outcomes : tally[m][o] = Cardinality(Voters(m, o))
    /\ round[m].n # 0 =>
         /\ ValidShape(round[m].n, round[m].k)
         /\ Cardinality(committee[m]) = round[m].n
    /\ round[m].index # 0 =>
         IF round[m].proposed = NONE
         THEN round[m].n # 0 => \A o \in Outcomes : tally[m][o] < round[m].k
         ELSE round[m].n # 0 /\ tally[m][round[m].proposed] >= round[m].k

(* Round 1's answer is remembered only by a dispute.                       *)
Remembered(m) == round[m].index # 2 => roundOneOutcome[m] = NONE

(* Where disputes last as long as reveals do, round 1 is not final before  *)
(* its reveals are over, and neither is any verdict.                       *)
Waited(m) ==
    RevealWindow <= DisputeWindow =>
        /\ round[m].n # 0 =>
             round[m].revealDeadline = round[m].commitDeadline + RevealWindow
        /\ round[m].index = 1 /\ HasProposal(m) =>
             round[m].disputeDeadline >= round[m].revealDeadline
        /\ viaCommittee[m] => now > round[m].revealDeadline

Counted(m) == Tallied(m) /\ Remembered(m) /\ Waited(m)

CountInv == IInv /\ \A m \in Markets : Counted(m)

-----------------------------------------------------------------------------
(* What a step may do to the votes of one market.                          *)

(* Members and their votes are finitely many.                              *)
LEMMA VotersAreFinite ==
    ASSUME TypeOK, NEW m \in Markets
    PROVE  /\ IsFiniteSet(committee[m])
           /\ \A o \in Outcomes : /\ IsFiniteSet(Voters(m, o))
                                  /\ Cardinality(Voters(m, o)) \in Nat
                                  /\ Voters(m, o) \subseteq committee[m]
<1>1. committee[m] \subseteq Agents
  BY DEF TypeOK, ResolutionTypeOK
<1>2. IsFiniteSet(committee[m])
  BY <1>1, ResolutionAssumption, FS_Subset
<1>3. \A o \in Outcomes : Voters(m, o) \in SUBSET committee[m]
  BY DEF Voters
<1> QED
  BY <1>2, <1>3, FS_Subset, FS_CardinalityType

(* A count is of one market: the others' steps leave it alone.             *)
LEMMA TallyElsewhere ==
    ASSUME TypeOK, NEW m \in Markets, [Next]_vars, ~MarketNext(m)
    PROVE  UNCHANGED tally[m]
<1> USE DEF TypeOK, ResolutionTypeOK
<1>1. ASSUME NEW b \in Markets, MarketNext(b), b # m
      PROVE  UNCHANGED tally[m]
  <2>1. CASE \E challenger \in Challengers : Dispute(b, challenger)
    BY <1>1, <2>1 DEF Dispute
  <2>2. CASE \E a \in Agents : RevealVote(b, a)
    BY <1>1, <2>2 DEF RevealVote
  <2>3. CASE ~(\/ \E challenger \in Challengers : Dispute(b, challenger)
               \/ \E a \in Agents : RevealVote(b, a))
    BY <1>1, <2>3 DEF MarketNext, Close, Fail, Void, RequestResolution, DrawAges,
       OpenResolution, OpenDisputeRound, Finalize, MarkFailed, DirectSettle,
       DirectFail, DirectMark, CommitVote, roundVars
  <2> QED
    BY <2>1, <2>2, <2>3
<1>2. CASE ~ \E b \in Markets : MarketNext(b)
  BY <1>2 DEF Next, Time, AgentNext, Stake, RequestUnstake, WithdrawUnstaked,
     SetOperator, Claim, SweepUnallocated, Finished, vars, roundVars
<1> QED
  BY <1>1, <1>2

(* Whatever leaves votes, round and verdict alone leaves the counts.       *)
LEMMA CountsStand ==
    ASSUME TypeOK, NEW m \in Markets, Counted(m), now' \in Nat, now' >= now,
           UNCHANGED <<tally[m], committee[m], reveal[m], roundOneOutcome[m],
                       viaCommittee[m], round[m].n, round[m].k, round[m].index,
                       round[m].proposed, round[m].commitDeadline,
                       round[m].revealDeadline, round[m].disputeDeadline>>
    PROVE  Counted(m)'
<1>1. now \in Nat /\ round[m].revealDeadline \in Nat
  BY DEF TypeOK, ResolutionTypeOK, Rounds
<1>2. Tallied(m)'
  BY DEF Counted, Tallied, Voters
<1>3. Remembered(m)'
  BY DEF Counted, Remembered
<1>4. Waited(m)'
  BY <1>1 DEF Counted, Waited, HasProposal
<1> QED
  BY <1>2, <1>3, <1>4 DEF Counted

(* A reveal adds its member to one count and no other.                     *)
LEMMA RevealAddsOne ==
    ASSUME TypeOK, NEW m \in Markets, NEW a \in Agents, RevealVote(m, a)
    PROVE  /\ commitment[m][a].outcome \in Outcomes
           /\ \A o \in Outcomes :
                /\ tally'[m][o] = tally[m][o]
                      + (IF o = commitment[m][a].outcome THEN 1 ELSE 0)
                /\ Cardinality(Voters(m, o))' = Cardinality(Voters(m, o))
                      + (IF o = commitment[m][a].outcome THEN 1 ELSE 0)
<1>1. PICK outcome \in Outcomes : outcome = commitment[m][a].outcome
  BY DEF TypeOK, ResolutionTypeOK, Commitments, RevealVote, Outcomes,
         NO, YES, UNRESOLVABLE, NONE
<1>2. /\ UNCHANGED committee
      /\ a \in committee[m]
      /\ reveal[m][a] = NONE
      /\ reveal' = [reveal EXCEPT ![m][a] = outcome]
      /\ tally' = [tally EXCEPT ![m][outcome] = tally[m][outcome] + 1]
  BY <1>1 DEF RevealVote
<1>3. \A o \in Outcomes :
        tally'[m][o] = tally[m][o] + (IF o = outcome THEN 1 ELSE 0)
  BY <1>1, <1>2 DEF TypeOK, ResolutionTypeOK
<1>4. /\ reveal'[m][a] = outcome
      /\ \A b \in Agents \ {a} : reveal'[m][b] = reveal[m][b]
      /\ committee[m] \subseteq Agents
  BY <1>2 DEF TypeOK, ResolutionTypeOK
<1>5. \A o \in Outcomes : o # NONE
  BY DEF Outcomes, NONE, NO, YES, UNRESOLVABLE
<1>6. a \notin Voters(m, outcome) /\ Voters(m, outcome)' = Voters(m, outcome) \cup {a}
  <2>1. a \notin Voters(m, outcome)
    BY <1>1, <1>2, <1>5 DEF Voters
  <2>2. \A b \in Agents : reveal'[m][b] = outcome <=> reveal[m][b] = outcome \/ b = a
    BY <1>4
  <2>3. Voters(m, outcome)' = {b \in committee[m] : reveal'[m][b] = outcome}
    BY <1>2 DEF Voters
  <2>4. Voters(m, outcome) = {b \in committee[m] : reveal[m][b] = outcome}
    BY DEF Voters
  <2>5. {b \in committee[m] : reveal'[m][b] = outcome}
          = {b \in committee[m] : reveal[m][b] = outcome} \cup {a}
    BY <1>2, <1>4, <2>2
  <2> QED
    BY <2>1, <2>3, <2>4, <2>5
<1>7. Cardinality(Voters(m, outcome) \cup {a}) = Cardinality(Voters(m, outcome)) + 1
  BY <1>1, <1>6, VotersAreFinite, FS_AddElement
<1>8. ASSUME NEW o \in Outcomes, o # outcome
      PROVE  Voters(m, o)' = Voters(m, o)
  BY <1>2, <1>4, <1>5, <1>8 DEF Voters
<1>9. \A o \in Outcomes : Cardinality(Voters(m, o)) \in Nat
  BY VotersAreFinite
<1>10. \A o \in Outcomes : Cardinality(Voters(m, o)') = Cardinality(Voters(m, o))
                      + (IF o = outcome THEN 1 ELSE 0)
  <2>1. Cardinality(Voters(m, outcome)') = Cardinality(Voters(m, outcome)) + 1
    BY <1>6, <1>7
  <2>2. ASSUME NEW o \in Outcomes, o # outcome
        PROVE  Cardinality(Voters(m, o)') = Cardinality(Voters(m, o)) + 0
    BY <1>8, <1>9, <2>2
  <2> QED
    BY <2>1, <2>2
<1> QED
  BY <1>1, <1>3, <1>10

(* What a reveal may write in the round: the answer that reached the       *)
(* threshold, and when it can be challenged until.                         *)
LEMMA RevealProposes ==
    ASSUME TypeOK, NEW m \in Markets, NEW a \in Agents, RevealVote(m, a)
    PROVE  LET outcome == commitment[m][a].outcome
           IN /\ round[m].n # 0
              /\ now <= round[m].revealDeadline
              /\ UNCHANGED <<now, committee, roundOneOutcome, viaCommittee>>
              /\ \/ /\ round'[m] = round[m]
                    /\ round[m].proposed = NONE => tally[m][outcome] + 1 < round[m].k
                 \/ /\ round[m].proposed = NONE
                    /\ tally[m][outcome] + 1 >= round[m].k
                    /\ round'[m].proposed = outcome
                    /\ round'[m].disputeDeadline = now + DisputeWindow
                    /\ round'[m].n = round[m].n
                    /\ round'[m].k = round[m].k
                    /\ round'[m].index = round[m].index
                    /\ round'[m].commitDeadline = round[m].commitDeadline
                    /\ round'[m].revealDeadline = round[m].revealDeadline
<1> DEFINE outcome == commitment[m][a].outcome
<1>1. outcome \in Outcomes
  BY RevealAddsOne
<1>2. /\ round \in [Markets -> Rounds]
      /\ tally[m][outcome] \in Nat
      /\ round[m].k \in Nat
  BY <1>1 DEF TypeOK, ResolutionTypeOK, Rounds
<1>3. /\ RevealOpen(m)
      /\ UNCHANGED <<now, committee, roundOneOutcome, viaCommittee>>
      /\ \/ /\ round' = round
            /\ ~(tally[m][outcome] + 1 >= round[m].k /\ round[m].proposed = NONE)
         \/ /\ tally[m][outcome] + 1 >= round[m].k
            /\ round[m].proposed = NONE
            /\ round' = [round EXCEPT ![m] = [@ EXCEPT
                             !.proposed = outcome,
                             !.disputeDeadline = now + DisputeWindow]]
  BY DEF RevealVote
<1> HIDE DEF outcome
<1>4. CASE /\ round' = round
           /\ ~(tally[m][outcome] + 1 >= round[m].k /\ round[m].proposed = NONE)
  <2>1. round'[m] = round[m] /\ round[m].n # 0 /\ now <= round[m].revealDeadline
    BY <1>3, <1>4 DEF RevealOpen
  <2>2. round[m].proposed = NONE => tally[m][outcome] + 1 < round[m].k
    <3>1. \A x, y \in Nat : ~(x + 1 >= y) => x + 1 < y
      OBVIOUS
    <3> QED
      BY <1>2, <1>3, <1>4, <3>1
  <2> QED
    BY <1>3, <2>1, <2>2 DEF outcome
<1>5. CASE ~(/\ round' = round
             /\ ~(tally[m][outcome] + 1 >= round[m].k /\ round[m].proposed = NONE))
  <2>1. round'[m] = [round[m] EXCEPT !.proposed = outcome,
                                     !.disputeDeadline = now + DisputeWindow]
    BY <1>2, <1>3, <1>5
  <2>2. /\ round'[m].proposed = outcome
        /\ round'[m].disputeDeadline = now + DisputeWindow
        /\ round'[m].n = round[m].n
        /\ round'[m].k = round[m].k
        /\ round'[m].index = round[m].index
        /\ round'[m].commitDeadline = round[m].commitDeadline
        /\ round'[m].revealDeadline = round[m].revealDeadline
    BY <1>2, <2>1 DEF Rounds
  <2> QED
    BY <1>3, <1>5, <2>2 DEF RevealOpen, outcome
<1> QED
  BY <1>3, <1>4, <1>5

(* A reveal keeps the counts; one too late to matter finds no verdict yet. *)
LEMMA RevealCounts ==
    ASSUME TypeOK, NEW m \in Markets, NEW a \in Agents, Counted(m), RevealVote(m, a)
    PROVE  Counted(m)'
<1> DEFINE outcome == commitment[m][a].outcome
<1>1. /\ outcome \in Outcomes
      /\ \A o \in Outcomes :
           /\ tally'[m][o] = tally[m][o] + (IF o = outcome THEN 1 ELSE 0)
           /\ Cardinality(Voters(m, o))' = Cardinality(Voters(m, o))
                 + (IF o = outcome THEN 1 ELSE 0)
  BY RevealAddsOne
<1>2. /\ round[m].n # 0
      /\ now <= round[m].revealDeadline
      /\ UNCHANGED <<now, committee, roundOneOutcome, viaCommittee>>
      /\ \/ /\ round'[m] = round[m]
            /\ round[m].proposed = NONE => tally[m][outcome] + 1 < round[m].k
         \/ /\ round[m].proposed = NONE
            /\ tally[m][outcome] + 1 >= round[m].k
            /\ round'[m].proposed = outcome
            /\ round'[m].disputeDeadline = now + DisputeWindow
            /\ round'[m].n = round[m].n
            /\ round'[m].k = round[m].k
            /\ round'[m].index = round[m].index
            /\ round'[m].commitDeadline = round[m].commitDeadline
            /\ round'[m].revealDeadline = round[m].revealDeadline
  BY RevealProposes
<1> HIDE DEF outcome
<1>3. /\ \A o \in Outcomes : tally[m][o] \in Nat
      /\ round[m].k \in Nat /\ now \in Nat /\ round[m].revealDeadline \in Nat
      /\ round[m].commitDeadline \in Nat
      /\ CommitWindow \in Nat /\ RevealWindow \in Nat /\ DisputeWindow \in Nat
      /\ round[m].proposed \in 0..3
  BY ResolutionAssumption DEF TypeOK, ResolutionTypeOK, Rounds
<1>4. \A o \in Outcomes : o # NONE
  BY DEF Outcomes, NONE, NO, YES, UNRESOLVABLE
<1>5. round[m].proposed # NONE => round[m].proposed \in Outcomes
  BY <1>3 DEF Outcomes, NONE, NO, YES, UNRESOLVABLE
<1>6. Remembered(m)'
  BY <1>2 DEF Counted, Remembered
<1>7. Tallied(m)'
  <2>1. \A o \in Outcomes : tally'[m][o] = Cardinality(Voters(m, o))'
    BY <1>1 DEF Counted, Tallied
  <2>2. round'[m].n # 0 =>
          /\ ValidShape(round'[m].n, round'[m].k)
          /\ Cardinality(committee[m]') = round'[m].n
    BY <1>2 DEF Counted, Tallied
  <2>3. CASE round'[m] = round[m]
    <3>1. round[m].index # 0 /\ round[m].proposed = NONE =>
            \A o \in Outcomes : tally'[m][o] < round[m].k
      BY <1>1, <1>2, <1>3, <1>4, <2>3 DEF Counted, Tallied
    <3>2. round[m].index # 0 /\ round[m].proposed # NONE =>
            round[m].n # 0 /\ tally'[m][round[m].proposed] >= round[m].k
      BY <1>1, <1>3, <1>5 DEF Counted, Tallied
    <3> QED
      BY <2>1, <2>2, <2>3, <3>1, <3>2 DEF Tallied
  <2>4. CASE round'[m] # round[m]
    <3>1. round'[m].proposed = outcome /\ tally'[m][outcome] >= round'[m].k
      BY <1>1, <1>2, <1>3, <2>4
    <3> QED
      BY <1>1, <1>2, <1>4, <2>1, <2>2, <2>4, <3>1 DEF Tallied
  <2> QED
    BY <2>3, <2>4
<1>8. Waited(m)'
  <2> SUFFICES ASSUME RevealWindow <= DisputeWindow
               PROVE  Waited(m)'
    BY DEF Waited
  <2>1. /\ round[m].revealDeadline = round[m].commitDeadline + RevealWindow
        /\ round[m].index = 1 /\ HasProposal(m) =>
             round[m].disputeDeadline >= round[m].revealDeadline
        /\ ~viaCommittee[m]
    BY <1>2, <1>3 DEF Counted, Waited
  <2>2. now > round[m].commitDeadline
    BY <1>3 DEF RevealVote, RevealOpen
  <2>3. now + DisputeWindow >= round[m].revealDeadline
    BY <1>3, <2>1, <2>2
  <2> QED
    BY <1>2, <2>1, <2>3 DEF Waited, HasProposal
<1> QED
  BY <1>6, <1>7, <1>8 DEF Counted

(* A sample opens a round with nothing counted.                            *)
LEMMA OpenedCounts ==
    ASSUME TypeOK, NEW m \in Markets, Consistent(m), Counted(m),
           NEW n \in Nat, NEW k \in Nat, ValidShape(n, k),
           committee'[m] \subseteq Agents, Cardinality(committee'[m]) = n,
           \A a \in committee'[m] : reveal[m][a] = NONE,
           \A o \in Outcomes : tally[m][o] = 0,
           UNCHANGED <<now, tally, reveal, roundOneOutcome, viaCommittee>>,
           ~viaCommittee[m],
           round'[m].n = n, round'[m].k = k, round'[m].proposed = NONE,
           round'[m].index = 2 \/ (round[m].index # 2 /\ round'[m].index = 1),
           round'[m].commitDeadline = now + CommitWindow,
           round'[m].revealDeadline = now + CommitWindow + RevealWindow
    PROVE  Counted(m)'
<1>1. k > 0 /\ n # 0
  BY DEF ValidShape
<1>2. \A o \in Outcomes : o # NONE
  BY DEF Outcomes, NONE, NO, YES, UNRESOLVABLE
<1>3. \A o \in Outcomes : tally'[m][o] = Cardinality(Voters(m, o))'
  <2>1. \A o \in Outcomes : Voters(m, o)' = {}
    BY <1>2 DEF Voters
  <2> QED
    BY <2>1, FS_EmptySet
<1>4. \A o \in Outcomes : tally'[m][o] < k
  BY <1>1
<1>5. Tallied(m)'
  BY <1>1, <1>3, <1>4 DEF Tallied
<1>6. Remembered(m)'
  BY DEF Counted, Remembered
<1>7. Waited(m)'
  BY ResolutionAssumption DEF TypeOK, Waited, HasProposal
<1> QED
  BY <1>5, <1>6, <1>7 DEF Counted

(* Opening a round is opening it from a sample.                            *)
LEMMA OpenResolutionCounts ==
    ASSUME TypeOK, NEW m \in Markets, Consistent(m), Counted(m), OpenResolution(m)
    PROVE  Counted(m)'
<1>1. PICK shape \in TierShapes :
        /\ ValidShape(shape[1], shape[2])
        /\ \E picked \in Samples(shape[1], {}) :
              /\ committee' = [committee EXCEPT ![m] = picked]
              /\ roundOne' = [roundOne EXCEPT ![m] = picked]
        /\ round' = [round EXCEPT ![m] =
              [EmptyRound EXCEPT
                 !.n = shape[1], !.k = shape[2], !.index = 1,
                 !.proposed = NONE,
                 !.commitDeadline = now + CommitWindow,
                 !.revealDeadline = now + CommitWindow + RevealWindow]]
  BY DEF OpenResolution
<1>2. shape[1] \in Nat /\ shape[2] \in Nat
  BY ResolutionAssumption
<1>3. PICK picked \in Samples(shape[1], {}) : committee'[m] = picked
  BY <1>1 DEF TypeOK, ResolutionTypeOK
<1>4. committee'[m] \subseteq Agents /\ Cardinality(committee'[m]) = shape[1]
  BY <1>3 DEF Samples, Eligible
<1>5. /\ round[m].index = 0
      /\ UNCHANGED <<now, tally, reveal, roundOneOutcome, viaCommittee>>
  BY DEF OpenResolution, voteVars
<1>6. round[m].n = 0 /\ committee[m] = {} /\ roundOne[m] = {}
  BY <1>5 DEF Consistent, Unopened
<1>7. \A a \in Agents : reveal[m][a] = NONE
  BY <1>6 DEF Consistent, RevealsInTurn
<1>8. \A o \in Outcomes : tally[m][o] = 0
  <2>1. \A o \in Outcomes : Voters(m, o) = {}
    BY <1>6 DEF Voters
  <2> QED
    BY <2>1, FS_EmptySet DEF Counted, Tallied
<1>9. ~viaCommittee[m]
  BY <1>5 DEF Consistent, Closing, HasProposal
<1>10. /\ round'[m].n = shape[1] /\ round'[m].k = shape[2]
       /\ round'[m].proposed = NONE /\ round'[m].index = 1
       /\ round'[m].commitDeadline = now + CommitWindow
       /\ round'[m].revealDeadline = now + CommitWindow + RevealWindow
  BY <1>1 DEF EmptyRound, TypeOK, ResolutionTypeOK
<1>11. \A a \in committee'[m] : reveal[m][a] = NONE
  BY <1>4, <1>7
<1> QED
  BY <1>1, <1>2, <1>4, <1>5, <1>8, <1>9, <1>10, <1>11, OpenedCounts

(* Nobody of round 1 is drawn again, so nobody drawn has revealed.         *)
LEMMA OpenDisputeRoundCounts ==
    ASSUME TypeOK, NEW m \in Markets, Consistent(m), Counted(m), OpenDisputeRound(m)
    PROVE  Counted(m)'
<1> DEFINE n == DisputeShape[1]
           k == DisputeShape[2]
<1>1. n \in Nat /\ k \in Nat /\ ValidShape(n, k)
  BY ResolutionAssumption DEF OpenDisputeRound
<1>2. /\ round[m].index = 2 /\ ~round[m].finalized /\ round[m].n = 0
      /\ UNCHANGED <<now, tally, reveal, roundOneOutcome, viaCommittee>>
  BY DEF OpenDisputeRound, voteVars
<1>3. /\ committee'[m] \subseteq Agents \ roundOne[m]
      /\ Cardinality(committee'[m]) = n
  BY DEF OpenDisputeRound, Samples, Eligible, TypeOK, ResolutionTypeOK
<1>4. committee[m] = {}
  BY <1>2 DEF Consistent, Unopened
<1>5. \A a \in committee'[m] : reveal[m][a] = NONE
  BY <1>3, <1>4 DEF Consistent, RevealsInTurn
<1>6. \A o \in Outcomes : tally[m][o] = 0
  <2>1. \A o \in Outcomes : Voters(m, o) = {}
    BY <1>4 DEF Voters
  <2> QED
    BY <2>1, FS_EmptySet DEF Counted, Tallied
<1>7. round[m].proposed = NONE
  BY <1>2 DEF Counted, Tallied
<1>8. /\ round'[m].n = n /\ round'[m].k = k
      /\ round'[m].proposed = NONE /\ round'[m].index = 2
      /\ round'[m].commitDeadline = now + CommitWindow
      /\ round'[m].revealDeadline = now + CommitWindow + RevealWindow
  <2>1. round \in [Markets -> Rounds]
    BY DEF TypeOK, ResolutionTypeOK
  <2>2. round' = [round EXCEPT ![m] = [@ EXCEPT
                    !.n = n, !.k = k,
                    !.commitDeadline = now + CommitWindow,
                    !.revealDeadline = now + CommitWindow + RevealWindow]]
    BY DEF OpenDisputeRound
  <2> HIDE DEF n, k
  <2>3. round'[m] = [round[m] EXCEPT
                    !.n = n, !.k = k,
                    !.commitDeadline = now + CommitWindow,
                    !.revealDeadline = now + CommitWindow + RevealWindow]
    BY <2>1, <2>2
  <2> QED
    BY <1>2, <1>7, <2>1, <2>3 DEF Rounds
<1>9. ~viaCommittee[m]
  BY <1>2 DEF Consistent, Closing
<1>10. committee'[m] \subseteq Agents
  BY <1>3
<1> HIDE DEF n, k
<1> QED
  BY <1>1, <1>2, <1>3, <1>5, <1>6, <1>8, <1>9, <1>10, OpenedCounts

(* A dispute clears the round and remembers its answer.                    *)
LEMMA DisputeCounts ==
    ASSUME TypeOK, NEW m \in Markets, NEW challenger \in Challengers,
           Consistent(m), Counted(m), Dispute(m, challenger)
    PROVE  Counted(m)'
<1>1. /\ round'[m].n = 0 /\ round'[m].index = 2 /\ round'[m].proposed = NONE
      /\ committee'[m] = {}
      /\ \A o \in Outcomes : tally'[m][o] = 0
      /\ UNCHANGED <<now, viaCommittee>>
      /\ ~round[m].finalized
  BY DEF Dispute, DisputedRound, EmptyRound, TypeOK, ResolutionTypeOK
<1>2. ~viaCommittee[m]
  BY <1>1 DEF Consistent, Closing
<1>3. Tallied(m)'
  <2>1. \A o \in Outcomes : Voters(m, o)' = {}
    BY <1>1 DEF Voters
  <2>2. \A o \in Outcomes : Cardinality(Voters(m, o))' = 0
    BY <2>1, FS_EmptySet
  <2> QED
    BY <1>1, <2>2 DEF Tallied
<1>4. Remembered(m)' /\ Waited(m)'
  BY <1>1, <1>2 DEF Remembered, Waited
<1> QED
  BY <1>3, <1>4 DEF Counted

(* A verdict waits for the reveals that could still change who is judged.  *)
LEMMA FinalizeWaits ==
    ASSUME TypeOK, NEW m \in Markets, Consistent(m), Counted(m), Finalize(m),
           RevealWindow <= DisputeWindow
    PROVE  now > round[m].revealDeadline
<1>1. /\ round[m].n # 0
      /\ round[m].proposed # NONE
      /\ round[m].index = 1 => now > round[m].disputeDeadline
      /\ round[m].index = 2 => now > round[m].revealDeadline
  BY DEF Finalize, AnswerIsFinal
<1>2. /\ now \in Nat
      /\ round[m].revealDeadline \in Nat
      /\ round[m].disputeDeadline \in Nat
      /\ round[m].index \in 0..2
  BY DEF TypeOK, ResolutionTypeOK, Rounds
<1>3. round[m].index # 0
  BY <1>1 DEF Consistent, Unopened
<1>4. round[m].index = 1 => round[m].disputeDeadline >= round[m].revealDeadline
  BY <1>1 DEF Counted, Waited, HasProposal
<1> QED
  BY <1>1, <1>2, <1>3, <1>4

(* Neither ending of a round touches its votes.                            *)
LEMMA EndingCounts ==
    ASSUME TypeOK, NEW m \in Markets, Consistent(m), Counted(m),
           Finalize(m) \/ MarkFailed(m)
    PROVE  Counted(m)'
<1>1. /\ UNCHANGED <<now, committee, roundOneOutcome, reveal, tally>>
      /\ round'[m] = [round[m] EXCEPT !.finalized = TRUE]
  BY EndingEffect DEF voteVars, Finalize, MarkFailed
<1>2. /\ round'[m].n = round[m].n
      /\ round'[m].k = round[m].k
      /\ round'[m].index = round[m].index
      /\ round'[m].proposed = round[m].proposed
      /\ round'[m].commitDeadline = round[m].commitDeadline
      /\ round'[m].revealDeadline = round[m].revealDeadline
      /\ round'[m].disputeDeadline = round[m].disputeDeadline
  BY <1>1 DEF TypeOK, ResolutionTypeOK, Rounds
<1>3. Tallied(m)' /\ Remembered(m)'
  BY <1>1, <1>2 DEF Counted, Tallied, Remembered, Voters
<1>4. Waited(m)'
  <2>1. CASE MarkFailed(m)
    BY <1>1, <1>2, <2>1 DEF MarkFailed, Counted, Waited, HasProposal
  <2>2. CASE Finalize(m)
    BY <1>1, <1>2, <2>2, FinalizeWaits DEF Counted, Waited, HasProposal
  <2> QED
    BY <2>1, <2>2
<1> QED
  BY <1>3, <1>4 DEF Counted

(* The counts hold after every step of the market, and of the others.      *)
LEMMA CountedStep ==
    ASSUME TypeOK, NEW m \in Markets, Consistent(m), Counted(m), [Next]_vars
    PROVE  Counted(m)'
<1>1. CASE ~MarketNext(m)
  <2>1. UNCHANGED MarketView(m) /\ now' \in Nat /\ now' >= now
    BY <1>1, Locality
  <2>2. UNCHANGED tally[m]
    BY <1>1, TallyElsewhere
  <2> QED
    BY <2>1, <2>2, CountsStand DEF MarketView
<1>2. CASE MarketNext(m)
  <2>1. CASE \/ MarketOnly(m) \/ RequestResolution(m) \/ DrawAges(m)
             \/ \E a \in Agents, outcome \in VoteChoices : CommitVote(m, a, outcome)
    <3>1. UNCHANGED <<now, round, committee, reveal, tally, roundOneOutcome,
                      viaCommittee>>
      BY <2>1 DEF MarketOnly, Close, Fail, Void, DirectSettle, DirectFail,
         DirectMark, RequestResolution, DrawAges, CommitVote, roundVars, voteVars
    <3>2. now \in Nat
      BY DEF TypeOK
    <3> QED
      BY <3>1, <3>2, CountsStand
  <2>2. CASE OpenResolution(m)
    BY <2>2, OpenResolutionCounts
  <2>3. CASE \E challenger \in Challengers : Dispute(m, challenger)
    BY <2>3, DisputeCounts
  <2>4. CASE OpenDisputeRound(m)
    BY <2>4, OpenDisputeRoundCounts
  <2>5. CASE Finalize(m) \/ MarkFailed(m)
    BY <2>5, EndingCounts
  <2>6. CASE \E a \in Agents : RevealVote(m, a)
    BY <2>6, RevealCounts
  <2> QED
    BY <1>2, <2>1, <2>2, <2>3, <2>4, <2>5, <2>6 DEF MarketNext, MarketOnly
<1> QED
  BY <1>1, <1>2

(* Before anything is opened there is nothing to count.                    *)
LEMMA CountedStart ==
    ASSUME Init, NEW m \in Markets
    PROVE  Counted(m)
<1>1. /\ round[m] = EmptyRound
      /\ committee[m] = {}
      /\ roundOneOutcome[m] = NONE
      /\ viaCommittee[m] = FALSE
      /\ \A o \in Outcomes : tally[m][o] = 0
  BY DEF Init
<1>2. round[m].index = 0 /\ round[m].n = 0
  BY <1>1 DEF EmptyRound
<1>3. \A o \in Outcomes : Cardinality(Voters(m, o)) = 0
  <2>1. \A o \in Outcomes : Voters(m, o) = {}
    BY <1>1 DEF Voters
  <2> QED
    BY <2>1, FS_EmptySet
<1> QED
  BY <1>1, <1>2, <1>3 DEF Counted, Tallied, Remembered, Waited, HasProposal

(* So for every market, after every step.                                  *)
LEMMA CountsStep ==
    ASSUME CountInv, [Next]_vars
    PROVE  CountInv'
<1>1. TypeOK'
  BY TypeStep DEF CountInv, IInv
<1>2. \A m \in Markets : Consistent(m)'
  BY ConsistentStep DEF CountInv, IInv
<1>3. \A m \in Markets : Counted(m)'
  BY CountedStep DEF CountInv, IInv
<1> QED
  BY <1>1, <1>2, <1>3 DEF CountInv, IInv

(* And at the start.                                                       *)
LEMMA CountsStart == Init => CountInv
BY TypeStart, ConsistentStart, CountedStart DEF CountInv, IInv

(* In every reachable state the counts are the votes, and no verdict came  *)
(* before its time.                                                        *)
THEOREM CountsHold == Spec => []CountInv
BY CountsStart, CountsStep, PTL DEF Spec

-----------------------------------------------------------------------------
(* What follows.                                                           *)

(* A standing answer has the votes of more than half of its committee, and *)
(* those left over are too few for another.                                *)
THEOREM VerdictsAreMajorities == Spec => []VerdictIsMajority
<1>1. ASSUME CountInv, NEW m \in Markets, HasProposal(m)
      PROVE  /\ 2 * Cardinality(Voters(m, round[m].proposed)) > Cardinality(committee[m])
             /\ \A o \in Outcomes \ {round[m].proposed} :
                   Cardinality(Voters(m, o)) < round[m].k
  <2> DEFINE answer == round[m].proposed
             n == round[m].n
             k == round[m].k
  <2>0. TypeOK /\ Counted(m)
    BY <1>1 DEF CountInv, IInv
  <2>1. n \in Nat /\ k \in Nat /\ answer \in Outcomes
    BY <1>1, <2>0 DEF TypeOK, ResolutionTypeOK, Rounds, HasProposal, Outcomes, NONE,
       NO, YES, UNRESOLVABLE
  <2>2. /\ 2 * k > n
        /\ Cardinality(committee[m]) = n
        /\ Cardinality(Voters(m, answer)) >= k
    BY <1>1, <2>0, <2>1 DEF HasProposal, Counted, Tallied, ValidShape
  <2>3. /\ IsFiniteSet(committee[m])
        /\ \A o \in Outcomes : /\ IsFiniteSet(Voters(m, o))
                               /\ Cardinality(Voters(m, o)) \in Nat
                               /\ Voters(m, o) \subseteq committee[m]
    BY <2>0, VotersAreFinite
  <2> HIDE DEF answer, n, k
  <2>4. 2 * Cardinality(Voters(m, answer)) > Cardinality(committee[m])
    BY <2>1, <2>2, <2>3
  <2>5. ASSUME NEW o \in Outcomes, o # answer
        PROVE  Cardinality(Voters(m, o)) < k
    <3>1. Voters(m, o) \cap Voters(m, answer) = {}
      BY <2>5 DEF Voters
    <3>2. Cardinality(Voters(m, o) \cup Voters(m, answer))
            = Cardinality(Voters(m, o)) + Cardinality(Voters(m, answer))
                - Cardinality(Voters(m, o) \cap Voters(m, answer))
      BY <2>1, <2>3, FS_Union
    <3>3. Cardinality(Voters(m, o) \cap Voters(m, answer)) = 0
      BY <3>1, FS_EmptySet
    <3>4. Voters(m, o) \cup Voters(m, answer) \subseteq committee[m]
      BY <2>1, <2>3
    <3>5. Cardinality(Voters(m, o) \cup Voters(m, answer)) <= Cardinality(committee[m])
      BY <2>3, <3>4, FS_Subset
    <3>6. \A u, v, w \in Nat : w = u + v - 0 /\ w <= n /\ v >= k => u < k
      BY <2>1, <2>2
    <3>7. /\ Cardinality(Voters(m, o) \cup Voters(m, answer)) \in Nat
          /\ Cardinality(Voters(m, o)) \in Nat
          /\ Cardinality(Voters(m, answer)) \in Nat
      BY <2>1, <2>3, <3>4, FS_Subset, FS_CardinalityType
    <3> QED
      BY <2>2, <3>2, <3>3, <3>5, <3>6, <3>7
  <2> QED
    BY <2>4, <2>5 DEF answer, k
<1>2. CountInv => VerdictIsMajority
  BY <1>1 DEF VerdictIsMajority
<1> QED
  BY <1>2, CountsHold, PTL

(* Where disputes last as long as reveals, a verdict judges nobody absent  *)
(* who could still have revealed.                                          *)
THEOREM AbsenteesWereWaitedFor ==
    ASSUME RevealWindow <= DisputeWindow
    PROVE  Spec => AbsenteesHadTheirTime
<1> DEFINE Waits == \A m \in Markets :
              RoundEnds(m) /\ viaCommittee'[m] /\ NoShows(m) # {} =>
                 now > round[m].revealDeadline
<1>1. ASSUME CountInv, [Next]_vars, NEW m \in Markets, RoundEnds(m), viaCommittee'[m]
      PROVE  now > round[m].revealDeadline
  <2>0. TypeOK /\ Consistent(m) /\ Counted(m)
    BY <1>1 DEF CountInv, IInv
  <2>1. MarketNext(m)
    BY <1>1, <2>0, Locality DEF MarketView, RoundEnds
  <2>2. Finalize(m) \/ MarkFailed(m)
    <3>1. CASE MarketOnly(m)
      BY <1>1, <3>1 DEF RoundEnds, MarketOnly, Close, Fail, Void, DirectSettle,
         DirectFail, DirectMark, roundVars
    <3>2. CASE \/ RequestResolution(m) \/ DrawAges(m)
               \/ \E a \in Agents, outcome \in VoteChoices : CommitVote(m, a, outcome)
      BY <1>1, <3>2 DEF RoundEnds, RequestResolution, DrawAges, CommitVote, roundVars
    <3>3. CASE OpenResolution(m) \/ \E challenger \in Challengers : Dispute(m, challenger)
      <4>1. CASE OpenResolution(m)
        <5>1. ~Terminal(m)'
          BY <4>1 DEF OpenResolution, marketVars, Terminal, TerminalStatuses
        <5>2. Closing(m)'
          BY <2>0, <4>1, OpenResolutionKeeps DEF Consistent
        <5> QED
          BY <1>1, <5>1, <5>2 DEF RoundEnds, Closing
      <4>2. CASE \E challenger \in Challengers : Dispute(m, challenger)
        BY <1>1, <2>0, <4>2 DEF RoundEnds, Dispute, DisputedRound, EmptyRound, TypeOK,
           ResolutionTypeOK
      <4> QED
        BY <3>3, <4>1, <4>2
    <3>4. CASE OpenDisputeRound(m)
      BY <1>1, <2>0, <3>4 DEF RoundEnds, OpenDisputeRound, TypeOK, ResolutionTypeOK,
         Rounds
    <3>5. CASE \E a \in Agents : RevealVote(m, a)
      BY <1>1, <2>0, <3>5, RevealEffect DEF RoundEnds
    <3> QED
      BY <2>1, <3>1, <3>2, <3>3, <3>4, <3>5 DEF MarketNext, MarketOnly
  <2>3. CASE MarkFailed(m)
    BY <1>1, <2>0, <2>3 DEF MarkFailed, Consistent, Closing
  <2>4. CASE Finalize(m)
    BY <2>0, <2>4, FinalizeWaits
  <2> QED
    BY <2>2, <2>3, <2>4
<1>2. CountInv /\ [Next]_vars => Waits
  BY <1>1
<1> QED
  BY <1>2, CountsHold, PTL DEF Spec, AbsenteesHadTheirTime

-----------------------------------------------------------------------------
(* The record.                                                             *)

AgreedWith(a) ==
    {m \in Markets : viaCommittee[m] /\ a \in Voters(m, round[m].proposed)}

OverturnedOf(a) ==
    {m \in Markets : /\ Overturned(m)
                     /\ a \in roundOne[m]
                     /\ reveal[m][a] = roundOneOutcome[m]}

(* The record of an agent is the number of markets it comes from, which is *)
(* finite whatever Markets is.                                             *)
Earned(a) ==
    /\ IsFiniteSet(AgreedWith(a))
    /\ IsFiniteSet(OverturnedOf(a))
    /\ reputation[a].agreed = Cardinality(AgreedWith(a))
    /\ reputation[a].overturned = Cardinality(OverturnedOf(a))

EarnInv == CountInv /\ \A a \in Agents : Earned(a)

(* A verdict once carried out rests on votes nobody can add to.            *)
LEMMA VerdictIsKept ==
    ASSUME RevealWindow <= DisputeWindow, TypeOK, NEW m \in Markets,
           Consistent(m), Counted(m), viaCommittee[m], [Next]_vars
    PROVE  UNCHANGED <<viaCommittee[m], committee[m], roundOne[m], reveal[m],
                       round[m], roundOneOutcome[m]>>
<1>1. /\ round[m].finalized /\ Terminal(m) /\ round[m].index # 0
      /\ now > round[m].revealDeadline
  BY DEF Consistent, Closing, HasProposal, Counted, Waited
<1>2. CASE MarketNext(m)
  <2>1. CASE MarketOnly(m)
    BY <2>1 DEF MarketOnly, Close, Fail, Void, DirectSettle, DirectFail, DirectMark,
       roundVars, voteVars
  <2>2. CASE RequestResolution(m) \/ DrawAges(m)
    BY <2>2 DEF RequestResolution, DrawAges, voteVars
  <2>3. CASE \E a \in Agents, outcome \in VoteChoices : CommitVote(m, a, outcome)
    BY <2>3 DEF CommitVote, roundVars
  <2>4. CASE \E a \in Agents : RevealVote(m, a)
    <3>1. now <= round[m].revealDeadline
      BY <2>4 DEF RevealVote, RevealOpen
    <3> QED
      BY <1>1, <3>1 DEF TypeOK, ResolutionTypeOK, Rounds
  <2>5. CASE \/ OpenResolution(m) \/ OpenDisputeRound(m) \/ Finalize(m) \/ MarkFailed(m)
             \/ \E challenger \in Challengers : Dispute(m, challenger)
    BY <1>1, <2>5 DEF OpenResolution, OpenDisputeRound, Finalize, MarkFailed, Dispute
  <2> QED
    BY <1>2, <2>1, <2>2, <2>3, <2>4, <2>5 DEF MarketNext, MarketOnly
<1>3. CASE ~MarketNext(m)
  BY <1>3, Locality DEF MarketView
<1> QED
  BY <1>2, <1>3

(* Only the two endings of a round write a record, and only one of them    *)
(* gives a verdict.                                                        *)
LEMMA OnlyEndingsRecord ==
    ASSUME TypeOK, [Next]_vars,
           ~ \E m \in Markets : Finalize(m) \/ MarkFailed(m)
    PROVE  UNCHANGED <<reputation, viaCommittee>>
<1>1. ASSUME NEW m \in Markets, MarketNext(m)
      PROVE  UNCHANGED <<reputation, viaCommittee>>
  <2>1. CASE \E challenger \in Challengers : Dispute(m, challenger)
    BY <2>1 DEF Dispute, stakeVars
  <2>2. CASE \E a \in Agents, outcome \in VoteChoices : CommitVote(m, a, outcome)
    BY <2>2 DEF CommitVote, stakeVars
  <2>3. CASE \E a \in Agents : RevealVote(m, a)
    BY <2>3 DEF RevealVote, stakeVars
  <2>4. CASE MarketOnly(m)
    BY <2>4 DEF MarketOnly, Close, Fail, Void, DirectSettle, DirectFail, DirectMark,
       stakeVars
  <2>5. CASE RequestResolution(m) \/ DrawAges(m) \/ OpenResolution(m) \/ OpenDisputeRound(m)
    BY <2>5 DEF RequestResolution, DrawAges, OpenResolution, OpenDisputeRound, stakeVars
  <2> QED
    BY <1>1, <2>1, <2>2, <2>3, <2>4, <2>5 DEF MarketNext, MarketOnly
<1>2. CASE \E a \in Agents : AgentNext(a)
  BY <1>2 DEF AgentNext, Stake, RequestUnstake, WithdrawUnstaked, SetOperator, Claim,
     StakeMore, GiveNotice, Withdraw, Rotate, stakeVars
<1>3. CASE ~(\/ \E m \in Markets : MarketNext(m)
             \/ \E a \in Agents : AgentNext(a))
  BY <1>3 DEF Next, Time, SweepUnallocated, Finished, vars, stakeVars
<1> QED
  BY <1>1, <1>2, <1>3

(* A market failed without a verdict is in nobody's record.                *)
LEMMA MarkFailedRecords ==
    ASSUME TypeOK, NEW m \in Markets, MarkFailed(m)
    PROVE  UNCHANGED <<reputation, viaCommittee>>
<1>1. RecordAll({}, {})
  BY DEF MarkFailed, SettleAccounts, Recorded, Backers, Overturns
<1>2. reputation \in [Agents -> [agreed: Nat, overturned: Nat]]
  BY DEF TypeOK, StakeTypeOK
<1>3. reputation' = [a \in Agents |-> [agreed |-> reputation[a].agreed + 0,
                                       overturned |-> reputation[a].overturned + 0]]
  BY <1>1 DEF RecordAll
<1>4. \A a \in Agents : [agreed |-> reputation[a].agreed + 0,
                         overturned |-> reputation[a].overturned + 0] = reputation[a]
  BY <1>2
<1>5. reputation' = reputation
  BY <1>2, <1>3, <1>4
<1> QED
  BY <1>5 DEF MarkFailed

(* A verdict is in the record of those who gave it, and an overturned      *)
(* answer in the record of those who gave that.                            *)
LEMMA FinalizeRecords ==
    ASSUME TypeOK, NEW m \in Markets, Consistent(m), Counted(m), Finalize(m),
           NEW a \in Agents
    PROVE  /\ ~viaCommittee[m]
           /\ viaCommittee' = [viaCommittee EXCEPT ![m] = TRUE]
           /\ reputation'[a].agreed = reputation[a].agreed
                + (IF (a \in Voters(m, round[m].proposed))' THEN 1 ELSE 0)
           /\ reputation'[a].overturned = reputation[a].overturned
                + (IF (/\ Overturned(m)
                       /\ a \in roundOne[m]
                       /\ reveal[m][a] = roundOneOutcome[m])' THEN 1 ELSE 0)
<1>1. /\ UNCHANGED <<committee, roundOne, roundOneOutcome, reveal>>
      /\ round'[m].proposed = round[m].proposed
      /\ ~round[m].finalized
      /\ round[m].proposed # NONE
      /\ viaCommittee' = [viaCommittee EXCEPT ![m] = TRUE]
      /\ viaCommittee'[m]
  BY EndingEffect DEF voteVars, Finalize, TypeOK, ResolutionTypeOK
<1>2. ~viaCommittee[m]
  BY <1>1 DEF Consistent, Closing
<1>3. RecordAll(Agreed(m, round[m].proposed), Backers(m, round[m].proposed))
  BY <1>1 DEF Finalize, SettleAccounts, Recorded
<1>4. a \in Agreed(m, round[m].proposed) <=> (a \in Voters(m, round[m].proposed))'
  BY <1>1 DEF Agreed, Voters
<1>5. a \in Backers(m, round[m].proposed) <=>
        (/\ Overturned(m)
         /\ a \in roundOne[m]
         /\ reveal[m][a] = roundOneOutcome[m])'
  <2>1. Overturns(m, round[m].proposed) <=> Overturned(m)'
    BY <1>1 DEF Overturns, Overturned, Counted, Remembered
  <2> QED
    BY <1>1, <2>1 DEF Backers
<1> QED
  BY <1>1, <1>2, <1>3, <1>4, <1>5 DEF RecordAll

(* Counting one market more, or the same ones.                             *)
LEMMA OneMore ==
    ASSUME NEW S, IsFiniteSet(S), NEW x, x \notin S, NEW cond \in BOOLEAN, NEW T,
           T = IF cond THEN S \cup {x} ELSE S
    PROVE  /\ IsFiniteSet(T)
           /\ Cardinality(T) = Cardinality(S) + (IF cond THEN 1 ELSE 0)
BY FS_AddElement, FS_CardinalityType

(* A step writes in a record what it adds to what the record counts.       *)
LEMMA EarnedStep ==
    ASSUME RevealWindow <= DisputeWindow, EarnInv, [Next]_vars, NEW a \in Agents
    PROVE  Earned(a)'
<1>1. TypeOK /\ Earned(a) /\ \A m \in Markets : Consistent(m) /\ Counted(m)
  BY DEF EarnInv, CountInv, IInv
<1>2. \A m \in Markets : viaCommittee[m] =>
        UNCHANGED <<viaCommittee[m], committee[m], roundOne[m], reveal[m], round[m],
                    roundOneOutcome[m]>>
  BY <1>1, VerdictIsKept
<1>3. CASE UNCHANGED <<reputation, viaCommittee>>
  <2>1. AgreedWith(a)' = AgreedWith(a) /\ OverturnedOf(a)' = OverturnedOf(a)
    BY <1>2, <1>3 DEF AgreedWith, OverturnedOf, Voters, Overturned
  <2> QED
    BY <1>1, <1>3, <2>1 DEF Earned
<1>4. ASSUME NEW b \in Markets, Finalize(b)
      PROVE  Earned(a)'
  <2>1. /\ ~viaCommittee[b]
        /\ viaCommittee' = [viaCommittee EXCEPT ![b] = TRUE]
        /\ reputation'[a].agreed = reputation[a].agreed
             + (IF (a \in Voters(b, round[b].proposed))' THEN 1 ELSE 0)
        /\ reputation'[a].overturned = reputation[a].overturned
             + (IF (/\ Overturned(b)
                    /\ a \in roundOne[b]
                    /\ reveal[b][a] = roundOneOutcome[b])' THEN 1 ELSE 0)
    BY <1>1, <1>4, FinalizeRecords
  <2>2. viaCommittee'[b] /\ \A m \in Markets \ {b} : viaCommittee'[m] = viaCommittee[m]
    BY <1>1, <2>1 DEF TypeOK, ResolutionTypeOK
  <2>3. \A m \in Markets \ {b} :
          /\ m \in AgreedWith(a)' <=> m \in AgreedWith(a)
          /\ m \in OverturnedOf(a)' <=> m \in OverturnedOf(a)
    BY <1>2, <2>2 DEF AgreedWith, OverturnedOf, Voters, Overturned
  <2>4. b \notin AgreedWith(a) /\ b \notin OverturnedOf(a)
    BY <2>1 DEF AgreedWith, OverturnedOf, Overturned
  <2>5. /\ b \in AgreedWith(a)' <=> (a \in Voters(b, round[b].proposed))'
        /\ b \in OverturnedOf(a)' <=> (/\ Overturned(b)
                                       /\ a \in roundOne[b]
                                       /\ reveal[b][a] = roundOneOutcome[b])'
    BY <2>2 DEF AgreedWith, OverturnedOf
  <2>6. /\ AgreedWith(a) \subseteq Markets /\ AgreedWith(a)' \subseteq Markets
        /\ OverturnedOf(a) \subseteq Markets /\ OverturnedOf(a)' \subseteq Markets
    BY DEF AgreedWith, OverturnedOf
  <2>7. AgreedWith(a)' = IF b \in AgreedWith(a)' THEN AgreedWith(a) \cup {b}
                                                 ELSE AgreedWith(a)
    BY <2>3, <2>4, <2>6
  <2>8. OverturnedOf(a)' = IF b \in OverturnedOf(a)' THEN OverturnedOf(a) \cup {b}
                                                     ELSE OverturnedOf(a)
    BY <2>3, <2>4, <2>6
  <2>9. /\ IsFiniteSet(AgreedWith(a)')
        /\ Cardinality(AgreedWith(a)') = Cardinality(AgreedWith(a))
             + (IF b \in AgreedWith(a)' THEN 1 ELSE 0)
    <3> DEFINE more == b \in AgreedWith(a)'
    <3>1. /\ IsFiniteSet(AgreedWith(a)) /\ b \notin AgreedWith(a) /\ more \in BOOLEAN
          /\ AgreedWith(a)' = IF more THEN AgreedWith(a) \cup {b} ELSE AgreedWith(a)
      BY <1>1, <2>4, <2>7 DEF Earned
    <3> HIDE DEF more
    <3> QED
      BY <3>1, OneMore DEF more
  <2>10. /\ IsFiniteSet(OverturnedOf(a)')
         /\ Cardinality(OverturnedOf(a)') = Cardinality(OverturnedOf(a))
              + (IF b \in OverturnedOf(a)' THEN 1 ELSE 0)
    <3> DEFINE more == b \in OverturnedOf(a)'
    <3>1. /\ IsFiniteSet(OverturnedOf(a)) /\ b \notin OverturnedOf(a)
          /\ more \in BOOLEAN
          /\ OverturnedOf(a)' = IF more THEN OverturnedOf(a) \cup {b} ELSE OverturnedOf(a)
      BY <1>1, <2>4, <2>8 DEF Earned
    <3> HIDE DEF more
    <3> QED
      BY <3>1, OneMore DEF more
  <2>11. reputation'[a].agreed = Cardinality(AgreedWith(a)')
    BY <1>1, <2>1, <2>5, <2>9 DEF Earned
  <2>12. reputation'[a].overturned = Cardinality(OverturnedOf(a)')
    BY <1>1, <2>1, <2>5, <2>10 DEF Earned
  <2> QED
    BY <2>9, <2>10, <2>11, <2>12 DEF Earned
<1> QED
  BY <1>1, <1>3, <1>4, OnlyEndingsRecord, MarkFailedRecords

(* Every verdict is counted once in the record of each who gave it, every  *)
(* overturned answer once against each who gave that, and nothing else is, *)
(* where disputes last as long as reveals do: otherwise a member could     *)
(* still reveal the verdict after it is counted.                           *)
THEOREM ReputationsAreEarned ==
    ASSUME RevealWindow <= DisputeWindow
    PROVE  Spec => []ReputationIsEarned
<1>1. Init => EarnInv
  <2> SUFFICES ASSUME Init
               PROVE  EarnInv
    OBVIOUS
  <2>1. CountInv
    BY CountsStart
  <2>2. ASSUME NEW a \in Agents
        PROVE  Earned(a)
    <3>1. AgreedWith(a) = {} /\ OverturnedOf(a) = {}
      BY DEF Init, AgreedWith, OverturnedOf, Overturned
    <3>2. reputation[a].agreed = 0 /\ reputation[a].overturned = 0
      BY DEF Init, StakeInit
    <3> QED
      BY <3>1, <3>2, FS_EmptySet DEF Earned
  <2> QED
    BY <2>1, <2>2 DEF EarnInv
<1>2. EarnInv /\ [Next]_vars => EarnInv'
  <2> SUFFICES ASSUME EarnInv, [Next]_vars
               PROVE  EarnInv'
    OBVIOUS
  <2>1. CountInv'
    BY CountsStep DEF EarnInv
  <2>2. \A a \in Agents : Earned(a)'
    BY EarnedStep
  <2> QED
    BY <2>1, <2>2 DEF EarnInv
<1>3. EarnInv => ReputationIsEarned
  BY DEF EarnInv, Earned, AgreedWith, OverturnedOf, ReputationIsEarned
<1> QED
  BY <1>1, <1>2, <1>3, PTL DEF Spec

-----------------------------------------------------------------------------
(* The money.                                                              *)

Held == {m \in Markets : bond[m] = "held"}

(* The books balance and the bonds are there, however many markets share   *)
(* the balance; only a challenger's bond is ever held.                     *)
LedgerInv ==
    /\ TypeOK
    /\ totalOwed = Total(owedTo, Agents)
    /\ IsFiniteSet(Held)
    /\ balance >= totalOwed + DisputeBond * Cardinality(Held)
    /\ Challengers = {} => Held = {}

(* Equal shares of an amount do not exceed it.                             *)
LEMMA SharesFit ==
    \A pool \in Nat, count \in Nat \ {0} : (pool \div count) * count <= pool
OBVIOUS

(* Bonds are an amount.                                                    *)
LEMMA BondsType ==
    ASSUME IsFiniteSet(Held)
    PROVE  /\ Cardinality(Held) \in Nat
           /\ DisputeBond \in Nat
           /\ DisputeBond * Cardinality(Held) \in Nat
<1>1. Cardinality(Held) \in Nat /\ DisputeBond \in Nat
  BY FS_CardinalityType, ResolutionAssumption
<1> QED
  BY <1>1

(* Nothing but money comes in.                                             *)
LEMMA LedgerRises ==
    ASSUME LedgerInv, TypeOK', UNCHANGED <<owedTo, totalOwed, bond>>, balance' >= balance
    PROVE  LedgerInv'
<1>1. Held' = Held
  BY DEF Held
<1>2. /\ balance \in Int /\ balance' \in Int /\ totalOwed \in Int
      /\ DisputeBond * Cardinality(Held) \in Nat
  BY BondsType DEF LedgerInv, TypeOK, ResolutionTypeOK
<1> QED
  BY <1>1, <1>2 DEF LedgerInv

(* A dispute pays its bond in.                                             *)
LEMMA LedgerTakesBond ==
    ASSUME LedgerInv, TypeOK', NEW m \in Markets, NEW challenger \in Challengers,
           Dispute(m, challenger)
    PROVE  LedgerInv'
<1>1. /\ UNCHANGED <<owedTo, totalOwed>>
      /\ balance' = balance + DisputeBond
      /\ bond' = [bond EXCEPT ![m] = "held"]
      /\ bond \in [Markets -> BondStates]
      /\ balance \in Int /\ totalOwed \in Int
  BY DEF Dispute, LedgerInv, TypeOK, ResolutionTypeOK
<1>2. Held' = Held \cup {m}
  BY <1>1 DEF Held
<1>3. IsFiniteSet(Held') /\ Cardinality(Held') <= Cardinality(Held) + 1
  BY <1>2, BondsType, FS_AddElement DEF LedgerInv
<1>4. /\ Cardinality(Held) \in Nat /\ Cardinality(Held') \in Nat /\ DisputeBond \in Nat
  BY <1>3, BondsType, FS_CardinalityType DEF LedgerInv
<1>5. \A b, u, v \in Nat : v <= u + 1 => b * v <= b * u + b
  <2>1. \A b, u, v \in Nat : v <= u + 1 => b * v <= b * (u + 1)
    OBVIOUS
  <2>2. \A b, u \in Nat : b * (u + 1) = b * u + b
    OBVIOUS
  <2> QED
    BY <2>1, <2>2
<1>6. DisputeBond * Cardinality(Held') <= DisputeBond * Cardinality(Held) + DisputeBond
  BY <1>3, <1>4, <1>5
<1>7. /\ DisputeBond * Cardinality(Held') \in Nat
      /\ DisputeBond * Cardinality(Held) \in Nat
  BY <1>4
<1>8. balance' >= totalOwed' + DisputeBond * Cardinality(Held')
  BY <1>1, <1>4, <1>6, <1>7 DEF LedgerInv
<1>9. totalOwed' = Total(owedTo', Agents)
  BY <1>1 DEF LedgerInv
<1> QED
  BY <1>3, <1>8, <1>9 DEF LedgerInv

(* The end of a round pays no more than its market sends, and a bond that  *)
(* leaves is one that was held.                                            *)
LEMMA LedgerSettles ==
    ASSUME LedgerInv, TypeOK', NEW m \in Markets, NEW outcome,
           SettleAccounts(m, outcome)
    PROVE  LedgerInv'
<1> DEFINE agreed == Agreed(m, outcome)
           count  == Cardinality(agreed)
           each   == EachEarns(m, count)
           pool   == ToResolvers(m, FALSE)
<1>1. agreed \in SUBSET Agents
  BY DEF LedgerInv, TypeOK, ResolutionTypeOK, Agreed
<1>2. count \in Nat /\ each \in Nat /\ pool \in Nat
  BY <1>1, EachEarnsType, ToResolversType DEF LedgerInv, TypeOK
<1>3. each * count <= pool
  <2>1. each = IF count = 0 THEN 0 ELSE pool \div count
    BY DEF EachEarns
  <2> HIDE DEF each, count, pool
  <2>2. CASE count = 0
    BY <1>2, <2>1, <2>2
  <2>3. CASE count # 0
    BY <1>2, <2>1, <2>3, SharesFit
  <2> QED
    BY <2>2, <2>3
<1>4. /\ owedTo' = [a \in Agents |-> owedTo[a] + (IF a \in agreed THEN each ELSE 0)]
      /\ totalOwed' = totalOwed + each * count
  BY DEF SettleAccounts, CreditResolvers
<1> HIDE DEF agreed, count, each, pool
<1>5. /\ owedTo \in [Agents -> Nat] /\ totalOwed \in Int /\ balance \in Int
      /\ bond \in [Markets -> BondStates]
      /\ each * count \in Nat
  BY <1>2 DEF LedgerInv, TypeOK, ResolutionTypeOK
<1>6. totalOwed' = Total(owedTo', Agents)
  <2>1. \A a \in Agents : owedTo[a] \in Int
    BY <1>5
  <2>2. \A a \in Agents : owedTo'[a] = owedTo[a] + (IF a \in agreed THEN each ELSE 0)
    BY <1>4
  <2>3. Total(owedTo', Agents) = Total(owedTo, Agents) + each * Cardinality(agreed)
    BY <1>1, <1>2, <2>1, <2>2, ResolutionAssumption, TotalOfRaised
  <2> QED
    BY <1>4, <2>3 DEF LedgerInv, count
<1>7. CASE round[m].index = 2 /\ bond[m] = "held"
  <2>1. /\ bond' = [bond EXCEPT ![m] = bond'[m]]
        /\ bond'[m] \in {"refunded", "forfeited"}
        /\ balance' = balance - DisputeBond + pool
    BY <1>5, <1>7 DEF SettleAccounts, SettleDispute, pool
  <2>2. m \in Held /\ Held' = Held \ {m}
    BY <1>5, <1>7, <2>1 DEF Held
  <2>3. IsFiniteSet(Held') /\ Cardinality(Held') = Cardinality(Held) - 1
    BY <2>2, FS_RemoveElement DEF LedgerInv
  <2>4. Cardinality(Held) \in Nat /\ DisputeBond \in Nat
        /\ DisputeBond * Cardinality(Held) \in Nat
    BY BondsType DEF LedgerInv
  <2>5. DisputeBond * Cardinality(Held') = DisputeBond * Cardinality(Held) - DisputeBond
    <3>1. \A b, u \in Nat : b * (u - 1) = b * u - b
      OBVIOUS
    <3> QED
      BY <2>3, <2>4, <3>1
  <2>6. balance' >= totalOwed' + DisputeBond * Cardinality(Held')
    BY <1>2, <1>3, <1>4, <1>5, <2>1, <2>4, <2>5 DEF LedgerInv
  <2> QED
    BY <1>6, <2>2, <2>3, <2>6 DEF LedgerInv
<1>8. CASE ~(round[m].index = 2 /\ bond[m] = "held")
  <2>1. UNCHANGED bond /\ balance' = balance + pool
    BY <1>8 DEF SettleAccounts, SettleDispute, pool
  <2>2. Held' = Held
    BY <2>1 DEF Held
  <2>3. DisputeBond * Cardinality(Held) \in Nat
    BY BondsType DEF LedgerInv
  <2>4. balance' >= totalOwed' + DisputeBond * Cardinality(Held)
    BY <1>2, <1>3, <1>4, <1>5, <2>1, <2>3 DEF LedgerInv
  <2> QED
    BY <1>6, <2>2, <2>4 DEF LedgerInv
<1> QED
  BY <1>7, <1>8

(* A claim takes what its agent is owed from both sides.                   *)
LEMMA LedgerPays ==
    ASSUME LedgerInv, TypeOK', NEW a \in Agents, Claim(a)
    PROVE  LedgerInv'
<1>1. /\ owedTo' = [owedTo EXCEPT ![a] = 0]
      /\ totalOwed' = totalOwed - owedTo[a]
      /\ balance' = balance - owedTo[a]
      /\ UNCHANGED bond
      /\ owedTo \in [Agents -> Nat] /\ totalOwed \in Int /\ balance \in Int
  BY DEF Claim, bondVars, LedgerInv, TypeOK, ResolutionTypeOK
<1>2. totalOwed' = Total(owedTo', Agents)
  <2>1. /\ \A b \in Agents : owedTo[b] \in Int
        /\ owedTo'[a] = 0
        /\ \A b \in Agents \ {a} : owedTo'[b] = owedTo[b]
    BY <1>1
  <2>2. Total(owedTo', Agents) = Total(owedTo, Agents) - owedTo[a] + 0
    BY <2>1, ResolutionAssumption, TotalOfChanged
  <2> QED
    BY <1>1, <2>2 DEF LedgerInv
<1>3. Held' = Held
  BY <1>1 DEF Held
<1>4. DisputeBond * Cardinality(Held) \in Nat
  BY BondsType DEF LedgerInv
<1>5. balance' >= totalOwed' + DisputeBond * Cardinality(Held)
  BY <1>1, <1>4 DEF LedgerInv
<1> QED
  BY <1>2, <1>3, <1>5 DEF LedgerInv

(* A sweep leaves what is owed, and finds no bond to take.                 *)
LEMMA LedgerIsSwept ==
    ASSUME Challengers = {}, LedgerInv, TypeOK', NEW amount \in SweepAmounts,
           SweepUnallocated(amount)
    PROVE  LedgerInv'
<1>1. /\ UNCHANGED <<owedTo, totalOwed, bond>>
      /\ balance' = balance - amount
      /\ amount > 0 /\ amount <= Free
      /\ totalOwed \in Int /\ balance \in Int /\ amount \in Nat
  BY ResolutionAssumption DEF SweepUnallocated, bondVars, LedgerInv, TypeOK,
     ResolutionTypeOK
<1>2. balance' >= totalOwed
  BY <1>1 DEF Free
<1>3. Held = {} /\ Held' = {}
  BY <1>1 DEF LedgerInv, Held
<1>4. IsFiniteSet(Held') /\ Cardinality(Held') = 0
  BY <1>3, FS_EmptySet
<1>5. DisputeBond * 0 = 0
  BY ResolutionAssumption
<1>6. balance' >= totalOwed' + DisputeBond * Cardinality(Held')
  BY <1>1, <1>2, <1>4, <1>5
<1> QED
  BY <1>1, <1>3, <1>4, <1>6 DEF LedgerInv

(* No step lets what is owed outgrow the balance.                          *)
LEMMA LedgerStep ==
    ASSUME SweepAmounts = {} \/ Challengers = {}, LedgerInv, [Next]_vars
    PROVE  LedgerInv'
<1>0. TypeOK /\ TypeOK' /\ balance \in Int
  BY TypeStep DEF LedgerInv, TypeOK, ResolutionTypeOK
<1>1. ASSUME NEW m \in Markets, MarketNext(m)
      PROVE  LedgerInv'
  <2>1. CASE Finalize(m) \/ MarkFailed(m)
    BY <1>0, <2>1, LedgerSettles DEF Finalize, MarkFailed
  <2>2. CASE \E challenger \in Challengers : Dispute(m, challenger)
    BY <1>0, <2>2, LedgerTakesBond
  <2>3. CASE MarketOnly(m)
    <3>1. ToResolvers(m, FALSE) \in Nat /\ ToResolvers(m, TRUE) \in Nat
      BY <1>0, ToResolversType DEF TypeOK
    <3>2. /\ UNCHANGED <<owedTo, totalOwed, bond>>
          /\ balance' \in {balance, balance + ToResolvers(m, FALSE),
                           balance + ToResolvers(m, TRUE)}
      BY <2>3 DEF MarketOnly, Close, Fail, Void, DirectSettle, DirectFail, DirectMark,
         bondVars, ledgerVars
    <3>3. balance' >= balance
      <4>1. \A i \in Int, x \in Nat : i + x >= i /\ i >= i
        OBVIOUS
      <4> QED
        BY <1>0, <3>1, <3>2, <4>1
    <3> QED
      BY <1>0, <3>2, <3>3, LedgerRises
  <2>4. CASE \/ RequestResolution(m) \/ DrawAges(m) \/ OpenResolution(m)
             \/ OpenDisputeRound(m)
             \/ \E a \in Agents, outcome \in VoteChoices : CommitVote(m, a, outcome)
             \/ \E a \in Agents : RevealVote(m, a)
    <3>1. UNCHANGED <<owedTo, totalOwed, bond, balance>>
      BY <2>4 DEF RequestResolution, DrawAges, OpenResolution, OpenDisputeRound,
         CommitVote, RevealVote, bondVars, ledgerVars
    <3> QED
      BY <1>0, <3>1, LedgerRises
  <2> QED
    BY <1>1, <2>1, <2>2, <2>3, <2>4 DEF MarketNext, MarketOnly
<1>2. ASSUME NEW a \in Agents, AgentNext(a)
      PROVE  LedgerInv'
  <2>1. CASE Claim(a)
    BY <1>0, <2>1, LedgerPays
  <2>2. CASE ~Claim(a)
    <3>1. UNCHANGED <<owedTo, totalOwed, bond, balance>>
      BY <1>2, <2>2 DEF AgentNext, Stake, RequestUnstake, WithdrawUnstaked,
         SetOperator, bondVars, ledgerVars
    <3> QED
      BY <1>0, <3>1, LedgerRises
  <2> QED
    BY <2>1, <2>2
<1>3. CASE \E amount \in SweepAmounts : SweepUnallocated(amount)
  BY <1>0, <1>3, LedgerIsSwept
<1>4. CASE Time \/ Finished \/ UNCHANGED vars
  <2>1. UNCHANGED <<owedTo, totalOwed, bond, balance>>
    BY <1>4 DEF Time, Finished, vars, bondVars, ledgerVars
  <2> QED
    BY <1>0, <2>1, LedgerRises
<1> QED
  BY <1>1, <1>2, <1>3, <1>4 DEF Next

(* The module can pay what it owes and every bond it holds, where bonds    *)
(* and sweeps are not both there: a sweep does not reserve bonds.          *)
THEOREM LedgerIsCovered ==
    ASSUME SweepAmounts = {} \/ Challengers = {}
    PROVE  Spec => []LedgerCovered
<1>1. Init => LedgerInv
  <2> SUFFICES ASSUME Init
               PROVE  LedgerInv
    OBVIOUS
  <2>1. Held = {}
    BY DEF Init, Held
  <2>2. Total(owedTo, Agents) = 0
    <3>1. Total(owedTo, Agents) = 0 * Total(owedTo, Agents)
      <4>1. \A a \in Agents : owedTo[a] \in Int /\ owedTo[a] = 0 * owedTo[a]
        BY DEF Init
      <4> QED
        BY <4>1, ResolutionAssumption, TotalOfMultiples
    <3>2. Total(owedTo, Agents) \in Int
      BY ResolutionAssumption, TotalOfMembers DEF Init
    <3> QED
      BY <3>1, <3>2
  <2>3. IsFiniteSet(Held) /\ Cardinality(Held) = 0
    BY <2>1, FS_EmptySet
  <2>4. DisputeBond * 0 = 0
    BY ResolutionAssumption
  <2> QED
    BY <2>1, <2>2, <2>3, <2>4, TypeStart DEF LedgerInv, Init
<1>2. LedgerInv /\ [Next]_vars => LedgerInv'
  BY LedgerStep
<1>3. LedgerInv => LedgerCovered
  <2>1. MapThenSumSet(LAMBDA a : owedTo[a], Agents) = Total(owedTo, Agents)
    BY DEF Total
  <2> QED
    BY <2>1 DEF LedgerInv, LedgerCovered, Held
<1> QED
  BY <1>1, <1>2, <1>3, PTL DEF Spec
=============================================================================
