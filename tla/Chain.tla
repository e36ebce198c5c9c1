------------------------------- MODULE Chain -------------------------------
(***************************************************************************)
(* What every contract of Brier shares: the block timestamp, the outcomes  *)
(* a committee may vote for (interfaces/IResolutionModule.sol), the basis  *)
(* point scale, and the states of a market (interfaces/IMarket.sol).       *)
(***************************************************************************)
EXTENDS Integers

CONSTANT MaxTime    \* bound on the clock, for TLC only

ASSUME MaxTimeAssumption == MaxTime \in Nat

VARIABLE now        \* block.timestamp

NO           == 0
YES          == 1
UNRESOLVABLE == 2
NONE         == 3   \* not a vote: the absence of one

Outcomes == {NO, YES, UNRESOLVABLE}

BPS == 10000

Statuses == {"Open", "Closed", "Proposed", "Disputed",
             "Settled", "Failed", "Voided"}

TerminalStatuses == {"Settled", "Failed", "Voided"}

(* Timestamps are positive, which `ResolutionModule.dispute` relies on:    *)
(* a deadline never written is zero, and zero is in the past.              *)
ChainInit == now = 1

Tick == /\ now < MaxTime
        /\ now' = now + 1
=============================================================================
