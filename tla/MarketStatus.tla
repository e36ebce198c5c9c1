---------------------------- MODULE MarketStatus ----------------------------
(***************************************************************************)
(* The lifecycle half of core/Market.sol, for a set of markets: the status *)
(* machine, the clock guards on it, and the fees and deposit that leave    *)
(* the market at its terminal transition.  The pool, the trades and the    *)
(* exits are not here; trading stops before any of these transitions       *)
(* except `void`, so what a market owes the resolver pool is taken as      *)
(* fixed from the start.                                                   *)
(*                                                                         *)
(* `markProposed`, `markDisputed`, `settle` and the module branch of       *)
(* `fail` are called only by the ResolutionModule, so they are operators   *)
(* that its actions conjoin.                                               *)
(***************************************************************************)
EXTENDS Chain

CONSTANTS
    Markets,              \* clones known to the factory
    TradingEnd,           \* when `close` becomes possible
    SettlementDeadline,   \* when anybody may fail an unresolved market
    ProposedFailGrace,    \* PROPOSED_FAIL_GRACE
    ResolverFeeShareBps,  \* the resolver pool's share of the fees
    FeesAtClose,          \* fees a market may have accrued by trading
    Deposit               \* the creator's settlement deposit

ASSUME MarketAssumption ==
    /\ TradingEnd \in Nat
    /\ SettlementDeadline \in Nat
    /\ TradingEnd < SettlementDeadline
    /\ ProposedFailGrace \in Nat
    /\ ResolverFeeShareBps \in 0..BPS
    /\ FeesAtClose \subseteq Nat
    /\ Deposit \in Nat

VARIABLES status, winningOutcome, feeAccrued, settlementDeposit

marketVars == <<status, winningOutcome, feeAccrued, settlementDeposit>>

MarketTypeOK ==
    /\ status \in [Markets -> Statuses]
    /\ winningOutcome \in [Markets -> {NO, YES}]
    /\ feeAccrued \in [Markets -> Nat]
    /\ settlementDeposit \in [Markets -> Nat]

MarketInit ==
    /\ status = [m \in Markets |-> "Open"]
    /\ winningOutcome = [m \in Markets |-> NO]
    /\ feeAccrued \in [Markets -> FeesAtClose]
    /\ settlementDeposit = [m \in Markets |-> Deposit]

(* Mutant: a settled market can still be ended another way.                *)
EndedUnpaid(m) == status[m] \in {"Failed", "Voided"}

Terminal(m) == status[m] \in TerminalStatuses

SetStatus(m, next) == status' = [status EXCEPT ![m] = next]

(* What `_distributeFees` sends to the resolver pool.  On a void the       *)
(* deposit goes to the treasury instead.                                   *)
ToResolvers(m, slashDeposit) ==
    (feeAccrued[m] * ResolverFeeShareBps) \div BPS
      + (IF slashDeposit THEN 0 ELSE settlementDeposit[m])

DistributeFees(m) ==
    /\ feeAccrued' = [feeAccrued EXCEPT ![m] = 0]
    /\ settlementDeposit' = [settlementDeposit EXCEPT ![m] = 0]

CloseMarket(m) ==
    /\ status[m] = "Open"
    /\ now >= TradingEnd
    /\ SetStatus(m, "Closed")
    /\ UNCHANGED <<winningOutcome, feeAccrued, settlementDeposit>>

MarkMarketProposed(m) ==
    /\ status[m] \in {"Closed", "Disputed"}
    /\ SetStatus(m, "Proposed")
    /\ UNCHANGED <<winningOutcome, feeAccrued, settlementDeposit>>

MarkMarketDisputed(m) ==
    /\ status[m] = "Proposed"
    /\ SetStatus(m, "Disputed")
    /\ UNCHANGED <<winningOutcome, feeAccrued, settlementDeposit>>

SettleMarket(m, outcome) ==
    /\ status[m] \in {"Closed", "Proposed", "Disputed"}
    /\ outcome \in {NO, YES}
    /\ winningOutcome' = [winningOutcome EXCEPT ![m] = outcome]
    /\ SetStatus(m, "Settled")
    /\ DistributeFees(m)

(* Mutant: no grace for an answered market.                                *)
FailOpenAtDeadline(m) == SettlementDeadline

(* The moment from which anybody may call `Market.fail`.                   *)
FailOpenAt(m) ==
    SettlementDeadline + (IF status[m] = "Proposed" THEN ProposedFailGrace ELSE 0)

(* Mutant: the rescue is the module's alone.                               *)
MayFailIfModule(m, byModule) == byModule

MayFail(m, byModule) == byModule \/ now >= FailOpenAt(m)

FailMarket(m, byModule) ==
    /\ MayFail(m, byModule)
    /\ now >= TradingEnd
    /\ ~Terminal(m)
    /\ SetStatus(m, "Failed")
    /\ DistributeFees(m)
    /\ UNCHANGED winningOutcome

VoidMarket(m) ==
    /\ status[m] = "Open"
    /\ SetStatus(m, "Voided")
    /\ DistributeFees(m)
    /\ UNCHANGED winningOutcome
=============================================================================
