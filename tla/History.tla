------------------------------- MODULE History -------------------------------
(***************************************************************************)
(* A market with its past: Pool, and the Trade events it emits, which is   *)
(* all that frontend/src/lib/data/logs.ts rebuilds its history from.       *)
(*                                                                         *)
(* The blocks are the ticks of the clock, so the trades of one tick share  *)
(* a timestamp and differ in the index of their log.  A trade goes to the  *)
(* one who makes it, as everywhere in Pool.                                *)
(***************************************************************************)
EXTENDS Pool, Sequences, SequencesExt

CONSTANTS
    FirstLogIndex,    \* of a block's first Trade, after its other logs
    MaxTrades,        \* bound on the log
    MaxMoved          \* bound on moved, beyond which nobody transfers

ASSUME HistoryAssumption ==
    /\ FirstLogIndex \in Nat
    /\ MaxTrades \in Nat
    /\ MaxMoved \in Nat
    /\ FirstLogIndex + MaxTrades < 100

VARIABLES
    log,              \* the Trade events, as the chain orders them
    moved             \* auxiliary: whose shares moved other than by a trade

historyVars == <<poolVars, log, moved>>

(* How many trades the present block has so far.                           *)
InBlock == Cardinality({i \in 1..Len(log) : log[i].block = now})

(* `Trade`: the money is what changed hands, the fee within it.            *)
Event(h, side, delta) ==
    [block       |-> now,
     logIndex    |-> FirstLogIndex + InBlock,
     trader      |-> h,
     outcome     |-> side,
     sharesDelta |-> delta,
     tokens      |-> IF delta > 0 THEN held' - held ELSE held - held',
     fee         |-> feeAccrued'[Market] - feeAccrued[Market],
     qAfter      |-> q']

HistoryInit == Init /\ log = <<>> /\ moved = {}

Trading(h, side, n) ==
    /\ Len(log) < MaxTrades
    /\ \/ Buy(h, side, n)  /\ log' = Append(log, Event(h, side, n))
       \/ Sell(h, side, n) /\ log' = Append(log, Event(h, side, -n))
    /\ UNCHANGED moved

(* A transfer, a redemption and a liquidation move shares without a Trade. *)
Moving(h) ==
    /\ \/ (Redeem(h) \/ Liquidate(h)) /\ moved' = moved \union {h}
       \/ \E to \in Holders, side \in Sides, n \in TradeSizes :
             /\ Cardinality(moved) < MaxMoved
             /\ Transfer(h, to, side, n)
             /\ moved' = moved \union {h, to}
    /\ UNCHANGED log

(* Everything else leaves the shares where they are.                       *)
Elsewhere ==
    /\ \/ PassTime
       \/ Provision
       \/ Advance
       \/ \E outcome \in Sides : Settle(outcome)
       \/ Abandon
       \/ SweepUnclaimed
    /\ UNCHANGED <<log, moved>>

HistoryNext ==
    \/ \E h \in Holders, side \in Sides, n \in TradeSizes : Trading(h, side, n)
    \/ \E h \in Holders : Moving(h)
    \/ Elsewhere

HistorySpec == HistoryInit /\ [][HistoryNext]_historyVars
=============================================================================
