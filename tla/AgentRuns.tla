------------------------------ MODULE AgentRuns ------------------------------
(***************************************************************************)
(* One key that runs the scripts of agent-kit/examples against a market    *)
(* others trade too: trade.ts, redeem.ts and register.ts, over client.ts.  *)
(*                                                                         *)
(* A script is a process that reads, awaits, and sends one transaction at  *)
(* a time, waiting for its receipt.  Between any two of its reads the      *)
(* market may move.  It dies of any failed read, of the 120 seconds a      *)
(* receipt may take, or at the operator's hand, and what it sent stays in  *)
(* the mempool: the key's transactions are mined in the order of their     *)
(* nonces, some after their script is gone and another has begun.          *)
(*                                                                         *)
(* Left out: several markets, liquidity, which moves the book as a trade   *)
(* does, wrapping the native currency, and whatever else may pay the       *)
(* agent's account but the market it trades.                               *)
(***************************************************************************)
EXTENDS Client

CONSTANTS
    Agent,
    FreeAtStart,      \* collateral the agent holds
    Beliefs,          \* what the model may answer, a probability of YES
    CreatorFeeShareBps, \* the creator's share of the fees
    MaxRuns,          \* bound on the scripts started
    MaxOthers         \* bound on the trades of the others

ASSUME AgentAssumption ==
    /\ Agent \in Holders
    /\ FreeAtStart \in Nat
    /\ Beliefs \subseteq 0..WAD
    /\ CreatorFeeShareBps \in 0..BPS
    /\ {MaxRuns, MaxOthers} \subseteq Nat

VARIABLES
    required,         \* ConfigRegistry REQUIRE_REGISTERED_TRADER
    identity,         \* the role of the agent the key operates, or "none"
    free,             \* collateral.balanceOf(agent)
    allowance,        \* collateral.allowance(agent, market)
    sent,             \* the key's transactions not mined yet, by nonce
    run,              \* the present script and its variables
    others            \* auxiliary: trades of the others so far

walletVars == <<free, allowance>>
agentVars  == <<poolVars, required, identity, walletVars, sent, run, others>>

-----------------------------------------------------------------------------
(* A script.  `seen` collects every supply it decided on, `alone` is       *)
(* whether none but its own transaction was pending when it read its       *)
(* balance, `moved` what that transaction really moved and `said` what the *)
(* script then reported, {} before it does: these four are auxiliary.      *)
(* `gated` is {} until it is read.                                         *)

NoRun ==
    [n |-> 0, script |-> "none", pc |-> "ended", verb |-> "none", seen |-> {},
     role |-> "none", side |-> NO, belief |-> 0, budget |-> 0, cap |-> 0, shares |-> 0,
     bound |-> 0, before |-> 0, gated |-> {}, alone |-> TRUE, moved |-> 0, said |-> {}]

AgentInit ==
    /\ Init
    /\ required \in BOOLEAN
    /\ identity = "none"
    /\ free = FreeAtStart
    /\ allowance = 0
    /\ sent = <<>>
    /\ run = NoRun
    /\ others = 0

At(script, pc) == run.script = script /\ run.pc = pc

Goto(pc) == run' = [run EXCEPT !.pc = pc]

(* A refusal, an exit or an uncaught error: the process is over.  All of   *)
(* its variables go with it but what it had reported.                      *)
End ==
    run' = [NoRun EXCEPT !.n = run.n, !.alone = run.alone, !.moved = run.moved, !.said = run.said]

Starts(script) ==
    /\ run.pc = "ended"
    /\ run.n < MaxRuns
    /\ run' = [NoRun EXCEPT !.n = run.n + 1, !.script = script, !.pc = "view"]
    /\ UNCHANGED <<poolVars, required, identity, walletVars, sent, others>>

-----------------------------------------------------------------------------
(* client.send.  The wallet estimates the gas first, which executes the    *)
(* call on the present state and throws if it reverts; what is then mined  *)
(* may find another state.                                                 *)

GateTakes == ~required \/ identity = "Trader"

BuyTaken(t) ==
    LET cost == QuoteBuy(t.side, t.shares)
    IN /\ TradingOpen /\ GateTakes
       /\ t.shares > 0
       /\ QAfterBuy(q, t.side, t.shares)[t.side] <= MaxQ
       /\ NetCost(t.side, t.shares) >= MinTradeTokens
       /\ cost <= Min({t.bound, allowance, free})

SellTaken(t) ==
    /\ TradingOpen /\ GateTakes
    /\ t.shares \in 1..Min({q[t.side] - seedSupply[t.side], shares[Agent][t.side]})
    /\ Gross(t.side, t.shares) >= MinTradeTokens
    /\ QuoteSell(t.side, t.shares) >= t.bound
    /\ held >= QuoteSell(t.side, t.shares)

(* What the key asks of the AgentRegistry.                                 *)
Naming == {"register", "rename"}

Taken(t) ==
    CASE t.verb = "approve"   -> TRUE
      [] t.verb = "register"  -> identity = "none"
      [] t.verb = "rename"    -> identity # "none"
      [] t.verb = "buy"       -> BuyTaken(t)
      [] t.verb = "sell"      -> SellTaken(t)
      [] t.verb = "redeem"    -> status[Market] = "Settled" /\ ~swept
                                   /\ Claimable(Agent, winningOutcome[Market]) > 0
      [] t.verb = "liquidate" -> status[Market] \in {"Failed", "Voided"} /\ ~swept
                                   /\ \E i \in Sides : Claimable(Agent, i) > 0

Transaction ==
    [run |-> run.n, verb |-> run.verb, role |-> run.role, side |-> run.side, shares |-> run.shares, bound |-> run.bound,
     seen |-> run.seen, belief |-> run.belief, budget |-> run.budget]

(* A name may be another's by the time it is asked for, and an agent may   *)
(* belong to somebody other than the key that acts for it.                 *)
Refused(t) == ~Taken(t) \/ t.verb \in Naming

Sends(t) ==
    \/ Taken(t) /\ sent' = Append(sent, t) /\ Goto("receipt")
    \/ Refused(t) /\ End /\ UNCHANGED sent

(* What a mined transaction does to the market.                            *)
Executes(t) ==
    \/ t.verb \in Naming \union {"approve"} /\ UNCHANGED poolVars
    \/ t.verb = "buy" /\ Buy(Agent, t.side, t.shares)
    \/ t.verb = "sell" /\ Sell(Agent, t.side, t.shares)
    \/ t.verb = "redeem" /\ Redeem(Agent)
    \/ t.verb = "liquidate" /\ Liquidate(Agent)

(* The collateral a transaction moves is what the market gains or loses.   *)
(* The script that sent it, if it still waits, learns that it succeeded or *)
(* stops.                                                                  *)
Mined ==
    /\ sent # <<>>
    /\ sent' = Tail(sent)
    /\ LET t     == Head(sent)
           waits == run.n = t.run /\ run.pc = "receipt"
       IN \/ /\ Taken(t)
             /\ Executes(t)
             /\ free' = free - (held' - held)
             /\ allowance' = CASE t.verb = "approve" -> t.bound
                               [] t.verb = "buy"     -> allowance - (held' - held)
                               [] OTHER              -> allowance
             /\ identity' = IF t.verb = "register" THEN t.role ELSE identity
             /\ run' = IF ~waits THEN run
                       ELSE [run EXCEPT !.pc = IF t.verb = "approve" THEN "gate" ELSE "after",
                                        !.moved = held - held', !.said = {}]
          \/ /\ Refused(t)
             /\ UNCHANGED <<poolVars, walletVars, identity>>
             /\ IF waits THEN End ELSE UNCHANGED run
    /\ UNCHANGED <<required, others>>

(* The operator, the 120 seconds, or a read that failed.                   *)
Dies ==
    /\ run.pc # "ended"
    /\ End
    /\ UNCHANGED <<poolVars, required, identity, walletVars, sent, others>>
=============================================================================
