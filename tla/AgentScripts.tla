----------------------------- MODULE AgentScripts -----------------------------
(***************************************************************************)
(* The scripts of agent-kit/examples, a step for each of their round       *)
(* trips, and the world they run in.                                       *)
(***************************************************************************)
EXTENDS AgentRuns

(* A step that only reads leaves everything but the script's variables.    *)
Reading == UNCHANGED <<poolVars, required, identity, walletVars, sent, others>>

(* examples/trade.ts, the listing: only an Open market is traded.          *)
ListsMarket ==
    /\ At("trade", "view")
    /\ IF status[Market] = "Open"
       THEN run' = [run EXCEPT !.pc = "believe", !.seen = {q}]
       ELSE End
    /\ Reading

(* The belief, refused if the enclave did not sign it, and the side, the   *)
(* bankroll and the limit it comes to on the market as it was listed.      *)
Believes ==
    /\ At("trade", "believe")
    /\ \E belief \in Beliefs, attested \in BOOLEAN, listed \in run.seen :
          LET side == CheapSide(listed, belief)
          IN IF ~attested \/ Edge(listed, side, belief) <= 0
             THEN End
             ELSE run' = [run EXCEPT !.pc = "size", !.side = side,
                                     !.belief = BeliefOn(belief, side),
                                     !.budget = KellyTokens(listed, side, belief, free),
                                     !.cap = ImpactCap(listed, side, belief)]
    /\ Reading

(* client.sizeWithinImpact, on the market read again.                      *)
Sizes ==
    /\ At("trade", "size")
    /\ run' = [run EXCEPT !.pc = "invert", !.seen = @ \union {q},
                          !.budget = SizeWithinImpact(q, run.side, run.budget, run.cap)]
    /\ Reading

(* client.quoteBuySpend, then client.previewBuy.                           *)
Inverts ==
    /\ At("trade", "invert")
    /\ LET n == QuoteBuySpend(run.side, run.budget)
       IN IF n = 0 THEN End
          ELSE run' = [run EXCEPT !.pc = "preview", !.seen = @ \union {q}, !.shares = n]
    /\ Reading

Previews ==
    /\ At("trade", "preview")
    /\ IF QAfterBuy(q, run.side, run.shares)[run.side] > MaxQ THEN End
       ELSE run' = [run EXCEPT !.pc = "allow", !.verb = "buy", !.seen = @ \union {q},
                               !.bound = MaxTokensIn(QuoteBuy(run.side, run.shares))]
    /\ Reading

(* client.ensureAllowance: exactly what this order may cost.               *)
Allows ==
    /\ At("trade", "allow")
    /\ IF allowance >= run.bound THEN Goto("gate") /\ UNCHANGED sent
       ELSE Sends([Transaction EXCEPT !.verb = "approve"])
    /\ UNCHANGED <<poolVars, required, identity, walletVars, others>>

(* client.requireIdentityIfGated, asked once in a script: an unreadable    *)
(* config counts as no gate.  Exits are never gated.  Then the balance     *)
(* from which the order will be measured.                                  *)
GateRead(readable) == IF run.gated # {} THEN run.gated ELSE {required /\ readable}

Gate ==
    /\ run.pc = "gate"
    /\ \E readable \in BOOLEAN :
          IF run.verb \in {"buy", "sell"} /\ TRUE \in GateRead(readable) /\ identity # "Trader"
          THEN End
          ELSE run' = [run EXCEPT !.pc = "send", !.before = free, !.alone = (sent = <<>>),
                                  !.gated = GateRead(readable), !.said = {}]
    /\ Reading

Orders ==
    /\ run.pc = "send"
    /\ Sends(Transaction)
    /\ UNCHANGED <<poolVars, required, identity, walletVars, others>>

(* Mutant: the fill as it was bounded when it was quoted.                  *)
Quoted == IF run.verb = "buy" THEN -run.bound ELSE run.bound

(* client.fillFrom and client.claim: measured, not quoted.                 *)
Measured == free - run.before

(* A purchase is followed by the sale of a third of what it bought.        *)
Reports ==
    /\ run.pc = "after"
    /\ run' = CASE run.verb = "buy"       -> [run EXCEPT !.pc = "quote", !.said = {Measured}]
                [] run.verb \in Naming -> [NoRun EXCEPT !.n = run.n]
                [] OTHER -> [NoRun EXCEPT !.n = run.n, !.alone = run.alone, !.moved = run.moved,
                                          !.said = {Measured}]
    /\ Reading

QuotesSale ==
    /\ At("trade", "quote")
    /\ LET third == run.shares \div 3
       IN IF third \in 1..q[run.side]
          THEN run' = [run EXCEPT !.pc = "gate", !.verb = "sell", !.shares = third,
                                  !.bound = MinTokensOut(QuoteSell(run.side, third))]
          ELSE End
    /\ Reading

(* examples/redeem.ts: by the way the market ended, or not at all.         *)
ClaimVerb ==
    CASE status[Market] = "Settled"              -> "redeem"
      [] status[Market] \in {"Failed", "Voided"} -> "liquidate"
      [] OTHER                                   -> "none"

ViewsClaim ==
    /\ At("redeem", "view")
    /\ IF ClaimVerb = "none" THEN End
       ELSE run' = [run EXCEPT !.pc = "gate", !.verb = ClaimVerb]
    /\ Reading

(* client.registerAgent: a name already taken is refused before any gas is *)
(* spent, and so is a key that already acts, which did not a moment ago.   *)
Registers(nameTaken) ==
    IF nameTaken THEN End
    ELSE \E role \in {"Trader", "Resolver"} :
            run' = [run EXCEPT !.pc = "send", !.verb = "register", !.role = role]

(* examples/register.ts: an agent that is registered is renamed, if it is  *)
(* not called that already, and the name is not looked up first.           *)
ChecksName ==
    /\ At("register", "view")
    /\ \E nameTaken, ownName \in BOOLEAN :
          IF identity = "none" THEN Registers(nameTaken)
          ELSE IF ownName THEN End
          ELSE run' = [run EXCEPT !.pc = "send", !.verb = "rename"]
    /\ Reading

-----------------------------------------------------------------------------
(* The world.                                                              *)

OthersTrade ==
    /\ others < MaxOthers
    /\ \E h \in Holders \ {Agent}, side \in Sides, n \in TradeSizes :
          Buy(h, side, n) \/ Sell(h, side, n)
    /\ others' = others + 1
    /\ UNCHANGED <<required, identity, walletVars, sent, run>>

Governs == /\ required' = ~required
           /\ ~required
           /\ UNCHANGED <<poolVars, identity, walletVars, sent, run, others>>

(* Market._distributeFees: what the creator is sent of them.              *)
CreatorFee == (feeAccrued[Market] * CreatorFeeShareBps) \div BPS

(* The fees of a market that ends reach its creator in the same step.      *)
Ends == /\ \/ (PassTime \/ Advance) /\ UNCHANGED free
           \/ /\ Abandon \/ \E outcome \in Sides : Settle(outcome)
              /\ free' = free + (IF Agent = Creator THEN CreatorFee ELSE 0)
        /\ UNCHANGED <<required, identity, allowance, sent, run, others>>

Trades == ListsMarket \/ Believes \/ Sizes \/ Inverts \/ Previews \/ Allows \/ QuotesSale

AgentNext ==
    \/ \E script \in {"trade", "redeem", "register"} : Starts(script)
    \/ Trades
    \/ ViewsClaim
    \/ ChecksName
    \/ Gate \/ Orders \/ Reports
    \/ Mined
    \/ Dies
    \/ OthersTrade
    \/ Governs
    \/ Ends

AgentSpec == AgentInit /\ [][AgentNext]_agentVars

-----------------------------------------------------------------------------
(* As long as the market stays where the script saw it, at every one of    *)
(* its readings and up to the block it trades in, an order moves the       *)
(* probability no further than the belief (trade.ts "Every share past 70%  *)
(* is one the agent's OWN model says is overpriced") and costs no more     *)
(* than was budgeted for it, but for the unit its fee is rounded by.       *)
BuysOnlyItsEdge ==
    [][LET t == Head(sent)
       IN (sent # <<>> /\ sent' = Tail(sent) /\ t.verb = "buy" /\ t.seen = {q} /\ q' # q) =>
            /\ Probability(q', t.side) <= t.belief
            /\ held' - held <= t.budget + 1]_agentVars

(* What a script reports of a fill or a claim is what its transaction      *)
(* moved, wherever the market went between the quote and the block, unless *)
(* a transaction of an earlier script was still on its way when it read    *)
(* its balance.  It does not hold of an agent that created the market,     *)
(* whose share of the fees may reach it between the two readings.          *)
FillIsItsOwn == run.alone => run.said \subseteq {run.moved}
=============================================================================
