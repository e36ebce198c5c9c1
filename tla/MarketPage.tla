----------------------------- MODULE MarketPage -----------------------------
(***************************************************************************)
(* The page of one market, app/market/[address]/MarketView.tsx and the     *)
(* panels of components/market it is made of, for the market of History.   *)
(* Every panel unwraps a query of its own, so one may stand beside another *)
(* that is still loading or has failed.                                    *)
(*                                                                         *)
(* What the reader has clicked is `ui`: the tab in front, the agent whose  *)
(* trades are shown, and the width of the chart's buckets.                 *)
(***************************************************************************)
EXTENDS Boards, Chart

Nobody == "nobody"

UI(tab, agent, width) == [tab |-> tab, agent |-> agent, interval |-> width]

FreshUI(width) == UI("holdings", Nobody, width)

(* Picking an agent is a question about the tape, so it moves there.       *)
ShowAgent(ui, agent) == [ui EXCEPT !.agent = agent, !.tab = "activity"]

PickInterval(ui, width) == [ui EXCEPT !.interval = width]

-----------------------------------------------------------------------------
(* ProbabilityPanel.tsx: two floors, and a bar drawn from the first.       *)
EstimatePanel(m) ==
    [current |-> m.winner = Unknown,
     yes     |-> Probability(m.q, YES),
     no      |-> Probability(m.q, NO),
     bar     |-> ToUnit(Probability(m.q, YES))]

(* PayoutPanel.tsx: once there is an answer the other side pays nothing.   *)
PayoutPanel(m) ==
    [fixed |-> m.winner # Unknown,
     pays  |-> [side \in Sides |->
                  IF m.winner \in {Unknown, Known(side)} THEN PayoutPerShare(m.q, side) ELSE 0]]

(* MarketStats.tsx: the volume stands or falls with the tape, alone.       *)
Volume(trades) == Slot(trades, [shown |-> "figure", tokens |-> VolumeOf(trades.data)])

MarketStats(m, trades) == [volume |-> Volume(trades), depth |-> ToTokensFloor(m.poolWad)]

-----------------------------------------------------------------------------
(* PositionsTable.tsx: after a settlement the last column is what the row  *)
(* redeems for, before it the price of another share.                      *)
PositionsBody(m, positions, mayPick) ==
    [shown |-> "table",
     picks |-> mayPick,
     rows  |-> {[p    |-> p,
                 last |-> IF m.winner = Unknown THEN Price(m.q, p.outcome)
                          ELSE RedeemsFor(m, p)[1]] : p \in positions}]

(* TradeTape.tsx: a narrowed tape says how much of it is hidden.           *)
TradeTapeBody(tape, agent) ==
    LET mine == SelectSeq(tape, LAMBDA t : agent \in {Nobody, t.trader})
    IN [shown  |-> "table",
        trades |-> mine,
        stated |-> IF agent = Nobody THEN Unknown ELSE Known(<<Len(mine), Len(tape)>>)]

(* MarketActivity.tsx: both tabs are filled, one is in front.  An agent    *)
(* can be picked only once there is a tape to show.                        *)
MarketActivity(m, ui, positions, trades) ==
    [front    |-> ui.tab,
     holdings |-> Slot(positions, PositionsBody(m, positions.data, trades.status = "ready")),
     activity |-> Slot(trades, TradeTapeBody(trades.data, ui.agent))]

-----------------------------------------------------------------------------
(* The badge goes by the page's clock, the countdown beside it by the      *)
(* status and by a clock of its own.                                       *)
Heading(m, clock, tick) ==
    [badge     |-> TradingState(m, clock),
     countdown |-> IF m.status = "Open" THEN Known(Countdown(m.tradingEnd, tick)) ELSE Unknown]

ChartPanel(candles) == Slot(candles, [shown |-> "chart", chart |-> ProbabilityChart(candles.data)])

MarketBody(m, ui, answers, clock, tick) ==
    [shown      |-> "market",
     heading    |-> Heading(m, clock, tick),
     estimate   |-> EstimatePanel(m),
     payout     |-> PayoutPanel(m),
     chart      |-> ChartPanel(answers.candles),
     activity   |-> MarketActivity(m, ui, answers.positions, answers.trades),
     stats      |-> MarketStats(m, answers.trades),
     lifecycle  |-> Reached(m),
     settlement |-> m.status = "Settled"]

(* Nothing of the page until the market itself has been read.              *)
MarketView(market, ui, answers, clock, tick) ==
    Slot(market, MarketBody(market.data, ui, answers, clock, tick))
=============================================================================
