--------------------------- MODULE PagesProperties ---------------------------
(***************************************************************************)
(* What a reader of the pages may rely on, stated over History and what    *)
(* Pages, Boards, Chart and MarketPage make of it.                         *)
(***************************************************************************)
EXTENDS MarketPage

(* derive.ts replays the trades of one second backwards, so what it        *)
(* rebuilds is only promised to agents with none to confuse.               *)
TradedTwiceInASecond(h, side) ==
    \E i, j \in DOMAIN log :
       /\ i # j
       /\ log[i].block = log[j].block
       /\ \A k \in {i, j} : log[k].trader = h /\ log[k].outcome = side

Rebuilt(h, side) ==
    LET mine == {p \in PositionsFrom(ReadTape(log)) : p.agent = h /\ p.outcome = side}
    IN MapThenSumSet(LAMBDA p : p.shares, mine)

(* The two tabs of a market: the trades an agent's row leads to add up to  *)
(* the shares of that row, so a holding can be seen being built            *)
(* (PositionsTable.tsx "show me how this holding was built"), and a tape   *)
(* narrowed to one agent says truly how much it hides.                     *)
HoldingsAreExplained ==
    \A h \in Holders \ moved :
       LET ui   == ShowAgent(FreshUI(1), h)
           page == MarketActivity(Summary, ui, Query("ready", PositionsFrom(ReadTape(log))),
                                  Query("ready", GetTrades(log, TapeLimit)))
           tape == page.activity
           net(side) == FoldLeft(LAMBDA sum, t : sum + t.sharesDelta, 0,
                                 SelectSeq(tape.trades, LAMBDA t : t.outcome = side))
       IN /\ page.front = "activity"
          /\ tape.stated[1][2] = Min({TapeLimit, Len(log)})
          /\ tape.stated[1][1] + Cardinality({i \in DOMAIN log : log[i].trader # h}) <= Len(log)
          /\ Len(log) <= TapeLimit =>
               \A side \in Sides : ~TradedTwiceInASecond(h, side) =>
                 net(side) = MapThenSumSet(LAMBDA r : r.p.shares,
                               {r \in page.holdings.rows : r.p.agent = h /\ r.p.outcome = side})

(* The rate on the page is the rate `settle` froze, found from q alone: it *)
(* is below it by no more than the unit between the cost rounded up and    *)
(* down, and above by no more than the rounding of the marginal price adds.*)
(* A winning share never pays less than one, and a losing one pays nothing *)
(* (FinalOutcome.tsx "1/p_i, never 1/P_i").                                *)
PayoutIsTheContracts ==
    LET panel == PayoutPanel(Summary)
        won   == winningOutcome[Market]
    IN status[Market] = "Settled" =>
         /\ panel.pays[1 - won] = 0
         /\ panel.pays[won] >= WAD
         /\ panel.pays[won] + WAD \div q[won] + 1 >= payoutPerShare
         /\ payoutPerShare >= (WAD * WAD) \div (Price(q, won) + 1) - 1

(* The position book rebuilt from the log alone is the ERC-1155 balance of *)
(* everybody whose shares moved by trades only, through every order of     *)
(* purchases, sales and ended holdings; nobody paid more for a holding     *)
(* than the tape says they spent; and in a market that is over it is       *)
(* valued at what an exit pays for it: nothing on the losing side, and the *)
(* frozen rate of a failed or voided one (agent-book.ts "the marginal      *)
(* price still IS the rate those markets pay").                            *)
HoldingsAreRebuilt ==
  /\ HoldingsAreExplained
  /\ PayoutIsTheContracts
  /\ \A h \in Holders \ moved, side \in Sides :
       ~TradedTwiceInASecond(h, side) =>
         /\ Rebuilt(h, side) = shares[h][side]
         /\ \A p \in PositionsFrom(ReadTape(log)) : (p.agent = h /\ p.outcome = side) =>
              /\ (p.shares * p.entryPrice) \div WAD
                   <= Scale * VolumeOf(SelectSeq(log, LAMBDA e : e.trader = h /\ e.sharesDelta > 0))
              /\ status[Market] \in {"Failed", "Voided"} =>
                   WorthPerShare(Summary, p) = liqPerShare[side]
              /\ (status[Market] = "Settled" /\ side # winningOutcome[Market]) =>
                   CurrentValue(Summary, p) = 0
              /\ RedeemsFor(Summary, p) \in {Unknown, Known(CurrentValue(Summary, p))}

Buckets == {1, 2}

(* A drawing of the candles that can be read: the lines run from edge to   *)
(* edge and stay in the plot, mirror images but for a rounding; each label *)
(* is on the side of its line, near it, apart from the other and clear of  *)
(* the gridlines' figures; and less than two buckets are not a line.       *)
DrawingIsTrue(candles) ==
    LET pic == ProbabilityChart(candles)
        step == PlotHeight \div CoordScale
    IN /\ (pic.drawn = "lines") <=> Cardinality(DOMAIN candles) >= 2
       /\ pic.drawn = "lines" =>
            /\ pic.yes[Min(DOMAIN candles)][1] = 0
            /\ pic.yes[Max(DOMAIN candles)][1] = PlotWidth
            /\ \A a, b \in DOMAIN candles : a < b => pic.yes[a][1] < pic.yes[b][1]
            /\ \A b \in DOMAIN candles :
                 /\ {pic.yes[b][2], pic.no[b][2]} \subseteq 0..PlotHeight
                 /\ pic.yes[b][2] + pic.no[b][2] \in {PlotHeight, PlotHeight + step}
            /\ \A k \in Lines : Distance(pic.label[k], pic.endY[k]) <= Max({4, MinGap \div 2})
            /\ Distance(pic.label["yes"], pic.label["no"]) >= MinGap
            /\ pic.label["yes"] < pic.label["no"] <=> pic.ends["yes"] >= pic.ends["no"]
            /\ \A p \in pic.figures, k \in Lines : Distance(pic.label[k], TickY(p)) > 9
            /\ Min(DOMAIN candles) \in pic.xTicks /\ Cardinality(pic.xTicks) <= 5

(* What the page prints beside the chart is where the chart and the tape   *)
(* end: the newest row's probability is the panel's, unless liquidity      *)
(* moved it since or the last second had more than one trade, and the two  *)
(* figures of the panel are short of a whole by at most one, which is all  *)
(* the NO line, a complement, can be over (ProbabilityPanel.tsx "one wad   *)
(* unit short of 100%").                                                   *)
EstimateIsWhereTheTapeEnds ==
    LET panel == EstimatePanel(Summary)
        shown == TradeTapeBody(GetTrades(log, TapeLimit), Nobody).trades
        final == log[Len(log)]
    IN /\ panel.yes + panel.no \in {WAD - 1, WAD}
       /\ panel.current <=> status[Market] # "Settled"
       /\ (log # <<>> /\ final.qAfter = q
             /\ \A i \in 1..(Len(log) - 1) : log[i].block < final.block) =>
            /\ shown[1].probYesAfter = panel.yes
            /\ WAD - shown[1].probYesAfter \in {panel.no, panel.no + 1}

(* Whatever the width of its buckets, the chart is the tape: every unit of *)
(* volume is in exactly one bucket, the range of a bucket holds its ends,  *)
(* and it ends at the probability the pool stands at, unless liquidity     *)
(* moved it since or the last second had more than one trade.  The change  *)
(* over a day is measured over no more than a day.                         *)
ChartIsTheTape ==
  /\ EstimateIsWhereTheTapeEnds
  /\ \A step \in Buckets :
       LET tape    == ReadTape(log)
           candles == CandlesFrom(tape, step)
           last    == candles[Max(DOMAIN candles)]
           final   == log[Len(log)]
           delta   == Delta24h(candles)
       IN /\ MapThenSumSet(LAMBDA b : candles[b].volume, DOMAIN candles) = VolumeOf(log)
          /\ \A b \in DOMAIN candles :
               /\ b % step = 0
               /\ \E i \in DOMAIN log : log[i].block \in b..(b + step - 1)
               /\ {candles[b].open, candles[b].close} \subseteq candles[b].low..candles[b].high
          /\ (log # <<>> /\ final.qAfter = q
                /\ \A i \in 1..(Len(log) - 1) : log[i].block < final.block) =>
               last.close = Probability(q, YES)
          /\ delta # Unknown => delta[1].span \in 1..Day
          /\ DrawingIsTrue(candles)

(* A page that fans out, with market 2's query in some state.              *)
Fan(data, kind) == <<Query("ready", data[1]), Query(kind, data[2])>>

(* What the queries of a page may come to: all answered, one of the fans   *)
(* still loading or failed, or a source without a history.                 *)
Answers ==
    LET all == [positions |-> "ready", trades |-> "ready", balances |-> "ready"]
    IN {all,
        [all EXCEPT !.positions = "loading"], [all EXCEPT !.positions = "error"],
        [all EXCEPT !.trades = "loading"],
        [all EXCEPT !.trades = "error", !.balances = "error"],
        [all EXCEPT !.positions = "unavailable", !.trades = "unavailable"]}

(* The reader's clock: not there yet, the chain's, or off by one.          *)
Clocks == {Unknown} \union {Known(t) : t \in {now - 1, now, now + 1} \cap Nat}

(* Agreement by one clock, in the list's row, the page's heading and the   *)
(* book.  By the chain's clock what they say is what the contract does;    *)
(* with no clock they say the chain's status and deny no trade.            *)
ReadAlikeBy(clock, book) ==
    LET failed  == Query("error", <<>>)
        row     == MarketRow(Summary, failed, failed, PhaseOf(Summary, clock), clock, clock)
        counts  == row.last.shown = "countdown"
        heading == Heading(Summary, clock, clock)
    IN /\ row.badge = heading.badge
       /\ counts <=> row.badge = "Open"
       /\ counts => heading.countdown = Known(row.last.says)
       /\ heading.countdown = Known("trading ended") <=> row.badge = "Awaiting close"
       /\ clock = Known(now) => counts = TradingOpen
       /\ clock = Unknown => row.badge = status[Market]
       /\ (TradingOpen /\ clock \in {Unknown, Known(now)}) =>
            heading.countdown \notin {Unknown, Known("trading ended")}
       /\ \A r \in book :
            status[Market] # "Proposed" => (BookCells(r, clock).status = "open" <=> counts)

(* The list, the page it links to and the agent's book read a market the   *)
(* same way (MarketView.tsx: "the same market read two different ways      *)
(* depending on where you looked at it from"), whatever has not arrived    *)
(* and whatever the reader's clock says: the badge, the countdown and the  *)
(* last column agree, the depth is never more than the market holds, and a *)
(* holding is not called open on one and over on the other.  (The clocks   *)
(* of one page are read at one moment here; and a proposed market is left  *)
(* out of the last, whose holdings the book calls open.)                   *)
ListAndPageAgree ==
  LET clock     == Known(now)
      positions == Query("ready", PositionsRead[1])
      tape      == GetTrades(log, TapeLimit)
      candles   == CandlesFrom(ReadTape(log), 1)
      book      == {r \in AgentBook(Markets2, PositionsRead, CHOOSE h \in Holders : TRUE) : r.market = 1}
  IN /\ \A reader \in Clocks : ReadAlikeBy(reader, book)
     /\ \A kind \in {"ready", "error"} :
          LET answers == [trades    |-> Query(kind, tape),
                          candles   |-> Query(kind, candles),
                          positions |-> positions]
              row  == MarketRow(Summary, answers.trades, answers.candles,
                                PhaseOf(Summary, clock), clock, clock)
              page == MarketView(Query("ready", Summary), FreshUI(1), answers, clock, clock)
          IN /\ row.yes = page.estimate.yes
             /\ row.volume = page.stats.volume
             /\ row.depth = page.stats.depth /\ row.depth <= held
             /\ TradingOpen => page.estimate.current
             /\ page.settlement <=> row.last.shown = "outcome" /\ row.last.side # NONE
             /\ page.settlement => page.payout.pays[1 - row.last.side] = 0 /\ ~page.estimate.current
             /\ page.activity.holdings.picks <=> kind = "ready"
             /\ \A r \in book : BookCells(r, clock).redemption <=> page.payout.fixed

(* Whatever the filter offers leads somewhere: from any view, choosing a   *)
(* phase and then a status it offers leaves a row, unless the phase itself *)
(* is empty; and a market whose volume is not known comes last.            *)
FiltersLeadSomewhere ==
    /\ \A from \in {FreshParams, SetParam(FreshParams, "status", "Closed")},
          phase \in {"live", "pending", "resolved"}, clock \in Clocks :
         \A wanted \in OfferedStatuses(Markets2, phase, clock) :
            LET params == SetParam(SetParam(from, "phase", phase), "status", wanted)
            IN TableShown(Markets2, params, clock) # "no match"
    /\ ~RowBefore(Markets2, VolumesKnown(Fan(TapesRead, "loading")), "volume", 2, 1)

(* The ranking puts an agent whose figure cannot be read last ("unknown is *)
(* not the smallest value").                                               *)
UnknownRanksLast(board) ==
    \A r, s \in board.rows, figure \in Figures :
       /\ RankedBefore(r, s, figure) => ~RankedBefore(s, r, figure)
       /\ BoardCells(r)[figure].shown = "unavailable" => ~RankedBefore(r, s, figure)

(* A refusal leads somewhere: the mode it points to can be built from the  *)
(* same settings and supplies what is missing, it is neither the reader's  *)
(* mode nor the one that refused, and the refusal is not tried again.      *)
(* (Unavailable.tsx: "the flatly self-contradicting line a live page       *)
(* showed".)                                                               *)
RefusalsPointSomewhere ==
    \A mode \in Modes, settings \in SUBSET Settings : DataSource(mode, settings).built =>
       \A capability \in Capabilities :
         LET query == ToQuery(mode, settings, capability)
         IN query.status = "unavailable" =>
              /\ ~ModeIndicator(mode).warns
              /\ ~Retries(query, 0)
              /\ \A other \in Unavailable(query.capability, query.mode).available :
                   /\ other \notin {mode, query.mode}
                   /\ DataSource(other, settings).built
                   /\ capability \in DataSource(other, settings).can
              /\ capability \notin FromDocs =>
                   Unavailable(query.capability, query.mode).available # {}

(* The boards say what the chain says, or that they do not know.  By the   *)
(* chain's clock "live" is when the contract takes a trade and "resolved"  *)
(* when nothing can change any more; an outcome is shown exactly of a      *)
(* settled market.  On the leaderboard everybody who traded appears, its   *)
(* fees are the fees the market accrued, what is deployed is what the      *)
(* agent's own page adds up to, and a number is shown only when every      *)
(* market's answer is in it (collect.ts "one unreadable market makes the   *)
(* whole set unknowable rather than smaller").                             *)
BoardsAgreeWithTheChain ==
    LET tapes   == TapesRead
        holding == PositionsRead
        whole   == Len(log) <= TapeLimit
        clock   == Known(now)
        phases  == ByPhase(Markets2, clock)
    IN /\ ListAndPageAgree
       /\ FiltersLeadSomewhere
       /\ RefusalsPointSomewhere
       /\ (1 \in phases["live"]) = TradingOpen
       /\ (1 \in phases["resolved"]) = Terminal(Market)
       /\ OpenNow(Markets2, clock) = Cardinality(phases["live"])
       /\ (OutcomeCell(Summary) # NONE) = (status[Market] = "Settled")
       /\ Reached(Summary).closed => ~TradingOpen
       /\ HoldingStatus(Summary, clock) = "open" => ~Terminal(Market) /\ ~Reached(Summary).closed
       /\ \A a \in Answers :
            LET trades == Collect(Fan(tapes, a.trades))
                board  == Board(Collect(Fan(holding, a.positions)), trades,
                                [kind |-> a.balances, data |-> Free])
            IN /\ board.shown = "rows" => a.positions = "ready"
               /\ board.shown = "rows" /\ a.trades = "ready" /\ whole =>
                    /\ {r.agent : r \in board.rows} = Traders(<<log, OtherTape>>)
                    /\ (~Terminal(Market) =>
                          MapThenSumSet(LAMBDA r : r.fees[1], board.rows)
                            = feeAccrued[Market] + FoldLeft(LAMBDA sum, t : sum + t.fee, 0, OtherTape))
               /\ \A r \in board.rows :
                    r.account # Unknown <=> a.balances = "ready" /\ a.positions = "ready"
               /\ UnknownRanksLast(board)
               /\ KnownAgents(Fan(holding, a.positions)) \subseteq AgentsSeen(holding)
               /\ TotalVolume(Fan(tapes, a.trades)) # Unknown => a.trades = "ready"
               /\ \A r \in board.rows :
                    LET totals == BookPage(Fan(holding, a.positions), r.agent).totals
                    IN /\ Known(totals.held) = r.held
                       /\ totals.held # 0 => totals.value = r.deployed /\ totals.pnl = r.pnl
=============================================================================
