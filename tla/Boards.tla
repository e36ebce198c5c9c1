------------------------------- MODULE Boards -------------------------------
(***************************************************************************)
(* The pages of frontend/ that show many markets or many agents, each      *)
(* composed of one query per market: MarketList.tsx, Leaderboard.tsx with  *)
(* lib/leaderboard.ts, and AgentBook.tsx, over lib/collect.ts.             *)
(*                                                                         *)
(* Market 1 is the one that is traded, market 2 the settled one.           *)
(***************************************************************************)
EXTENDS Pages, Sources

CONSTANT Free    \* free collateral of each agent

ASSUME BoardsAssumption == Free \in [Holders -> Nat]

QueryKinds == {"loading", "ready", "unavailable", "error"}

Query(kind, data) == [status |-> kind, data |-> data]

(* The switch over a query that every cell and panel ends in.              *)
Slot(query, body) == IF query.status = "ready" THEN body ELSE [shown |-> query.status]

Markets2 == <<Summary, OtherSummary>>

(* What the queries of market 1 and 2 hold once answered.                  *)
TapesRead == <<GetTrades(log, TapeLimit), OtherTape>>

PositionsRead == <<PositionsFrom(ReadTape(log)), PositionsFrom(OtherTape)>>

(* collect.ts: one that cannot be read makes the whole unknown.            *)
Collect(queries) ==
    LET Has(kind) == \E k \in DOMAIN queries : queries[k].status = kind
    IN IF Has("unavailable") THEN [kind |-> "unavailable", data |-> {}]
       ELSE IF Has("error") THEN [kind |-> "error", data |-> {}]
       ELSE IF Has("loading") THEN [kind |-> "loading", data |-> {}]
       ELSE [kind |-> "ready", data |-> [k \in DOMAIN queries |-> queries[k].data]]

-----------------------------------------------------------------------------
(* leaderboard.ts.                                                         *)

AgentsSeen(positions) == {p.agent : p \in UNION {positions[k] : k \in DOMAIN positions}}

Traders(tapes) == {t.trader : t \in UNION {{tapes[k][i] : i \in DOMAIN tapes[k]} : k \in DOMAIN tapes}}

(* Who holds and who has traded, so that leaving does not unlist.          *)
AgentsOf(positions, trades) ==
    (IF positions.kind = "ready" THEN AgentsSeen(positions.data) ELSE {})
      \union (IF trades.kind = "ready" THEN Traders(trades.data) ELSE {})

TradesOf(tapes, agent) ==
    FoldLeft(LAMBDA all, k : all \o SelectSeq(tapes[k], LAMBDA t : t.trader = agent), <<>>, <<1, 2>>)

(* One agent's row.  Each figure stands or falls with its own source, and  *)
(* the account value with both of its halves.                              *)
BoardRow(positions, trades, balances, agent) ==
    LET mine     == IF trades.kind = "ready" THEN TradesOf(trades.data, agent) ELSE <<>>
        book     == IF positions.kind = "ready" THEN AgentBook(Markets2, positions.data, agent) ELSE {}
        ofTape(x)     == IF trades.kind = "ready" THEN Known(x) ELSE Unknown
        ofHoldings(x) == IF positions.kind = "ready" THEN Known(x) ELSE Unknown
        free     == IF balances.kind = "ready" THEN Known(balances.data[agent]) ELSE Unknown
        deployed == ofHoldings(MapThenSumSet(LAMBDA r : r.value, book))
    IN [agent    |-> agent,
        trades   |-> ofTape(Len(mine)),
        volume   |-> ofTape(VolumeOf(mine)),
        fees     |-> ofTape(FoldLeft(LAMBDA sum, t : sum + t.fee, 0, mine)),
        held     |-> ofHoldings(Cardinality(book)),
        deployed |-> deployed,
        pnl      |-> IF book # {} THEN Known(MapThenSumSet(LAMBDA r : r.pnl, book)) ELSE Unknown,
        free     |-> free,
        account  |-> IF free = Unknown \/ deployed = Unknown
                     THEN Unknown ELSE Known(free[1] + deployed[1])]

(* Leaderboard.tsx: what stands in the place of the table, or its rows.    *)
Board(positions, trades, balances) ==
    IF positions.kind = "unavailable" /\ trades.kind = "unavailable" THEN [shown |-> "unavailable", rows |-> {}]
    ELSE IF positions.kind = "error" THEN [shown |-> "error", rows |-> {}]
    ELSE IF positions.kind = "loading" \/ trades.kind = "loading" THEN [shown |-> "loading", rows |-> {}]
    ELSE [shown |-> "rows",
          rows  |-> {BoardRow(positions, trades, balances, a) : a \in AgentsOf(positions, trades)}]

-----------------------------------------------------------------------------
(* MarketList.tsx.                                                         *)

ByPhase(markets, clock) ==
    [phase \in {"live", "pending", "resolved"} |->
       {k \in DOMAIN markets : PhaseOf(markets[k], clock) = phase}]

OpenNow(markets, clock) == Cardinality({k \in DOMAIN markets : TradingState(markets[k], clock) = "Open"})

(* Each market's depth is rounded before they are summed.                  *)
TotalDepth(markets) == FoldLeft(LAMBDA sum, m : sum + ToTokensFloor(m.poolWad), 0, markets)

(* A sum of every tape, or none.                                           *)
TotalVolume(queries) ==
    LET tapes == Collect(queries)
    IN IF tapes.kind = "ready"
       THEN Known(FoldLeft(LAMBDA sum, k : sum + VolumeOf(tapes.data[k]), 0, <<1, 2>>))
       ELSE Unknown

(* OutcomeCell: a market that is over without a winner was refunded.       *)
OutcomeCell(m) == IF m.winner # Unknown THEN m.winner[1] ELSE NONE

(* The rows of the table.                                                  *)
VolumeCell(trades) == Slot(trades, [shown |-> "figure", tokens |-> VolumeOf(trades.data)])

DeltaCell(candles) ==
    LET delta == Delta24h(candles.data)
    IN Slot(candles, IF delta = Unknown THEN [shown |-> "not enough history"]
                     ELSE [shown |-> "figure", delta |-> delta[1]])

(* The last column answers what the phase makes the question.              *)
MarketRow(m, trades, candles, phase, clock, tick) ==
    [yes    |-> Probability(m.q, YES),
     delta  |-> DeltaCell(candles),
     volume |-> VolumeCell(trades),
     depth  |-> ToTokensFloor(m.poolWad),
     badge  |-> TradingState(m, clock),
     last   |-> CASE phase = "resolved" -> [shown |-> "outcome", side |-> OutcomeCell(m)]
                  [] phase = "live"     -> [shown |-> "countdown", says |-> Countdown(m.tradingEnd, tick)]
                  [] phase = "pending"  -> [shown |-> "ended"]]

(* useListParams: the view is in the URL.  Changing the phase clears the   *)
(* finer filters; "" is no filter.  Left out: category and tier, which a    *)
(* market never changes, and the order by creation.                        *)
FreshParams == [phase |-> "live", status |-> "", sort |-> "volume"]

SetParam(params, key, value) ==
    IF key = "phase" THEN [params EXCEPT !.phase = value, !.status = ""]
    ELSE [params EXCEPT ![key] = value]

(* The statuses the filter offers, at least two or it is not shown.        *)
OfferedStatuses(markets, phase, clock) ==
    LET occurring == {markets[k].status : k \in ByPhase(markets, clock)[phase]}
    IN {""} \union (IF Cardinality(occurring) > 1 THEN occurring ELSE {})

RowsShown(markets, params, clock) ==
    {k \in ByPhase(markets, clock)[params.phase] : params.status \in {"", markets[k].status}}

(* Two different absences: of the phase, and of what the filters leave.    *)
TableShown(markets, params, clock) ==
    IF RowsShown(markets, params, clock) # {} THEN "rows"
    ELSE IF ByPhase(markets, clock)[params.phase] = {} THEN "empty phase"
    ELSE "no match"

(* compareRows: what is not known comes last, and is no small number.      *)
Before(u, v) == u # Unknown /\ (v = Unknown \/ u[1] > v[1])

VolumesKnown(queries) ==
    [k \in DOMAIN queries |->
       IF queries[k].status = "ready" THEN Known(VolumeOf(queries[k].data)) ELSE Unknown]

RowBefore(markets, volumes, sort, j, k) ==
    CASE sort = "closing" -> markets[j].tradingEnd < markets[k].tradingEnd
      [] sort = "volume"  -> Before(volumes[j], volumes[k])

-----------------------------------------------------------------------------
(* Leaderboard.tsx: the ranking, the same rule over the chosen figure.     *)

Figures == {"account", "pnl", "volume", "trades"}

RankedBefore(r, s, figure) == Before(r[figure], s[figure])

(* A cell without a value names what would have supplied it.               *)
Cell(value, capability) ==
    IF value = Unknown THEN [shown |-> "unavailable", capability |-> capability]
    ELSE [shown |-> "figure", value |-> value[1]]

(* One row of the board, cell by cell.                                     *)
BoardCells(r) ==
    [trades   |-> Cell(r.trades, "TRADE_TAPE"),
     volume   |-> Cell(r.volume, "TRADE_TAPE"),
     deployed |-> Cell(r.deployed, "AGENT_POSITIONS"),
     free     |-> Cell(r.free, "AGENT_BALANCE"),
     account  |-> Cell(r.account, "AGENT_BALANCE"),
     pnl      |-> Cell(r.pnl, "COST_BASIS")]

(* AgentPicker.tsx: a shortcut, which takes an unreadable market for one   *)
(* with nobody in it.                                                      *)
KnownAgents(queries) ==
    IF \E k \in DOMAIN queries : queries[k].status = "loading" THEN {}
    ELSE AgentsSeen([k \in DOMAIN queries |->
                       IF queries[k].status = "ready" THEN queries[k].data ELSE {}])

-----------------------------------------------------------------------------
(* AgentBook.tsx: an agent's totals over every market, or what it says in  *)
(* their place.                                                            *)

(* BookRowCells: the rate the value was made of, and what can be done.     *)
BookCells(row, clock) ==
    LET m == Markets2[row.market]
    IN [worth      |-> WorthPerShare(m, row.p),
        redemption |-> m.winner # Unknown,
        value      |-> row.value,
        pnl        |-> row.pnl,
        status     |-> HoldingStatus(m, clock)]

(* Nothing held is nothing in one collateral: no sum is shown of it.       *)
Totals(rows) ==
    [held  |-> Cardinality(rows),
     value |-> IF rows = {} THEN Unknown ELSE Known(MapThenSumSet(LAMBDA r : r.value, rows)),
     pnl   |-> IF rows = {} THEN Unknown ELSE Known(MapThenSumSet(LAMBDA r : r.pnl, rows))]

BookPage(queries, agent) ==
    LET positions == Collect(queries)
        rows      == AgentBook(Markets2, positions.data, agent)
    IN IF positions.kind # "ready" THEN [shown |-> positions.kind]
       ELSE [shown |-> "rows", rows |-> rows, totals |-> Totals(rows)]
=============================================================================
