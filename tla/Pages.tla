-------------------------------- MODULE Pages --------------------------------
(***************************************************************************)
(* What the pages of frontend/ make of a market and its past: the readers  *)
(* of lib/data (logs.ts, derive.ts, chain.ts), the derivations of lib, and *)
(* the figures the components print.                                       *)
(*                                                                         *)
(* A page keeps nothing of its own, so everything here is a function of    *)
(* the answers it was given.  An answer is a query, [status, data]; a      *)
(* number that may be missing is a sequence, empty when it is.  Beside the *)
(* market there is another, long settled, so that there are tables of more *)
(* than one row.  Left out: layout, wording, the search box, decimals that *)
(* differ between markets, names.                                          *)
(***************************************************************************)
EXTENDS History

CONSTANTS
    Day,              \* DAY, in ticks
    TapeLimit,        \* trades a page asks for at most
    OtherSummary, OtherTape

ASSUME PagesAssumption == Day \in Nat \ {0} /\ TapeLimit \in Nat \ {0}

Unknown  == <<>>
Known(x) == <<x>>

-----------------------------------------------------------------------------
(* The market, as ChainSource.readMarket returns it.                       *)

Summary ==
    [status     |-> status[Market],
     q          |-> q,
     poolWad    |-> poolWad,
     tradingEnd |-> TradingEnd,
     resolvedAt |-> IF resolvedAt = 0 THEN Unknown ELSE Known(resolvedAt),
     winner     |-> IF status[Market] = "Settled" THEN Known(winningOutcome[Market]) ELSE Unknown]

(* dpm.price, dpm.probability and quote.payoutPerShareWad.                 *)
Probability(x, i) == MulDiv(x[i] * x[i], WAD, SumSq(x))

PayoutPerShare(x, i) == IF Price(x, i) = 0 THEN 0 ELSE (WAD * WAD) \div Price(x, i)

ToTokensFloor(wad) == wad \div Scale

-----------------------------------------------------------------------------
(* The tape, as LogSource.readTape returns it: newest first, and within a  *)
(* block by the text "block-index", where "10" is before "9".              *)

Digits(n) == IF n < 10 THEN <<n>> ELSE <<n \div 10, n % 10>>

LaterId(s, t) ==
    LET a == Digits(s.logIndex)  b == Digits(t.logIndex)
    IN a[1] > b[1] \/ (a[1] = b[1] /\ Len(a) > Len(b))
         \/ (a[1] = b[1] /\ Len(a) = 2 /\ Len(b) = 2 /\ a[2] > b[2])

TradeOf(e) ==
    [timestamp |-> e.block, logIndex |-> e.logIndex, trader |-> e.trader,
     outcome |-> e.outcome, sharesDelta |-> e.sharesDelta, tokens |-> e.tokens,
     fee |-> e.fee, probYesAfter |-> Probability(e.qAfter, YES)]

ReadTape(events) ==
    SortSeq([i \in DOMAIN events |-> TradeOf(events[i])],
            LAMBDA s, t : s.timestamp > t.timestamp
                            \/ (s.timestamp = t.timestamp /\ LaterId(s, t)))

GetTrades(events, limit) == SubSeq(ReadTape(events), 1, Min({limit, Len(events)}))

(* derive.ts sorts by the timestamp alone and keeps the tape's order within*)
(* one, which is newest first.                                             *)
Ascending(tape) ==
    SortSeq(tape, LAMBDA s, t : s.timestamp < t.timestamp
                                  \/ (s.timestamp = t.timestamp /\ LaterId(s, t)))

-----------------------------------------------------------------------------
(* derive.ts: the candles, a function of the buckets that have a trade.    *)

(* Mutant: the close of a bucket is left at its first trade.               *)
IntoAtOpen(candles, start, t) ==
    IF start \in DOMAIN candles
    THEN [candles EXCEPT ![start] = [@ EXCEPT !.volume = @ + t.tokens]]
    ELSE candles @@ (start :> [open |-> t.probYesAfter, high |-> t.probYesAfter, low |-> t.probYesAfter,
                               close |-> t.probYesAfter, volume |-> t.tokens])

Into(candles, start, t) ==
    LET p == t.probYesAfter
    IN IF start \in DOMAIN candles
       THEN [candles EXCEPT ![start] =
               [@ EXCEPT !.high = Max({@, p}), !.low = Min({@, p}), !.close = p,
                         !.volume = @ + t.tokens]]
       ELSE candles @@ (start :> [open |-> p, high |-> p, low |-> p, close |-> p, volume |-> t.tokens])

CandlesFrom(tape, step) ==
    FoldLeft(LAMBDA candles, t : Into(candles, t.timestamp - (t.timestamp % step), t),
             <<>>, Ascending(tape))

(* market-rows.ts: the move since the oldest bucket within a day of the    *)
(* newest, with the span it was measured over.                             *)
Delta24h(candles) ==
    LET newest   == Max(DOMAIN candles)
        baseline == Min({b \in DOMAIN candles : b >= newest - Day})
    IN IF Cardinality(DOMAIN candles) < 2 \/ baseline = newest
       THEN Unknown
       ELSE Known([delta |-> candles[newest].close - candles[baseline].open,
                   span  |-> newest - baseline])

VolumeOf(tape) == FoldLeft(LAMBDA sum, t : sum + t.tokens, 0, tape)

-----------------------------------------------------------------------------
(* derive.ts: the position book, at average cost.                          *)

(* Mutant: only purchases count.                                           *)
BookedBuysOnly(was, t) ==
    IF t.sharesDelta > 0
    THEN [shares |-> was.shares + t.sharesDelta, cost |-> was.cost + t.tokens]
    ELSE was

Booked(was, t) ==
    LET sold == -t.sharesDelta
    IN IF t.sharesDelta > 0
       THEN [shares |-> was.shares + t.sharesDelta, cost |-> was.cost + t.tokens]
       ELSE IF sold >= was.shares \/ was.shares = 0
       THEN [shares |-> 0, cost |-> 0]
       ELSE [shares |-> was.shares - sold,
             cost   |-> was.cost - (was.cost * sold) \div was.shares]

PositionsFrom(tape) ==
    LET book == FoldLeft(LAMBDA b, t : [b EXCEPT ![t.trader][t.outcome] = Booked(@, t)],
                         [h \in Holders |-> [i \in Sides |-> [shares |-> 0, cost |-> 0]]],
                         Ascending(tape))
    IN {[agent |-> h, outcome |-> i, shares |-> book[h][i].shares,
         entryPrice |-> (book[h][i].cost * Scale * WAD) \div book[h][i].shares] :
          <<h, i>> \in {k \in Holders \X Sides : book[k[1]][k[2]].shares # 0}}

-----------------------------------------------------------------------------
(* agent-book.ts: what a holding is worth, to the book and to the table of *)
(* a market's positions.                                                   *)

WorthPerShare(m, p) ==
    IF m.winner = Unknown THEN Price(m.q, p.outcome)
    ELSE IF p.outcome = m.winner[1] THEN PayoutPerShare(m.q, p.outcome)
    ELSE 0

CurrentValue(m, p) == ToTokensFloor((p.shares * WorthPerShare(m, p)) \div WAD)

(* Rounded towards zero, whichever the sign.                               *)
Pnl(m, p) ==
    LET pnl == (p.shares * WorthPerShare(m, p)) \div WAD - (p.shares * p.entryPrice) \div WAD
    IN IF pnl >= 0 THEN ToTokensFloor(pnl) ELSE -ToTokensFloor(-pnl)

RedeemsFor(m, p) ==
    IF m.winner = Unknown THEN Unknown
    ELSE Known(IF p.outcome = m.winner[1]
               THEN ToTokensFloor((p.shares * PayoutPerShare(m.q, p.outcome)) \div WAD)
               ELSE 0)

AgentBook(markets, positions, agent) ==
    {[market |-> k, p |-> p, value |-> CurrentValue(markets[k], p), pnl |-> Pnl(markets[k], p)] :
       <<k, p>> \in {<<k, p>> \in UNION {{k} \X positions[k] : k \in DOMAIN positions} :
                       p.agent = agent}}

-----------------------------------------------------------------------------
(* market-phase.ts and the labels that follow from it.  The clock is the   *)
(* browser's own, and Unknown on the server and on the first render        *)
(* (use-now.ts): then the market keeps the chain's answer.                 *)

(* Mutant: the last instant still taken for tradable.                      *)
EndedAfter(m, clock) == m.status = "Open" /\ clock # Unknown /\ clock[1] > m.tradingEnd

TradingHasEnded(m, clock) == m.status = "Open" /\ clock # Unknown /\ clock[1] >= m.tradingEnd

PhaseOf(m, clock) ==
    CASE m.status \in TerminalStatuses                       -> "resolved"
      [] m.status \in {"Closed", "Proposed", "Disputed"}     -> "pending"
      [] m.status = "Open" -> IF TradingHasEnded(m, clock) THEN "pending" ELSE "live"

TradingState(m, clock) ==
    IF TradingHasEnded(m, clock) THEN "Awaiting close" ELSE m.status

(* Countdown.tsx, by its own clock, which ticks every half minute.         *)
Countdown(until, tick) ==
    IF tick = Unknown THEN "..."
    ELSE IF tick[1] >= until THEN "trading ended"
    ELSE "closes in"

HoldingStatus(m, clock) ==
    CASE TradingHasEnded(m, clock)             -> "nothing can be traded"
      [] ~TradingHasEnded(m, clock) /\ m.status \in {"Proposed", "Open"} -> "open"
      [] m.status \in {"Closed", "Disputed"}   -> "awaiting settlement"
      [] m.status = "Settled"                  -> "can redeem"
      [] m.status \in {"Failed", "Voided"}     -> "can liquidate"

(* Lifecycle.tsx: the steps the panel marks as reached, and its last date. *)
Reached(m) ==
    [closed   |-> m.status \notin {"Proposed", "Open"},
     resolved |-> m.status \in TerminalStatuses,
     at       |-> IF m.status \in TerminalStatuses /\ m.resolvedAt # Unknown
                  THEN m.resolvedAt[1] ELSE SettlementDeadline]
=============================================================================
