-------------------------------- MODULE Chart --------------------------------
(***************************************************************************)
(* lib/chart.ts and components/market/ProbabilityChart.tsx: how a list of  *)
(* candles becomes two lines, their labels and their axes.                 *)
(*                                                                         *)
(* A point of the plot is <<x, y>>, x from its left edge and y down from   *)
(* its top.  The plot's height is a multiple of CoordScale, so that the    *)
(* one rounding left is that of a probability to a coordinate.             *)
(***************************************************************************)
EXTENDS Pages

CONSTANTS
    CoordScale,              \* COORD_SCALE
    PlotWidth, PlotHeight,   \* BOX, without its padding
    MinGap                   \* between two labels

ASSUME ChartAssumption ==
    /\ {CoordScale, PlotWidth, PlotHeight, MinGap} \subseteq Nat \ {0}
    /\ PlotHeight % CoordScale = 0

Lines == {"yes", "no"}

Distance(a, b) == IF a > b THEN a - b ELSE b - a

(* wadToUnit, clamped to a probability.                                    *)
ToUnit(v) == MulDiv(Max({0, Min({v, WAD})}), CoordScale, WAD)

ValueY(v) == PlotHeight - ToUnit(v) * (PlotHeight \div CoordScale)

(* A bucket's place between the first and the last.                        *)
ValueX(series, start) ==
    LET first == Min(DOMAIN series)
        last  == Max(DOMAIN series)
    IN IF first = last THEN 0 ELSE ((start - first) * PlotWidth) \div (last - first)

SeriesPath(series) ==
    [start \in DOMAIN series |-> <<ValueX(series, start), ValueY(series[start])>>]

(* The line closed down to the baseline, or nothing where there is none.   *)
AreaPath(series) ==
    IF DOMAIN series = {} THEN {}
    ELSE Range(SeriesPath(series)) \union {<<PlotWidth, PlotHeight>>, <<0, PlotHeight>>}

TickY(percent) == PlotHeight - (percent * PlotHeight) \div 100

YTicks == {0, 25, 50, 75, 100}

(* Every n-th bucket from the first, `count` of them at most.              *)
XTicks(candles, count) ==
    LET starts == SetToSortSeq(DOMAIN candles, <)
        step   == Max({1, Len(starts) \div count})
    IN {starts[i] : i \in {i \in DOMAIN starts : (i - 1) % step = 0 /\ (i - 1) \div step < count}}

(* The labels at the ends of the two lines: the upper and the lower are    *)
(* pushed apart by half of what they lack, and kept inside the plot.       *)
EndLabels(value) ==
    LET y     == [k \in Lines |-> ValueY(value[k])]
        upper == IF y["yes"] <= y["no"] THEN "yes" ELSE "no"
        gap   == Distance(y["yes"], y["no"])
        push  == IF gap >= MinGap THEN 0 ELSE (MinGap - gap) \div 2
        Kept(at) == Min({Max({at, 4}), PlotHeight - 2})
    IN [k \in Lines |-> Kept(IF k = upper THEN y[k] - push ELSE y[k] + push)]

(* Fewer than two buckets are no curve: the value is stated instead.       *)
Undrawn(candles) ==
    CASE DOMAIN candles = {} -> [drawn |-> "no history"]
      [] DOMAIN candles # {} -> [drawn |-> "value", close |-> candles[Max(DOMAIN candles)].close]

(* The NO line is the complement of the close, not a probability of its    *)
(* own; a gridline's figure gives way to a label on top of it.             *)
Drawn(candles) ==
    LET last == candles[Max(DOMAIN candles)]
        yes  == [start \in DOMAIN candles |-> candles[start].close]
        no   == [start \in DOMAIN candles |-> WAD - yes[start]]
        ends == [yes |-> last.close, no |-> WAD - last.close]
        label == EndLabels(ends)
    IN [drawn  |-> "lines",
        yes    |-> SeriesPath(yes),
        no     |-> SeriesPath(no),
        area   |-> AreaPath(yes),
        ends   |-> ends,
        endY   |-> [k \in Lines |-> ValueY(ends[k])],
        label  |-> label,
        xTicks |-> XTicks(candles, 5),
        figures |-> {p \in YTicks : \A k \in Lines : Distance(label[k], TickY(p)) > 9}]

ProbabilityChart(candles) ==
    IF Cardinality(DOMAIN candles) < 2 THEN Undrawn(candles) ELSE Drawn(candles)
=============================================================================
