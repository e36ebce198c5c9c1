------------------------------- MODULE MCPages -------------------------------
(***************************************************************************)
(* The other market of the list, settled YES: one agent holds the winning  *)
(* side, the other sold everything it had bought.                          *)
(***************************************************************************)
EXTENDS PagesProperties

CONSTANTS c, h1

MCHolders == {c, h1}

OtherTrade(at, who, side, delta, paid, charged) ==
    [timestamp |-> at, logIndex |-> FirstLogIndex, trader |-> who, outcome |-> side,
     sharesDelta |-> delta, tokens |-> paid, fee |-> charged, probYesAfter |-> WAD \div 2]

MCOtherTape == <<OtherTrade(2, c, NO, -2, 1, 0), OtherTrade(1, h1, YES, 3, 3, 1), OtherTrade(0, c, NO, 2, 2, 1)>>

MCOtherSummary ==
    [status |-> "Settled", q |-> [i \in Sides |-> IF i = YES THEN 6 ELSE 3], poolWad |-> 7,
     tradingEnd |-> 0, resolvedAt |-> Known(0), winner |-> Known(YES)]

MCFree == [h \in MCHolders |-> IF h = c THEN 5 ELSE 0]
=============================================================================
