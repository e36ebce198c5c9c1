------------------------------- MODULE Keeper -------------------------------
(***************************************************************************)
(* packages/agent-kit/examples/keeper.ts over the chain: a pass over every *)
(* market doing what the clock makes due, and the timer that starts the    *)
(* next one (scripts/keeper-tick.sh).                                      *)
(*                                                                         *)
(* A pass decides from a snapshot, simulates a call, sends it, and reads   *)
(* the receipt; other keepers, runners and time move between any two of    *)
(* those.  A call that reverts once sent throws, and the throw ends the    *)
(* pass with the markets after it untouched.                               *)
(***************************************************************************)
EXTENDS ResolutionModule, FiniteSetsExt

CONSTANTS
    Keepers,      \* machines running the keeper
    Soon,         \* how soon a pass wants to come back (30 s)
    Ceiling,      \* the longest sleep (CEILING)
    NoView        \* nothing has been looked at yet

ASSUME KeeperAssumption == Soon \in Nat \ {0} /\ Ceiling \in Nat \ {0}

VARIABLE pass     \* by keeper, where its pass is

Asleep(wake) ==
    [at |-> "asleep", wake |-> wake, todo |-> {}, seen |-> NoView, seenAt |-> 0,
     call |-> <<>>, basis |-> NoView, due |-> {}]

KeeperInit == pass = [k \in Keepers |-> Asleep(0)]

Unresolved == {"Closed", "Proposed", "Disputed"}

(* What a call on a market depends on.                                     *)
View(m) == [status |-> status[m], draw |-> draw[m], index |-> round[m].index,
            n |-> round[m].n, eligible |-> Eligible({})]

(* The module and market functions a keeper sends.                         *)
Call(fn, m) ==
    \/ fn = "close" /\ Close(m)
    \/ fn = "fail" /\ Fail(m)
    \/ fn = "requestResolution" /\ RequestResolution(m)
    \/ fn = "openResolution" /\ OpenResolution(m)
    \/ fn = "openDisputeRound" /\ OpenDisputeRound(m)

-----------------------------------------------------------------------------
(* `listMarkets` and the clock are read once, at the start.  (At MaxTime   *)
(* the bounded clock stands for every later time.)                         *)
Wakes(k) ==
    /\ pass[k].at = "asleep"
    /\ now >= pass[k].wake \/ now = MaxTime
    /\ pass' = [pass EXCEPT ![k] = [@ EXCEPT
           !.at = "next", !.todo = Markets, !.seen = status, !.seenAt = now]]
    /\ UNCHANGED vars

(* The next market to look at; `due` is what the scheduler is told.        *)
Moves(k, m, dues) ==
    pass' = [pass EXCEPT ![k] = [@ EXCEPT
        !.at = "next", !.todo = @ \ {m}, !.due = @ \cup dues,
        !.call = <<>>, !.basis = NoView]]

Calls(k, at, fn, m, basis) ==
    pass' = [pass EXCEPT ![k] = [@ EXCEPT
        !.at = at, !.call = <<fn, m>>, !.basis = basis]]

(* What a pass finds to do for a market, in the order the code asks.       *)
SeenDue(k, m) == pass[k].seen[m] = "Open" /\ pass[k].seenAt >= TradingEnd

(* Mutant: a market past its deadline is left to its committee.            *)
SeenMissedNever(k, m) == FALSE

SeenMissed(k, m) ==
    pass[k].seen[m] \in Unresolved /\ pass[k].seenAt >= SettlementDeadline

SeenUndrawn(k, m) ==
    pass[k].seen[m] \in {"Closed", "Disputed"} /\ committee[m] = {}

LooksAt(k, m) ==
    /\ pass[k].at = "next"
    /\ m \in pass[k].todo
    /\ CASE SeenDue(k, m)     -> Calls(k, "simulating", "close", m, NoView)
         [] SeenMissed(k, m)  -> Calls(k, "simulating", "fail", m, NoView)
         [] SeenUndrawn(k, m) /\ ~SeenMissed(k, m) ->
               Calls(k, "drawing", "drawOf", m, NoView)
         [] OTHER -> Moves(k, m,
               CASE pass[k].seen[m] \in Unresolved -> {SettlementDeadline}
                 [] pass[k].seen[m] = "Open"       -> {TradingEnd}
                 [] OTHER                          -> {})
    /\ UNCHANGED vars

-----------------------------------------------------------------------------
(* `advanceDraw`: the round wanted follows from the snapshot, the draw is  *)
(* read now.  The keeper gives a draw up some blocks before the chain does, *)
(* so it may ask again over one that is live.                              *)
WantedRound(k, m) == IF pass[k].seen[m] = "Closed" THEN 1 ELSE 2

DrawFunction(k, m) ==
    IF WantedRound(k, m) = 1 THEN "openResolution" ELSE "openDisputeRound"

(* A request rests on the status of the snapshot and on the committee that *)
(* was empty when the market was looked at, not on what they are by now.   *)
SnapshotView(k, m) == [View(m) EXCEPT !.status = pass[k].seen[m], !.n = 0]

ReadsDraw(k, m) ==
    /\ pass[k].at = "drawing"
    /\ pass[k].call = <<"drawOf", m>>
    /\ IF draw[m].index # WantedRound(k, m)
       THEN Calls(k, "sending", "requestResolution", m, SnapshotView(k, m))
       ELSE \/ draw[m].phase = "waiting" /\ Moves(k, m, {now + Soon})
            \/ /\ draw[m].phase \in {"live", "expired"}
               /\ Calls(k, "resending", "requestResolution", m, NoView)
            \/ /\ draw[m].phase = "live"
               /\ Calls(k, "simulating", DrawFunction(k, m), m, NoView)
    /\ UNCHANGED vars

(* When to come back after a call that was made, or not.                   *)
DueAfter(k, fn) ==
    CASE fn = "close"             -> {pass[k].seenAt + Soon}
      [] fn = "requestResolution" -> {now + Soon}
      [] OTHER                    -> {}

(* Mutant: the call is sent without asking whether it would revert.        *)
SimulatesNothing(k, fn, m) ==
    /\ pass[k].at = "simulating"
    /\ pass[k].call = <<fn, m>>
    /\ Calls(k, "sending", fn, m, View(m))
    /\ UNCHANGED vars

(* A call that would revert is skipped; a draw that would is blocked until *)
(* the settlement deadline.                                                *)
Simulates(k, fn, m) ==
    /\ pass[k].at = "simulating"
    /\ pass[k].call = <<fn, m>>
    /\ \/ ENABLED Call(fn, m) /\ Calls(k, "sending", fn, m, View(m))
       \/ /\ ~ENABLED Call(fn, m)
          /\ Moves(k, m, IF fn \in {"close", "fail"} THEN DueAfter(k, fn)
                         ELSE {SettlementDeadline})
    /\ UNCHANGED vars

Sends(k, fn, m) ==
    /\ pass[k].at \in {"sending", "resending"}
    /\ pass[k].call = <<fn, m>>
    /\ Call(fn, m)
    /\ Moves(k, m, DueAfter(k, fn))

(* The receipt of a second request is not looked at.                       *)
ResendReverts(k, m) ==
    /\ pass[k].at = "resending"
    /\ pass[k].call = <<"requestResolution", m>>
    /\ ~ENABLED RequestResolution(m)
    /\ Moves(k, m, {now + Soon})
    /\ UNCHANGED vars

(* A receipt that says "reverted" throws.                                  *)
Aborts(k, fn, m) ==
    /\ pass[k].at = "sending"
    /\ pass[k].call = <<fn, m>>
    /\ ~ENABLED Call(fn, m)
    /\ pass' = [pass EXCEPT ![k] = Asleep(now + Ceiling)]
    /\ UNCHANGED vars

(* No receipt in time throws as well, whether or not the call landed.      *)
LosesReceipt(k, fn, m) ==
    /\ pass[k].at \in {"sending", "resending"}
    /\ pass[k].call = <<fn, m>>
    /\ Call(fn, m) \/ UNCHANGED vars
    /\ pass' = [pass EXCEPT ![k] = Asleep(now + Ceiling)]

-----------------------------------------------------------------------------
(* The earliest thing due, no later than the ceiling, which also covers    *)
(* "none"; no wake is set sooner than `Soon`.                              *)
Delay(k) ==
    LET wanted == IF pass[k].due = {} THEN Ceiling ELSE Min(pass[k].due) - now
    IN Max({Soon, Min({Ceiling, wanted})})

Sleeps(k) ==
    /\ pass[k].at = "next"
    /\ pass[k].todo = {}
    /\ pass' = [pass EXCEPT ![k] = Asleep(now + Delay(k))]
    /\ UNCHANGED vars

SimulatedCalls == {"close", "fail", "openResolution", "openDisputeRound"}
SentCalls      == SimulatedCalls \cup {"requestResolution"}

KeeperStep(k) ==
    \/ Wakes(k)
    \/ Sleeps(k)
    \/ \E m \in Markets :
         \/ LooksAt(k, m)
         \/ ReadsDraw(k, m)
         \/ ResendReverts(k, m)
         \/ \E fn \in SimulatedCalls : Simulates(k, fn, m)
         \/ \E fn \in SentCalls :
              Sends(k, fn, m) \/ Aborts(k, fn, m) \/ LosesReceipt(k, fn, m)
=============================================================================
