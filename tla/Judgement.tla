----------------------------- MODULE Judgement -----------------------------
(***************************************************************************)
(* What resolution promises the holders of one market, whatever committees *)
(* it samples: answers come one at a time, an answer can be challenged     *)
(* once, only the standing answer pays, and a market whose answer stands   *)
(* is refunded only when the answer is that there is none, or when nobody  *)
(* carried it out until the grace was over.  The clock belongs to whoever  *)
(* implements this.                                                        *)
(***************************************************************************)
EXTENDS Integers

CONSTANTS Answers,        \* outcomes a committee may give
          Payable,        \* those that pay one side
          Absent,         \* no answer
          RefundOpenAt    \* when a standing answer may be abandoned

VARIABLES clock, phase, answer, challenged, winner

judgementVars == <<phase, answer, challenged, winner>>

Ended == phase \in {"settled", "refunded"}

Init == /\ phase = "pending"
        /\ answer = Absent
        /\ challenged = FALSE
        /\ winner \in Payable

Give(o) ==
    /\ phase = "pending"
    /\ phase' = "answered"
    /\ answer' = o
    /\ UNCHANGED <<challenged, winner>>

Challenge ==
    /\ phase = "answered"
    /\ ~challenged
    /\ phase' = "pending"
    /\ answer' = Absent
    /\ challenged' = TRUE
    /\ UNCHANGED winner

CarryOut ==
    /\ phase = "answered"
    /\ answer \in Payable
    /\ phase' = "settled"
    /\ winner' = answer
    /\ UNCHANGED <<answer, challenged>>

Refund ==
    /\ ~Ended
    /\ phase = "answered" => answer \notin Payable \/ clock >= RefundOpenAt
    /\ phase' = "refunded"
    /\ UNCHANGED <<answer, challenged, winner>>

Next == \/ \E o \in Answers : Give(o)
        \/ Challenge
        \/ CarryOut
        \/ Refund

Spec == Init /\ [][Next]_judgementVars
=============================================================================
