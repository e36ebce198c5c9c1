----------------------------- MODULE Inference -----------------------------
(***************************************************************************)
(* packages/agent-kit/src/inference.ts: a judgement of a market, made by   *)
(* arithmetic where the rules allow it and by an attested model otherwise. *)
(*                                                                         *)
(* The rules are a sequence of sentences and a sentence the sequence of    *)
(* the words the code looks for: YesIf, NoIf, a negation, a comparison     *)
(* with the number it names.  A model's reply is the record of what the    *)
(* parser looks at.                                                        *)
(***************************************************************************)
EXTENDS Evidence

NO == 0
YES == 1
UNRESOLVABLE == 2

Unreadable == [outcome |-> -1]     \* `UnreadableBeliefError`, or a failed request
Declines   == [outcome |-> -1]     \* `decideByThreshold` returned null

YesIf == [word |-> "yes if"]
NoIf  == [word |-> "no if"]
Negation(text) == [word |-> "negation", text |-> text]
Compares(sign, number, whole) ==
    [word |-> "strictly", sign |-> sign, number |-> number, whole |-> whole]

-----------------------------------------------------------------------------
(* `decideByThreshold`.                                                    *)

Positions(sentence, word) == {i \in DOMAIN sentence : sentence[i].word = word}

(* The pattern asks for a word boundary before `n't`, and a contraction    *)
(* has a letter there: it matches the whole words only.                    *)
RecognisedNegations == {"not", "unless", "except", "never", "neither", "nor", "other than"}

(* Mutant: negations are not looked for.                                   *)
NegatedNever(sentence) == FALSE

Negated(sentence) ==
    \E i \in Positions(sentence, "negation") :
        sentence[i].text \in RecognisedNegations

(* The one sentence that compares, granting YES before it does so.  A      *)
(* number the pattern stops in the middle of is no threshold.              *)
Decides(sentence) ==
    LET compares == Positions(sentence, "strictly")
        grants   == Positions(sentence, "yes if")
    IN /\ Cardinality(compares) = 1
       /\ grants # {}
       /\ \A c \in compares : Min(grants) < c /\ sentence[c].whole
       /\ ~Negated(sentence)

(* Exactly one source, read, not cut, and a number as a whole.             *)
ReadsOneNumber(observations) ==
    /\ Len(observations) = 1
    /\ observations[1].ok
    /\ ~observations[1].clipped
    /\ observations[1].number # NotANumber

Holds(sign, reading, threshold) ==
    IF sign = ">" THEN reading > threshold ELSE reading < threshold

DecideByThreshold(rules, observations) ==
    LET candidates == {i \in DOMAIN rules : Positions(rules[i], "strictly") # {}}
        sentence   == rules[Min(candidates)]
        compare    == sentence[Min(Positions(sentence, "strictly"))]
    IN IF /\ ReadsOneNumber(observations)
          /\ Cardinality(candidates) = 1
          /\ Decides(sentence)
       THEN [outcome |-> IF Holds(compare.sign, observations[1].number, compare.number)
                         THEN YES ELSE NO]
       ELSE Declines

-----------------------------------------------------------------------------
(* `ask`, and the parsers of its answer.                                   *)

(* A provider that errs, or answers without content or without a chat id.  *)
Answered(reply) == reply.success /\ reply.content /\ reply.chatId

(* `processResponse` says true, false, or null when it could not tell.     *)
TeeVerified(reply) == reply.verified = "true"

Answers == [YES |-> YES, NO |-> NO, UNRESOLVABLE |-> UNRESOLVABLE]

(* Never defaulted: anything else than one of the three answers throws.    *)
ParseJudgement(reply) ==
    IF reply.json = "object" /\ reply.outcome \in DOMAIN Answers
    THEN [outcome |-> Answers[reply.outcome]] ELSE Unreadable

-----------------------------------------------------------------------------
(* `settle`: arithmetic first, and the model for everything it declines.   *)

ByArithmetic(decision) ==
    [route |-> "arithmetic", outcome |-> decision.outcome, attested |-> FALSE]

ByModel(reply) ==
    [route |-> "model", outcome |-> ParseJudgement(reply).outcome,
     attested |-> TeeVerified(reply)]

(* The prompt tells the model of every source, read or missing.            *)
ObservationsSection(observations) ==
    [i \in DOMAIN observations |->
        IF observations[i].ok THEN "data" ELSE "NOT OBSERVED"]
=============================================================================
