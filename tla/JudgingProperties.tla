------------------------- MODULE JudgingProperties -------------------------
(***************************************************************************)
(* What a committee's judging promises, stated against a reading of the    *)
(* market's document that shares no operator with the code's: where a path *)
(* leads, when a source can be read, and what a sentence of the rules says. *)
(***************************************************************************)
EXTENDS Judging

Votes == {NO, YES, UNRESOLVABLE}

-----------------------------------------------------------------------------
(* Where a path leads.                                                     *)

(* The element an index names, counted from 0 at the front or from -1 at   *)
(* the back; the member a name names.                                      *)
Leads(from, step, to) ==
    IF step.kind = "index"
    THEN /\ from.type = "array"
         /\ \E k \in DOMAIN from.items :
              /\ from.items[k] = to
              /\ step.at \in {k - 1, k - 1 - Len(from.items)}
    ELSE /\ from.type = "object"
         /\ \E name \in DOMAIN from.members : name = step.name /\ from.members[name] = to

(* The values that a value holds.                                          *)
Inside(value) ==
    CASE value.type = "array"  -> {value.items[k] : k \in DOMAIN value.items}
      [] value.type = "object" -> {value.members[name] : name \in DOMAIN value.members}
      [] OTHER -> {}

(* The values found by following a selector, a step at a time.             *)
Found(document, steps) ==
    LET after[n \in 0..Len(steps)] ==
          IF n = 0 THEN {document}
          ELSE {w \in UNION {Inside(v) : v \in after[n - 1]} :
                  \E v \in after[n - 1] : Leads(v, steps[n], w)}
    IN after[Len(steps)]

Declared(i) == spec.sources[i]
ByPath(i)   == Declared(i).selector.lead \in {"$", ".", "["}

(* A source can be read when it may be asked for, arrives with success, and *)
(* holds, whole, the value its selector leads to or else any text at all.   *)
Readable(i) ==
    LET answer == responses[i]
    IN /\ Declared(i).kind \in {"http", "https"}
       /\ Declared(i).url \in [scheme : {"http", "https"}, host : {"public"}]
       /\ answer.headers = "ok" /\ answer.arrival = "ok"
       /\ answer.success
       /\ answer.bytes > 0
       /\ IF ByPath(i)
          THEN /\ Unsupported \notin Range(Declared(i).selector.steps)
               /\ answer.bytes <= MaxBytes
               /\ answer.body.type # "text"
               /\ Found(answer.body, Declared(i).selector.steps) \ {Null} # {}
          ELSE answer.body.type = "text" => answer.body.chars > 0

(* A receipt cites exactly the sources that could be read: none it never   *)
(* fetched, none that was an error page, a cut document or a missing key;  *)
(* and a model was shown those, and told the others are missing.           *)
(* (evidence.ts observedIndices: "claimed the resolver had read documents  *)
(* it had never fetched".)                                                 *)
CitationsWereRead ==
    \A r \in Range(receipts) :
        /\ r.citations = {i \in Sources : Readable(i)}
        /\ r.route = "model" =>
             r.shown = [i \in Sources |-> IF Readable(i) THEN "data" ELSE "NOT OBSERVED"]

-----------------------------------------------------------------------------
(* What a sentence says.                                                   *)

(* The clause that governs the comparison is the last opened before it, and *)
(* each negation in that clause turns it round.                            *)
SaysYes(sentence, number) ==
    LET at      == CHOOSE i \in DOMAIN sentence : sentence[i].word = "strictly"
        opened  == {i \in 1..(at - 1) : sentence[i] \in {YesIf, NoIf}}
        clause  == Max(opened)
        turned  == {i \in clause..Len(sentence) : sentence[i].word = "negation"}
        met     == IF sentence[at].sign = ">" THEN number > sentence[at].number
                                              ELSE number < sentence[at].number
        holds   == met <=> (Cardinality(turned) % 2 = 0)
    IN holds <=> (sentence[clause] = YesIf)

(* What the only source reads as: the value its path leads to, or the body. *)
NumberOf(i) ==
    IF ByPath(i)
    THEN (CHOOSE v \in Found(responses[i].body, Declared(i).selector.steps) : TRUE).number
    ELSE responses[i].body.number

(* A market decided in code is decided as its rules say: there was one     *)
(* source, it could be read, and the comparing sentence says of its number  *)
(* what every member voted.  Nobody is asked, so nobody would notice.      *)
(* (inference.ts decideByThreshold, "exactly inverted, on the same numbers".) *)
ArithmeticIsRight ==
    \A r \in Range(receipts) : r.route = "arithmetic" =>
        LET deciding == {s \in Range(spec.rules) : \E w \in Range(s) : w.word = "strictly"}
        IN /\ Len(spec.sources) = 1
           /\ Readable(1)
           /\ \A s \in deciding : r.outcome = IF SaysYes(s, NumberOf(1)) THEN YES ELSE NO

(* Rules that negate with whole words, and put no NO clause between a YES   *)
(* clause and the comparison.  Of others `decideByThreshold` may decide the  *)
(* opposite of what they say.                                              *)
PlainlyWorded ==
    \A s \in Specs : \A sentence \in Range(s.rules) :
        /\ \A i \in DOMAIN sentence :
             sentence[i].word = "negation" => sentence[i].text \in RecognisedNegations
        /\ \A i, j, k \in DOMAIN sentence :
             sentence[i] = YesIf /\ sentence[j] = NoIf /\ sentence[k].word = "strictly"
               => ~(i < j /\ j < k)

(* A vote for a side has something behind it: a comparison in code over a  *)
(* source that was read, or an attestation; and a comparison names no      *)
(* enclave that took no part.  (resolve.ts: "an unattested answer is not   *)
(* evidence. Do not commit it.")                                           *)
SidesHaveBacking ==
    \A r \in Range(receipts) :
        /\ r.outcome \in {NO, YES} =>
             r.attested \/ (r.route = "arithmetic" /\ r.citations # {})
        /\ r.route = "arithmetic" => r.provider = "none" /\ ~r.attested

=============================================================================
