------------------------------ MODULE Evidence ------------------------------
(***************************************************************************)
(* packages/agent-kit/src/evidence.ts: how a resolver reads one source a   *)
(* MarketSpec declares, and what it reports when it cannot.                *)
(*                                                                         *)
(* A URL is the record of what the checks look at, a selector its leading  *)
(* character and the steps it spells, a body its length in bytes and what  *)
(* it holds: a JSON value, or text that no parser takes for JSON.  A value   *)
(* is a record with a `type`; a scalar and a text carry the characters they *)
(* read as and what `Number()` makes of those, NotANumber or an integer.    *)
(***************************************************************************)
EXTENDS Integers, Sequences, FiniteSetsExt, SequencesExt

CONSTANTS
    MaxBytes,         \* bytes of a body that are kept
    MaxValueChars,    \* characters of an observation that are kept
    NotANumber        \* what `Number()` makes of text that is no number

ASSUME EvidenceAssumption == {MaxBytes, MaxValueChars} \subseteq Nat \ {0}

(* Why a source gave no observation: one of these, never a blank.          *)
Failures == {"unsupported-kind", "unsupported-url", "blocked-host",
             "unsupported-selector", "timeout", "network", "http-status",
             "empty-body", "too-large", "malformed-body", "no-match"}

Null   == [type |-> "null", chars |-> 4, number |-> NotANumber]
Absent == [type |-> "absent"]
Array(items)    == [type |-> "array", items |-> items]
Object(members) == [type |-> "object", members |-> members]
Scalar(chars, number) == [type |-> "scalar", chars |-> chars, number |-> number]
Text(chars, number)   == [type |-> "text", chars |-> chars, number |-> number]

-----------------------------------------------------------------------------
(* Selectors.                                                              *)

(* Three kinds: nothing, an attempt at a path, or a phrase for a reader.   *)
ClassifySelector(selector) ==
    CASE selector.lead = ""               -> "none"
      [] selector.lead \in {"$", ".", "["} -> "path"
      [] OTHER                            -> "hint"

Member(name) == [kind |-> "member", name |-> name]
Index(at)    == [kind |-> "index", at |-> at]
(* `..`, `*`, `?`, `:`, `,`, an unclosed bracket, an unquoted name.        *)
Unsupported  == [kind |-> "unsupported"]

(* One step that is not supported refuses the whole selector.              *)
ParsePath(selector) == \A i \in DOMAIN selector.steps : selector.steps[i] # Unsupported

(* What one step selects; a negative index counts from the end.            *)
Child(value, step) ==
    IF step.kind = "index"
    THEN LET at == IF step.at < 0 THEN Len(value.items) + step.at ELSE step.at
         IN IF value.type = "array" /\ at >= 0 /\ at < Len(value.items)
            THEN value.items[at + 1] ELSE Absent
    ELSE IF value.type = "object" /\ step.name \in DOMAIN value.members
         THEN value.members[step.name] ELSE Absent

(* Once a step has missed, `Child` finds nothing in what it left.          *)
ApplyPath(value, steps) ==
    LET after[n \in 0..Len(steps)] ==
          IF n = 0 THEN value ELSE Child(after[n - 1], steps[n])
    IN after[Len(steps)]

-----------------------------------------------------------------------------
(* Reading a body.                                                         *)

Schemes == {"http", "https"}

(* A literal loopback or private name or address.                          *)
IsPrivateHost(url) == url.host = "private"

(* More bytes than the cap, of which only the cap's worth is kept.         *)
Truncated(response) == response.bytes > MaxBytes

Kept(response) == IF Truncated(response) THEN MaxBytes ELSE response.bytes

(* A prefix of a JSON document is not JSON.                                *)
IsJson(response) == ~Truncated(response) /\ response.body.type # "text"

(* JSON is serialised again; anything else is read as the text of what was *)
(* kept, markup gone.                                                      *)
ReadableChars(response) ==
    IF \/ response.body.type = "text"
       \/ IsJson(response) /\ response.body.type \in {"scalar", "null"}
    THEN response.body.chars ELSE Kept(response)

(* What the document as a whole reads as.                                  *)
DocumentNumber(response) ==
    IF \/ response.body.type = "text"
       \/ IsJson(response) /\ response.body.type = "scalar"
    THEN response.body.number ELSE NotANumber

Clip(chars, number) ==
    [clipped |-> chars > MaxValueChars,
     number  |-> IF chars > MaxValueChars THEN NotANumber ELSE number]

(* A selected array or object is serialised, and is no number.             *)
Rendered(value) ==
    IF value.type = "scalar" THEN Clip(value.chars, value.number)
                             ELSE Clip(MaxValueChars, NotANumber)

-----------------------------------------------------------------------------
(* `observeSource`.                                                        *)

(* What the market declared already rules out a request.                   *)
RefusedUnread(source) == <<
    <<source.kind \notin Schemes, "unsupported-kind">>,
    <<source.url.scheme \notin Schemes, "unsupported-url">>,
    <<IsPrivateHost(source.url), "blocked-host">>,
    <<ClassifySelector(source.selector) = "path" /\ ~ParsePath(source.selector),
      "unsupported-selector">>
    >>

(* One timer covers the headers and the body.                              *)
RefusedByNetwork(response) == <<
    <<"timeout" \in {response.headers, response.arrival}, "timeout">>,
    <<"network" \in {response.headers, response.arrival}, "network">>,
    <<~response.success, "http-status">>,
    <<response.bytes = 0, "empty-body">>
    >>

Selected(source, response) ==
    IF IsJson(response) THEN ApplyPath(response.body, source.selector.steps)
                        ELSE Absent

(* Mutant: a selector is run on whatever arrived before the cap.           *)
RefusedBySelectorUncapped(source, response) == <<
    <<response.body.type = "text", "malformed-body">>,
    <<ApplyPath(response.body, source.selector.steps).type \in {"absent", "null"},
      "no-match">>
    >>

RefusedBySelector(source, response) == <<
    <<Truncated(response), "too-large">>,
    <<response.body.type = "text", "malformed-body">>,
    <<Selected(source, response).type \in {"absent", "null"}, "no-match">>
    >>

RefusedAsDocument(response) == <<
    <<ReadableChars(response) = 0, "empty-body">>
    >>

FirstOf(refusals) ==
    LET applies == {i \in DOMAIN refusals : refusals[i][1]}
    IN IF applies = {} THEN "none" ELSE refusals[Min(applies)][2]

(* The checks are made in this order and the first that applies is given.  *)
Refusal(source, response) ==
    LET unread  == FirstOf(RefusedUnread(source))
        network == FirstOf(RefusedByNetwork(response))
    IN IF unread # "none" THEN unread
       ELSE IF network # "none" THEN network
       ELSE FirstOf(IF ClassifySelector(source.selector) = "path"
                    THEN RefusedBySelector(source, response)
                    ELSE RefusedAsDocument(response))

(* Whether the receipt can name what was fetched.                          *)
Fetched(source, response) ==
    /\ FirstOf(RefusedUnread(source)) = "none"
    /\ {response.headers, response.arrival} = {"ok"}

ObserveSource(source, response) ==
    LET reason == Refusal(source, response)
        via    == IF ClassifySelector(source.selector) = "path"
                  THEN "selector" ELSE "document"
        read   == IF via = "selector" THEN Rendered(Selected(source, response))
                  ELSE Clip(ReadableChars(response), DocumentNumber(response))
    IN IF reason # "none"
       THEN [ok |-> FALSE, reason |-> reason, fetched |-> Fetched(source, response)]
       ELSE [ok |-> TRUE, via |-> via, truncated |-> Truncated(response),
             clipped |-> read.clipped, number |-> read.number,
             hint |-> ClassifySelector(source.selector) = "hint"]

-----------------------------------------------------------------------------
(* The receipt: one entry for each source, in the order they were declared, *)
(* and citations of those that were read.                                  *)

ReceiptEvidence(observations) ==
    [i \in DOMAIN observations |->
        [observed |-> observations[i].ok,
         digest   |-> observations[i].ok \/ observations[i].fetched]]

ObservedIndices(observations) == {i \in DOMAIN observations : observations[i].ok}
=============================================================================
