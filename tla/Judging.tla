------------------------------ MODULE Judging ------------------------------
(***************************************************************************)
(* The middle of packages/agent-kit/examples/resolve.ts: the sources of a  *)
(* market are read once, side by side, and then each member of the sampled *)
(* committee judges the market from what was read, abstains when nothing   *)
(* attests its answer, and stores a receipt.  A key that is missing, a     *)
(* request that fails and a reply that cannot be read throw, and a throw   *)
(* ends the script: members after it are not judged, and the commitments   *)
(* of those before it stand.                                               *)
(***************************************************************************)
EXTENDS Inference

CONSTANTS
    Values,       \* what a JSON body may be or hold, at any depth
    Specs,        \* [rules, sources] of the markets considered
    Responses,    \* what a source's server may answer
    Replies,      \* what an inference provider may answer
    Members,      \* size of the committee
    Providers     \* ZG_PROVIDERS, in the order they are handed out

ASSUME JudgingAssumption == Members \in Nat /\ Len(Providers) > 0

(* JSON: what an array or an object holds is JSON, however deep.           *)
ASSUME ValuesAssumption ==
    \A v \in Values :
        \/ v = Null
        \/ v.type = "scalar"
        \/ v.type = "array" /\ v.items \in Seq(Values)
        \/ v.type = "object" /\ \A name \in DOMAIN v.members : v.members[name] \in Values

(* A body that parses is such a value, and no scalar is written with       *)
(* nothing.                                                                *)
ASSUME ResponsesAssumption ==
    \A r \in Responses :
        /\ {r.headers, r.arrival} \subseteq {"ok", "timeout", "network"}
        /\ r.success \in BOOLEAN
        /\ r.bytes \in Nat
        /\ \/ r.body.type = "text" /\ r.body.chars \in Nat
           \/ r.body \in Values /\ (r.body.type = "scalar" => r.body.chars > 0)

(* A document parses: its sources have a URL and a path of whole steps, and *)
(* its rules are read as the words that are looked for.                    *)
ASSUME SpecsAssumption ==
    \A s \in Specs :
        /\ s.sources \in Seq(Range(s.sources))
        /\ \A source \in Range(s.sources) :
             /\ source.url = [scheme |-> source.url.scheme, host |-> source.url.host]
             /\ source.url.host \in {"public", "private"}
             /\ source.selector.steps \in Seq(Range(source.selector.steps))
             /\ \A step \in Range(source.selector.steps) :
                  \/ step = Unsupported
                  \/ step.kind = "member" /\ step = Member(step.name)
                  \/ step.kind = "index" /\ step = Index(step.at) /\ step.at \in Int
        /\ s.rules \in Seq(Range(s.rules))
        /\ \A sentence \in Range(s.rules) :
             /\ sentence \in Seq(Range(sentence))
             /\ \A word \in Range(sentence) :
                  word \in {YesIf, NoIf} \/ word.word \in {"negation", "strictly"}

VARIABLES
    spec,           \* the market's document
    responses,      \* by source, what its server answered, or NoResponse
    receipts,       \* of the members judged so far, in order
    stage           \* "reading", "judging", "done", "thrown"

judgingVars == <<spec, responses, receipts, stage>>

NoResponse == [headers |-> "none"]

Sources == DOMAIN spec.sources

Init ==
    /\ spec \in Specs
    /\ responses = [i \in Sources |-> NoResponse]
    /\ receipts = <<>>
    /\ stage = "reading"

(* Results are placed by the source's index, in whatever order they come.  *)
Observations == [i \in Sources |-> ObserveSource(spec.sources[i], responses[i])]

-----------------------------------------------------------------------------
(* `gatherEvidence`: the reads run side by side, none waits for another,   *)
(* and each ends within its timeout.                                       *)
Arrives(i) ==
    /\ stage = "reading"
    /\ responses[i] = NoResponse
    /\ \E response \in Responses :
         responses' = [responses EXCEPT ![i] = response]
    /\ UNCHANGED <<spec, receipts, stage>>

Gathered ==
    /\ stage = "reading"
    /\ \A i \in Sources : responses[i] # NoResponse
    /\ stage' = "judging"
    /\ UNCHANGED <<spec, responses, receipts>>

-----------------------------------------------------------------------------
(* Members take the providers in turn.                                     *)
ProviderOf(member) == Providers[((member - 1) % Len(Providers)) + 1]

(* Mutant: an unattested answer is committed as it is.                     *)
VoteUnchecked(judgement) == judgement.outcome

VoteOf(judgement) ==
    IF judgement.route = "arithmetic" \/ judgement.attested
    THEN judgement.outcome ELSE UNRESOLVABLE

(* The receipt says what was read, by which route, and cites no source     *)
(* that was not read; a comparison in code names no provider.              *)
Receipt(judgement) ==
    [route     |-> judgement.route,
     provider  |-> IF judgement.route = "arithmetic" THEN "none"
                   ELSE ProviderOf(Len(receipts) + 1),
     attested  |-> judgement.attested,
     outcome   |-> VoteOf(judgement),
     shown     |-> IF judgement.route = "arithmetic" THEN <<>>
                   ELSE ObservationsSection(Observations),
     evidence  |-> ReceiptEvidence(Observations),
     citations |-> ObservedIndices(Observations)]

(* Stored on 0G, then committed.                                           *)
Commit(judgement) ==
    /\ receipts' = Append(receipts, Receipt(judgement))
    /\ stage' = IF Len(receipts) + 1 = Members THEN "done" ELSE "judging"
    /\ UNCHANGED <<spec, responses>>

Throw ==
    /\ stage' = "thrown"
    /\ UNCHANGED <<spec, responses, receipts>>

JudgeByArithmetic ==
    /\ stage = "judging"
    /\ DecideByThreshold(spec.rules, Observations) # Declines
    /\ Commit(ByArithmetic(DecideByThreshold(spec.rules, Observations)))

JudgeByModel(reply) ==
    /\ stage = "judging"
    /\ DecideByThreshold(spec.rules, Observations) = Declines
    /\ Answered(reply)
    /\ ParseJudgement(reply) # Unreadable
    /\ Commit(ByModel(reply))

ReplyUnusable(reply) ==
    /\ stage = "judging"
    /\ DecideByThreshold(spec.rules, Observations) = Declines
    /\ ~Answered(reply) \/ ParseJudgement(reply) = Unreadable
    /\ Throw

(* No derived key is the operator of this member, or an upload fails.      *)
MemberUnusable ==
    /\ stage = "judging"
    /\ Throw

Ended ==
    /\ stage \in {"done", "thrown"}
    /\ UNCHANGED judgingVars

Next ==
    \/ \E i \in Sources : Arrives(i)
    \/ Gathered
    \/ JudgeByArithmetic
    \/ \E reply \in Replies : JudgeByModel(reply) \/ ReplyUnusable(reply)
    \/ MemberUnusable
    \/ Ended

Spec == Init /\ [][Next]_judgingVars
=============================================================================
