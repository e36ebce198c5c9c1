--------------------------- MODULE SettlementPage ---------------------------
(***************************************************************************)
(* The settled half of a market's page: components/settlement and          *)
(* components/market/SettlementSources.tsx.  The winner comes from the     *)
(* chain and the promise from the MarketSpec; the receipt only qualifies   *)
(* the one and is read against the other.                                  *)
(***************************************************************************)
EXTENDS Receipts

(* Market.winningOutcome as the pages read it.                             *)
Winner(m) == IF status[m] = "Settled" THEN winningOutcome[m] ELSE NoOutcome

(* The data of a query, or null.                                           *)
Data(query) == IF query.status = "ready" THEN query.receipt ELSE [kind |-> "none"]

(* FinalOutcome.tsx: three states of who decided, and never the receipt's  *)
(* idea of what.                                                           *)
FinalOutcome(m, receipt) ==
    IF Winner(m) = NoOutcome THEN [shown |-> "not resolved"]
    ELSE [shown   |-> "verdict",
          winner  |-> Winner(m),
          eyebrow |-> IF receipt.kind = "none" THEN "resolution"
                      ELSE IF receipt.data.viaCommittee THEN "committee"
                      ELSE "one resolver"]

-----------------------------------------------------------------------------
(* ResolutionEvidence.tsx                                                  *)

(* VoteRow: dissent is from the outcome of the receipt.                    *)
Dissents(receipt, a) ==
    /\ receipt.outcome # NoOutcome
    /\ receipt.votes[a].outcome # NoOutcome
    /\ receipt.votes[a].outcome # receipt.outcome

(* What backs a TEE badge, or that nothing does.                           *)
InferenceProvenance(receipt) ==
    IF receipt.route = "0g-compute" \/ receipt.provider
    THEN IF \E a \in DOMAIN receipt.votes : receipt.votes[a].teed THEN "attested" ELSE "unattested"
    ELSE IF ~receipt.judged /\ DOMAIN receipt.votes = {} THEN "no inference"
    ELSE "private endpoint"

(* Section by section: criteria and reasoning exist once the receipt has   *)
(* an outcome.                                                             *)
ResolutionEvidence(receipt) ==
    [votes      |-> IF DOMAIN receipt.votes # {} THEN "rows"
                    ELSE IF receipt.outcome = NoOutcome THEN "none yet" ELSE "decided directly",
     dissents   |-> {a \in DOMAIN receipt.votes : Dissents(receipt, a)},
     provenance |-> InferenceProvenance(receipt),
     reasoning  |-> IF receipt.outcome = NoOutcome THEN "not resolved" ELSE "verbatim",
     judge      |-> receipt.outcome # NoOutcome /\ receipt.judged]

-----------------------------------------------------------------------------
(* SettlementReport.tsx                                                    *)
OutcomeLine(m) == IF Winner(m) = NoOutcome THEN "not resolved" ELSE Winner(m)

(* "No receipt was anchored" is said only when the chain was asked.        *)
ResolverRecord(query) ==
    IF query.status # "ready" THEN [shown |-> query.status]
    ELSE IF query.receipt.kind = "none" THEN [shown |-> "nothing anchored"]
    ELSE [shown |-> "evidence", evidence |-> ResolutionEvidence(query.receipt.data)]

(* A MarketSpec as parseSpec leaves it, or none that could be read.        *)
NoSpec == [read |-> FALSE]
Spec0(sources, prompt) == [read |-> TRUE, sources |-> sources, prompt |-> prompt]

(* Of a document not read nothing is said but that it was not, save for    *)
(* the prompt.                                                             *)
Promised(spec) ==
    [verified |-> spec.read,
     rules    |-> IF spec.read THEN "rules" ELSE "unavailable",
     prompt   |-> IF spec.read /\ spec.prompt THEN "prompt" ELSE "carries none",
     sources  |-> IF ~spec.read THEN "unavailable"
                  ELSE IF spec.sources = {} THEN "names none" ELSE "list"]

SettlementReport(m, spec, query) ==
    [promised |-> Promised(spec), outcome |-> OutcomeLine(m), record |-> ResolverRecord(query)]

(* SettlementSources.tsx, on the page of every market.                     *)
SettlementSources(spec) ==
    IF ~spec.read THEN [shown |-> "unavailable"]
    ELSE IF spec.sources = {} THEN [shown |-> "the chain itself"]
    ELSE [shown |-> "list", numbered |-> Cardinality(spec.sources) > 1, sources |-> spec.sources]

(* MarketView.renderSettlement: a settled market only.                     *)
SettlementPanel(m, spec, query) ==
    IF status[m] # "Settled" THEN [shown |-> FALSE]
    ELSE [shown  |-> TRUE,
          final  |-> FinalOutcome(m, Data(query)),
          report |-> SettlementReport(m, spec, query)]
=============================================================================
