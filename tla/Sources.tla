------------------------------- MODULE Sources -------------------------------
(***************************************************************************)
(* Where the frontend reads from, lib/data/index.ts: a fixture, the chain  *)
(* by eth_call, or the chain with its logs.  A source declares what it can *)
(* answer; a question it cannot is refused by the layer that could not     *)
(* answer it, and the page says so in the place of a figure                *)
(* (primitives/Unavailable.tsx).                                           *)
(***************************************************************************)
EXTENDS Naturals

Modes == {"mock", "chain", "indexer"}

(* NEXT_PUBLIC_*: what a deployment may leave out.                         *)
Settings == {"RPC_URL", "CHAIN_ID", "MARKET_FACTORY", "ZG_INDEXER"}

(* chainConfig: fails by name at construction; without a storage indexer a *)
(* deployment is complete and cannot read documents.                       *)
Missing(settings) == {"RPC_URL", "CHAIN_ID", "MARKET_FACTORY"} \ settings

Storage(settings) == "ZG_INDEXER" \in settings

FromState == {"LIST_MARKETS", "MARKET_STATE", "AGENT_BALANCE"}
FromLogs  == {"TRADE_TAPE", "PRICE_HISTORY", "AGENT_POSITIONS", "COST_BASIS"}
FromDocs  == {"MARKET_SPEC_BLOB", "SETTLEMENT_RECEIPT"}

Capabilities == FromState \union FromLogs \union FromDocs

ChainSource(settings) == FromState \union (IF Storage(settings) THEN FromDocs ELSE {})

(* LogSource: whatever the chain it decorates can do, and the logs.        *)
LogSource(settings) == ChainSource(settings) \union FromLogs

MockSource == Capabilities

(* getDataSource: a source, or none.                                       *)
DataSource(mode, settings) ==
    IF mode = "mock" THEN [built |-> TRUE, can |-> MockSource]
    ELSE [built |-> Missing(settings) = {},
          can   |-> IF mode = "chain" THEN ChainSource(settings) ELSE LogSource(settings)]

(* The layer that could not answer: documents are always read by the chain *)
(* source, whatever decorates it.                                          *)
Refuses(mode, capability) == IF capability \in FromDocs \/ mode = "indexer" THEN "chain" ELSE mode

(* toQuery: an absent capability is a state of its own.                    *)
ToQuery(mode, settings, capability) ==
    IF capability \in DataSource(mode, settings).can THEN [status |-> "asked"]
    ELSE [status |-> "unavailable", capability |-> capability, mode |-> Refuses(mode, capability)]

(* provider.tsx: and is not tried again.                                   *)
Retries(query, count) == query.status # "unavailable" /\ count < 2

(* WHY: the lightest mode that supplies it, if any does.                   *)
Provider(capability) ==
    IF capability \in FromState THEN {"chain"}
    ELSE IF capability \in FromLogs THEN {"indexer"}
    ELSE {}

(* Unavailable and explain: never the mode the reader is already in.       *)
Unavailable(capability, mode) ==
    [says |-> capability, in |-> mode, available |-> Provider(capability) \ {mode}]

(* ModeIndicator.tsx.                                                      *)
ModeIndicator(mode) == [mode |-> mode, warns |-> mode = "mock"]
=============================================================================
