----------------------------- MODULE Operators -----------------------------
(***************************************************************************)
(* Keepers and a committee's script over one chain, with everybody else    *)
(* free to make the permissionless calls first.                            *)
(***************************************************************************)
EXTENDS Keeper, CommitteeRun, SettlementPage

opsVars == <<vars, pass, runVars>>

OpsInit == Init /\ KeeperInit /\ RunInit

(* Other keepers, traders, challengers, the members whose key is held      *)
(* elsewhere; blocks.                                                      *)
Others(m) ==
    \/ Close(m)
    \/ Fail(m)
    \/ RequestResolution(m)
    \/ DrawAges(m)
    \/ OpenResolution(m)
    \/ OpenDisputeRound(m)
    \/ \E challenger \in Challengers : Dispute(m, challenger)
    \/ Finalize(m)
    \/ MarkFailed(m)
    \/ \E a \in Agents \ HeldKeys, outcome \in VoteChoices : CommitVote(m, a, outcome)
    \/ \E a \in Agents \ HeldKeys : RevealVote(m, a)

OpsNext ==
    \/ \E k \in Keepers : KeeperStep(k) /\ UNCHANGED runVars
    \/ RunnerStep /\ UNCHANGED pass
    \/ Time /\ UNCHANGED <<pass, runVars>>
    \/ \E m \in Markets : Others(m) /\ UNCHANGED <<pass, runVars>>
    \/ Finished /\ UNCHANGED <<pass, runVars>>

OpsSpec == OpsInit /\ [][OpsNext]_opsVars

(* The timer starts the keeper, which takes its steps; time passes; and of *)
(* the calls one keeper sends in pass after pass, not every one is lost.   *)
KeptSpec ==
    /\ OpsSpec
    /\ WF_opsVars(Time /\ UNCHANGED <<pass, runVars>>)
    /\ \A k \in Keepers :
         /\ WF_opsVars(KeeperStep(k) /\ UNCHANGED runVars)
         /\ \A m \in Markets, fn \in {"close", "fail"} :
              SF_opsVars(Sends(k, fn, m) /\ UNCHANGED runVars)

-----------------------------------------------------------------------------
(* A keeper's call is thrown away only when somebody else moved the market *)
(* since the keeper looked: as long as it is as it was seen, the call it is *)
(* about to send succeeds, however long the sending takes.  (keeper.ts:    *)
(* "Simulating first turns the race into a skip".)                         *)
AbortsOnlyWhenOvertaken ==
    \A k \in Keepers : pass[k].at = "sending" =>
        \A m \in Markets : \A fn \in SentCalls :
            (pass[k].call = <<fn, m>> /\ pass[k].basis = View(m)) => ENABLED Call(fn, m)

(* What a script believes it has committed is what the chain holds for the *)
(* member, through crashes, reruns and rounds opened by others: otherwise  *)
(* the reveal reverts and the member is slashed as a no-show.              *)
VotesAreOnChain ==
    run.at \in {"committing", "revealing"} =>
        \A a \in Agents : run.votes[a] # NoVote =>
            /\ a \in committee[Subject] \/ round[Subject].index = 2
            /\ commitment[Subject][a] = run.votes[a]

(* A script that reached its end leaves the market ended, says of it what  *)
(* is so, and an answer it saw settled is the one its own votes carry,     *)
(* whatever an earlier run of it committed before it died.                 *)
ReportIsTrue ==
    run.at \in {"restoring", "done"} =>
        /\ run.report.status = status[Subject]
        /\ Terminal(Subject)
        /\ status[Subject] = "Settled" =>
             /\ run.report.winner = winningOutcome[Subject]
             /\ Cardinality({a \in Agents : run.votes[a].outcome = run.report.winner})
                  >= round[Subject].k
        /\ (status[Subject] # "Settled" /\ run.script = "resolve") =>
             run.report.winner = NONE

(* How a committee's documents may have come about: no model asked         *)
(* (committee-run.mjs), or a model, an answer of which that no enclave     *)
(* vouches for is committed as UNRESOLVABLE (resolve.ts).                  *)
Doc(asked, teed) ==
    [route |-> IF asked THEN "broker" ELSE "none", model |-> asked, provider |-> asked, teed |-> teed]

Undocumented == [a \in Agents |-> Doc(FALSE, FALSE)]

Documents(m) ==
    {Undocumented,
     [a \in Agents |-> Doc(TRUE, TRUE)],
     [a \in Agents |-> Doc(TRUE, reveal[m][a] \in {NO, YES})]}

(* Of a promise nobody could read the two panels say so, and only of one   *)
(* that was read do they say what it names.  (SettlementSources.tsx: "a    *)
(* claim about the market" and "a claim about this page".)                 *)
PromiseIsTold ==
    \A spec \in {NoSpec} \cup {Spec0(sources, prompt) : sources \in SUBSET {1, 2}, prompt \in BOOLEAN} :
       LET report == Promised(spec)
           panel  == SettlementSources(spec)
       IN /\ panel.shown = "unavailable" <=> ~report.verified
          /\ panel.shown = "list" <=> report.sources = "list"
          /\ report.verified <=> report.rules = "rules"
          /\ panel.shown = "list" => panel.sources = spec.sources

(* The settled half of the page says who won and who decided, and says it  *)
(* of this settlement, whatever state the query for its receipt is in: the *)
(* verdict is the chain's in both places; nobody is told that one key      *)
(* decided, or that nothing was anchored, under an answer a committee gave *)
(* and documented; a reason is given wherever the narrative is from a      *)
(* member of the majority; and what is said of an enclave is so.           *)
SettlementIsTold(docs, readable, first) ==
    LET decided == {a \in Anchored(Subject) \cap readable : reveal[Subject][a] \in {NO, YES}}
        others  == {a \in Anchored(Subject) : reveal[Subject][a] # winningOutcome[Subject]}
    IN \A state \in {"answered", "loading", "unavailable"} :
       LET query  == ReceiptQuery(Subject, docs, readable, first, state)
           panel  == SettlementPanel(Subject, NoSpec, query)
           record == panel.report.record
       IN /\ panel.final.winner = winningOutcome[Subject]
          /\ panel.report.outcome = panel.final.winner
          /\ panel.final.eyebrow # "one resolver"
          /\ record.shown # "nothing anchored"
          /\ (panel.final.eyebrow = "committee") <=> (record.shown = "evidence")
          /\ record.shown = "evidence" =>
               /\ record.evidence.votes = "rows"
               /\ first \notin others =>
                    /\ record.evidence.reasoning = "verbatim"
                    /\ record.evidence.dissents = others
               /\ record.evidence.provenance = "attested" =>
                    \E a \in Anchored(Subject) \cap readable : docs[a].teed
               /\ record.evidence.provenance = "unattested" => decided = {}

(* The market page repeats the vote as it was cast: a row for each seated  *)
(* member who revealed and for nobody else, with what it revealed, however *)
(* many of the documents can be read.  Under a settled market the rows     *)
(* carry the winner by the quorum of the round.                            *)
VotesShownAreTheChains ==
    /\ PromiseIsTold
    /\ \A readable \in SUBSET Anchored(Subject) :
        \A first \in readable, docs \in IF status[Subject] = "Settled" THEN Documents(Subject) ELSE {Undocumented} :
          LET page == CommitteeReceipt(Subject, docs, readable, first)
              row  == page.data.votes
          IN /\ DOMAIN row = {a \in committee[Subject] : reveal[Subject][a] # NONE}
             /\ \A a \in DOMAIN row : row[a].outcome = commitment[Subject][a].outcome
             /\ status[Subject] = "Settled" =>
                  /\ Cardinality({a \in DOMAIN row : row[a].outcome = winningOutcome[Subject]})
                       >= round[Subject].k
                  /\ SettlementIsTold(docs, readable, first)

(* Whatever the committee does, and with nobody but a keeper to act, every *)
(* market ends: the keeper closes it, draws for it and at the deadline     *)
(* rescues it, though passes abort and receipts are lost.                  *)
KeeperEndsMarkets == \A m \in Markets : <>Terminal(m)
=============================================================================
