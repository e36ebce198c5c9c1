# Brier, in TLA+

Brier is a prediction market on 0G. Market contracts run a dynamic parimutuel
pool; a committee of staked resolver agents, sampled from the chain, says how
each market ended; a keeper, runner scripts and the agent kit drive both from
outside; a frontend reads it all back. This directory holds TLA+ modules
translated from that code, the TLC configurations that check them on small
instances, and proofs that TLAPS checks for every value of the constants.

The reference is the code (`contracts/src`, `packages`, `scripts`,
`frontend/src`); where a comment and the code differ, the modules follow the
code and the difference is listed in section 3. Paths and line numbers below are
relative to the repository root.

## 1. The system

| Component | State | Operations | Talks to |
|---|---|---|---|
| `core/ResolutionModule.sol` | draws, rounds, committees, commitments, reveals, tallies, disputes and bonds, `viaCommittee`, `owedTo`/`totalOwed`, a token balance | `requestResolution`, `openResolution`, `commitVote`, `revealVote`, `dispute`, `openDisputeRound`, `finalize`, `markFailed`, direct `settle`/`fail`/`markProposed`/`markDisputed`, `claim`, `sweepUnallocated` | Market (status, settlement), AgentRegistry (slash, record), ConfigRegistry (windows, rates) |
| `core/Market.sol`, lifecycle | status, winning outcome, accrued fees, settlement deposit | `close`, `markProposed`, `markDisputed`, `settle`, `fail`, `void` | sends its fees and deposit to the module and the treasury |
| `core/Market.sol`, pool, with `math/DPMMath.sol` and `core/OutcomeShares.sol` | two supplies, pool, per-holder liquidity, shares | `buy`, `sell`, `addLiquidity`, `removeLiquidity`, `redeem`, `liquidate`, `sweepUnclaimed` | collateral token, share token |
| `core/AgentRegistry.sol`, stake and record | bonded and cooling stake, cooldown, reputation | `stake`, `requestUnstake`, `withdrawUnstaked`, `slash`, `recordResolution` | slashed by the module |
| Keeper (`packages/agent-kit/examples/keeper.ts`, `scripts/keeper-tick.sh`) | the snapshot and progress of one pass, the time of the next | close, fail, request, open; simulate, send, await the receipt; sleep | the contracts, from a snapshot it read |
| Committee runner (`examples/resolve.ts`, `scripts/committee-run.mjs`) | votes and salts in memory; the protocol's windows while borrowed | open, judge, commit, reveal, finalize, restore | the contracts, evidence, inference, storage |
| Evidence and inference (`agent-kit/src/evidence.ts`, `inference.ts`) | none | read each source or say why not; decide by arithmetic, or ask a model and parse its reply | web servers, 0G inference providers |
| Agent kit client (`agent-kit/src/client.ts`, `examples/trade.ts`, `redeem.ts`, `register.ts`) | one run's readings, quote and limits; an allowance | list, size, quote, preview, approve, buy, sell, claim, register, rename | the contracts |
| Protocol package (`packages/protocol`) | none | the pool's arithmetic a second time | client and frontend |
| zg-storage (`packages/zg-storage`, `math/ZgMerkle.sol`) | memory cache, in-flight fetches, texts on disk | fetch by root, prove, keep; the Merkle root, written twice | 0G indexer |
| Frontend data layer (`frontend/src/lib/data`) | the call gate's counter and queue | read a market in a batch or call by call, scan logs, derive tape, candles and positions, assemble a receipt | RPC, zg-storage |
| Frontend pages (`frontend/src/lib`, `components`, `app`) | filters, an open tab, a chosen agent | list, market page, chart, book, leaderboard, settlement panels | the data layer |
| `core/AgentRegistry.sol`, identity | ERC-721 owners, operator keys and their inverse, names, ERC-7857 data | `register`, `setName`, `mint`, `clone`, transfers | verifier, card |
| `core/ConfigRegistry.sol` with `ConfigKeys.sol` | parameters, bounds, locks, two pause keys | `setParam`, `setBounds`, pause | read live by every contract |
| `core/MarketFactory.sol` | approvals, clones, tiers | `approve`, `createMarket` | deploys markets |
| Deployment, remaining operations scripts, documentation pages | none | one-shot or prose | |

### What is hard about it

*Two state machines for one process.* A market's `status` lives in Market; its
`Round` lives in the module. Six callers advance them: members, challengers,
anybody (`openResolution`, `finalize`, `markFailed`, `Market.fail`), the
creator, an allowlisted key, and the clock. A test fixes one order of calls; the
correctness of the pair is a matter of all of them.

*Deadlines that race.* At `settlementDeadline` anybody may refund a market;
a committee's answer buys a grace. The grace is implemented twice, once from
`status == Proposed` (`Market.sol:541`) and once from `proposedOutcome != NONE`
(`ResolutionModule.sol:426`), and the two do not always agree.

*A draw that goes stale.* A committee is drawn from the hash of a later block.
The hash is readable for 256 blocks, so the draw is asked for, waits, lives and
expires, and may be asked for again.

*One balance, many claims.* Dispute bonds, resolvers' earnings and rounding
residue of every market sit in one ERC-20 balance, and shares are credited
before the money they are shares of arrives.

*Decisions from a snapshot.* Keeper, runner, client and page each read, think
and then act or show. Between any two of those a stranger may have moved the
market, a transaction of an earlier run may have landed, a receipt may never
come, the process may have died. All a runner knows of its votes is in memory.

*Reading that half succeeds.* Sources time out, are cut at the size limit, or
answer 200 with an error page; batches fail where single calls would not; an
indexer denies or lies; a query of a page that fans out is still loading. Each
of these must come out as "not known" and never as a smaller number.

*The same figure, computed many times.* The pool's arithmetic is in Solidity and
in TypeScript, the Merkle root likewise; "is this market over" is decided in six
places of the frontend; positions are rebuilt from a log.

*Parameters read live.* Windows, shapes and rates may change between two steps
of one resolution.

### What makes each component correct

* Resolution: the verdict is a majority of a fresh, properly drawn committee; a
  standing verdict is what the market pays; only the absent and the contradicted
  lose stake; nobody can see a vote before committing their own.
* Market lifecycle: one terminal transition, reached in every history; no refund
  of an answered market inside its grace.
* Ledger: the module can pay everything it owes.
* Stake: nothing is withdrawn, slashed or counted twice.
* Pool: the pool covers what redemption pays out, at every rounding.
* Keeper: it wastes a transaction only when overtaken, and every market ends
  though it is alone.
* Runner: what it remembers is what the chain holds; what it says is so; what it
  borrowed comes back.
* Judging: no citation of what was not read, no comparison the wrong way round,
  no side without backing.
* Client: an order stays within its edge and its budget; a fill is its own.
* Reading: the endpoint's limit, proof of every document, one fetch for many
  readers, an answer for every page.
* Pages: what is shown is what the contracts hold, or that it is not known.
* Identity, configuration, factory: inverse maps and one name per agent; no
  parameter out of its bounds; an approval spent once.

## 2. Modules

    Chain            the clock, outcomes, statuses
     +- MarketStatus     Market.sol's lifecycle, for a set of markets
     +- ResolverStake    AgentRegistry.sol's stake, keys and record
         +- ResolutionModule    ResolutionModule.sol, composed with both
             +- ResolutionProperties    what it must guarantee
             |   +- MCResolution        instances for TLC
             |   +- VerdictProofs -> CountingProofs
             +- Keeper           keeper.ts, by the transaction
             +- CommitteeRun     resolve.ts and committee-run.mjs
             +- Receipts -> SettlementPage    reading a verdict back
                 +- Operators    the three over one chain, with strangers
                     +- MCOperators
                     +- OperatorsProofs     over CountingProofs
    Judgement        the promise to the holders of one market

    Evidence         evidence.ts: one source, read or refused
     +- Inference        inference.ts: rules, replies, prompt sections
         +- Judging          the committee's middle, in resolve.ts
             +- JudgingProperties -> MCJudging
             +- JudgingProofs

    MarketStatus
     +- Pool             Market.sol's pool, one market, with DPMMath.sol
         +- PoolProperties      what it must guarantee
         |   +- PoolProofs
         +- Client           client.ts and trade.ts as arithmetic
         |   +- AgentRuns        one script's run and its transactions
         |       +- AgentScripts     trade, redeem, register, step by step
         |           +- AgentProofs      over PoolProofs
         +- History          the log of a market
             +- Pages            derive.ts, quote.ts, phases, the book
                 +- Boards (with Sources)   list, leaderboard, book page
                     +- Chart -> MarketPage -> PagesProperties -> MCPages
    Sources          lib/data/index.ts: which source answers what

    CallGate         callGate of chain.ts
    Merkle           zgMerkleRoot and ZgMerkle.sol
     +- ZgStore          the document store
    Reads            pages over CallGate and ZgStore
     +- MCReads, ReadsProofs

    TotalProofs      sums, least naturals and recursions, under the proofs of
                     counting, judging, the pool and reading

`Market` and `AgentRegistry` functions that only the module calls (`settle`,
`slash`, `recordResolution`, ...) are operators that the module's actions
conjoin, so one TLA+ step is one transaction, across all three contracts. A
call that would revert anywhere in it is a disabled action. Outside the chain a
step is what runs between two awaits: reading, simulating, sending and hearing of
a receipt are four steps, and the chain may move between them. What has no state
of its own (quotes, evidence, pages) is operators over the state it reads.

| Code | Action |
|---|---|
| `Market.close`, `fail`, `void` | `Close`, `Fail`, `Void` |
| `requestResolution`, `openResolution` | `RequestResolution`, `OpenResolution` |
| a block being mined, its hash going out of reach | `DrawAges` |
| `commitVote`, `revealVote` | `CommitVote`, `RevealVote` |
| `dispute`, `openDisputeRound` | `Dispute`, `OpenDisputeRound` |
| `finalize`, `markFailed` with `_settleAccounts`, `_settleDispute`, `_creditResolvers` | `Finalize`, `MarkFailed` with `SettleAccounts`, `SettleDispute`, `CreditResolvers` |
| direct `settle`, `fail`, `markProposed`, `markDisputed` | `DirectSettle`, `DirectFail`, `DirectMark` |
| `claim`, `sweepUnallocated` | `Claim`, `SweepUnallocated` |
| `stake`, `requestUnstake`, `withdrawUnstaked`, `setOperator` | `Stake`, `RequestUnstake`, `WithdrawUnstaked`, `SetOperator` |
| `buy`, `sell`, `addLiquidity`, `removeLiquidity` | `Buy`, `Sell`, `AddLiquidity`, `RemoveLiquidity` |
| the share token's transfers | `Transfer` |
| `redeem`, `liquidate`, `sweepUnclaimed` | `Redeem`, `Liquidate`, `SweepUnclaimed` |
| `settle`, and `fail` or `void`, as they touch the pool | `Settle`, `Abandon` |
| `keeper.ts`: the pass, `send`, `advanceDraw`, `receiptOf`, the next-due line; `keeper-tick.sh` | `Wakes`, `LooksAt`, `Simulates`, `Sends`, `Aborts`, `LosesReceipt`, `ReadsDraw`, `ResendReverts`, `Sleeps` |
| the runner scripts, in the order of their steps | `Starts`, `Shortens`, `ResolversThrow`, `Arrives`, `Requests`, `Opens`, `Seats`, `Commits`, `Committed`, `Reveals`, `Revealed`, `Finalizes`, `PutsBack`, with a `...Reverts` or `...Throws` where a call may fail, and `Dies` anywhere |
| `gatherEvidence`; the loop over members | `Arrives`, `Gathered`; `JudgeByArithmetic`, `JudgeByModel`, `ReplyUnusable`, `MemberUnusable` |
| `trade.ts`, one round trip each | `ListsMarket`, `Believes`, `Sizes`, `Inverts`, `Previews`, `Allows`, `Gate`, `Orders`, `Reports`, `QuotesSale` |
| `redeem.ts`, `register.ts` | `ViewsClaim`, `ChecksName`, then `Gate`, `Orders`, `Reports` |
| a transaction landing, a process dying while one is out | `Mined`, `Dies` |
| `callGate`: a request, its waking, its `finally` | `Issue`, `Resume`, `Finish` |
| `ZgStore.get`, the indexer, `fetch` ending | `Get`, `Responds`, `Settles` |
| a page's reading of a market, call by call, and its retries | `Opens`, `AsksAgain`, `BatchAnswers`, `SingleAnswers`, `AnswersNobody` |
| what a reading goes on to await: the token, the document | `MarketRead`, `TokenAnswers`, `DocumentSettles` |
| the creation log, its prefetch, and the index built from it | `LogsAnswer`, `BlocksAnswer` |

### Abstractions

* Block numbers and hashes are gone: a draw is "waiting", "live" or "expired",
  and any committee of the right size among the eligible may come out of it.
* A commitment is the outcome and the operator key it binds. Salt, receipt hash
  and the ERC-8004 publication are left out; a member who loses its salt is one
  that does not reveal.
* One collateral, equal to the stake token, and one tier, as deployed.
* Parameters are constants. `TierShapes` is a set, and each opening picks one of
  its members, so a shape changed between two markets is covered; a window or a
  rate changed in the middle of a resolution is not.
* What a market owes the resolver pool is fixed from the start: trading ends
  before any transition but `void`, and the pool is a module of its own.
* `_resolvers` and roles are the constant `Agents`; eligibility by stake is not.
* Round deadlines are compared as the code compares them, `>` and `>=` kept
  apart, since several properties are about the boundary.
* `balance` and `totalOwed` are integers and not naturals, so that a run can see
  them go wrong; the code's reverts are guards.

* In `Pool` the module that settles or fails a market is free to do so whenever
  the market lets it. The pause, the registered-trader gate and slippage limits
  refuse calls and nothing else, so they are left out. `WAD` and the scale are
  constants; every division rounds as the code's does, on integers, and the
  square roots are the exact integers that OpenZeppelin's return. Their 256-bit
  width is not modelled: `MAX_Q` exists to keep sums of squares within it, and is.
* `exits` counts redemptions and liquidations. No code corresponds to it;
  `OnlyDustRemains` needs it to say how much dust there may be.

* A document is a file, and its key the file's root. A hash is the pair of what it
  hashes, so two roots are one exactly when the trees are. Every answer is read as
  text before it is proved: `Decoded` gives the text a file's bytes are read as,
  which is the file again where they are UTF-8 without a byte order mark. An empty
  answer proves nothing, as any other that is not the document.
* `NextPow2` is one definition for the logarithm in TypeScript and the doubling in
  Solidity; TLC compares it with the least power of two up to 2048 chunks. Both
  sources pair the leaves by index and then turn a queue of nodes; here the
  package's passes are all by index and the contract's all by turns.
* A market's nine values are a batch that falls back to single calls. The token, the
  creation log and the times of its blocks are one request each, in a batch or not,
  and the gate's queue is a set, because whoever is woken all are.
* A reading that failed is asked for again: twice in the code, once in
  `retried_reads`, never in `reads`.
* A source's answer is headers, arrival, success, size and body; a body is text
  with at most one number, or JSON of any depth, two levels in the run. A rule's
  sentence is the
  words the code's patterns look for, in order.
* A page is a record of what it says. A query is "ready" with data, "loading",
  "error" or "unavailable".
* The browser's clock is not the chain's. It is unknown on the server and on the
  first render, and what the pages say is looked at without it, with the chain's,
  and with one a tick ahead or behind. All parts of one page read it at one moment.
* An agent's balance moves by its own transactions, and by the share of the fees
  that the creator of a market is paid when the market ends.
* One second of the modelled chain is one block, and trades of a second are
  ordered by their log index, starting just below a change in its number of
  digits, since the code compares identifiers as text.

Operators commented `Mutant` are plausible mistakes in the operator that follows
them. They are used by no action; each exists to show that some property would
notice it.

## 3. What is model-checked

In the runs of `MCResolution`, windows are one time unit, the deadline falls a
few units after the end of trading, so that every window, the deadline and the
grace overlap in every way and all of them end before the clock does.

| Run | Instance | Shows |
|---|---|---|
| `resolution_dispute` | one market, six resolvers, committees of three, one challenger, clock to the end of the grace; 134,735 states | both rounds and every rescue: `StatusFollowsRound`, `VerdictCarriedOut`, `RoundTwoIsFresh`, `DrawMatchesRound`, `VerdictIsMajority`, `BondFollowsVerdict`, `ReputationIsEarned`, `VerdictOutlivesDeadline`, `AbsenteesHadTheirTime`, `ImplementsJudgement` |
| `resolution_ledger` | two markets on the same three resolvers, claims, owner's sweeps, direct path open, no disputes; 445,962 states | `LedgerCovered` |
| `resolution_members` | three resolvers with notice, withdrawal, a spare key, repeated commits; 688,398 states | `TypeOK`, `CommitmentsPrecedeReveals`, `SlashesAreDeserved` |
| `resolution_ends` | top-ups, keys given up, fairness; 192,096 states | `EveryMarketEnds` |
| `pool_exits` | creator and another holder, two trade sizes, two offers; 1,303,081 states | `Solvent`, `SupplyIsHeld`, `SeedFloor`, `ClaimsAreCovered`, `OnlyDustRemains`, `OfferCoversCharge` |
| `judging` | three members, two providers, every way a read is refused and a rule declined; 84,121 states | `CitationsWereRead`, `ArithmeticIsRight`, `SidesHaveBacking` |
| `keeper` | one market, one keeper, six resolvers of whom two ever vote; strangers' calls, lost receipts, fairness; 440,230 states | `AbortsOnlyWhenOvertaken`, `KeeperEndsMarkets` |
| `committee` | both scripts, two starts, five of six keys held, a challenger, deaths anywhere; @COMMITTEE@ states | `VotesAreOnChain`, `ReportIsTrue`, `VotesShownAreTheChains` |
| `reads` | a list and a market's own page, a limit of two calls, requests of one and two, a forged text, one behind a byte order mark and an empty envelope; @READS@ states | `CallsAreBounded`, `OnlyProvedIsShown`, `OneFetchPerDocument`, `HonestAnswersAreTaken` |
| `retried_reads` | one page that asks twice, a limit of one call, requests of one and two; fairness; @RETRIED@ states | `EveryPageIsAnswered` |
| `views` | three trades, liquidity, a transfer, every ending, a second market settled; 91,116 states | `HoldingsAreRebuilt`, `ChartIsTheTape`, `BoardsAgreeWithTheChain` |
| `sdk` | an agent's scripts twice in another's market, another trader, two beliefs, governance turning the gate on; @SDK@ states | `FillIsItsOwn`, `BuysOnlyItsEdge` |

`pool_exits` takes a wad of 4 and 3 wad to a token, so that nearly every division
leaves a remainder and a supply may exceed a wad, as it does in deployment.
`MaxHeld` bounds the collateral that trades may bring in, hence the number of
trades in a row; the instance reaches markets in which `liquidate` trims a payout
(the code's note at `Market.sol:686`). `views` and `sdk` take a wad of 100, with
which a probability has two digits and a rounding shows.

*Several properties have parts.* `VotesShownAreTheChains` is the vote as rows,
the settled half of the page for every set of documents that can be read and
every state of the receipt's query (`SettlementIsTold`), and the market's promise
(`PromiseIsTold`). `HoldingsAreRebuilt` includes that a holding's trades explain
it and that the shown payout is the contract's up to the stated roundings;
`ChartIsTheTape` that the drawing stays in its plot and the panel beside it ends
where the tape does; `BoardsAgreeWithTheChain` that list, page, book and
leaderboard agree, that filters lead somewhere, and that every refusal names a
source that can answer.

*Bounds.* `MaxTime` caps the clock, `MaxStake` the top-ups, `MaxRuns` how often a
script is started, `MaxTrades`, `MaxMoved` and `MaxOthers` the histories of
trades; `SegmentChunks` is 16 instead of 1024. Everything else is finite by the
code. Six resolvers are the fewest for which a second committee, disjoint from
the first, can exist; two markets are the fewest that share a balance; two starts
are the fewest in which a run meets what a dead one left. Three trades are the
fewest in which something is bought, partly sold and bought again; a tape of two
is then too short, which is the case that matters. A document of 41 chunks is
padded to 44 and cut into segments of 16, 16 and 12, so that an odd node is carried
to the back both inside a segment and among the three roots. Two shapes are allowed, two of
three and the invalid two of four, so that `_shapeOf`'s refusal matters. Fees of
0 and 3 beside a deposit of 4 make shares that do not divide evenly. Resolvers
are interchangeable and form a symmetry set, except where liveness is checked; in
`committee` only members whose keys are held alike do.

*Stopping.* `Finished` stutters once every market is terminal and the bounded
clock has run out, and deadlock is checked: no reachable state leaves a live
market with nothing enabled. `reads`, `retried_reads`, `sdk` and `views` have it off:
a page that is answered, an agent that has run its runs and a history at its bounds
stop.

*Fairness.*

* `EveryMarketEnds` assumes that time passes and that somebody calls the
  permissionless `Market.fail` once it stays callable: `fail` has no access check
  past the deadline, the keeper calls it on every pass, and every holder of a
  position has a reason to. Nothing is assumed of members, challengers, the owner
  or whoever asks for draws.
* `KeeperEndsMarkets` drops that caller and assumes a machine instead
  (`KeptSpec`): the timer starts the keeper and its process takes its steps, and of
  the `close` and `fail` calls it sends pass after pass not every one is lost
  (strong fairness: each pass re-enables them and each reply may be lost).
  `keeper-tick.sh` arms the next pass, at the latest after its ceiling, and counts
  on a fallback timer where it could not.
* `EveryPageIsAnswered` assumes that something of the event loop, the endpoint and
  the indexer happens while anything can (`LiveReadsSpec`): calls and fetches
  have timeouts and end in an answer or an error. Which, and in which order, is
  free. Both the batch and the token of `retried_reads` are wider than its limit.

*Judgement.* What a holder relies on, stated without committees: answers come
one at a time, one challenge, only the standing answer pays, and a standing
payable answer is not abandoned before the grace is over.
`ImplementsJudgement` is the refinement under the mapping at the end of
`ResolutionProperties`: a round's proposal is the answer, `disputerOf` the
challenge.

*A condition on the parameters.* `AbsenteesHadTheirTime` and
`ReputationIsEarned` hold in round 1 because the dispute window is at least as
long as the reveal window. The deployed values satisfy it; the bounds in
`contracts/script/DeployLib.sol:93-97` would permit values that do not.

### Where the code and its comments differ

Read off the code while modelling it. The models follow the code in each of
these, and the properties are stated so as not to claim otherwise. The first six
bound what a property says:

* `decideByThreshold` promises (`inference.ts:169`) to decline "Any negation at all,
  anywhere in the deciding sentence.", and its pattern (:173) asks for a word
  boundary before `n't`, where a contraction has none. A rule that the market
  resolves YES if the close isn't strictly greater than 5 is decided by code,
  inverted, by every member alike. The rules of `judging` hold no contraction, and
  the theorem on `ArithmeticIsRight` excludes them.
* With `PROVISION=1` `committee-run.mjs` shortens the three windows, one transaction
  each, and then compares the first resolver's stake with `stakeAmount` (:284, :291),
  a name it never defines. Every such run ends there, and the windows stay short:
  the step that puts them back (:537) is not reached, and a later run finds them
  short already and has nothing to put back. So no property speaks of windows coming back.
* `ZgStore.load` computes the root of `new TextEncoder().encode(await res.text())`
  (`index.ts:295-297`), which is not what was sent where the bytes are no UTF-8 or begin
  with a byte order mark: such a document is refused for every reader, although
  :128 says that one that hashes to the root is the document "whatever it contains".
  `HonestAnswersAreTaken` is about documents that are text.
* `holdingStatus` (`agent-book.ts:131`) says "Open" of a holding in a Proposed market,
  where the contract takes no trade. :127 calls just that wrong, and
  `AgentBook.tsx:143` says that a holding never claims a market is tradable on one
  screen and closed on another. `ListAndPageAgree` leaves a Proposed market's
  holdings out.
* The countdown in a market page's heading reads a clock of its own, every half
  minute (`Countdown.tsx:41`), and is shown by status alone, so it may say "closes in"
  beside a badge that says "Awaiting close"; `MarketView.tsx:90` promises "One clock".
  `ListAndPageAgree` reads both at one moment.
* A fill is the difference of two balances (`client.ts:837-854`), and the creator of a
  market is paid its share of the fees when the market ends (`Market.sol:618-623`).
  An agent that trades in its own market may report that share as part of its fill.
  `FillIsItsOwn` is about markets somebody else created, in the run and in the proof.

And further:

* `requestResolution` (`ResolutionModule.sol:227`) replaces any draw of an
  unopened round, a live one included; :215 says otherwise.
* `sweepUnallocated` (:755) reserves `totalOwed` and not the held bonds, so a bond
  refunded after a sweep is paid out of earnings; :748 says it cannot be.
  `LedgerCovered` holds with disputes and with sweeps and not with both, hence the
  run without disputes.
* An unopened round holds outcome 0 and not `NONE`, so `markFailed` (:426) waits
  out a grace that :420 grants to answered markets. `Market.fail` does not.
* A dispute inside the grace moves the market to Disputed, and `Market.fail`
  (`Market.sol:541`) opens at once; `ConfigKeys.sol:58` promises the extra time.
* `removeLiquidity` (`Market.sol:450`) compares totals, so with another provider's
  liquidity in the market the creator takes its seed out; :433 says never.
* `_slashBps` (:590) takes its rate of bonded stake only, so notice given before
  the verdict shrinks the slash, to zero at most.
* `Market.fail` on a Disputed market ends it without the module, and the bond is
  neither refunded nor forfeited (`keeper.ts:364` assumes it is lost).
* `markFailed` at the deadline judges members whose windows are open (:515), and
  `dispute` drops round 1's committee (:338) before its absentees are judged.
* `decideByThreshold` looks at `clipped` and not at `fetch.truncated`, and decides
  a sentence with a NO clause before its comparison by the YES clause. In
  `evidence.ts:401` a source whose kind is no string rejects outside the `try`.
* The keeper reports "next-due none" for a Proposed market past its deadline
  (`keeper.ts:338-345`); its timer's ceiling is what brings it back. A pass that
  throws ends `keeper-tick.sh` (`set -e`, :18) before its scheduling, so the branch
  for a failed pass is not reached and only the fallback timer is left.
* `committee-run.mjs` prints "NO" for a market that failed, for the reason
  `resolve.ts:497` gives for not doing so.
* `ZgStore.get` keeps a document's absence for the session. `client.ts:776` and
  `chain.ts:573` keep a registry address that could not be read as none.
* `derive.ts` sorts by second over a newest-first tape, so trades of one second are
  replayed backwards; `logs.ts` compares log identifiers as text. The tape
  credits the trader where the shares went to a recipient.
* Volumes of the list and the market page come from a tape of 24 trades, of the
  leaderboard from 500. When its positions are unavailable or fail together with
  its trades, `Leaderboard.tsx` says that no agent has traded.
* The book of an agent who holds nothing says "mixed collateral" for its value, and
  its "Markets held" counts the two sides of a market apart (`AgentBook.tsx:212`).
* `readMarket` is nine separate calls, which may straddle a block: a status of
  Settled with the winning outcome of before it.
* The outcome and narrative of a committee's receipt are its first document's, whose
  author may have been outvoted: "Dissent" badges are then the wrong way round,
  and a settled market whose first document abstained says that it is not resolved.
* A committee that consulted no model is said to have used "a private endpoint"
  (`ResolutionEvidence.tsx`), which the comment above it rules out.
* A failed or voided market's panels still speak of "If the market settles now".
* A status filter can vanish while it filters, with two statuses left of which
  one is chosen (`MarketList.tsx`). `SettlementReport.tsx` says the market
  carries no prompt when its document could not be read.
* `Unavailable.tsx` and the head of `logs.ts` say no source supplies receipts;
  `chain.ts` does once an indexer is configured.
* A request wider than the gate's limit can be overtaken by narrow ones without
  end; `EveryPageIsAnswered` holds since a page makes finitely many.
* `awaitReceipt` gives up after 120 s though the transaction may land; a second
  run then repeats it. `trade.ts` sizes the edge of the listing against a newer book.

## 4. What is proved

TLAPS checks the theorems below for every value of the constants: every number of
markets, resolvers, holders and pages, every committee shape, window, rate, bond
and sweep, every scale and fee. The assumptions are those the modules name, and
TLC evaluates each of them in the runs:

* `ResolutionAssumption` and those of the modules under it: amounts and times are
  naturals, rates at most 10000 basis points, `Agents` finite, trading ends before
  the settlement deadline, `Nobody` is no challenger and `NoKey` no agent.
* `PoolAssumption`: one market, finitely many holders with the creator among them,
  a positive wad, scale, seed and smallest trade.
* `GateAssumption`: requests have finite, non-empty, separate bodies; there may be
  infinitely many. `StoreAssumption`: no two files have one root (the hash
  does not collide), every file has a chunk, and the store's markers are no files. `ReadsAssumption`: what
  the pages ask.
* `ReceiptAssumption`: the marker for "no outcome" is no outcome.
* `ValuesAssumption`, `ResponsesAssumption`, `SpecsAssumption`: what JSON, an
  answer and a market's document are, at any depth and length.

A theorem that needs more says so in its ASSUME; those are discussed with it.

| Module | Theorem | Property |
|---|---|---|
| `VerdictProofs` | `TypeCorrect` | `TypeOK` |
| | `InvariantHolds` | the inductive invariant |
| | `VerdictsAreCarriedOut` | `VerdictCarriedOut` |
| | `RoundTwoStaysFresh` | `RoundTwoIsFresh` |
| | `DrawsMatchRounds` | `DrawMatchesRound` |
| | `BondsFollowVerdicts` | `BondFollowsVerdict` |
| | `CommitmentsAreSealed` | `CommitmentsPrecedeReveals` |
| | `SlashesNeedCause` | `SlashesAreDeserved` |
| | `StatusesFollowRounds` (direct path closed) | `StatusFollowsRound` |
| | `VerdictsOutliveDeadlines` (direct path closed) | `VerdictOutlivesDeadline` |
| | `ResolutionImplementsJudgement` (direct path closed) | `ImplementsJudgement` |
| `CountingProofs` | `CountsHold` | the inductive invariant, with counts |
| | `VerdictsAreMajorities` | `VerdictIsMajority` |
| | `AbsenteesWereWaitedFor` (windows) | `AbsenteesHadTheirTime` |
| | `ReputationsAreEarned` (windows) | `ReputationIsEarned` |
| | `LedgerIsCovered` (bonds or sweeps) | `LedgerCovered` |
| `PoolProofs` | `PoolStaysSound` | the inductive invariant |
| | `MarketStaysSolvent` | `Solvent` |
| | `SupplyStaysHeld` | `SupplyIsHeld` |
| | `SeedFloorStands` | `SeedFloor` |
| | `ClaimsStayCovered` | `ClaimsAreCovered` |
| | `LittleIsStranded` | `OnlyDustRemains` |
| | `OffersAreEnough` | `OfferCoversCharge` |
| `OperatorsProofs` | `MemoryStaysTrue` | the inductive invariant |
| | `OperatorsOnlyTransact` | `OpsSpec` implements `Spec` |
| | `RememberedVotesAreOnChain` | `VotesAreOnChain` |
| | `ReportsAreTrue` (keys decide) | `ReportIsTrue` |
| | `PagesRepeatTheVote` (direct path closed) | `VotesShownAreTheChains` |
| `JudgingProofs` | `JudgingStaysGrounded` | the inductive invariant |
| | `ReceiptsCiteWhatWasRead` | `CitationsWereRead` |
| | `SidesAreBacked` | `SidesHaveBacking` |
| | `ArithmeticFollowsRules` (plain wording) | `ArithmeticIsRight` |
| `ReadsProofs` | `GateKeepsCeiling`, `ReadingKeepsCeiling` | `CallsAreBounded` |
| | `ReadingStaysSound` | the inductive invariant |
| | `PagesShowTheProved` | `OnlyProvedIsShown` |
| | `FetchesAreShared` | `OneFetchPerDocument` |
| | `RootsAgree` | package and contract compute one root of every file |
| | `DocumentsAreTaken` | `HonestAnswersAreTaken` |
| `AgentProofs` | `ScriptsStaySound` | the inductive invariant |
| | `FillsAreTheirOwn` (another's market) | `FillIsItsOwn` |
| | `PurchasesStayWithinEdge` | `BuysOnlyItsEdge` |

### Resolution

*Types.* `TypeOK` is inductive as it stands. The work is in the arithmetic
(`RateOf`, `SlashType`, `EachEarnsType`): a slash never takes more than there is,
and a share of a natural is a natural.

*Locality.* `Locality` splits a step, for a fixed market, into an action of that
market or one that leaves the market's whole `MarketView` alone while the clock
does not go back. Everything after it is about one market.

*The invariant.* None of the properties is inductive. `RoundTwoIsFresh` needs to
know that a second committee is seated only where the first was remembered;
`CommitmentsPrecedeReveals` needs that a vote of round 1 cannot count as a
reveal of round 2's committee, hence that whoever has revealed was sampled in
one of the two, and that the two are disjoint; `BondFollowsVerdict` needs that
`viaCommittee` is written only with the round's closing; `VerdictCarriedOut`
needs that a finalized round's market is terminal, which is what stops a late
reveal from proposing again; and the two status machines agree only given that a
round never opened has no members. `Consistent` is the conjunction of these, in
seven named parts: `Unopened`, `Committees`, `RevealsInTurn`, `Closing`, `Bonded`,
`Drawn`, `InStep`. Each action has one lemma, and each lemma one step per part
it can disturb.

*The direct path.* An allowlisted key may move a market's status with no trace in
the round, so agreement of the two machines, and what rests on it, is proved for
a deployment with an empty allowlist. The other theorems hold either way.

*The refinement.* Each action maps to a step of Judgement: `RevealVote` to `Give`
or a stutter, `Dispute` to `Challenge`, `Finalize` to `CarryOut` or `Refund`,
`MarkFailed`, `Fail` and `Void` to `Refund`, and the rest to stutters. `InStep` is
what gives `Fail` its grace.

*Counting.* The contract keeps a tally beside each vote. `Tallied` says that they
agree, that a seated committee has the size of a valid shape, and that an answer
stands exactly when its tally reached the threshold; since the revealers of two
answers are disjoint parts of one committee and a valid shape's threshold is
more than half of it, no second answer can stand. `Waited` adds when: a
verdict comes after the reveal window of the committee it judges. That needs
`RevealWindow <= DisputeWindow`, and so do the two theorems that rest on it: with
a shorter dispute window a member could still reveal after `finalize` has judged
it absent or has counted the records. The deployed values satisfy it.

*Records.* `reputation` changes only when a round ends (`OnlyEndingsRecord`), and a
round that has ended does not change (`VerdictIsKept`), so the sets of markets
whose verdict a resolver gave, or whose overturned answer it gave, grow by one
where the counters do.

*The ledger.* `LedgerInv` says that `totalOwed` is the sum of `owedTo` over all
resolvers and that the balance covers it and one bond for each held dispute. Each
transfer in or out is a step of sums (`LedgerTakesBond`, `LedgerSettles`,
`LedgerPays`, `LedgerIsSwept`). A sweep reserves earnings and not bonds, so the
theorem assumes that there are no sweeps or no challengers; section 3 has the
history in which both break it.

*Sums and sets.* What a sum over a finite set is, the community modules define by
recursion over its subsets. `TotalProofs` unfolds it once (`TotalTakesOne`) and
proves the rest about sums by looking at a smallest subset for which a claim
fails, which exists by the library's theorem on strict subsets. The least natural
with a property comes from the same place, and with it the induction over the
steps of a path in `JudgingProofs` and `LoopsEnd`: a recursive function that ends
or goes on with a smaller argument exists, which the client's bisection needs
before anything can be said of it.

### The pool

The pool's properties are each about a moment; what makes them inductive is what
holds between. `Running` ties the pool to the curve: until the market ends, the
pool is the cost of the supplies rounded up, and the supplies are the sums of
what holders have, bought or seeded. `Floored` keeps the seeds under them. `PaidOut`
says that fees and deposit have left with the ending.

After the ending the pool shrinks by roundings of each payout, and sums of
floors are not kept by a transfer of shares. `Winners` and `Refunds` therefore
count what is owed without rounding, shares times the price per share, and
bound the pool on both sides: by that sum from below, so that whoever leaves last
is paid, and from above by the sum, the supply and one wad for each exit, which is the
dust. Both `ClaimsAreCovered` and `OnlyDustRemains` follow, in whatever order
holders leave and transfer.

Under them are lemmas on exact integer roots and on divisions rounded one way or
the other: the cost rounded up exceeds the cost rounded down by at most one, a
part taken of it and the rest add up (`PricesAddUp`), and a market scaled by what
an offer buys costs no more than the offer (`GrowthIsPaid`), which is the proof the
comment at `Market.sol:417` refers to.

### Operators

*They only transact.* Every step of a keeper, a script or a stranger is a
transaction of `ResolutionModule` or leaves the contracts alone
(`OperatorsOnlyTransact`, a refinement with no mapping, since the variables are the
same). So every theorem on the contracts holds of the composed system, crashes and
reruns included.

*Memory.* `VotesAreOnChain` alone is not inductive: it needs that nobody else commits
for a member whose key is held, and that a vote of round 1 survives the seating of
round 2. `Sealed` adds to the contract's invariant that whoever has a commitment
was sampled and that a reveal is of the commitment. Of the run, `Remembers` says
that a remembered vote is the chain's and its member a held one, still sitting or
already disputed away; `Owns` that, while a run votes, each sitting member with a held
key and a commitment is one this run carries, whoever's the commitment was;
`Fresh` that a run starts with no votes.

*Reports.* A script that is done found the round finalized, and its own votes for
an answer are then why the answer stands, provided that members it does not drive
are too few to carry one alone (`KeysDecide`). Without that the statement is
false: with three of six keys held and thresholds of two, TLC shows strangers'
members carrying in round 2 an answer that the report does not name. The instance
of `committee` satisfies it.

*Pages.* With the direct path closed a settled market was settled by its
committee, so its winning outcome is an answer that somebody revealed. From there
`SettlementsAreTold` goes through what the page may say (rows or none, verbatim
reasoning or none, dissent, provenance, promise) for every subset of the
documents that could be read.

### Judging

A receipt is made of what was read, and `JudgingInv` keeps the two together:
nobody judges before every source was answered or given up, and answers do not
change after that. What remains is about the operators. `PathsAgree` shows, by
induction over the steps of a path, that the code's descent and the reading of
`JudgingProperties` come to the same value or both to nothing; `ObservedIsReadable`
that the code's ordered refusals leave exactly the sources that can be read. `ArithmeticIsRight` is false of
contracted negations and of a NO clause between a YES clause and
the comparison; `PlainlyWorded` excludes sentences of these two
kinds. The rules of `judging` satisfy it.

### Reading

*The gate.* The code keeps a counter; the ceiling is about calls. `GateInv` ties
them: `inFlight` is the cardinality of what is outstanding, which a step changes
by the cost of one request because requests' calls are apart (`FS_Union`). A
request is let in when the sum fits, or when the counter is zero, hence nothing
is outstanding and it goes alone. Waiting and waking do not matter to the
ceiling, only to `EveryPageIsAnswered`. `GateSpec` is the gate by itself, and since
`ReadsSpec` moves it only through its own actions the same lemmas give the ceiling
under everything the pages do.

*The store.* `Fetched` counts: a document is asked for once more than its fetches
failed only while a fetch is out or its result is kept, and what is kept stops the
next. `Believed` says that what is kept is the committed document or this session's
word that there is none. The proof of an answer against a root is all that stands
between the indexer, or the disk, and a page. `DocumentsAreTaken` is the other
direction, that an honest answer is not refused, and rests on `RootsAgree`.

*The root.* The package's pass is stated by index and the contract's by turns of its
queue, so that they agree is something to prove. A turn takes two nodes from the
front and appends their hash: after n turns what remains of the pass is its tail and
the first n pairs (`PairingsAre`), so a whole pass of turns is the pass by index, an
odd node carried or not (`PassesAgree`). A fold is as many passes as the first queue is
long, most of which change nothing: passes of the one are passes of the other
(`PassingsAgree`), there is one way through them (`PassingsAreOne`), and counting their
number shows both; the doubling in `NextPow2` exists by `LoopsEnd`. Nothing is
assumed of a document but that it has a chunk.

*Readings.* `Holds` says of each reading that it has nothing of its document yet, or
what was proved, or this session's word that there is none. A page turns only when
its reading or the creation index has turned (`Turned`, `PagesTurned`), so what it
shows is what its reading held, or a failure.

### Agents' scripts

*Measured, not quoted.* A script reads its balance, orders, and reads it again.
`FillIsItsOwn` needs that nothing else of the same key is mined in between, which is
about nonces: `InNonceOrder` says that whatever is pending was sent by an earlier
script, or is the one transaction the present script waits for, behind all the
rest. From there `Undisturbed` follows a script that found nothing pending: between
the two readings its own order is alone in the queue, and the balance is the one
it read until that order is mined. A script that dies and is started again may
find the old order pending; it is then not `alone`, and nothing is claimed. One credit comes without a transaction of
the key, the creator's share of the fees, so the claim needs that somebody else
created the market: `Agent # Creator` stands wherever a balance is compared with another.

*The edge.* `RunIsPriced` and `SentIsPriced` carry a chain of computations through
the awaits between them: a stake and a move from a belief, a size from the move, shares
from the size, an order from the shares. They speak of a script all of whose readings were of one
market; the market a transaction is mined in may be another, and then the
slippage bound is all there is. Under them are the curve's lemmas:
a probability grows with its side's supply (`ProbabilityGrows`), shares grow with
the spend (`SpendGrows`) and cost no more than it (`SpendPays`), the fee taken from a
budget and charged again is off by at most one unit (`FeeSplit`), and the bisection
ends, within its budget and its bound (`SizingIs`). Where the whole budget is beyond the
curve's limits the client calls the impact certainty, so it may buy with the net of
the fee only at a belief of one (`OrderStaysWithin`). Each transaction keeps `PoolInv`, so the
invariant contains the pool's.

### Only model-checked

* `EveryMarketEnds`, `KeeperEndsMarkets`, `EveryPageIsAnswered`: fairness is beyond
  this prover; `AbortsOnlyWhenOvertaken` is stated with `ENABLED`, which is too.
* `HoldingsAreRebuilt`, `ChartIsTheTape` and `BoardsAgreeWithTheChain`: pages sort, fold
  and regroup what they read, with TLC's own `SortSeq` and function operators,
  which the prover takes as unknown.

### What the proofs changed

Proof attempts found places where a module said less, or something else, than it
meant. Several `CASE` expressions had guards that overlap, where TLA+ leaves open which branch
is taken although TLC takes the first (what a fetch comes to, what the
keeper finds to do for a missed market that has no committee, whether the runner
asks for a draw, and the refusals of a source); they now say the order the code has. `ReceiptAssumption`
was missing. The Merkle folds and a selector's descent are recursive functions, so
that modules above them can be proved about, and a path may have any number of
steps and a body any depth, where the properties had stopped at two. The client's
bisection is a function of one pair, which the prover can unfold.

## 5. Not modelled yet, and the plan

1. Proofs: parts of the pages' properties
   that need no fold (phases, filters, refusals); the pool as an implementation of a
   simpler promise to its holders.
2. `AgentIdentity.tla`: operator and agent maps, names, mint, clone and transfer,
   with the default names that `mint` and `clone` write untested
   (`AgentRegistry.sol:546`, `:604`).
3. `ConfigRegistry.tla` and `Factory.tla`: bounds that lock on first use, two
   pause keys, approvals spent once; then windows that move in the middle of a
   resolution.
4. The rest of the agent kit's client: market creation, staking and liquidity.

Left out for good: deployment scripts (one-shot), `AgentCard` (rendering), the
documentation pages and the fixture's numbers (prose and data), layout and wording
of the frontend, HTML stripping and prompt text, `claim-earnings.mjs` and
`rpc-retry-proxy.mjs` (a loop around one call). `PROJECT.json` lists every
component with its status, and every hazard with the property that would notice
it.

## 6. Running

    tlc -config resolution_dispute.cfg MCResolution
    tlc -config committee.cfg MCOperators
    tlapm VerdictProofs.tla

The configuration's module is in the table of `PROJECT.json`. A run takes between
a few seconds and three minutes on two workers; each proof module between a few
seconds and a few minutes.
