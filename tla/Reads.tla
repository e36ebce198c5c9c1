-------------------------------- MODULE Reads -------------------------------
(***************************************************************************)
(* Pages reading one market each: frontend/src/lib/data/chain.ts and       *)
(* logs.ts between the gate, the chain and the document store, under       *)
(* hooks/provider.tsx, which asks again for what failed.  A page awaits    *)
(* the market's reading and the creation index; a reading awaits its nine  *)
(* values, the document and the collateral's token.  The token, the        *)
(* creation log and the index built from it are each asked for once and    *)
(* awaited by everyone, and each counts as one request: only a market's    *)
(* batch is seen taken apart into single calls.                            *)
(***************************************************************************)
EXTENDS CallGate, ZgStore

CONSTANTS
    Pages,
    Lists,          \* the pages that are lists of markets, not a market's own
    SpecRoot,       \* by page, the document its market's specRoot names
    Width,          \* by page, the calls of one reading of its market
    Retries         \* by page, how often it asks again for what failed

VARIABLES
    page,           \* by page, [at, try, created, shown]
    reading,        \* by page and try, readMarket: [at, spec, token]
    token,          \* NoRequest, the request for it, or TokenKnown
    scan            \* [logs, prefetch, at, by, times]: createdLogs and createdAt

readVars == <<gateVars, storeVars, page, reading, token, scan>>

Attempts == UNION {{<<p, try>> : try \in 0..Retries[p]} : p \in Pages}

Current(p) == <<p, page[p].try>>

(* What a try asks of the endpoint: its market as one batch and, where     *)
(* that errors, each call on its own; the token, the creation log, and the *)
(* times of the log's blocks.                                              *)
Batch(w)   == [by |-> w, of |-> "batch", call |-> 0]
Call(w, i) == [by |-> w, of |-> "call", call |-> i]
Token(w)   == [by |-> w, of |-> "token", call |-> 0]
Logs(w)    == [by |-> w, of |-> "logs", call |-> 0]
Blocks(w)  == [by |-> w, of |-> "blocks", call |-> 0]

PageRequests ==
    UNION {{Batch(w), Token(w), Logs(w), Blocks(w)} \cup {Call(w, i) : i \in 1..Width[w[1]]} :
             w \in Attempts}

NoRequest  == [by |-> <<>>, of |-> "none", call |-> 0]
TokenKnown == [by |-> <<>>, of |-> "known", call |-> 0]

ASSUME ReadsAssumption ==
    /\ Requests = PageRequests
    /\ Lists \subseteq Pages
    /\ SpecRoot \in [Pages -> Documents]
    /\ Width \in [Pages -> Nat \ {0}]
    /\ Retries \in [Pages -> Nat]

(* The token is two calls, its symbol and its decimals.                    *)
Body(r) ==
    CASE r.of = "batch" -> {<<r, i>> : i \in 1..Width[r.by[1]]}
      [] r.of = "token" -> {<<r, 1>>, <<r, 2>>}
      [] OTHER          -> {<<r, 1>>}

Idle     == [at |-> "idle", try |-> 0, created |-> "none", shown |-> Nothing]
NotBegun == [at |-> "none", spec |-> Nothing, token |-> "none"]

(* A session begins with whatever an earlier one, or anybody else, left on *)
(* the reader's disk; leaving and coming back is to begin another one.     *)
ReadsInit ==
    /\ GateInit
    /\ persists \in BOOLEAN
    /\ disk \in [Documents -> {Nothing} \cup IF persists THEN Texts ELSE {}]
    /\ NewSession
    /\ page = [p \in Pages |-> Idle]
    /\ reading = [w \in Attempts |-> NotBegun]
    /\ token = NoRequest
    /\ scan = [logs |-> NoRequest, prefetch |-> FALSE,
               at |-> "none", by |-> NoRequest, times |-> FALSE]

-----------------------------------------------------------------------------
Sends(r) == (Issue(r) \/ Resume(r)) /\ UNCHANGED <<storeVars, page, reading, token, scan>>

(* `getMarket` and `listMarkets` up to their first await.  The creation    *)
(* index is joined while it is being built; a list also joins the log, for *)
(* its prefetch, and asks for it anew where the index already has it.      *)
Begins(p) ==
    LET w     == Current(p)
        first == scan.at = "none"
    IN /\ page' = [page EXCEPT ![p].at = "reading", ![p].created = "asked"]
       /\ reading' = [reading EXCEPT ![w].at = "batch"]
       /\ scan' = [scan EXCEPT
            !.at = IF first THEN "logs" ELSE @,
            !.by = IF first THEN Blocks(w) ELSE @,
            !.logs = IF @ = NoRequest /\ (first \/ p \in Lists) THEN Logs(w) ELSE @,
            !.prefetch = @ \/ p \in Lists]
       /\ UNCHANGED <<gateVars, storeVars, token>>

Opens(p)     == page[p].at = "idle" /\ Begins(p)
AsksAgain(p) == page[p].at = "again" /\ Begins(p)

-----------------------------------------------------------------------------
(* What throws is asked for again, some times.                             *)
Thrown(p) ==
    IF page[p].try < Retries[p] THEN [page[p] EXCEPT !.at = "again", !.try = @ + 1]
    ELSE [page[p] EXCEPT !.at = "shown", !.shown = Failure]

(* A market's own page awaits its reading and the creation index together, *)
(* so either failing fails it at once; a list comes to the index only when *)
(* it has its reading.                                                     *)
Turned(p, read, created) ==
    IF page[p].at # "reading" THEN page[p]
    ELSE IF read.at = "failed" \/ (created = "lost" /\ (p \notin Lists \/ read.at = "read"))
    THEN Thrown(p)
    ELSE IF read.at = "read" /\ created = "known"
    THEN [page[p] EXCEPT !.at = "shown", !.created = created, !.shown = read.spec]
    ELSE [page[p] EXCEPT !.created = created]

(* The pages after their readings have moved on.                           *)
PagesTurn == page' = [p \in Pages |-> Turned(p, reading'[Current(p)], page[p].created)]

(* The pages when the creation index is built or lost, for everyone.       *)
IndexTurns(created) == page' = [p \in Pages |-> Turned(p, reading[Current(p)], created)]

(* With the document here, a reading ends when the token does.             *)
Awaits(read) ==
    IF read.spec = Nothing THEN read
    ELSE [read EXCEPT !.at = IF read.token = "known" THEN "read"
                             ELSE IF read.token = "lost" THEN "failed" ELSE "token"]

(* `readMarket` has its nine values: the token is joined or asked for, and *)
(* the document asked for and awaited.                                     *)
MarketRead(w) ==
    LET d == SpecRoot[w[1]] IN
    /\ Get({d})
    /\ token' = IF token = NoRequest THEN Token(w) ELSE token
    /\ reading' = [reading EXCEPT ![w] =
         Awaits([at |-> "storage",
                 spec |-> IF Known(d) = NotCached THEN Nothing ELSE SpecOf(Known(d)),
                 token |-> IF token = TokenKnown THEN "known" ELSE "asked"])]
    /\ PagesTurn
    /\ UNCHANGED scan

BatchAnswers(w) ==
    /\ reading[w].at = "batch"
    /\ Finish(Batch(w))
    /\ \/ MarketRead(w)
       \/ /\ reading' = [reading EXCEPT ![w].at = "singles"]
          /\ UNCHANGED <<storeVars, page, token, scan>>

AllSinglesDone(w, i) ==
    \A j \in (1..Width[w[1]]) \ {i} : request[Call(w, j)] = "done"

(* The last of the single calls to answer completes the nine values; the   *)
(* first to fail ends the reading, and the others are answered to nobody.  *)
SingleAnswers(w, i) ==
    /\ reading[w].at = "singles"
    /\ Finish(Call(w, i))
    /\ \/ AllSinglesDone(w, i) /\ MarketRead(w)
       \/ /\ ~AllSinglesDone(w, i)
          /\ UNCHANGED <<storeVars, page, reading, token, scan>>
       \/ /\ reading' = [reading EXCEPT ![w].at = "failed"]
          /\ PagesTurn
          /\ UNCHANGED <<storeVars, token, scan>>

AnswersNobody(w, i) ==
    /\ reading[w].at # "singles"
    /\ Finish(Call(w, i))
    /\ UNCHANGED <<storeVars, page, reading, token, scan>>

(* Everyone who joined the token has it, or has lost it; one that failed   *)
(* is forgotten.                                                           *)
TokenAnswers(r) ==
    /\ token = r
    /\ Finish(r)
    /\ \E heard \in {"known", "lost"} :
         /\ token' = IF heard = "known" THEN TokenKnown ELSE NoRequest
         /\ reading' = [w \in Attempts |->
              IF reading[w].token = "asked" THEN Awaits([reading[w] EXCEPT !.token = heard])
              ELSE reading[w]]
    /\ PagesTurn
    /\ UNCHANGED <<storeVars, scan>>

-----------------------------------------------------------------------------
(* The creation log: the documents it names are asked for, for nobody, if  *)
(* a list joined it, and the index goes on to the times of its blocks,     *)
(* which are known once they were read.  What fails is forgotten.          *)
LogsAnswer(r) ==
    LET after(at) == [scan EXCEPT !.logs = NoRequest, !.prefetch = FALSE,
                                  !.at = at, !.by = IF at = "none" THEN NoRequest ELSE @]
    IN /\ scan.logs = r
       /\ Finish(r)
       /\ \/ /\ IF scan.prefetch THEN Get(Documents) ELSE UNCHANGED storeVars
             /\ CASE scan.at # "logs" -> scan' = after(scan.at) /\ UNCHANGED page
                  [] scan.at = "logs" /\ ~scan.times -> scan' = after("blocks") /\ UNCHANGED page
                  [] scan.at = "logs" /\ scan.times -> scan' = after("none") /\ IndexTurns("known")
          \/ /\ IF scan.at = "logs" THEN scan' = after("none") /\ IndexTurns("lost")
                ELSE scan' = after(scan.at) /\ UNCHANGED page
             /\ UNCHANGED storeVars
       /\ UNCHANGED <<reading, token>>

BlocksAnswer(r) ==
    /\ scan.at = "blocks" /\ scan.by = r
    /\ Finish(r)
    /\ \E heard \in {"known", "lost"} :
         /\ scan' = [scan EXCEPT !.at = "none", !.by = NoRequest, !.times = (heard = "known")]
         /\ IndexTurns(heard)
    /\ UNCHANGED <<storeVars, reading, token>>

-----------------------------------------------------------------------------
IndexerResponds(d) == Responds(d) /\ UNCHANGED <<gateVars, page, reading, token, scan>>

(* Everyone who joined the fetch has its result at once.                   *)
DocumentSettles(d) ==
    LET result == ResultOf(load[d].file, d) IN
    /\ Settles(d)
    /\ reading' = [w \in Attempts |->
         IF reading[w].at # "storage" \/ SpecRoot[w[1]] # d THEN reading[w]
         ELSE IF result = Failure THEN [reading[w] EXCEPT !.at = "failed"]
         ELSE Awaits([reading[w] EXCEPT !.spec = SpecOf(result)])]
    /\ PagesTurn
    /\ UNCHANGED <<gateVars, token, scan>>

-----------------------------------------------------------------------------
(* What is wanted of the gate now.                                         *)
Wanted(r) ==
    \/ r.of = "batch" /\ reading[r.by].at = "batch"
    \/ r.of = "call" /\ reading[r.by].at = "singles"
    \/ r = token
    \/ r = scan.logs
    \/ r = scan.by /\ scan.at = "blocks"

Send(r) ==
    /\ request[r] = "idle" => Wanted(r)
    /\ Sends(r)

Answer ==
    \/ \E w \in Attempts : BatchAnswers(w)
    \/ \E w \in Attempts : \E i \in 1..Width[w[1]] : SingleAnswers(w, i) \/ AnswersNobody(w, i)
    \/ \E r \in Requests : TokenAnswers(r) \/ LogsAnswer(r) \/ BlocksAnswer(r)

(* What the event loop, the endpoint and the indexer do of themselves.     *)
Progress ==
    \/ \E p \in Pages : AsksAgain(p)
    \/ \E r \in Requests : Send(r)
    \/ \E d \in Documents : IndexerResponds(d)
    \/ Answer
    \/ \E d \in Documents : DocumentSettles(d)

ReadsNext ==
    \/ \E p \in Pages : Opens(p)
    \/ Progress

ReadsSpec == ReadsInit /\ [][ReadsNext]_readVars

(* A call ends within the client's timeout and a document's fetch within   *)
(* its ten seconds, with an answer or an error, and the event loop runs    *)
(* what is ready: something of it happens while anything can.              *)
LiveReadsSpec == ReadsSpec /\ WF_readVars(Progress)

-----------------------------------------------------------------------------
(* What a page shows of a document is the document its market committed    *)
(* to, whatever the indexer and the disk held; and that there is nothing   *)
(* is the indexer's word in this session, never the disk's.                *)
OnlyProvedIsShown ==
    \A p \in Pages :
      LET d == SpecRoot[p] IN
      page[p].at = "shown" =>
        \/ page[p].shown = Failure
        \/ page[p].shown = SpecOf(Parsed(d))
        \/ page[p].shown = Null /\ d \in denied

(* When its file d arrives, every reading that waits for the document has  *)
(* it, and fails of nothing but the token it also asked for.               *)
IsTaken(d) ==
    load[d] = [at |-> "answered", file |-> d] /\ load'[d] = NoLoad
      => \A w \in Attempts : reading[w].at = "storage" /\ SpecRoot[w[1]] = d
           => /\ reading'[w].spec = SpecOf(Parsed(d))
              /\ reading'[w].at = "failed" <=> reading[w].token = "lost"

(* A document that is text is never refused (packages/zg-storage proves    *)
(* what ZgMerkle.sol anchored).                                            *)
HonestAnswersAreTaken == [][\A d \in Documents : Decoded[d] = d => IsTaken(d)]_readVars

(* However many ask, and whoever asks first, a document is fetched again   *)
(* in a session only after a fetch of it threw.                            *)
OneFetchPerDocument == \A d \in Documents : asked[d] <= failed[d] + 1

(* Every page that was opened shows something, if only that it failed.     *)
EveryPageIsAnswered ==
    \A p \in Pages : (page[p].at # "idle") ~> (page[p].at = "shown")
=============================================================================
