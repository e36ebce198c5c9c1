------------------------------ MODULE CallGate ------------------------------
(***************************************************************************)
(* callGate of frontend/src/lib/data/chain.ts: a fetch that holds requests *)
(* back while more than Limit JSON-RPC calls would be outstanding.  One    *)
(* request may carry several calls, and it is calls that the endpoint      *)
(* counts.  The array of resolvers is the set of requests that wait: its   *)
(* order decides nothing here, because whoever is woken all of them are.   *)
(***************************************************************************)
EXTENDS Integers, FiniteSets

CONSTANTS
    Requests,       \* HTTP requests a page may make
    CallsOf,        \* the JSON-RPC calls each request's body carries
    Limit           \* IN_FLIGHT_CALLS

ASSUME GateAssumption ==
    /\ Limit \in Nat \ {0}
    /\ \A r \in Requests : IsFiniteSet(CallsOf[r]) /\ CallsOf[r] # {}
    /\ \A r, s \in Requests : r # s => CallsOf[r] \cap CallsOf[s] = {}

VARIABLES
    inFlight,       \* calls counted as outstanding
    request         \* "idle", "waiting", "woken", "fetching", "done"

gateVars == <<inFlight, request>>

GateInit ==
    /\ inFlight = 0
    /\ request = [r \in Requests |-> "idle"]

-----------------------------------------------------------------------------
(* `callsIn`: a batch counts for its length, anything else for one.        *)
Cost(r) == Cardinality(CallsOf[r])

(* Mutant: a request is let in while any room is left.                     *)
HeldIfFull(r) == inFlight > 0 /\ inFlight >= Limit

(* Mutant: a request wider than the limit waits for room that never comes. *)
HeldUnlessItFits(r) == inFlight + Cost(r) > Limit

(* The condition of the loop.  A request wider than Limit waits for a      *)
(* quiet line and then goes regardless.                                    *)
Held(r) == inFlight > 0 /\ inFlight + Cost(r) > Limit

(* One turn of the loop: wait again, or be counted and sent.               *)
Tries(r) ==
    \/ /\ Held(r)
       /\ request' = [request EXCEPT ![r] = "waiting"]
       /\ UNCHANGED inFlight
    \/ /\ ~Held(r)
       /\ inFlight' = inFlight + Cost(r)
       /\ request' = [request EXCEPT ![r] = "fetching"]

Issue(r)  == request[r] = "idle" /\ Tries(r)

(* The promise of a woken request resolves in a later turn of the event    *)
(* loop, and others may have been counted meanwhile.                       *)
Resume(r) == request[r] = "woken" /\ Tries(r)

(* Nobody woken is counted before the loop ends, so it empties the queue   *)
(* or does not start.                                                      *)
Woken(left) ==
    IF left < Limit THEN {r \in Requests : request[r] = "waiting"} ELSE {}

(* `finally`: an answer, an error and a timeout all give the calls back.   *)
Finish(r) ==
    LET woken == Woken(inFlight - Cost(r)) IN
    /\ request[r] = "fetching"
    /\ inFlight' = inFlight - Cost(r)
    /\ request' = [s \in Requests |->
         IF s = r THEN "done" ELSE IF s \in woken THEN "woken" ELSE request[s]]

GateNext == \E r \in Requests : Issue(r) \/ Resume(r) \/ Finish(r)

GateSpec == GateInit /\ [][GateNext]_gateVars

-----------------------------------------------------------------------------
Fetching == {r \in Requests : request[r] = "fetching"}

Outstanding == UNION {CallsOf[r] : r \in Fetching}

(* What the endpoint sees: never more than Limit calls at once, except for *)
(* one request that alone is wider, and that one goes alone.               *)
CallsAreBounded ==
    \/ Cardinality(Outstanding) <= Limit
    \/ \E r \in Fetching : Fetching = {r}
=============================================================================
