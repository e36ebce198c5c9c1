---------------------------- MODULE CommitteeRun ----------------------------
(***************************************************************************)
(* The two scripts that take one market from Closed to finalised with the  *)
(* members' keys: packages/agent-kit/examples/resolve.ts and               *)
(* scripts/committee-run.mjs.  They differ in when they open a round, what *)
(* they do about a member whose key they do not hold, how the outcome is   *)
(* come by, and in the governance windows the second one borrows when it is *)
(* asked to provision (PROVISION=1).                                       *)
(*                                                                         *)
(* What they remember is in memory: a run that dies is started again with  *)
(* nothing.  How a member's outcome is judged is module Judging; here it   *)
(* is any of VoteChoices.                                                  *)
(***************************************************************************)
EXTENDS ResolutionModule

CONSTANTS
    Subject,      \* MARKET
    HeldKeys,     \* members whose operator key can be derived
    Scripts,      \* {"resolve", "committee"} or one of them
    MaxRuns       \* bound on how often a script is started

ASSUME RunAssumption ==
    /\ Subject \in Markets
    /\ HeldKeys \subseteq Agents
    /\ Scripts \subseteq {"resolve", "committee"}
    /\ MaxRuns \in Nat

VARIABLES
    run,          \* where the script is and what it remembers
    windows       \* which of the protocol's windows are short

runVars == <<run, windows>>

WindowNames == {"COMMIT_WINDOW", "REVEAL_WINDOW", "DISPUTE_WINDOW"}

NoVote == [outcome |-> NONE, key |-> NoKey]
NoVotes == [a \in Agents |-> NoVote]
NoReport == [status |-> "none", winner |-> NONE]

RunInit ==
    /\ run \in [script : Scripts, at : {"idle"}, starts : {0}, restore : {{}},
                outcome : {NONE}, todo : {{}}, votes : {NoVotes}, deadline : {0},
                report : {NoReport}]
    /\ windows = {}

To(at) == run' = [run EXCEPT !.at = at]

(* A revert, a refused inference, a missing key: the script is gone.       *)
Throws == To("thrown") /\ UNCHANGED <<windows, vars>>

Running == run.at \notin {"idle", "done", "thrown"}

-----------------------------------------------------------------------------
(* Starting.  committee-run either provisions or goes to work; then it     *)
(* reads one number and one threshold and votes one outcome for everybody, *)
(* or refuses.                                                             *)

Starts ==
    /\ ~Running
    /\ run.starts < MaxRuns
    /\ \E provision \in BOOLEAN,
          outcome \in IF run.script = "committee" THEN VoteChoices \cap {NO, YES}
                                                  ELSE {NONE} :
         /\ provision => run.script = "committee"
         /\ run' = [run EXCEPT !.at = IF provision THEN "provisioning" ELSE "arriving",
                               !.starts = @ + 1, !.outcome = outcome,
                               !.votes = NoVotes, !.todo = {}, !.restore = {},
                               !.deadline = 0, !.report = NoReport]
    /\ UNCHANGED <<windows, vars>>

(* The order in which the windows are gone through.                        *)
Before(w) ==
    CASE w = "COMMIT_WINDOW"  -> {}
      [] w = "REVEAL_WINDOW"  -> {"COMMIT_WINDOW"}
      [] w = "DISPUTE_WINDOW" -> {"COMMIT_WINDOW", "REVEAL_WINDOW"}

(* Step 1: one window after the other.  One that is short already is       *)
(* neither set nor put down to be put back.                                *)
Shortens(w) ==
    /\ run.at = "provisioning"
    /\ w \notin windows
    /\ Before(w) \subseteq windows
    /\ windows' = windows \cup {w}
    /\ run' = [run EXCEPT !.restore = @ \cup {w}]
    /\ UNCHANGED vars

(* Step 2: the first resolver looked at is registered with, or its stake   *)
(* compared with, `stakeAmount`, which nothing defines.                    *)
ResolversThrow ==
    /\ run.at = "provisioning"
    /\ windows = WindowNames
    /\ Throws

(* resolve.ts opens a round for a Closed market only; committee-run for any *)
(* without a round.                                                        *)
OpensRound ==
    /\ round[Subject].n = 0
    /\ run.script = "resolve" => status[Subject] = "Closed"

(* An open round is joined; a draw already asked for is not asked again,   *)
(* whatever has become of it.                                              *)
Arrives ==
    /\ run.at = "arriving"
    /\ To(IF ~OpensRound THEN "seating"
          ELSE IF draw[Subject].phase = "none" THEN "requesting" ELSE "waiting")
    /\ UNCHANGED <<windows, vars>>

Requests ==
    /\ run.at = "requesting"
    /\ RequestResolution(Subject)
    /\ To("waiting")
    /\ UNCHANGED windows

RequestReverts ==
    /\ run.at = "requesting"
    /\ ~ENABLED RequestResolution(Subject)
    /\ Throws

(* The block it read has been mined.  (Where somebody has asked again since, *)
(* and the new block is not mined, opening reverts: that is `Dies` here.)  *)
Opens ==
    /\ run.at = "waiting"
    /\ OpenResolution(Subject)
    /\ To("seating")
    /\ UNCHANGED windows

OpenReverts ==
    /\ run.at = "waiting"
    /\ ~ENABLED OpenResolution(Subject)
    /\ draw[Subject].phase # "waiting"
    /\ Throws

-----------------------------------------------------------------------------
(* The seated members, whoever they are.                                   *)

(* Those whose operator is an address one of the key derivations produces. *)
Operable == committee[Subject] \cap HeldKeys

(* committee-run leaves out the others, unless too few remain; resolve.ts   *)
(* meets the members one at a time.                                        *)
Seats ==
    /\ run.at = "seating"
    /\ LET voters == IF run.script = "committee" THEN Operable ELSE committee[Subject]
       IN IF run.script = "committee" /\ Cardinality(voters) < round[Subject].k
          THEN To("thrown")
          ELSE run' = [run EXCEPT !.at = "committing", !.todo = voters]
    /\ UNCHANGED <<windows, vars>>

JudgedOutcomes == IF run.script = "committee" THEN {run.outcome} ELSE VoteChoices

(* Mutant: a commit that reverted is remembered as one that was made.      *)
CommitsRegardless(a) ==
    /\ run.at = "committing"
    /\ a \in run.todo \cap HeldKeys
    /\ \E outcome \in JudgedOutcomes :
         /\ CommitVote(Subject, a, outcome) \/ (~CommitOpen(Subject) /\ UNCHANGED vars)
         /\ run' = [run EXCEPT
                      !.todo = @ \ {a},
                      !.votes[a] = [outcome |-> outcome, key |-> operatorOf[a]]]
    /\ UNCHANGED windows

(* One member after another: judged, its receipt stored, committed.        *)
Commits(a) ==
    /\ run.at = "committing"
    /\ a \in run.todo \cap HeldKeys
    /\ \E outcome \in JudgedOutcomes :
         /\ CommitVote(Subject, a, outcome)
         /\ run' = [run EXCEPT
                      !.todo = @ \ {a},
                      !.votes[a] = [outcome |-> outcome, key |-> operatorOf[a]]]
    /\ UNCHANGED windows

(* The commit window closed under it, the member's key is not derivable,   *)
(* or a provider did not answer.                                           *)
CommitThrows ==
    /\ run.at = "committing"
    /\ run.todo # {}
    /\ Throws

Committed ==
    /\ run.at = "committing"
    /\ run.todo = {}
    /\ run' = [run EXCEPT !.at = "revealing", !.deadline = round[Subject].commitDeadline,
                          !.todo = {a \in Agents : run.votes[a] # NoVote}]
    /\ UNCHANGED <<windows, vars>>

-----------------------------------------------------------------------------
(* The preimage revealed is the one remembered: it must be what the chain  *)
(* holds for the member.                                                   *)
Revealable(a) ==
    /\ commitment[Subject][a] = run.votes[a]
    /\ ENABLED RevealVote(Subject, a)

Reveals(a) ==
    /\ run.at = "revealing"
    /\ now > run.deadline
    /\ a \in run.todo
    /\ commitment[Subject][a] = run.votes[a]
    /\ RevealVote(Subject, a)
    /\ run' = [run EXCEPT !.todo = @ \ {a}]
    /\ UNCHANGED windows

RevealReverts(a) ==
    /\ run.at = "revealing"
    /\ now > run.deadline
    /\ a \in run.todo
    /\ ~Revealable(a)
    /\ Throws

(* The dispute deadline is read once; with no proposal it is zero.         *)
Revealed ==
    /\ run.at = "revealing"
    /\ now > run.deadline
    /\ run.todo = {}
    /\ run' = [run EXCEPT !.at = "finalizing", !.deadline = round[Subject].disputeDeadline]
    /\ UNCHANGED <<windows, vars>>

(* Mutant: a winner is announced whatever became of the market.            *)
ReportWinner == [status |-> "Settled", winner |-> winningOutcome'[Subject]]

(* resolve.ts names no winner of a market that failed; committee-run prints *)
(* the chain's field beside the status, NO where nothing was written.      *)
Report ==
    [status |-> status'[Subject],
     winner |-> IF run.script = "committee" \/ status'[Subject] = "Settled"
                THEN winningOutcome'[Subject] ELSE NONE]

Finalizes ==
    /\ run.at = "finalizing"
    /\ now > run.deadline
    /\ Finalize(Subject)
    /\ run' = [run EXCEPT !.at = IF run.script = "committee" THEN "restoring" ELSE "done",
                          !.report = Report]
    /\ UNCHANGED windows

FinalizeReverts ==
    /\ run.at = "finalizing"
    /\ now > run.deadline
    /\ ~ENABLED Finalize(Subject)
    /\ Throws

(* Step 9 puts back, one after the other, what step 1 put down, which is   *)
(* nothing in the runs that come this far: `ResolversThrow` ends the others. *)
PutsBack ==
    /\ run.at = "restoring"
    /\ IF run.restore = {}
       THEN To("done") /\ UNCHANGED windows
       ELSE \E w \in run.restore :
              /\ windows' = windows \ {w}
              /\ run' = [run EXCEPT !.restore = @ \ {w}]
    /\ UNCHANGED vars

(* What a run does that nobody kills, and killing it.                      *)
RunnerWorks ==
    \/ Starts \/ \E w \in WindowNames : Shortens(w)
    \/ ResolversThrow \/ Arrives
    \/ Requests \/ RequestReverts \/ Opens \/ OpenReverts
    \/ Seats \/ CommitThrows \/ Committed
    \/ \E a \in Agents : Commits(a) \/ Reveals(a) \/ RevealReverts(a)
    \/ Revealed \/ Finalizes \/ FinalizeReverts \/ PutsBack

Dies == Running /\ Throws

RunnerStep == RunnerWorks \/ Dies
=============================================================================
