--------------------------- MODULE ResolverStake ---------------------------
(***************************************************************************)
(* The half of core/AgentRegistry.sol that resolution depends on: what     *)
(* each listed resolver has bonded, what it has given notice on, which key *)
(* acts for it, and its record.  `slash` and `recordResolution` are called *)
(* only by the ResolutionModule, so they are operators its actions use.    *)
(*                                                                         *)
(* An agent's first operator key is the agent itself; SpareKeys are the    *)
(* keys its owner may rotate to, NoKey (giving it up) perhaps among them. *)
(***************************************************************************)
EXTENDS Chain

CONSTANTS
    Agents,            \* agents in `resolvers`, all of role Resolver
    InitialStake,      \* bonded by each of them at the start
    MaxStake,          \* bound on top-ups, for TLC only
    TopUps,            \* amounts `stake` is called with
    UnstakeAmounts,    \* amounts `requestUnstake` is called with
    UnstakeCooldown,   \* UNSTAKE_COOLDOWN
    SpareKeys,
    NoKey              \* address(0)

ASSUME StakeAssumption ==
    /\ InitialStake \in Nat
    /\ MaxStake \in Nat
    /\ TopUps \subseteq Nat \ {0}
    /\ UnstakeAmounts \subseteq Nat \ {0}
    /\ UnstakeCooldown \in Nat
    /\ NoKey \notin Agents

VARIABLES staked, cooling, cooldownEnds, operatorOf, reputation

stakeVars == <<staked, cooling, cooldownEnds, operatorOf, reputation>>

Keys == Agents \cup SpareKeys \cup {NoKey}

StakeTypeOK ==
    /\ staked \in [Agents -> Nat]
    /\ cooling \in [Agents -> Nat]
    /\ cooldownEnds \in [Agents -> Nat]
    /\ operatorOf \in [Agents -> Keys]
    /\ reputation \in [Agents -> [agreed: Nat, overturned: Nat]]

StakeInit ==
    /\ staked = [a \in Agents |-> InitialStake]
    /\ cooling = [a \in Agents |-> 0]
    /\ cooldownEnds = [a \in Agents |-> 0]
    /\ operatorOf = [a \in Agents |-> a]
    /\ reputation = [a \in Agents |-> [agreed |-> 0, overturned |-> 0]]

StakeMore(a, amount) ==
    /\ staked[a] + amount <= MaxStake
    /\ staked' = [staked EXCEPT ![a] = @ + amount]
    /\ UNCHANGED <<cooling, cooldownEnds, operatorOf, reputation>>

(* Mutant: notice on what is already cooling.                              *)
MayGiveNoticeAgain(a, amount) == amount <= staked[a] + cooling[a]

MayGiveNotice(a, amount) == amount <= staked[a]

(* Notice leaves `activeStake` at once, and restarts the cooldown of       *)
(* everything already cooling.                                             *)
GiveNotice(a, amount) ==
    /\ MayGiveNotice(a, amount)
    /\ staked' = [staked EXCEPT ![a] = @ - amount]
    /\ cooling' = [cooling EXCEPT ![a] = @ + amount]
    /\ cooldownEnds' = [cooldownEnds EXCEPT ![a] = now + UnstakeCooldown]
    /\ UNCHANGED <<operatorOf, reputation>>

Withdraw(a) ==
    /\ cooling[a] > 0
    /\ now >= cooldownEnds[a]
    /\ cooling' = [cooling EXCEPT ![a] = 0]
    /\ UNCHANGED <<staked, cooldownEnds, operatorOf, reputation>>

(* One key acts for at most one agent.                                     *)
Rotate(a, key) ==
    /\ \A b \in Agents \ {a} : key = NoKey \/ operatorOf[b] # key
    /\ operatorOf' = [operatorOf EXCEPT ![a] = key]
    /\ UNCHANGED <<staked, cooling, cooldownEnds, reputation>>

Least(x, y) == IF x < y THEN x ELSE y

(* `slash` takes bonded stake first and cooling stake after it.            *)
FromStaked(a, amount)  == Least(amount, staked[a])
FromCooling(a, amount) == Least(amount - FromStaked(a, amount), cooling[a])

(* Every agent a loses amount[a] of its stake.                             *)
SlashAll(amount) ==
    /\ staked' = [a \in Agents |-> staked[a] - FromStaked(a, amount[a])]
    /\ cooling' = [a \in Agents |-> cooling[a] - FromCooling(a, amount[a])]
    /\ UNCHANGED <<cooldownEnds, operatorOf>>

RecordAll(agreed, overturned) ==
    reputation' = [a \in Agents |->
        [agreed     |-> reputation[a].agreed + (IF a \in agreed THEN 1 ELSE 0),
         overturned |-> reputation[a].overturned + (IF a \in overturned THEN 1 ELSE 0)]]
=============================================================================
