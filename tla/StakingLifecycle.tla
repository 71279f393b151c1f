-------------------------- MODULE StakingLifecycle --------------------------
(***************************************************************************)
(* What a staking contract promises, as getStakingState and the reward      *)
(* getters of registries/contracts/staking/StakingBase.sol show it to a     *)
(* caller: where each service is in its life, what is free to be earned,    *)
(* what each service has earned, and what the contract still has to pay.    *)
(* How an epoch divides rewards, and how the array of ids is kept, is left  *)
(* open.                                                                    *)
(***************************************************************************)
EXTENDS Integers, FiniteSets, Totals

CONSTANTS NumServices, MaxNumServices,
          MinStay    \* how long a service stays while there are rewards

Services == 1..NumServices

VARIABLES
    clock,
    since,     \* when each service entered, 0 while it is out
    state,     \* "Unstaked", "Staked" or "Evicted"
    available, \* funds that are not yet earned
    earned,    \* earned and not yet withdrawn, by service
    leaving,   \* earned by services that left, and not yet paid
    funds      \* what the contract holds

vars == <<clock, since, state, available, earned, leaving, funds>>

In(st) == {s \in Services : state[s] = st}

Init ==
    /\ clock \in Nat
    /\ since = [s \in Services |-> 0]
    /\ state = [s \in Services |-> "Unstaked"]
    /\ available = 0
    /\ earned = [s \in Services |-> 0]
    /\ leaving = 0
    /\ funds = 0

TimePasses ==
    /\ clock' > clock
    /\ UNCHANGED <<since, state, available, earned, leaving, funds>>

Fund ==
    /\ available' > available
    /\ funds' - funds = available' - available
    /\ UNCHANGED <<clock, since, state, earned, leaving>>

\* A service enters only while there are rewards and a free slot.
Enter(s) ==
    /\ state[s] = "Unstaked"
    /\ available > 0
    /\ Cardinality(In("Staked")) < MaxNumServices
    /\ state' = [state EXCEPT ![s] = "Staked"]
    /\ since' = [since EXCEPT ![s] = clock]
    /\ UNCHANGED <<clock, available, earned, leaving, funds>>

(* An epoch moves funds from available to services that were staked, and may *)
(* evict staked services; it takes part in checkpoint, unstake and           *)
(* checkpointAndClaim calls.  gain is what a service earned in the epoch.    *)
EpochGains(gain) ==
    /\ \A s \in Services : gain[s] >= 0 /\ (gain[s] > 0 => state[s] = "Staked")
    /\ available - available' = Total(gain, NumServices)
    /\ available' >= 0

EvictsOnlyStaked(others) ==
    \A s \in others : state'[s] # state[s] => state[s] = "Staked" /\ state'[s] = "Evicted"

Epoch ==
    /\ EpochGains([s \in Services |-> earned'[s] - earned[s]])
    /\ EvictsOnlyStaked(Services)
    /\ UNCHANGED <<clock, since, leaving, funds>>

Claim(s) ==
    LET paid == funds - funds'
        gain == [r \in Services |-> earned'[r] + (IF r = s THEN paid ELSE 0) - earned[r]]
    IN  /\ state[s] # "Unstaked"
        /\ paid > 0
        /\ earned'[s] = 0
        /\ EpochGains(gain)
        /\ EvictsOnlyStaked(Services)
        /\ UNCHANGED <<clock, since, leaving>>

\* A service leaves after its minimum stay, or earlier when nothing was left to be earned before
\* the call, whatever the epoch of the call itself takes out.
Leave(s) ==
    LET owed == leaving' - leaving
        gain == [r \in Services |-> earned'[r] + (IF r = s THEN owed ELSE 0) - earned[r]]
    IN  /\ state[s] # "Unstaked"
        /\ clock - since[s] > MinStay \/ available = 0
        /\ state'[s] = "Unstaked"
        /\ since' = [since EXCEPT ![s] = 0]
        /\ earned'[s] = 0
        /\ owed >= earned[s]
        /\ EpochGains(gain)
        /\ EvictsOnlyStaked(Services \ {s})
        /\ UNCHANGED <<clock, funds>>

Pay ==
    /\ leaving' < leaving
    /\ funds - funds' = leaving - leaving'
    /\ leaving' >= 0
    /\ UNCHANGED <<clock, since, state, available, earned>>

Next ==
    \/ TimePasses
    \/ Fund
    \/ \E s \in Services : Enter(s)
    \/ Epoch
    \/ \E s \in Services : Claim(s)
    \/ \E s \in Services : Leave(s)
    \/ Pay

Spec == Init /\ [][Next]_vars
=============================================================================
