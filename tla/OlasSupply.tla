----------------------------- MODULE OlasSupply ------------------------------
(***************************************************************************)
(* The supply of OLAS (governance/contracts/OLAS.sol) and the inflation     *)
(* schedule that OLAS and Tokenomics share.  OLAS.mint does not revert when *)
(* the amount exceeds what the schedule leaves: it returns without minting. *)
(* Times count from timeLaunch.                                             *)
(***************************************************************************)
EXTENDS Integers, Totals

CONSTANTS
    Year,               \* ONE_YEAR
    CapYears,           \* years whose cap is one number from the start (ten)
    InitialSupply,      \* minted before the treasury becomes the minter
    InflationForYear,   \* getInflationForYear
    MaxTime             \* bound on now

Years == 0..(MaxTime \div Year + 1)

ASSUME ScheduleAssumption ==
    /\ Year \in Nat \ {0}
    /\ CapYears \in Nat \ {0}
    /\ InitialSupply \in Nat
    /\ MaxTime \in Nat
    /\ InflationForYear \in [0..(MaxTime \div Year + CapYears + 1) -> Nat]

VARIABLES
    now,                \* block.timestamp - timeLaunch
    totalSupply

YearOf(t) == t \div Year

\* What the schedule hands out in the years before y.
InflationUntilYear(y) == Total([i \in 1..y |-> InflationForYear[i - 1]], y)

\* For the first years the cap is that of the last of them.
SupplyCap(t) ==
    InitialSupply + InflationUntilYear(IF YearOf(t) < CapYears THEN CapYears
                                       ELSE YearOf(t) + 1)

inflationControl(amount) == amount <= SupplyCap(now) - totalSupply

\* How much a mint of amount really mints.
Minted(amount) == IF inflationControl(amount) THEN amount ELSE 0
===============================================================================
