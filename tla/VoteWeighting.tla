---------------------------- MODULE VoteWeighting ----------------------------
(***************************************************************************)
(* governance/contracts/VoteWeighting.sol: veOLAS holders split their       *)
(* voting power over staking nominees.  The weight of a nominee decays      *)
(* linearly and is kept week by week, as a point of bias and slope; slopes  *)
(* of locks that end are scheduled as changes.  The same is kept for the    *)
(* sum of all nominees, and both are filled lazily.                         *)
(*                                                                          *)
(* An action is one transaction.  Times are timestamps, those of points are *)
(* multiples of WEEK.  Arithmetic is checked: where it would underflow the  *)
(* transaction reverts, and the action is not enabled.  A batch of votes is *)
(* a sequence of votes.  An operator named after another one with a suffix, *)
(* as BiasAt_untilNow, is a faulty variant that the properties have to      *)
(* notice.                                                                  *)
(***************************************************************************)
EXTENDS Integers, Sequences, Totals

CONSTANTS
    NumUsers, NumNominees,
    WEEK, WEIGHT_VOTE_DELAY, MAX_NUM_WEEKS, MAX_WEIGHT,
    Slopes,     \* slopes that veOLAS computes from locked amounts
    LockEnds,   \* ends of locks
    Removable,  \* nominees that the owner may remove
    StartTime,  \* time of the deployment
    MaxTime,    \* bound on the time
    NumWeeks    \* weeks that points are kept for

Users == 1..NumUsers
Nominees == 1..NumNominees
Times == {WEEK * w : w \in 0..NumWeeks}

ASSUME VotingAssumption ==
    /\ NumUsers \in Nat /\ NumNominees \in Nat
    /\ WEEK \in Nat \ {0} /\ MAX_NUM_WEEKS \in Nat \ {0} /\ MAX_WEIGHT \in Nat \ {0}
    /\ WEIGHT_VOTE_DELAY \in Nat
    /\ NumWeeks \in Nat
    /\ Slopes \subseteq Nat
    /\ LockEnds \subseteq Times
    /\ Removable \subseteq Nominees
    /\ StartTime \in Nat /\ MaxTime \in Nat
    /\ StartTime <= MaxTime /\ MaxTime + WEEK <= WEEK * NumWeeks

VARIABLES
    now,
    locks,               \* slope and end of the veOLAS lock of each user
    setNominees, setRemovedNominees,
    mapNomineeIds, mapRemovedNominees,
    voteUserSlopes,      \* slope, power and end of each user's vote for each nominee
    voteUserPower,
    lastUserVote,
    pointsWeight, changesWeight, timeWeight,
    pointsSum, changesSum, timeSum

setVars == <<setNominees, setRemovedNominees, mapNomineeIds, mapRemovedNominees>>
userVars == <<voteUserSlopes, voteUserPower, lastUserVote>>
pointVars == <<pointsWeight, timeWeight, pointsSum, timeSum>>
changeVars == <<changesWeight, changesSum>>
vars == <<now, locks, setVars, userVars, pointVars, changeVars>>

Least(a, b) == IF a <= b THEN a ELSE b
MaxAndSub(a, b) == IF a > b THEN a - b ELSE 0

NoPoint == [bias |-> 0, slope |-> 0]
NoVote == [slope |-> 0, power |-> 0, end |-> 0]

Init ==
    /\ now = StartTime
    /\ locks = [u \in Users |-> [slope |-> 0, end |-> 0]]
    /\ setNominees = <<>>
    /\ setRemovedNominees = <<>>
    /\ mapNomineeIds = [n \in Nominees |-> 0]
    /\ mapRemovedNominees = [n \in Nominees |-> 0]
    /\ voteUserSlopes = [u \in Users |-> [n \in Nominees |-> NoVote]]
    /\ voteUserPower = [u \in Users |-> 0]
    /\ lastUserVote = [u \in Users |-> [n \in Nominees |-> 0]]
    /\ pointsWeight = [n \in Nominees |-> [t \in Times |-> NoPoint]]
    /\ changesWeight = [n \in Nominees |-> [t \in Times |-> 0]]
    /\ timeWeight = [n \in Nominees |-> 0]
    /\ pointsSum = [t \in Times |-> NoPoint]
    /\ changesSum = [t \in Times |-> 0]
    /\ timeSum = (StartTime \div WEEK) * WEEK

-----------------------------------------------------------------------------
(* Filling points week by week, as _getWeight and _getSum do                *)

\* The next multiple of WEEK after the block's time.
NextTime_rounded == ((now + WEEK - 1) \div WEEK) * WEEK
NextTime == ((now + WEEK) \div WEEK) * WEEK

\* The point of the next week, given the slope change scheduled for it.
NextPoint(pt, dSlope) ==
    IF pt.bias > pt.slope * WEEK
    THEN [bias |-> pt.bias - pt.slope * WEEK, slope |-> pt.slope - dSlope]
    ELSE NoPoint

\* The loop fills up to the next week, but MAX_NUM_WEEKS weeks at most.
LastFilled(time) ==
    IF time > now THEN time ELSE Least(NextTime, time + MAX_NUM_WEEKS * WEEK)
ToFill(time) == {t \in Times : time < t /\ t <= LastFilled(time)}

Fill(points, changes, time) ==
    LET pt[t \in Times] ==
            IF t \in ToFill(time) THEN NextPoint(pt[t - WEEK], changes[t]) ELSE points[t]
    IN pt

\* No slope change exceeds the slope that it is taken from.
Fillable(points, changes, time) ==
    \A t \in ToFill(time) :
        LET pt == Fill(points, changes, time)[t - WEEK]
        IN pt.bias > pt.slope * WEEK => pt.slope >= changes[t]

\* The time is recorded only if the loop got ahead of the block's time.
TimeAfter(time) == IF LastFilled(time) > now THEN LastFilled(time) ELSE time

WeightPoints(n) == Fill(pointsWeight[n], changesWeight[n], timeWeight[n])
CurrentWeight(n) == WeightPoints(n)[LastFilled(timeWeight[n])].bias
WeightFillable(n) ==
    /\ mapNomineeIds[n] > 0 \/ mapRemovedNominees[n] > 0
    /\ Fillable(pointsWeight[n], changesWeight[n], timeWeight[n])

SumPoints == Fill(pointsSum, changesSum, timeSum)
CurrentSum == SumPoints[LastFilled(timeSum)].bias
SumFillable == Fillable(pointsSum, changesSum, timeSum)

-----------------------------------------------------------------------------
(* Nominees                                                                 *)

\* addNomineeEVM and addNomineeNonEVM
addNominee(n) ==
    /\ mapNomineeIds[n] = 0
    /\ mapRemovedNominees[n] = 0
    /\ mapNomineeIds' = [mapNomineeIds EXCEPT ![n] = Len(setNominees) + 1]
    /\ setNominees' = Append(setNominees, n)
    /\ timeWeight' = [timeWeight EXCEPT ![n] = NextTime]
    /\ UNCHANGED <<now, locks, setRemovedNominees, mapRemovedNominees, userVars,
                   pointsWeight, pointsSum, timeSum, changeVars>>

\* checkpoint()
checkpoint ==
    /\ SumFillable
    /\ pointsSum' = SumPoints
    /\ timeSum' = TimeAfter(timeSum)
    /\ UNCHANGED <<now, locks, setVars, userVars, pointsWeight, timeWeight, changeVars>>

\* checkpointNominee, and nomineeRelativeWeightWrite, which also returns a weight
checkpointNominee(n) ==
    /\ WeightFillable(n)
    /\ SumFillable
    /\ pointsWeight' = [pointsWeight EXCEPT ![n] = WeightPoints(n)]
    /\ timeWeight' = [timeWeight EXCEPT ![n] = TimeAfter(@)]
    /\ pointsSum' = SumPoints
    /\ timeSum' = TimeAfter(timeSum)
    /\ UNCHANGED <<now, locks, setVars, userVars, changeVars>>

\* The weight of a removed nominee is zeroed.
RemovedBias_kept(n) == CurrentWeight(n)
RemovedBias(n) == 0

\* The last nominee takes the id of the removed one, whose own id is reset
\* before that.
IdsAfterRemoval_unmoved(n, last) == [mapNomineeIds EXCEPT ![n] = 0]
IdsAfterRemoval(n, last) == [mapNomineeIds EXCEPT ![n] = 0, ![last] = mapNomineeIds[n]]

removeNominee(n) ==
    LET id   == mapNomineeIds[n]
        last == setNominees[Len(setNominees)]
    IN  /\ n \in Removable
        /\ id > 0
        /\ WeightFillable(n)
        /\ SumFillable
        /\ CurrentSum >= CurrentWeight(n)
        /\ id <= Len(setNominees)
        /\ pointsWeight' =
               [pointsWeight EXCEPT ![n] = [WeightPoints(n) EXCEPT ![NextTime].bias = RemovedBias(n)]]
        /\ timeWeight' = [timeWeight EXCEPT ![n] = NextTime]
        /\ pointsSum' = [SumPoints EXCEPT ![NextTime].bias = CurrentSum - CurrentWeight(n)]
        /\ timeSum' = NextTime
        /\ mapRemovedNominees' = [mapRemovedNominees EXCEPT ![n] = Len(setRemovedNominees) + 1]
        /\ setRemovedNominees' = Append(setRemovedNominees, n)
        /\ mapNomineeIds' = IdsAfterRemoval(n, last)
        /\ setNominees' = SubSeq([setNominees EXCEPT ![id] = last], 1, Len(setNominees) - 1)
        /\ UNCHANGED <<now, locks, userVars, changeVars>>

-----------------------------------------------------------------------------
(* Votes                                                                    *)

\* What a vote adds to the weight at a time.
BiasAt_untilNow(vote, t) == IF vote.end > now THEN vote.slope * (vote.end - now) ELSE 0
BiasAt(vote, t) == IF vote.end > t THEN vote.slope * (vote.end - t) ELSE 0

NewVote(u, weight) ==
    [slope |-> (locks[u].slope * weight) \div MAX_WEIGHT, power |-> weight, end |-> locks[u].end]

PowerAfter_added(u, old, new) == voteUserPower[u] + new.power
PowerAfter(u, old, new) == voteUserPower[u] + new.power - old.power

\* The point of the next week, once a vote is replaced; weight is the bias
\* that the fill returned.
Revoted(pt, weight, old, new) ==
    [bias  |-> MaxAndSub(weight + BiasAt(new, NextTime), BiasAt(old, NextTime)),
     slope |-> IF old.end > NextTime THEN MaxAndSub(pt.slope + new.slope, old.slope)
               ELSE pt.slope + new.slope]

\* A slope change of a vote that did not happen yet is canceled.
Canceled_afterNextTime(changes, old) ==
    IF old.end > NextTime THEN [changes EXCEPT ![old.end] = @ - old.slope] ELSE changes
Canceled(changes, old) ==
    IF old.end > now THEN [changes EXCEPT ![old.end] = @ - old.slope] ELSE changes
Cancelable(changes, old) == old.end > now => changes[old.end] >= old.slope
Rescheduled(changes, old, new) ==
    [Canceled(changes, old) EXCEPT ![new.end] = @ + new.slope]

voteForNomineeWeights(u, n, weight) ==
    LET old == voteUserSlopes[u][n]
        new == NewVote(u, weight)
    IN  /\ mapRemovedNominees[n] = 0
        /\ NextTime < locks[u].end
        /\ lastUserVote[u][n] + WEIGHT_VOTE_DELAY <= now
        /\ PowerAfter(u, old, new) <= MAX_WEIGHT
        /\ WeightFillable(n)
        /\ SumFillable
        /\ Cancelable(changesWeight[n], old)
        /\ Cancelable(changesSum, old)
        /\ voteUserPower' = [voteUserPower EXCEPT ![u] = PowerAfter(u, old, new)]
        /\ pointsWeight' =
               [pointsWeight EXCEPT ![n] =
                   [WeightPoints(n) EXCEPT ![NextTime] = Revoted(@, CurrentWeight(n), old, new)]]
        /\ timeWeight' = [timeWeight EXCEPT ![n] = TimeAfter(@)]
        /\ pointsSum' = [SumPoints EXCEPT ![NextTime] = Revoted(@, CurrentSum, old, new)]
        /\ timeSum' = TimeAfter(timeSum)
        /\ changesWeight' = [changesWeight EXCEPT ![n] = Rescheduled(@, old, new)]
        /\ changesSum' = Rescheduled(changesSum, old, new)
        /\ voteUserSlopes' = [voteUserSlopes EXCEPT ![u][n] = new]
        /\ lastUserVote' = [lastUserVote EXCEPT ![u][n] = now]
        /\ UNCHANGED <<now, locks, setVars>>

\* A user takes the power back from a removed nominee.
revokeRemovedNomineeVotingPower(u, n) ==
    LET old == voteUserSlopes[u][n]
    IN  /\ mapRemovedNominees[n] > 0
        /\ old.power > 0
        /\ Cancelable(changesWeight[n], old)
        /\ Cancelable(changesSum, old)
        /\ changesWeight' = [changesWeight EXCEPT ![n] = Canceled(@, old)]
        /\ changesSum' = Canceled(changesSum, old)
        /\ voteUserPower' = [voteUserPower EXCEPT ![u] = @ - old.power]
        /\ voteUserSlopes' = [voteUserSlopes EXCEPT ![u][n] = NoVote]
        /\ UNCHANGED <<now, locks, setVars, lastUserVote, pointVars>>

-----------------------------------------------------------------------------
(* Blocks and veOLAS                                                        *)

Tick ==
    /\ now < MaxTime
    /\ now' = now + 1
    /\ UNCHANGED <<locks, setVars, userVars, pointVars, changeVars>>

\* A lock is created, or, until it ends, increased or prolonged.
ChangeLock(u, slope, end) ==
    /\ end > now
    /\ locks[u].end > now => slope >= locks[u].slope /\ end >= locks[u].end
    /\ locks' = [locks EXCEPT ![u] = [slope |-> slope, end |-> end]]
    /\ UNCHANGED <<now, setVars, userVars, pointVars, changeVars>>

Next ==
    \/ \E n \in Nominees : addNominee(n)
    \/ checkpoint
    \/ \E n \in Nominees : checkpointNominee(n)
    \/ \E n \in Nominees : removeNominee(n)
    \/ \E u \in Users, n \in Nominees, weight \in 0..MAX_WEIGHT :
           voteForNomineeWeights(u, n, weight)
    \/ \E u \in Users, n \in Nominees : revokeRemovedNomineeVotingPower(u, n)
    \/ Tick
    \/ \E u \in Users, slope \in Slopes, end \in LockEnds : ChangeLock(u, slope, end)

Spec == Init /\ [][Next]_vars

-----------------------------------------------------------------------------
(* Properties                                                               *)

Points == [bias : Nat, slope : Nat]
Votes == [slope : Nat, power : 0..MAX_WEIGHT, end : Times]

Types ==
    /\ now \in StartTime..MaxTime
    /\ locks \in [Users -> [slope : Nat, end : Times]]
    /\ setNominees \in Seq(Nominees)
    /\ setRemovedNominees \in Seq(Nominees)
    /\ mapNomineeIds \in [Nominees -> Nat]
    /\ mapRemovedNominees \in [Nominees -> 0..Len(setRemovedNominees)]
    /\ voteUserSlopes \in [Users -> [Nominees -> Votes]]
    /\ voteUserPower \in [Users -> Nat]
    /\ lastUserVote \in [Users -> [Nominees -> 0..now]]
    /\ pointsWeight \in [Nominees -> [Times -> Points]]
    /\ changesWeight \in [Nominees -> [Times -> Nat]]
    /\ timeWeight \in [Nominees -> Times]
    /\ pointsSum \in [Times -> Points]
    /\ changesSum \in [Times -> Nat]
    /\ timeSum \in Times

Listed(n) == \E i \in DOMAIN setNominees : setNominees[i] = n
NoneRemovedTwice ==
    \A i, j \in DOMAIN setRemovedNominees :
        setRemovedNominees[i] = setRemovedNominees[j] => i = j
IdsKept ==
    /\ \A i \in DOMAIN setNominees : mapNomineeIds[setNominees[i]] = i
    /\ \A n \in Nominees :
           mapRemovedNominees[n] > 0 => setRemovedNominees[mapRemovedNominees[n]] = n
    /\ NoneRemovedTwice =>
           \A n \in Nominees : mapNomineeIds[n] > 0 => Listed(n) \/ mapRemovedNominees[n] > 0

\* Biases and slopes are never negative.  The id of a listed nominee is its place
\* in setNominees, through all removals that move another one to the place.  The
\* converse does not hold: removeNominee writes the id of a last nominee back,
\* which may then be removed once more, and another nominee leaves the set in its
\* place and keeps its own id.  Without that an id that is not of the set is left
\* only with a removed nominee.
TypeOK == Types /\ IdsKept

\* A user's power is what the user's votes take together, and at most all of
\* it: no sequence of votes, revotes, removals and revocations gains or loses
\* voting power.
Powers(u) == [n \in Nominees |-> voteUserSlopes[u][n].power]
PowerExact ==
    \A u \in Users :
        /\ voteUserPower[u] = Total(Powers(u), NumNominees)
        /\ voteUserPower[u] <= MAX_WEIGHT

\* The slope changes that are scheduled for the future are those of the votes
\* that end then, for each nominee and for the sum, so that taking a vote back
\* cannot underflow.
ScheduledSlope(vote, t) == IF vote.end = t THEN vote.slope ELSE 0
ScheduledSlopes(n, t) == [u \in Users |-> ScheduledSlope(voteUserSlopes[u][n], t)]
ScheduledChanges(t) == [n \in Nominees |-> changesWeight[n][t]]
ChangesExact ==
    \A t \in Times : t > now =>
        /\ \A n \in Nominees : changesWeight[n][t] = Total(ScheduledSlopes(n, t), NumUsers)
        /\ changesSum[t] = Total(ScheduledChanges(t), NumNominees)

\* The next fill gets ahead of the block's time.  What is left behind for
\* longer than MAX_NUM_WEEKS never gets there again.
InReach(time) == now < time + MAX_NUM_WEEKS * WEEK

VotesFor(n, t) == TotalOver(LAMBDA u : BiasAt(voteUserSlopes[u][n], t), NumUsers)

\* However the votes, revotes and lazy fills interleave with locks that end, the
\* weight of a nominee is what the votes for it are worth at that time.
WeightExact ==
    \A n \in Nominees :
        (mapNomineeIds[n] > 0 /\ mapRemovedNominees[n] = 0 /\ InReach(timeWeight[n])) =>
            pointsWeight[n][timeWeight[n]].bias = VotesFor(n, timeWeight[n])

\* The same for the sum of the weights, as long as no nominee was removed.
SumExact ==
    (setRemovedNominees = <<>> /\ InReach(timeSum)) =>
        pointsSum[timeSum].bias = TotalOver(LAMBDA n : VotesFor(n, timeSum), NumNominees)

\* A removed nominee has no weight from the next week on.
RemovedHasNoWeight ==
    \A n \in Nominees :
        mapRemovedNominees[n] > 0 => pointsWeight[n][timeWeight[n]].bias = 0

\* Points that were filled are final once their time has come: no vote, removal
\* or late checkpoint changes the weights by which an epoch is rewarded.
PastIsFinal ==
    [][\A t \in Times : t <= now =>
           /\ t <= timeSum => pointsSum'[t] = pointsSum[t]
           /\ \A n \in Nominees :
                  (mapNomineeIds[n] > 0 /\ t <= timeWeight[n]) =>
                      pointsWeight'[n][t] = pointsWeight[n][t]]_vars

\* A relative weight is "not more than 1.0", in the past and present.
RelativeWeightAtMostOne ==
    \A n \in Nominees, t \in Times :
        (t <= now /\ t <= timeWeight[n] /\ t <= timeSum /\ pointsSum[t].bias > 0) =>
            pointsWeight[n][t].bias <= pointsSum[t].bias
=============================================================================
