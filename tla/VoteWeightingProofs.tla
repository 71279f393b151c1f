-------------------------- MODULE VoteWeightingProofs --------------------------
(***************************************************************************)
(* Proofs about VoteWeighting, for every number of users, nominees and      *)
(* weeks.  First the votes: voting power is conserved, and the slope        *)
(* changes that are scheduled are those of the votes, whatever nominees are *)
(* removed.  Then the points: a lazy fill is a function that satisfies its  *)
(* recursion, types are kept, the past is final, and the weights and their  *)
(* sum are what the votes are worth.                                        *)
(***************************************************************************)
EXTENDS VoteWeighting, TotalsTheorems

\* The types of what votes are recorded in.
VoteTypes ==
    /\ now \in Nat
    /\ locks \in [Users -> [slope : Nat, end : Times]]
    /\ voteUserSlopes \in [Users -> [Nominees -> Votes]]
    /\ voteUserPower \in [Users -> Nat]
    /\ changesWeight \in [Nominees -> [Times -> Nat]]
    /\ changesSum \in [Times -> Nat]

\* The inductive invariant.
Inv == VoteTypes /\ PowerExact /\ ChangesExact

-----------------------------------------------------------------------------
(* Sets and sums                                                            *)

\* The sets that the constants stand for.
LEMMA VotingSets ==
  /\ NumUsers \in Nat /\ NumNominees \in Nat
  /\ Users = 1..NumUsers /\ Nominees = 1..NumNominees
  /\ Times \subseteq Nat /\ 0 \in Times
<1>1. Times \subseteq Nat
  <2> SUFFICES ASSUME NEW w \in 0..NumWeeks
               PROVE  WEEK * w \in Nat
    BY DEF Times
  <2>1. WEEK \in Nat /\ w \in Nat
    BY VotingAssumption
  <2>2. QED
    BY <2>1
<1>2. 0 \in Times
  <2>1. WEEK * 0 = 0 /\ 0 \in 0..NumWeeks
    BY VotingAssumption
  <2>2. QED
    BY <2>1 DEF Times
<1>3. QED
  BY <1>1, <1>2, VotingAssumption DEF Users, Nominees

\* What a vote takes is a number.
LEMMA VotePower ==
  ASSUME NEW vote \in Votes
  PROVE  vote.power \in Nat
<1>1. MAX_WEIGHT \in Nat /\ vote.power \in 0..MAX_WEIGHT
  BY VotingAssumption DEF Votes
<1>2. QED
  BY <1>1

\* One term of a sum is replaced.
LEMMA TotalReplaced ==
  ASSUME NEW N \in Nat, NEW f \in [1..N -> Nat], NEW g \in [1..N -> Nat], NEW i \in 1..N,
         \A j \in 1..N : j # i => g[j] = f[j]
  PROVE  Total(g, N) = Total(f, N) - f[i] + g[i]
<1>1. f \in [1..N -> Int] /\ g[i] \in Int
  OBVIOUS
<1>2. g = [f EXCEPT ![i] = g[i]]
  OBVIOUS
<1>3. Total([f EXCEPT ![i] = g[i]], N) = Total(f, N) - f[i] + g[i]
  BY <1>1, TotalExcept
<1>4. QED
  BY <1>2, <1>3

\* What rescheduling does to the changes of a future week.
LEMMA CanceledAt ==
  ASSUME NEW changes \in [Times -> Nat], NEW old \in Votes, now \in Nat, Cancelable(changes, old)
  PROVE  /\ Canceled(changes, old) \in [Times -> Nat]
         /\ \A t \in Times : t > now =>
                Canceled(changes, old)[t] = changes[t] - ScheduledSlope(old, t)
         /\ \A t \in Times : t > now => ScheduledSlope(old, t) <= changes[t]
<1>1. old.end \in Times /\ old.slope \in Nat /\ old.end \in Nat
  BY VotingSets DEF Votes
<1>2. CASE old.end > now
  <2>1. changes[old.end] - old.slope \in Nat
    BY <1>1, <1>2 DEF Cancelable
  <2>2. Canceled(changes, old) = [changes EXCEPT ![old.end] = changes[old.end] - old.slope]
    BY <1>2 DEF Canceled
  <2>3. QED
    BY <1>1, <1>2, <2>1, <2>2 DEF ScheduledSlope, Cancelable
<1>3. CASE ~ (old.end > now)
  BY <1>1, <1>3 DEF Canceled, ScheduledSlope
<1>4. QED
  BY <1>2, <1>3

\* The same for a vote that replaces another one.
LEMMA RescheduledAt ==
  ASSUME NEW changes \in [Times -> Nat], NEW old \in Votes, NEW new \in Votes, now \in Nat,
         Cancelable(changes, old)
  PROVE  /\ Rescheduled(changes, old, new) \in [Times -> Nat]
         /\ \A t \in Times : t > now =>
                Rescheduled(changes, old, new)[t]
                  = changes[t] - ScheduledSlope(old, t) + ScheduledSlope(new, t)
<1> DEFINE c == Canceled(changes, old)
<1>1. /\ c \in [Times -> Nat]
      /\ \A t \in Times : t > now => c[t] = changes[t] - ScheduledSlope(old, t)
  BY CanceledAt
<1>2. new.end \in Times /\ new.slope \in Nat
  BY DEF Votes
<1>3. Rescheduled(changes, old, new) = [c EXCEPT ![new.end] = c[new.end] + new.slope]
  BY DEF Rescheduled
<1> HIDE DEF c
<1>4. Rescheduled(changes, old, new) \in [Times -> Nat]
  BY <1>1, <1>2, <1>3
<1>5. ASSUME NEW t \in Times, t > now
      PROVE  Rescheduled(changes, old, new)[t] = c[t] + ScheduledSlope(new, t)
  BY <1>1, <1>2, <1>3 DEF ScheduledSlope
<1>6. QED
  BY <1>1, <1>4, <1>5

-----------------------------------------------------------------------------
(* A vote that replaces another one                                         *)

\* The shape that voteForNomineeWeights and revokeRemovedNomineeVotingPower
\* share.
Replaces(u, n, old, new) ==
    /\ voteUserSlopes' = [voteUserSlopes EXCEPT ![u][n] = new]
    /\ voteUserPower' = [voteUserPower EXCEPT ![u] = voteUserPower[u] + new.power - old.power]
    /\ voteUserPower[u] + new.power - old.power <= MAX_WEIGHT
    /\ \E f, g \in [Times -> Nat] :
        /\ changesWeight' = [changesWeight EXCEPT ![n] = f]
        /\ changesSum' = g
        /\ \A t \in Times : t > now =>
               /\ f[t] = changesWeight[n][t] - ScheduledSlope(old, t) + ScheduledSlope(new, t)
               /\ g[t] = changesSum[t] - ScheduledSlope(old, t) + ScheduledSlope(new, t)
    /\ UNCHANGED <<now, locks>>

\* Such a step preserves the invariant.
LEMMA ReplacesInv ==
  ASSUME Inv, NEW u \in Users, NEW n \in Nominees, NEW new \in Votes,
         Replaces(u, n, voteUserSlopes[u][n], new)
  PROVE  Inv'
<1> DEFINE old == voteUserSlopes[u][n]
<1>0. /\ NumUsers \in Nat /\ NumNominees \in Nat
      /\ Users = 1..NumUsers /\ Nominees = 1..NumNominees
  BY VotingSets
<1>1. /\ voteUserSlopes \in [Users -> [Nominees -> Votes]]
      /\ voteUserPower \in [Users -> Nat]
      /\ changesWeight \in [Nominees -> [Times -> Nat]]
      /\ changesSum \in [Times -> Nat]
      /\ old \in Votes
  BY DEF Inv, VoteTypes
<1>2. /\ voteUserSlopes' = [voteUserSlopes EXCEPT ![u][n] = new]
      /\ voteUserPower' = [voteUserPower EXCEPT ![u] = voteUserPower[u] + new.power - old.power]
      /\ voteUserPower[u] + new.power - old.power <= MAX_WEIGHT
      /\ now' = now /\ locks' = locks
  BY DEF Replaces
<1>3. PICK f \in [Times -> Nat], g \in [Times -> Nat] :
        /\ changesWeight' = [changesWeight EXCEPT ![n] = f]
        /\ changesSum' = g
        /\ \A t \in Times : t > now =>
               /\ f[t] = changesWeight[n][t] - ScheduledSlope(old, t) + ScheduledSlope(new, t)
               /\ g[t] = changesSum[t] - ScheduledSlope(old, t) + ScheduledSlope(new, t)
  BY DEF Replaces
<1>4. /\ voteUserSlopes' \in [Users -> [Nominees -> Votes]]
      /\ voteUserSlopes'[u][n] = new
      /\ \A m \in Nominees : m # n => voteUserSlopes'[u][m] = voteUserSlopes[u][m]
      /\ \A v \in Users : v # u => voteUserSlopes'[v] = voteUserSlopes[v]
  BY <1>1, <1>2
<1>5. PowerExact'
  <2> DEFINE p == Powers(u)
             q == Powers(u)'
  <2>1. \A m \in Nominees : voteUserSlopes[u][m].power \in Nat /\ voteUserSlopes'[u][m].power \in Nat
    BY <1>1, <1>4, VotePower
  <2>2. p \in [1..NumNominees -> Nat] /\ q \in [1..NumNominees -> Nat]
    BY <1>0, <2>1 DEF Powers
  <2>3. p[n] = old.power /\ q[n] = new.power /\ \A m \in 1..NumNominees : m # n => q[m] = p[m]
    BY <1>0, <1>4 DEF Powers
  <2>4. voteUserPower[u] = Total(p, NumNominees)
    BY DEF Inv, PowerExact
  <2>5. ASSUME NEW v \in Users, v # u
        PROVE  /\ voteUserPower'[v] = Total(Powers(v)', NumNominees)
               /\ voteUserPower'[v] <= MAX_WEIGHT
    <3>1. voteUserPower'[v] = voteUserPower[v] /\ Powers(v)' = Powers(v)
      BY <1>1, <1>2, <1>4, <2>5 DEF Powers
    <3>2. QED
      BY <3>1 DEF Inv, PowerExact
  <2> HIDE DEF p, q
  <2>6. Total(q, NumNominees) = voteUserPower[u] + new.power - old.power
    <3>1. Total(q, NumNominees) = Total(p, NumNominees) - p[n] + q[n]
      BY <1>0, <2>2, <2>3, TotalReplaced
    <3>2. Total(p, NumNominees) \in Nat /\ p[n] \in Nat /\ q[n] \in Nat
      BY <1>0, <2>2, TotalNonNegative
    <3>3. QED
      BY <2>3, <2>4, <3>1, <3>2
  <2>7. voteUserPower'[u] = Total(q, NumNominees) /\ voteUserPower'[u] <= MAX_WEIGHT
    BY <1>1, <1>2, <2>6
  <2>8. \A v \in Users : /\ voteUserPower'[v] = Total(Powers(v)', NumNominees)
                         /\ voteUserPower'[v] <= MAX_WEIGHT
    BY <2>5, <2>7 DEF q
  <2>9. QED
    BY <2>8 DEF PowerExact
<1>6. ChangesExact'
  <2> SUFFICES ASSUME NEW t \in Times, t > now
               PROVE  /\ \A m \in Nominees : changesWeight'[m][t] = Total(ScheduledSlopes(m, t)', NumUsers)
                      /\ changesSum'[t] = Total(ScheduledChanges(t)', NumNominees)
    BY <1>2 DEF ChangesExact
  <2>0. \A vote \in Votes : ScheduledSlope(vote, t) \in Nat
    BY DEF Votes, ScheduledSlope
  <2>1. ASSUME NEW m \in Nominees, m # n
        PROVE  changesWeight'[m][t] = Total(ScheduledSlopes(m, t)', NumUsers)
    <3>1. changesWeight'[m][t] = changesWeight[m][t]
      BY <1>1, <1>3, <2>1
    <3>2. \A v \in Users : voteUserSlopes'[v][m] = voteUserSlopes[v][m]
      BY <1>4, <2>1
    <3>3. ScheduledSlopes(m, t)' = ScheduledSlopes(m, t)
      BY <3>2 DEF ScheduledSlopes
    <3>4. changesWeight[m][t] = Total(ScheduledSlopes(m, t), NumUsers)
      BY DEF Inv, ChangesExact
    <3>5. QED
      BY <3>1, <3>3, <3>4
  <2>2. changesWeight'[n][t] = Total(ScheduledSlopes(n, t)', NumUsers)
    <3> DEFINE p == ScheduledSlopes(n, t)
               q == ScheduledSlopes(n, t)'
    <3>1. p \in [1..NumUsers -> Nat] /\ q \in [1..NumUsers -> Nat]
      <4>1. \A v \in Users : /\ ScheduledSlope(voteUserSlopes[v][n], t) \in Nat
                             /\ ScheduledSlope(voteUserSlopes'[v][n], t) \in Nat
        BY <1>1, <1>4, <2>0
      <4>2. QED
        BY <1>0, <4>1 DEF ScheduledSlopes
    <3>2. /\ p[u] = ScheduledSlope(old, t) /\ q[u] = ScheduledSlope(new, t)
          /\ \A v \in 1..NumUsers : v # u => q[v] = p[v]
      BY <1>0, <1>4 DEF ScheduledSlopes
    <3>3. changesWeight[n][t] = Total(p, NumUsers)
      BY DEF Inv, ChangesExact
    <3>4. Total(q, NumUsers) = Total(p, NumUsers) - p[u] + q[u]
      <4> HIDE DEF p, q
      <4>1. QED
        BY <1>0, <3>1, <3>2, TotalReplaced
    <3>5. changesWeight'[n][t] = changesWeight[n][t] - ScheduledSlope(old, t) + ScheduledSlope(new, t)
      BY <1>1, <1>3
    <3>6. QED
      <4> HIDE DEF p
      <4>1. changesWeight'[n][t] = Total(q, NumUsers)
        <5> HIDE DEF q
        <5>1. QED
          BY <3>2, <3>3, <3>4, <3>5
      <4>2. QED
        BY <4>1
  <2>3. changesSum'[t] = Total(ScheduledChanges(t)', NumNominees)
    <3> DEFINE p == ScheduledChanges(t)
               q == ScheduledChanges(t)'
    <3>1. /\ p \in [1..NumNominees -> Nat] /\ q \in [1..NumNominees -> Nat]
          /\ p[n] = changesWeight[n][t] /\ q[n] = f[t]
          /\ \A m \in 1..NumNominees : m # n => q[m] = p[m]
      BY <1>0, <1>1, <1>3 DEF ScheduledChanges
    <3>2. changesSum[t] = Total(p, NumNominees)
      BY DEF Inv, ChangesExact
    <3>3. changesSum'[t] = Total(q, NumNominees)
      <4> HIDE DEF p, q
      <4>1. Total(q, NumNominees) = Total(p, NumNominees) - p[n] + q[n]
        BY <1>0, <3>1, TotalReplaced
      <4>2. Total(p, NumNominees) \in Nat /\ p[n] \in Nat
        BY <1>0, <3>1, TotalNonNegative
      <4>3. /\ f[t] = p[n] - ScheduledSlope(old, t) + ScheduledSlope(new, t)
            /\ changesSum'[t] = Total(p, NumNominees) - ScheduledSlope(old, t) + ScheduledSlope(new, t)
        BY <1>3, <3>1, <3>2
      <4>4. ScheduledSlope(old, t) \in Nat /\ ScheduledSlope(new, t) \in Nat
        BY <1>1, <2>0
      <4>5. QED
        BY <3>1, <4>1, <4>2, <4>3, <4>4
    <3>4. QED
      BY <3>3
  <2>4. QED
    BY <2>1, <2>2, <2>3
<1>7. VoteTypes'
  <2>1. voteUserPower' \in [Users -> Nat]
    <3>1. voteUserPower[u] + new.power - old.power \in Nat
      <4>1. voteUserPower'[u] = Total(Powers(u)', NumNominees)
        BY <1>5 DEF PowerExact
      <4>2. \A m \in Nominees : voteUserSlopes'[u][m].power \in Nat
        BY <1>4, VotePower
      <4>3. Powers(u)' \in [1..NumNominees -> Nat]
        BY <1>0, <4>2 DEF Powers
      <4>4. voteUserPower'[u] \in Nat
        BY <1>0, <4>1, <4>3, TotalNonNegative
      <4>5. QED
        BY <1>1, <1>2, <4>4
    <3>2. QED
      BY <1>1, <1>2, <3>1
  <2>2. changesWeight' \in [Nominees -> [Times -> Nat]] /\ changesSum' \in [Times -> Nat]
    BY <1>1, <1>3
  <2>3. QED
    BY <1>2, <1>4, <2>1, <2>2 DEF Inv, VoteTypes
<1>8. QED
  BY <1>5, <1>6, <1>7 DEF Inv

-----------------------------------------------------------------------------
(* The steps                                                                *)

\* No power is used, and no change scheduled, at the deployment.
LEMMA InitInv == Init => Inv
<1> SUFFICES ASSUME Init
             PROVE  Inv
  OBVIOUS
<1>0. /\ NumUsers \in Nat /\ NumNominees \in Nat
      /\ Users = 1..NumUsers /\ Nominees = 1..NumNominees
      /\ Times \subseteq Nat /\ 0 \in Times
  BY VotingSets
<1>1. NoVote \in Votes
  BY <1>0, VotingAssumption DEF NoVote, Votes
<1>2. VoteTypes
  BY <1>0, <1>1, VotingAssumption DEF Init, VoteTypes
<1>3. PowerExact
  <2> SUFFICES ASSUME NEW u \in Users
               PROVE  voteUserPower[u] = Total(Powers(u), NumNominees) /\ voteUserPower[u] <= MAX_WEIGHT
    BY DEF PowerExact
  <2>1. /\ Powers(u) \in [1..NumNominees -> Int]
        /\ \A n \in 1..NumNominees : Powers(u)[n] = 0
    BY <1>0 DEF Init, Powers, NoVote
  <2>2. Total(Powers(u), NumNominees) = 0
    BY <1>0, <2>1, TotalZero
  <2>3. voteUserPower[u] = 0 /\ 0 <= MAX_WEIGHT
    BY VotingAssumption DEF Init
  <2>4. QED
    BY <2>2, <2>3
<1>4. ChangesExact
  <2> SUFFICES ASSUME NEW t \in Times
               PROVE  /\ \A n \in Nominees : changesWeight[n][t] = Total(ScheduledSlopes(n, t), NumUsers)
                      /\ changesSum[t] = Total(ScheduledChanges(t), NumNominees)
    BY DEF ChangesExact
  <2>1. ASSUME NEW n \in Nominees
        PROVE  changesWeight[n][t] = Total(ScheduledSlopes(n, t), NumUsers)
    <3>1. /\ ScheduledSlopes(n, t) \in [1..NumUsers -> Int]
          /\ \A u \in 1..NumUsers : ScheduledSlopes(n, t)[u] = 0
      BY <1>0 DEF Init, ScheduledSlopes, ScheduledSlope, NoVote
    <3>2. Total(ScheduledSlopes(n, t), NumUsers) = 0
      BY <1>0, <3>1, TotalZero
    <3>3. QED
      BY <3>2 DEF Init
  <2>2. changesSum[t] = Total(ScheduledChanges(t), NumNominees)
    <3>1. /\ ScheduledChanges(t) \in [1..NumNominees -> Int]
          /\ \A n \in 1..NumNominees : ScheduledChanges(t)[n] = 0
      BY <1>0 DEF Init, ScheduledChanges
    <3>2. Total(ScheduledChanges(t), NumNominees) = 0
      BY <1>0, <3>1, TotalZero
    <3>3. QED
      BY <3>2 DEF Init
  <2>3. QED
    BY <2>1, <2>2
<1>5. QED
  BY <1>2, <1>3, <1>4 DEF Inv

\* A vote, in the whole of which neither the power nor a change underflows.
LEMMA VoteInv ==
  ASSUME Inv, NEW u \in Users, NEW n \in Nominees, NEW weight \in 0..MAX_WEIGHT,
         voteForNomineeWeights(u, n, weight)
  PROVE  Inv'
<1> DEFINE old == voteUserSlopes[u][n]
           new == NewVote(u, weight)
<1>1. /\ now \in Nat /\ locks[u].slope \in Nat /\ locks[u].end \in Times
      /\ old \in Votes
      /\ changesWeight \in [Nominees -> [Times -> Nat]] /\ changesSum \in [Times -> Nat]
  BY DEF Inv, VoteTypes
<1>2. new \in Votes
  <2>1. (locks[u].slope * weight) \div MAX_WEIGHT \in Nat
    <3>1. MAX_WEIGHT \in Nat \ {0} /\ weight \in Nat
      BY VotingAssumption
    <3>2. locks[u].slope * weight \in Nat
      BY <1>1, <3>1
    <3>3. \A x \in Nat : x \div MAX_WEIGHT \in Nat
      BY <3>1
    <3>4. QED
      BY <3>2, <3>3
  <2>2. QED
    BY <1>1, <2>1 DEF NewVote, Votes
<1> DEFINE f == Rescheduled(changesWeight[n], old, new)
           g == Rescheduled(changesSum, old, new)
<1>3. /\ voteUserSlopes' = [voteUserSlopes EXCEPT ![u][n] = new]
      /\ voteUserPower' = [voteUserPower EXCEPT ![u] = voteUserPower[u] + new.power - old.power]
      /\ voteUserPower[u] + new.power - old.power <= MAX_WEIGHT
      /\ changesWeight' = [changesWeight EXCEPT ![n] = f]
      /\ changesSum' = g
      /\ Cancelable(changesWeight[n], old) /\ Cancelable(changesSum, old)
      /\ UNCHANGED <<now, locks>>
  BY DEF voteForNomineeWeights, PowerAfter
<1> HIDE DEF new
<1>4. /\ f \in [Times -> Nat]
      /\ \A t \in Times : t > now =>
             f[t] = changesWeight[n][t] - ScheduledSlope(old, t) + ScheduledSlope(new, t)
  BY <1>1, <1>2, <1>3, RescheduledAt
<1>5. /\ g \in [Times -> Nat]
      /\ \A t \in Times : t > now =>
             g[t] = changesSum[t] - ScheduledSlope(old, t) + ScheduledSlope(new, t)
  BY <1>1, <1>2, <1>3, RescheduledAt
<1> HIDE DEF f, g
<1>6. Replaces(u, n, old, new)
  BY <1>3, <1>4, <1>5 DEF Replaces
<1>7. QED
  BY <1>2, <1>6, ReplacesInv

\* A revocation replaces the vote by none.
LEMMA RevokeInv ==
  ASSUME Inv, NEW u \in Users, NEW n \in Nominees, revokeRemovedNomineeVotingPower(u, n)
  PROVE  Inv'
<1> DEFINE old == voteUserSlopes[u][n]
<1>0. Times \subseteq Nat /\ 0 \in Times
  BY VotingSets
<1>1. /\ now \in Nat /\ voteUserPower[u] \in Nat
      /\ old \in Votes
      /\ changesWeight \in [Nominees -> [Times -> Nat]] /\ changesSum \in [Times -> Nat]
  BY DEF Inv, VoteTypes
<1>2. NoVote \in Votes
  BY <1>0, VotingAssumption DEF NoVote, Votes
<1> DEFINE f == Canceled(changesWeight[n], old)
           g == Canceled(changesSum, old)
<1>3. /\ voteUserSlopes' = [voteUserSlopes EXCEPT ![u][n] = NoVote]
      /\ voteUserPower' = [voteUserPower EXCEPT ![u] = voteUserPower[u] - old.power]
      /\ changesWeight' = [changesWeight EXCEPT ![n] = f]
      /\ changesSum' = g
      /\ Cancelable(changesWeight[n], old) /\ Cancelable(changesSum, old)
      /\ UNCHANGED <<now, locks>>
  BY DEF revokeRemovedNomineeVotingPower, pointVars, setVars
<1>4. old.power \in Nat /\ NoVote.power = 0 /\ \A t \in Times : ScheduledSlope(NoVote, t) = 0
  BY <1>1, VotePower DEF NoVote, ScheduledSlope
<1>5. /\ f \in [Times -> Nat]
      /\ \A t \in Times : t > now => f[t] = changesWeight[n][t] - ScheduledSlope(old, t)
  BY <1>1, <1>3, CanceledAt
<1>6. /\ g \in [Times -> Nat]
      /\ \A t \in Times : t > now => g[t] = changesSum[t] - ScheduledSlope(old, t)
  BY <1>1, <1>3, CanceledAt
<1>7. \A t \in Times : /\ ScheduledSlope(old, t) \in Nat
                       /\ changesWeight[n][t] \in Nat /\ changesSum[t] \in Nat
  BY <1>1 DEF ScheduledSlope, Votes
<1> HIDE DEF f, g
<1>8. \A t \in Times : t > now =>
          /\ f[t] = changesWeight[n][t] - ScheduledSlope(old, t) + ScheduledSlope(NoVote, t)
          /\ g[t] = changesSum[t] - ScheduledSlope(old, t) + ScheduledSlope(NoVote, t)
  BY <1>4, <1>5, <1>6, <1>7
<1>9. /\ voteUserPower[u] - old.power = voteUserPower[u] + NoVote.power - old.power
      /\ voteUserPower[u] + NoVote.power - old.power <= MAX_WEIGHT
  <2>1. voteUserPower[u] <= MAX_WEIGHT /\ MAX_WEIGHT \in Nat
    BY VotingAssumption DEF Inv, PowerExact
  <2>2. QED
    BY <1>1, <1>4, <2>1
<1>10. Replaces(u, n, old, NoVote)
  BY <1>3, <1>5, <1>6, <1>8, <1>9 DEF Replaces
<1>11. QED
  BY <1>2, <1>10, ReplacesInv

\* The other steps leave the votes and the changes alone; time only passes.
LEMMA OtherInv ==
  ASSUME Inv, UNCHANGED <<userVars, changeVars>>, now' \in Nat, now' >= now,
         locks' \in [Users -> [slope : Nat, end : Times]]
  PROVE  Inv'
<1>1. /\ voteUserSlopes' = voteUserSlopes /\ voteUserPower' = voteUserPower
      /\ changesWeight' = changesWeight /\ changesSum' = changesSum
  BY DEF userVars, changeVars
<1>2. VoteTypes'
  BY <1>1 DEF Inv, VoteTypes
<1>3. PowerExact'
  BY <1>1 DEF Inv, PowerExact, Powers
<1>4. ChangesExact'
  <2> SUFFICES ASSUME NEW t \in Times, t > now'
               PROVE  /\ \A n \in Nominees : changesWeight'[n][t] = Total(ScheduledSlopes(n, t)', NumUsers)
                      /\ changesSum'[t] = Total(ScheduledChanges(t)', NumNominees)
    BY DEF ChangesExact
  <2>1. t > now
    <3>1. t \in Nat /\ now \in Nat
      BY VotingSets DEF Inv, VoteTypes
    <3>2. QED
      BY <3>1
  <2>2. /\ \A n \in Nominees : ScheduledSlopes(n, t)' = ScheduledSlopes(n, t)
        /\ ScheduledChanges(t)' = ScheduledChanges(t)
    BY <1>1 DEF ScheduledSlopes, ScheduledChanges
  <2>3. QED
    BY <1>1, <2>1, <2>2 DEF Inv, ChangesExact
<1>5. QED
  BY <1>2, <1>3, <1>4 DEF Inv

\* The invariant holds initially and is preserved by every step.
THEOREM InvHolds == Spec => []Inv
<1>1. Init => Inv
  BY InitInv
<1>2. Inv /\ [Next]_vars => Inv'
  <2> SUFFICES ASSUME Inv, [Next]_vars
               PROVE  Inv'
    OBVIOUS
  <2>0. now \in Nat /\ now >= now /\ locks \in [Users -> [slope : Nat, end : Times]]
    BY DEF Inv, VoteTypes
  <2>1. CASE \E n \in Nominees : addNominee(n) \/ checkpointNominee(n) \/ removeNominee(n)
    <3>1. UNCHANGED <<now, locks, userVars, changeVars>>
      BY <2>1 DEF addNominee, checkpointNominee, removeNominee
    <3>2. QED
      BY <2>0, <3>1, OtherInv
  <2>2. CASE checkpoint
    <3>1. UNCHANGED <<now, locks, userVars, changeVars>>
      BY <2>2 DEF checkpoint
    <3>2. QED
      BY <2>0, <3>1, OtherInv
  <2>3. CASE \E u \in Users, n \in Nominees, weight \in 0..MAX_WEIGHT :
                 voteForNomineeWeights(u, n, weight)
    BY <2>3, VoteInv
  <2>4. CASE \E u \in Users, n \in Nominees : revokeRemovedNomineeVotingPower(u, n)
    BY <2>4, RevokeInv
  <2>5. CASE Tick
    <3>1. now' = now + 1 /\ UNCHANGED <<locks, userVars, changeVars>>
      BY <2>5 DEF Tick
    <3>2. now' \in Nat /\ now' >= now
      BY <2>0, <3>1
    <3>3. QED
      BY <2>0, <3>1, <3>2, OtherInv
  <2>6. CASE \E u \in Users, slope \in Slopes, end \in LockEnds : ChangeLock(u, slope, end)
    <3>1. PICK u \in Users, slope \in Slopes, end \in LockEnds : ChangeLock(u, slope, end)
      BY <2>6
    <3>2. slope \in Nat /\ end \in Times
      BY VotingAssumption
    <3>3. locks' \in [Users -> [slope : Nat, end : Times]]
      BY <2>0, <3>1, <3>2 DEF ChangeLock
    <3>4. UNCHANGED <<now, userVars, changeVars>>
      BY <3>1 DEF ChangeLock
    <3>5. QED
      BY <2>0, <3>3, <3>4, OtherInv
  <2>7. CASE UNCHANGED vars
    <3>1. UNCHANGED <<now, locks, userVars, changeVars>>
      BY <2>7 DEF vars
    <3>2. QED
      BY <2>0, <3>1, OtherInv
  <2>8. QED
    BY <2>1, <2>2, <2>3, <2>4, <2>5, <2>6, <2>7 DEF Next
<1>3. QED
  BY <1>1, <1>2, PTL DEF Spec

\* No sequence of votes, revotes, removals and revocations gains or loses
\* voting power: voteUserPower is what the votes of a user take together.
THEOREM PowerConserved == Spec => []PowerExact
BY InvHolds, PTL DEF Inv

\* The changes scheduled for the future are those of the votes, so that
\* replacing a vote or taking it back never underflows them.
THEOREM ChangesConserved == Spec => []ChangesExact
BY InvHolds, PTL DEF Inv

-----------------------------------------------------------------------------
(* Weeks                                                                    *)

\* Multiplication by a natural is monotone.
LEMMA TimesMonotone ==
  ASSUME NEW d \in Nat, NEW a \in Int, NEW b \in Int, a <= b
  PROVE  d * a <= d * b
<1>1. d * (b - a) \in Nat
  OBVIOUS
<1>2. d * (b - a) = d * b - d * a
  OBVIOUS
<1>3. d * b \in Int /\ d * a \in Int
  OBVIOUS
<1>4. QED
  BY <1>1, <1>2, <1>3

\* A multiple that is greater than another one is greater by a WEEK at least.
LEMMA WeekApart ==
  ASSUME NEW v \in Int, NEW w \in Int, WEEK * v < WEEK * w
  PROVE  WEEK * v + WEEK <= WEEK * w /\ v < w
<1>1. WEEK \in Nat
  BY VotingAssumption
<1>2. v < w
  <2>1. CASE w <= v
    BY <1>1, <2>1, TimesMonotone
  <2>2. QED
    BY <2>1
<1>3. WEEK * (v + 1) <= WEEK * w
  BY <1>1, <1>2, TimesMonotone
<1>4. WEEK * (v + 1) = WEEK * v + WEEK
  BY <1>1
<1>5. QED
  BY <1>2, <1>3, <1>4

\* What Times are: the multiples of WEEK from 0 to the last one.
LEMMA WeekSteps ==
  /\ WEEK \in Nat /\ WEEK > 0 /\ Times \subseteq Nat /\ 0 \in Times
  /\ WEEK * NumWeeks \in Times /\ \A t \in Times : t <= WEEK * NumWeeks
  /\ \A t \in Times : t # 0 => t - WEEK \in Times
  /\ \A t \in Times : t < WEEK * NumWeeks => t + WEEK \in Times
  /\ \A s, t \in Times : s < t => s + WEEK <= t
<1>0. WEEK \in Nat /\ WEEK > 0 /\ NumWeeks \in Nat /\ Times \subseteq Nat /\ 0 \in Times
  BY VotingAssumption, VotingSets
<1>1. WEEK * NumWeeks \in Times
  BY <1>0 DEF Times
<1>2. ASSUME NEW t \in Times
      PROVE  /\ t <= WEEK * NumWeeks
             /\ t # 0 => t - WEEK \in Times
             /\ t < WEEK * NumWeeks => t + WEEK \in Times
  <2>1. PICK w \in 0..NumWeeks : t = WEEK * w
    BY DEF Times
  <2>2. t <= WEEK * NumWeeks
    BY <1>0, <2>1, TimesMonotone
  <2>3. ASSUME t # 0
        PROVE  t - WEEK \in Times
    <3>1. w # 0
      BY <1>0, <2>1, <2>3
    <3>2. w - 1 \in 0..NumWeeks /\ WEEK * (w - 1) = t - WEEK
      BY <1>0, <2>1, <3>1
    <3>3. WEEK * (w - 1) \in Times
      BY <3>2 DEF Times
    <3>4. QED
      BY <3>2, <3>3
  <2>4. ASSUME t < WEEK * NumWeeks
        PROVE  t + WEEK \in Times
    <3>1. w < NumWeeks
      BY <1>0, <2>1, <2>4, WeekApart
    <3>2. w + 1 \in 0..NumWeeks /\ WEEK * (w + 1) = t + WEEK
      BY <1>0, <2>1, <3>1
    <3>3. WEEK * (w + 1) \in Times
      BY <3>2 DEF Times
    <3>4. QED
      BY <3>2, <3>3
  <2>5. QED
    BY <2>2, <2>3, <2>4
<1>3. ASSUME NEW s \in Times, NEW t \in Times, s < t
      PROVE  s + WEEK <= t
  <2>1. PICK v \in 0..NumWeeks : s = WEEK * v
    BY DEF Times
  <2>2. PICK w \in 0..NumWeeks : t = WEEK * w
    BY DEF Times
  <2>3. QED
    BY <1>3, <2>1, <2>2, WeekApart
<1>4. QED
  BY <1>0, <1>1, <1>2, <1>3

\* Induction over the weeks.
LEMMA WeekInduction ==
  ASSUME NEW S, 0 \in S,
         \A t \in Times : (t \in S /\ t + WEEK \in Times) => t + WEEK \in S
  PROVE  Times \subseteq S
<1>0. WEEK \in Nat /\ NumWeeks \in Nat
  BY VotingAssumption
<1> DEFINE R == {m \in Nat : m <= NumWeeks => WEEK * m \in S}
<1>1. 0 \in R
  BY <1>0
<1>2. ASSUME NEW m \in Nat, m \in R
      PROVE  m + 1 \in R
  <2> SUFFICES ASSUME m + 1 <= NumWeeks
               PROVE  WEEK * (m + 1) \in S
    OBVIOUS
  <2>1. m \in 0..NumWeeks /\ m + 1 \in 0..NumWeeks
    BY <1>0
  <2>2. WEEK * m \in Times /\ WEEK * (m + 1) \in Times /\ WEEK * m \in S
    BY <1>2, <2>1 DEF Times
  <2>3. WEEK * (m + 1) = WEEK * m + WEEK
    BY <1>0
  <2>4. QED
    BY <2>2, <2>3
<1>3. Nat \subseteq R
  <2> HIDE DEF R
  <2>1. QED
    BY <1>1, <1>2, SetInduction
<1>4. ASSUME NEW m \in 0..NumWeeks
      PROVE  WEEK * m \in S
  BY <1>0, <1>3
<1>5. QED
  BY <1>4 DEF Times

\* The next multiple of WEEK after a time.
NextAfter(m) == ((m + WEEK) \div WEEK) * WEEK

\* The next week begins after the block's time, and no multiple of WEEK lies
\* between the two.
LEMMA NextWeek ==
  ASSUME NEW m \in StartTime..MaxTime
  PROVE  /\ m \in Nat /\ NextAfter(m) \in Times /\ m < NextAfter(m)
         /\ \A w \in Nat : WEEK * w > m => NextAfter(m) <= WEEK * w
         /\ \A t \in Times : t > m => NextAfter(m) <= t
<1>0. /\ m \in Nat /\ WEEK \in Nat \ {0} /\ NumWeeks \in Nat
      /\ m + WEEK <= WEEK * NumWeeks
  BY VotingAssumption
<1> DEFINE q == (m + WEEK) \div WEEK
<1>1. q \in Nat /\ WEEK * q <= m + WEEK /\ m + WEEK < WEEK * q + WEEK
  BY <1>0
<1>2. NextAfter(m) = WEEK * q
  BY <1>0, <1>1 DEF NextAfter
<1> HIDE DEF q
<1>3. NextAfter(m) \in Times
  <2>1. WEEK * q <= WEEK * NumWeeks
    BY <1>0, <1>1
  <2>2. q <= NumWeeks
    <3>1. CASE NumWeeks < q
      <4>1. WEEK * (NumWeeks + 1) <= WEEK * q
        BY <1>0, <1>1, <3>1, TimesMonotone
      <4>2. WEEK * (NumWeeks + 1) = WEEK * NumWeeks + WEEK
        BY <1>0
      <4>3. QED
        BY <1>0, <1>1, <2>1, <4>1, <4>2
    <3>2. QED
      BY <1>0, <1>1, <3>1
  <2>3. QED
    BY <1>0, <1>1, <1>2, <2>2 DEF Times
<1>4. ASSUME NEW w \in Nat, WEEK * w > m
      PROVE  NextAfter(m) <= WEEK * w
  <2>1. CASE WEEK * w < WEEK * q
    <3>1. WEEK * w + WEEK <= WEEK * q
      BY <1>1, <2>1, WeekApart
    <3>2. QED
      BY <1>0, <1>1, <1>4, <3>1
  <2>2. QED
    BY <1>0, <1>1, <1>2, <2>1
<1>5. ASSUME NEW t \in Times, t > m
      PROVE  NextAfter(m) <= t
  BY <1>4, <1>5 DEF Times
<1>6. QED
  BY <1>0, <1>1, <1>2, <1>3, <1>4, <1>5

\* Where the fill of points, last filled at a time, gets.
LEMMA FillReach ==
  ASSUME now \in StartTime..MaxTime, NEW time \in Times, time <= NextTime
  PROVE  /\ LastFilled(time) \in Times /\ time <= LastFilled(time) /\ LastFilled(time) <= NextTime
         /\ TimeAfter(time) \in Times /\ time <= TimeAfter(time) /\ TimeAfter(time) <= LastFilled(time)
         /\ InReach(time) => LastFilled(time) = NextTime /\ TimeAfter(time) = NextTime
         /\ ~ InReach(time) => LastFilled(time) <= now /\ TimeAfter(time) = time
<1>0. /\ now \in Nat /\ NextTime \in Times /\ NextTime \in Nat /\ now < NextTime
      /\ WEEK \in Nat /\ WEEK > 0 /\ MAX_NUM_WEEKS \in Nat /\ time \in Nat /\ NumWeeks \in Nat
      /\ now <= WEEK * NumWeeks /\ MAX_NUM_WEEKS > 0
  <2>1. now \in Nat /\ NextTime \in Times /\ now < NextTime
    BY NextWeek DEF NextTime, NextAfter
  <2>2. NextTime \in Nat /\ time \in Nat /\ WEEK * NumWeeks \in Nat /\ NextTime <= WEEK * NumWeeks
    BY <2>1, WeekSteps
  <2>3. WEEK \in Nat /\ WEEK > 0 /\ MAX_NUM_WEEKS \in Nat /\ MAX_NUM_WEEKS > 0 /\ NumWeeks \in Nat
    BY VotingAssumption
  <2>4. now <= WEEK * NumWeeks
    BY <2>1, <2>2
  <2>5. QED
    BY <2>1, <2>2, <2>3, <2>4
<1>1. PICK w \in 0..NumWeeks : time = WEEK * w
  BY DEF Times
<1> DEFINE far == time + MAX_NUM_WEEKS * WEEK
<1>2. /\ w + MAX_NUM_WEEKS \in Nat /\ far = WEEK * (w + MAX_NUM_WEEKS) /\ far \in Nat /\ time <= far
  BY <1>0, <1>1
<1>3. far > now => NextTime <= far
  BY <1>2, NextWeek DEF NextTime, NextAfter
<1>4. time > now => time = NextTime
  <2>1. time > now => NextTime <= time
    BY NextWeek DEF NextTime, NextAfter
  <2>2. QED
    BY <1>0, <2>1
<1>5. far <= now => far \in Times
  <2>1. far <= now => far <= WEEK * NumWeeks
    BY <1>0, <1>2
  <2>2. WEEK * (w + MAX_NUM_WEEKS) <= WEEK * NumWeeks => w + MAX_NUM_WEEKS <= NumWeeks
    <3>1. CASE w + MAX_NUM_WEEKS > NumWeeks
      <4>1. WEEK * (NumWeeks + 1) <= WEEK * (w + MAX_NUM_WEEKS)
        BY <1>0, <1>1, <3>1, TimesMonotone
      <4>2. WEEK * (NumWeeks + 1) = WEEK * NumWeeks + WEEK
        BY <1>0
      <4>3. QED
        BY <1>0, <1>2, <4>1, <4>2
    <3>2. QED
      BY <1>0, <1>1, <3>1
  <2>3. ASSUME far <= now
        PROVE  far \in Times
    <3>1. w + MAX_NUM_WEEKS \in 0..NumWeeks
      BY <1>0, <1>2, <2>1, <2>2, <2>3
    <3>2. WEEK * (w + MAX_NUM_WEEKS) \in Times
      BY <3>1 DEF Times
    <3>3. QED
      BY <1>2, <3>2
  <2>4. QED
    BY <2>3
<1> HIDE DEF far
<1>6. InReach(time) <=> now < far
  BY DEF InReach, far
<1>7. LastFilled(time) = IF time > now THEN time ELSE IF NextTime <= far THEN NextTime ELSE far
  BY DEF LastFilled, Least, far
<1>8. CASE InReach(time)
  <2>1. LastFilled(time) = NextTime
    BY <1>3, <1>4, <1>6, <1>7, <1>8
  <2>2. TimeAfter(time) = NextTime
    BY <1>0, <2>1 DEF TimeAfter
  <2>3. QED
    BY <1>0, <1>8, <2>1, <2>2
<1>9. CASE ~ InReach(time)
  <2>1. far <= now
    BY <1>0, <1>2, <1>6, <1>9
  <2>2. LastFilled(time) = far
    BY <1>0, <1>2, <1>7, <2>1
  <2>3. TimeAfter(time) = time
    BY <1>0, <1>2, <2>1, <2>2 DEF TimeAfter
  <2>4. QED
    BY <1>0, <1>2, <1>5, <1>9, <2>1, <2>2, <2>3
<1>10. QED
  BY <1>8, <1>9

-----------------------------------------------------------------------------
(* Filled points                                                            *)

\* One step of a fill.
FillStep(pt, points, changes, time, t) ==
    IF t \in ToFill(time) THEN NextPoint(pt[t - WEEK], changes[t]) ELSE points[t]

\* The weeks to fill follow others.
LEMMA ToFillLater ==
  ASSUME NEW time \in Nat, NEW t \in ToFill(time)
  PROVE  t \in Times /\ t # 0 /\ t - WEEK \in Times /\ t - WEEK < t
<1>1. t \in Times /\ time < t /\ t \in Nat
  BY WeekSteps DEF ToFill
<1>2. t # 0
  BY <1>1
<1>3. QED
  BY <1>1, <1>2, WeekSteps

\* A function that satisfies the recursion of Fill exists.
LEMMA FillExists ==
  ASSUME NEW time \in Nat, NEW points, NEW changes
  PROVE  \E pt : pt = [t \in Times |-> FillStep(pt, points, changes, time, t)]
<1> DEFINE Upto(pt, m) ==
               \A t \in Times : t <= m => pt[t] = FillStep(pt, points, changes, time, t)
           P(m) == \E pt : pt = [t \in Times |-> pt[t]] /\ Upto(pt, m)
           S == {m \in Times : P(m)}
<1>0. /\ WEEK \in Nat /\ WEEK > 0 /\ Times \subseteq Nat /\ 0 \in Times
      /\ \A s, t \in Times : s < t => s + WEEK <= t
  BY WeekSteps
<1>1. 0 \in S
  <2> DEFINE pt == [t \in Times |-> points[t]]
  <2>1. \A t \in Times : t <= 0 => t \notin ToFill(time)
    <3>1. \A t \in Times : t <= 0 => t = 0
      BY <1>0
    <3>2. QED
      BY <3>1, ToFillLater
  <2>2. Upto(pt, 0)
    BY <2>1 DEF FillStep
  <2>3. pt = [t \in Times |-> pt[t]]
    OBVIOUS
  <2> HIDE DEF pt, Upto
  <2>4. QED
    BY <1>0, <2>2, <2>3
<1>2. ASSUME NEW m \in Times, m \in S, m + WEEK \in Times
      PROVE  m + WEEK \in S
  <2>1. PICK p : p = [t \in Times |-> p[t]] /\ Upto(p, m)
    BY <1>2
  <2> DEFINE v == FillStep(p, points, changes, time, m + WEEK)
             q == [t \in Times |-> IF t = m + WEEK THEN v ELSE p[t]]
  <2>2. ASSUME NEW t \in Times, t <= m + WEEK
        PROVE  q[t] = FillStep(q, points, changes, time, t)
    <3>0. m \in Nat /\ t \in Nat
      BY <1>0
    <3>1. t \in ToFill(time) => t - WEEK \in Times /\ t - WEEK # m + WEEK
      <4>1. t \in ToFill(time) => t - WEEK \in Times /\ t - WEEK < t
        BY ToFillLater
      <4>2. QED
        BY <1>0, <2>2, <3>0, <4>1
    <3>2. FillStep(q, points, changes, time, t) = FillStep(p, points, changes, time, t)
      <4>1. t \in ToFill(time) => q[t - WEEK] = p[t - WEEK]
        BY <3>1
      <4>2. QED
        BY <4>1 DEF FillStep
    <3>3. CASE t = m + WEEK
      BY <3>2, <3>3
    <3>4. CASE t # m + WEEK
      <4>1. t <= m
        <5>1. CASE m < t
          <6>1. m + WEEK <= t
            BY <1>0, <5>1
          <6>2. QED
            BY <1>0, <2>2, <3>0, <3>4, <6>1
        <5>2. QED
          BY <3>0, <5>1
      <4>2. p[t] = FillStep(p, points, changes, time, t)
        BY <2>1, <4>1
      <4>3. q[t] = p[t]
        BY <3>4
      <4>4. QED
        BY <3>2, <4>2, <4>3
    <3>5. QED
      BY <3>3, <3>4
  <2>3. q = [t \in Times |-> q[t]]
    OBVIOUS
  <2> HIDE DEF q
  <2>4. Upto(q, m + WEEK)
    BY <2>2
  <2> HIDE DEF Upto
  <2>5. QED
    BY <1>2, <2>3, <2>4
<1>3. WEEK * NumWeeks \in S /\ \A t \in Times : t <= WEEK * NumWeeks
  <2> HIDE DEF S
  <2>1. Times \subseteq S
    BY <1>0, <1>1, <1>2, WeekInduction
  <2>2. QED
    BY <2>1, WeekSteps
<1>4. PICK pt : pt = [t \in Times |-> pt[t]] /\ Upto(pt, WEEK * NumWeeks)
  BY <1>3
<1>5. \A t \in Times : pt[t] = FillStep(pt, points, changes, time, t)
  BY <1>3, <1>4
<1>6. pt = [t \in Times |-> FillStep(pt, points, changes, time, t)]
  <2>1. [t \in Times |-> pt[t]] = [t \in Times |-> FillStep(pt, points, changes, time, t)]
    BY <1>5, Zenon
  <2>2. QED
    BY <1>4, <2>1
<1>7. QED
  BY <1>6

\* Fill is the function that its recursive definition describes.
LEMMA FillLaw ==
  ASSUME NEW time \in Nat, NEW points, NEW changes
  PROVE  LET pt == Fill(points, changes, time)
         IN  /\ pt = [t \in Times |-> pt[t]]
             /\ \A t \in Times : t \in ToFill(time) => pt[t] = NextPoint(pt[t - WEEK], changes[t])
             /\ \A t \in Times : t \notin ToFill(time) => pt[t] = points[t]
<1> DEFINE pt == Fill(points, changes, time)
<1>1. \E p : p = [t \in Times |-> FillStep(p, points, changes, time, t)]
  BY FillExists
<1>2. pt = [t \in Times |-> FillStep(pt, points, changes, time, t)]
  BY <1>1, Zenon DEF Fill, FillStep
<1> HIDE DEF pt
<1>3. \A t \in Times : pt[t] = FillStep(pt, points, changes, time, t)
  BY <1>2
<1>4. pt = [t \in Times |-> pt[t]]
  <2>1. [t \in Times |-> pt[t]] = [t \in Times |-> FillStep(pt, points, changes, time, t)]
    BY <1>3, Zenon
  <2>2. QED
    BY <1>2, <2>1
<1>5. QED
  BY <1>3, <1>4 DEF pt, FillStep

\* Points stay points where no slope change exceeds the slope.
LEMMA FillType ==
  ASSUME NEW time \in Nat, NEW points \in [Times -> Points], NEW changes \in [Times -> Nat],
         Fillable(points, changes, time)
  PROVE  Fill(points, changes, time) \in [Times -> Points]
<1> DEFINE pt == Fill(points, changes, time)
           S == {t \in Times : pt[t] \in Points}
<1>0. WEEK \in Nat /\ Times \subseteq Nat /\ 0 \in Times
  BY WeekSteps
<1>1. /\ pt = [t \in Times |-> pt[t]]
      /\ \A t \in Times : t \in ToFill(time) => pt[t] = NextPoint(pt[t - WEEK], changes[t])
      /\ \A t \in Times : t \notin ToFill(time) => pt[t] = points[t]
  BY FillLaw
<1>2. \A t \in ToFill(time) :
          pt[t - WEEK].bias > pt[t - WEEK].slope * WEEK => pt[t - WEEK].slope >= changes[t]
  BY DEF Fillable
<1> HIDE DEF pt
<1>3. 0 \in S
  BY <1>0, <1>1, ToFillLater
<1>4. ASSUME NEW t \in Times, t \in S, t + WEEK \in Times
      PROVE  t + WEEK \in S
  <2> DEFINE r == t + WEEK
  <2>1. r - WEEK = t
    BY <1>0
  <2>2. CASE r \in ToFill(time)
    <3>1. pt[r] = NextPoint(pt[t], changes[r])
      BY <1>1, <1>4, <2>1, <2>2
    <3>2. pt[t].bias > pt[t].slope * WEEK => pt[t].slope >= changes[r]
      BY <1>2, <2>1, <2>2
    <3>3. pt[t].bias \in Nat /\ pt[t].slope \in Nat /\ changes[r] \in Nat
      BY <1>4 DEF Points
    <3> HIDE DEF r
    <3>4. NextPoint(pt[t], changes[r]) \in Points
      <4>1. pt[t].slope * WEEK \in Nat
        BY <1>0, <3>3
      <4>2. CASE pt[t].bias > pt[t].slope * WEEK
        <5>1. pt[t].bias - pt[t].slope * WEEK \in Nat /\ pt[t].slope - changes[r] \in Nat
          BY <3>2, <3>3, <4>1, <4>2
        <5>2. QED
          BY <4>2, <5>1 DEF NextPoint, Points
      <4>3. CASE ~ (pt[t].bias > pt[t].slope * WEEK)
        BY <4>3 DEF NextPoint, NoPoint, Points
      <4>4. QED
        BY <4>2, <4>3
    <3>5. QED
      BY <1>4, <3>1, <3>4 DEF r
  <2>3. CASE r \notin ToFill(time)
    BY <1>1, <1>4, <2>3
  <2>4. QED
    BY <2>2, <2>3
<1>5. Times \subseteq S
  <2> HIDE DEF S
  <2>1. QED
    BY <1>3, <1>4, WeekInduction
<1>6. \A t \in Times : pt[t] \in Points
  BY <1>5
<1>7. pt \in [Times -> Points]
  BY <1>1, <1>6
<1>8. QED
  BY <1>7 DEF pt

\* A fill leaves everything up to the time that was filled before.
LEMMA FillKeeps ==
  ASSUME NEW time \in Nat, NEW points, NEW changes, NEW t \in Times, t <= time
  PROVE  Fill(points, changes, time)[t] = points[t]
<1>1. t \in Nat /\ ~ (time < t)
  BY WeekSteps
<1>2. t \notin ToFill(time)
  BY <1>1 DEF ToFill
<1>3. QED
  BY <1>2, FillLaw

\* Induction over the weeks from one to another.
LEMMA WeeksBetween ==
  ASSUME NEW first \in Times, NEW last \in Times, NEW S, first \in S,
         \A t \in Times : (first <= t /\ t + WEEK \in Times /\ t + WEEK <= last /\ t \in S)
                              => t + WEEK \in S
  PROVE  \A t \in Times : first <= t /\ t <= last => t \in S
<1> DEFINE R == {t \in Times : first <= t /\ t <= last => t \in S}
<1>0. /\ WEEK \in Nat /\ WEEK > 0 /\ Times \subseteq Nat /\ 0 \in Times
      /\ \A s, t \in Times : s < t => s + WEEK <= t
  BY WeekSteps
<1>1. 0 \in R
  <2>1. first <= 0 => first = 0
    BY <1>0
  <2>2. QED
    BY <1>0, <2>1
<1>2. ASSUME NEW t \in Times, t \in R, t + WEEK \in Times
      PROVE  t + WEEK \in R
  <2> SUFFICES ASSUME first <= t + WEEK, t + WEEK <= last
               PROVE  t + WEEK \in S
    BY <1>2
  <2>0. t \in Nat /\ t + WEEK \in Nat /\ last \in Nat /\ first \in Nat
    BY <1>0
  <2>1. CASE first = t + WEEK
    BY <2>1
  <2>2. CASE first # t + WEEK
    <3>1. first <= t
      <4>1. first < t + WEEK
        BY <2>0, <2>2
      <4>2. CASE t < first
        BY <1>0, <2>0, <4>1, <4>2
      <4>3. QED
        BY <2>0, <4>2
    <3>2. t <= last
      BY <1>0, <2>0
    <3>3. t \in S
      BY <1>2, <3>1, <3>2
    <3>4. QED
      BY <1>2, <3>1, <3>3
  <2>3. QED
    BY <2>1, <2>2
<1>3. Times \subseteq R
  <2> HIDE DEF R
  <2>1. QED
    BY <1>0, <1>1, <1>2, WeekInduction
<1>4. QED
  BY <1>3

\* From the week that was filled last, a fill goes from point to point.
LEMMA FillAdvance ==
  ASSUME NEW time \in Times, NEW points, NEW changes,
         NEW t \in Times, time <= t, t + WEEK \in Times, t + WEEK <= LastFilled(time)
  PROVE  Fill(points, changes, time)[t + WEEK]
           = NextPoint(Fill(points, changes, time)[t], changes[t + WEEK])
<1>0. WEEK \in Nat /\ WEEK > 0 /\ t \in Nat /\ time \in Nat
  BY WeekSteps
<1>1. time < t + WEEK /\ (t + WEEK) - WEEK = t
  BY <1>0
<1>2. t + WEEK \in ToFill(time)
  BY <1>1 DEF ToFill
<1>3. QED
  BY <1>0, <1>1, <1>2, FillLaw

\* A bias that is zero stays so.
LEMMA FillZero ==
  ASSUME NEW time \in Times, NEW points \in [Times -> Points], NEW changes,
         LastFilled(time) \in Times, points[time].bias = 0
  PROVE  \A t \in Times : time <= t /\ t <= LastFilled(time) =>
             Fill(points, changes, time)[t].bias = 0
<1> DEFINE pt == Fill(points, changes, time)
           S == {t \in Times : pt[t].bias = 0 /\ pt[t].slope \in Nat}
<1>0. WEEK \in Nat /\ time \in Nat
  BY WeekSteps
<1>1. pt[time] = points[time] /\ points[time].slope \in Nat
  BY <1>0, FillKeeps DEF Points
<1>2. ASSUME NEW t \in Times, time <= t, t + WEEK \in Times, t + WEEK <= LastFilled(time), t \in S
      PROVE  t + WEEK \in S
  <2>1. pt[t + WEEK] = NextPoint(pt[t], changes[t + WEEK])
    BY <1>2, FillAdvance
  <2> HIDE DEF pt
  <2>2. pt[t].slope * WEEK \in Nat
    BY <1>0, <1>2
  <2>3. ~ (pt[t].bias > pt[t].slope * WEEK)
    BY <1>2, <2>2
  <2>4. QED
    BY <1>2, <2>1, <2>3 DEF NextPoint, NoPoint
<1>3. time \in S
  BY <1>1
<1> HIDE DEF S
<1>4. \A t \in Times : time <= t /\ t <= LastFilled(time) => t \in S
  BY <1>2, <1>3, WeeksBetween
<1>5. QED
  BY <1>4 DEF S

\* If the last point was exact, and the changes that are scheduled after it are,
\* then so is every point that is filled: a bias loses the slope of every week,
\* and a slope what is scheduled for the week.
LEMMA FillExact ==
  ASSUME NEW time \in Times, NEW points, NEW changes,
         LastFilled(time) \in Times,
         NEW b \in [Times -> Nat], NEW s \in [Times -> Nat], NEW c \in [Times -> Nat],
         \A t \in Times : t + WEEK \in Times =>
             /\ b[t] = b[t + WEEK] + s[t] * WEEK
             /\ s[t] = s[t + WEEK] + c[t + WEEK],
         \A t \in Times : s[t] <= b[t],
         points[time] = [bias |-> b[time], slope |-> s[time]],
         \A t \in Times : t > time => changes[t] = c[t]
  PROVE  \A t \in Times : time <= t /\ t <= LastFilled(time) =>
             Fill(points, changes, time)[t] = [bias |-> b[t], slope |-> s[t]]
<1> DEFINE pt == Fill(points, changes, time)
           S == {t \in Times : pt[t] = [bias |-> b[t], slope |-> s[t]]}
<1>0. WEEK \in Nat /\ WEEK > 0 /\ time \in Nat /\ Times \subseteq Nat
  BY WeekSteps
<1>1. time \in S
  BY <1>0, FillKeeps
<1>2. ASSUME NEW t \in Times, time <= t, t + WEEK \in Times, t + WEEK <= LastFilled(time), t \in S
      PROVE  t + WEEK \in S
  <2> DEFINE r == t + WEEK
  <2>1. pt[r] = NextPoint(pt[t], changes[r])
    BY <1>2, FillAdvance
  <2>2. r > time
    <3>1. t \in Nat
      BY <1>0
    <3>2. QED
      BY <1>0, <1>2, <3>1
  <2>3. pt[t].bias = b[t] /\ pt[t].slope = s[t] /\ changes[r] = c[r]
    BY <1>2, <2>2
  <2> HIDE DEF pt
  <2>4. /\ b[t] = b[r] + s[t] * WEEK /\ s[t] = s[r] + c[r] /\ s[r] <= b[r]
        /\ b[t] \in Nat /\ s[t] \in Nat /\ b[r] \in Nat /\ s[r] \in Nat /\ c[r] \in Nat
    BY <1>2
  <2> HIDE DEF r
  <2>5. s[t] * WEEK \in Nat
    BY <1>0, <2>4
  <2>6. CASE pt[t].bias > pt[t].slope * WEEK
    <3>1. b[t] - s[t] * WEEK = b[r] /\ s[t] - c[r] = s[r]
      BY <2>4, <2>5
    <3>2. NextPoint(pt[t], changes[r]) = [bias |-> b[r], slope |-> s[r]]
      BY <2>3, <2>6, <3>1 DEF NextPoint
    <3>3. QED
      BY <1>2, <2>1, <3>2 DEF r
  <2>7. CASE ~ (pt[t].bias > pt[t].slope * WEEK)
    <3>1. b[r] = 0 /\ s[r] = 0
      BY <2>3, <2>4, <2>5, <2>7
    <3>2. NextPoint(pt[t], changes[r]) = [bias |-> b[r], slope |-> s[r]]
      BY <2>7, <3>1 DEF NextPoint, NoPoint
    <3>3. QED
      BY <1>2, <2>1, <3>2 DEF r
  <2>8. QED
    BY <2>6, <2>7
<1> HIDE DEF S
<1>3. \A t \in Times : time <= t /\ t <= LastFilled(time) => t \in S
  BY <1>1, <1>2, WeeksBetween
<1>4. QED
  BY <1>3 DEF S

-----------------------------------------------------------------------------
(* What votes are worth                                                     *)

\* The slope that a vote has at a time, and the sums for a nominee and for all.
SlopeAt(vote, t) == IF vote.end > t THEN vote.slope ELSE 0

BiasesOf(n, t) == [u \in 1..NumUsers |-> BiasAt(voteUserSlopes[u][n], t)]
SlopesOf(n, t) == [u \in 1..NumUsers |-> SlopeAt(voteUserSlopes[u][n], t)]
BiasOf(n, t) == Total(BiasesOf(n, t), NumUsers)
SlopeOf(n, t) == Total(SlopesOf(n, t), NumUsers)
ChangeOf(n, t) == Total(ScheduledSlopes(n, t), NumUsers)

BiasesAt(t) == [n \in 1..NumNominees |-> BiasOf(n, t)]
SlopesAt(t) == [n \in 1..NumNominees |-> SlopeOf(n, t)]
ChangesAt(t) == [n \in 1..NumNominees |-> ChangeOf(n, t)]
SumBias(t) == Total(BiasesAt(t), NumNominees)
SumSlope(t) == Total(SlopesAt(t), NumNominees)
SumChange(t) == Total(ChangesAt(t), NumNominees)

\* What a vote is worth in a week, and in the next.
LEMMA WeekOfVote ==
  ASSUME NEW vote \in Votes, NEW t \in Times
  PROVE  /\ BiasAt(vote, t) \in Nat /\ SlopeAt(vote, t) \in Nat /\ ScheduledSlope(vote, t) \in Nat
         /\ SlopeAt(vote, t) <= BiasAt(vote, t)
         /\ t + WEEK \in Times =>
                /\ BiasAt(vote, t) = BiasAt(vote, t + WEEK) + SlopeAt(vote, t) * WEEK
                /\ SlopeAt(vote, t) = SlopeAt(vote, t + WEEK) + ScheduledSlope(vote, t + WEEK)
<1>0. /\ WEEK \in Nat /\ WEEK > 0 /\ t \in Nat
      /\ vote.end \in Times /\ vote.end \in Nat /\ vote.slope \in Nat
      /\ t < vote.end => t + WEEK <= vote.end
  BY WeekSteps DEF Votes
<1>1. CASE vote.end > t
  <2> DEFINE d == vote.end - t
  <2>1. d \in Nat /\ d >= 1 /\ d >= WEEK /\ vote.slope * d \in Nat /\ vote.slope <= vote.slope * d
    <3>1. d \in Nat /\ d >= 1 /\ d >= WEEK
      BY <1>0, <1>1
    <3> HIDE DEF d
    <3>2. vote.slope * 1 <= vote.slope * d
      BY <1>0, <3>1, TimesMonotone
    <3>3. QED
      BY <1>0, <3>1, <3>2
  <2>2. /\ BiasAt(vote, t) = vote.slope * d /\ SlopeAt(vote, t) = vote.slope
        /\ ScheduledSlope(vote, t) = 0
    BY <1>0, <1>1 DEF BiasAt, SlopeAt, ScheduledSlope
  <2>3. ASSUME t + WEEK \in Times
        PROVE  /\ BiasAt(vote, t) = BiasAt(vote, t + WEEK) + SlopeAt(vote, t) * WEEK
               /\ SlopeAt(vote, t) = SlopeAt(vote, t + WEEK) + ScheduledSlope(vote, t + WEEK)
    <3>1. CASE vote.end > t + WEEK
      <4>1. /\ BiasAt(vote, t + WEEK) = vote.slope * (d - WEEK) /\ SlopeAt(vote, t + WEEK) = vote.slope
            /\ ScheduledSlope(vote, t + WEEK) = 0
        <5>1. vote.end - (t + WEEK) = d - WEEK /\ vote.end # t + WEEK
          BY <1>0, <3>1
        <5>2. QED
          BY <3>1, <5>1 DEF BiasAt, SlopeAt, ScheduledSlope
      <4> HIDE DEF d
      <4>2. vote.slope * d = vote.slope * (d - WEEK) + vote.slope * WEEK
        BY <1>0, <2>1
      <4>3. QED
        BY <1>0, <2>2, <4>1, <4>2
    <3>2. CASE vote.end = t + WEEK
      <4>1. /\ BiasAt(vote, t + WEEK) = 0 /\ SlopeAt(vote, t + WEEK) = 0
            /\ ScheduledSlope(vote, t + WEEK) = vote.slope
        BY <1>0, <3>2 DEF BiasAt, SlopeAt, ScheduledSlope
      <4>2. d = WEEK
        BY <1>0, <3>2
      <4>3. QED
        BY <1>0, <2>1, <2>2, <4>1, <4>2
    <3>3. QED
      BY <1>0, <1>1, <3>1, <3>2
  <2>4. QED
    BY <1>0, <2>1, <2>2, <2>3
<1>2. CASE ~ (vote.end > t)
  <2>1. BiasAt(vote, t) = 0 /\ SlopeAt(vote, t) = 0 /\ ScheduledSlope(vote, t) \in Nat
    BY <1>0, <1>2 DEF BiasAt, SlopeAt, ScheduledSlope
  <2>2. BiasAt(vote, t + WEEK) = 0 /\ SlopeAt(vote, t + WEEK) = 0 /\ ScheduledSlope(vote, t + WEEK) = 0
    BY <1>0, <1>2 DEF BiasAt, SlopeAt, ScheduledSlope
  <2>3. QED
    BY <1>0, <2>1, <2>2
<1>3. QED
  BY <1>1, <1>2

\* The terms and the sums for a nominee, and how a week passes for it.
LEMMA WeekOfNominee ==
  ASSUME voteUserSlopes \in [Users -> [Nominees -> Votes]], NEW n \in Nominees, NEW t \in Times
  PROVE  /\ BiasesOf(n, t) \in [1..NumUsers -> Nat]
         /\ SlopesOf(n, t) \in [1..NumUsers -> Nat]
         /\ ScheduledSlopes(n, t) \in [1..NumUsers -> Nat]
         /\ BiasOf(n, t) \in Nat /\ SlopeOf(n, t) \in Nat /\ ChangeOf(n, t) \in Nat
         /\ SlopeOf(n, t) <= BiasOf(n, t)
         /\ t + WEEK \in Times =>
                /\ BiasOf(n, t) = BiasOf(n, t + WEEK) + SlopeOf(n, t) * WEEK
                /\ SlopeOf(n, t) = SlopeOf(n, t + WEEK) + ChangeOf(n, t + WEEK)
<1>0. NumUsers \in Nat /\ Users = 1..NumUsers /\ WEEK \in Nat
  BY VotingSets, WeekSteps
<1>1. \A u \in 1..NumUsers : voteUserSlopes[u][n] \in Votes
  BY <1>0
<1>2. ASSUME NEW r \in Times
      PROVE  /\ BiasesOf(n, r) \in [1..NumUsers -> Nat]
             /\ SlopesOf(n, r) \in [1..NumUsers -> Nat]
             /\ ScheduledSlopes(n, r) \in [1..NumUsers -> Nat]
             /\ \A u \in 1..NumUsers : SlopesOf(n, r)[u] <= BiasesOf(n, r)[u]
  <2>1. \A u \in 1..NumUsers :
            /\ BiasAt(voteUserSlopes[u][n], r) \in Nat
            /\ SlopeAt(voteUserSlopes[u][n], r) \in Nat
            /\ ScheduledSlope(voteUserSlopes[u][n], r) \in Nat
            /\ SlopeAt(voteUserSlopes[u][n], r) <= BiasAt(voteUserSlopes[u][n], r)
    BY <1>1, WeekOfVote
  <2>2. QED
    BY <1>0, <2>1 DEF BiasesOf, SlopesOf, ScheduledSlopes
<1>3. BiasOf(n, t) \in Nat /\ SlopeOf(n, t) \in Nat /\ ChangeOf(n, t) \in Nat
  BY <1>0, <1>2, TotalNonNegative DEF BiasOf, SlopeOf, ChangeOf
<1>4. SlopeOf(n, t) <= BiasOf(n, t)
  <2>1. BiasesOf(n, t) \in [1..NumUsers -> Int] /\ SlopesOf(n, t) \in [1..NumUsers -> Int]
    BY <1>2
  <2>2. QED
    BY <1>0, <1>2, <2>1, TotalMonotone DEF BiasOf, SlopeOf
<1>5. ASSUME t + WEEK \in Times
      PROVE  /\ BiasOf(n, t) = BiasOf(n, t + WEEK) + SlopeOf(n, t) * WEEK
             /\ SlopeOf(n, t) = SlopeOf(n, t + WEEK) + ChangeOf(n, t + WEEK)
  <2>1. \A u \in 1..NumUsers :
            /\ BiasAt(voteUserSlopes[u][n], t)
                 = BiasAt(voteUserSlopes[u][n], t + WEEK) + SlopeAt(voteUserSlopes[u][n], t) * WEEK
            /\ SlopeAt(voteUserSlopes[u][n], t)
                 = SlopeAt(voteUserSlopes[u][n], t + WEEK) + ScheduledSlope(voteUserSlopes[u][n], t + WEEK)
    BY <1>1, <1>5, WeekOfVote
  <2>2. \A u \in 1..NumUsers :
            /\ BiasesOf(n, t)[u] = BiasesOf(n, t + WEEK)[u] + SlopesOf(n, t)[u] * WEEK
            /\ SlopesOf(n, t)[u] = SlopesOf(n, t + WEEK)[u] + ScheduledSlopes(n, t + WEEK)[u]
    BY <1>0, <2>1 DEF BiasesOf, SlopesOf, ScheduledSlopes
  <2>3. /\ BiasesOf(n, t) \in [1..NumUsers -> Int] /\ SlopesOf(n, t) \in [1..NumUsers -> Int]
        /\ BiasesOf(n, t + WEEK) \in [1..NumUsers -> Int] /\ SlopesOf(n, t + WEEK) \in [1..NumUsers -> Int]
        /\ ScheduledSlopes(n, t + WEEK) \in [1..NumUsers -> Int] /\ WEEK \in Int
    BY <1>0, <1>2, <1>5
  <2>4. Total(BiasesOf(n, t), NumUsers) = Total(BiasesOf(n, t + WEEK), NumUsers) + Total(SlopesOf(n, t), NumUsers) * WEEK
    <3>1. \A u \in 1..NumUsers : BiasesOf(n, t)[u] = BiasesOf(n, t + WEEK)[u] + SlopesOf(n, t)[u] * WEEK
      BY <2>2
    <3>2. /\ BiasesOf(n, t) \in [1..NumUsers -> Int] /\ BiasesOf(n, t + WEEK) \in [1..NumUsers -> Int]
          /\ SlopesOf(n, t) \in [1..NumUsers -> Int] /\ WEEK \in Int /\ NumUsers \in Nat
      BY <1>0, <2>3
    <3>3. QED
      BY ONLY <3>1, <3>2, TotalSumScaled
  <2>5. Total(SlopesOf(n, t), NumUsers) = Total(SlopesOf(n, t + WEEK), NumUsers) + Total(ScheduledSlopes(n, t + WEEK), NumUsers)
    <3>1. \A u \in 1..NumUsers : SlopesOf(n, t)[u] = SlopesOf(n, t + WEEK)[u] + ScheduledSlopes(n, t + WEEK)[u]
      BY <2>2
    <3>2. QED
      BY ONLY <1>0, <2>3, <3>1, TotalSum
  <2>6. QED
    BY <2>4, <2>5 DEF BiasOf, SlopeOf, ChangeOf
<1>6. QED
  BY <1>2, <1>3, <1>4, <1>5

\* The same for the sum of all nominees.
LEMMA WeekOfSum ==
  ASSUME voteUserSlopes \in [Users -> [Nominees -> Votes]], NEW t \in Times
  PROVE  /\ BiasesAt(t) \in [1..NumNominees -> Nat]
         /\ SlopesAt(t) \in [1..NumNominees -> Nat]
         /\ ChangesAt(t) \in [1..NumNominees -> Nat]
         /\ SumBias(t) \in Nat /\ SumSlope(t) \in Nat /\ SumChange(t) \in Nat
         /\ SumSlope(t) <= SumBias(t)
         /\ t + WEEK \in Times =>
                /\ SumBias(t) = SumBias(t + WEEK) + SumSlope(t) * WEEK
                /\ SumSlope(t) = SumSlope(t + WEEK) + SumChange(t + WEEK)
<1>0. NumNominees \in Nat /\ Nominees = 1..NumNominees /\ WEEK \in Nat
  BY VotingSets, WeekSteps
<1>2. ASSUME NEW r \in Times
      PROVE  /\ BiasesAt(r) \in [1..NumNominees -> Nat]
             /\ SlopesAt(r) \in [1..NumNominees -> Nat]
             /\ ChangesAt(r) \in [1..NumNominees -> Nat]
             /\ \A n \in 1..NumNominees : SlopesAt(r)[n] <= BiasesAt(r)[n]
  <2>1. \A n \in 1..NumNominees :
            /\ BiasOf(n, r) \in Nat /\ SlopeOf(n, r) \in Nat /\ ChangeOf(n, r) \in Nat
            /\ SlopeOf(n, r) <= BiasOf(n, r)
    BY <1>0, WeekOfNominee
  <2>2. QED
    BY <2>1 DEF BiasesAt, SlopesAt, ChangesAt
<1>3. SumBias(t) \in Nat /\ SumSlope(t) \in Nat /\ SumChange(t) \in Nat
  BY <1>0, <1>2, TotalNonNegative DEF SumBias, SumSlope, SumChange
<1>4. SumSlope(t) <= SumBias(t)
  <2>1. BiasesAt(t) \in [1..NumNominees -> Int] /\ SlopesAt(t) \in [1..NumNominees -> Int]
    BY <1>2
  <2>2. QED
    BY <1>0, <1>2, <2>1, TotalMonotone DEF SumBias, SumSlope
<1>5. ASSUME t + WEEK \in Times
      PROVE  /\ SumBias(t) = SumBias(t + WEEK) + SumSlope(t) * WEEK
             /\ SumSlope(t) = SumSlope(t + WEEK) + SumChange(t + WEEK)
  <2>1. \A n \in 1..NumNominees :
            /\ BiasOf(n, t) = BiasOf(n, t + WEEK) + SlopeOf(n, t) * WEEK
            /\ SlopeOf(n, t) = SlopeOf(n, t + WEEK) + ChangeOf(n, t + WEEK)
    BY <1>0, <1>5, WeekOfNominee
  <2>2. \A n \in 1..NumNominees :
            /\ BiasesAt(t)[n] = BiasesAt(t + WEEK)[n] + SlopesAt(t)[n] * WEEK
            /\ SlopesAt(t)[n] = SlopesAt(t + WEEK)[n] + ChangesAt(t + WEEK)[n]
    BY <2>1 DEF BiasesAt, SlopesAt, ChangesAt
  <2>3. /\ BiasesAt(t) \in [1..NumNominees -> Int] /\ SlopesAt(t) \in [1..NumNominees -> Int]
        /\ BiasesAt(t + WEEK) \in [1..NumNominees -> Int] /\ SlopesAt(t + WEEK) \in [1..NumNominees -> Int]
        /\ ChangesAt(t + WEEK) \in [1..NumNominees -> Int] /\ WEEK \in Int
    BY <1>0, <1>2, <1>5
  <2>4. Total(BiasesAt(t), NumNominees) = Total(BiasesAt(t + WEEK), NumNominees) + Total(SlopesAt(t), NumNominees) * WEEK
    <3>1. \A n \in 1..NumNominees : BiasesAt(t)[n] = BiasesAt(t + WEEK)[n] + SlopesAt(t)[n] * WEEK
      BY <2>2
    <3>2. /\ BiasesAt(t) \in [1..NumNominees -> Int] /\ BiasesAt(t + WEEK) \in [1..NumNominees -> Int]
          /\ SlopesAt(t) \in [1..NumNominees -> Int] /\ WEEK \in Int /\ NumNominees \in Nat
      BY <1>0, <2>3
    <3>3. QED
      BY ONLY <3>1, <3>2, TotalSumScaled
  <2>5. Total(SlopesAt(t), NumNominees) = Total(SlopesAt(t + WEEK), NumNominees) + Total(ChangesAt(t + WEEK), NumNominees)
    <3>1. \A n \in 1..NumNominees : SlopesAt(t)[n] = SlopesAt(t + WEEK)[n] + ChangesAt(t + WEEK)[n]
      BY <2>2
    <3>2. QED
      BY ONLY <1>0, <2>3, <3>1, TotalSum
  <2>6. QED
    BY <2>4, <2>5 DEF SumBias, SumSlope, SumChange
<1>6. QED
  BY <1>2, <1>3, <1>4, <1>5

-----------------------------------------------------------------------------
(* Types, and how far points are filled                                     *)

\* No point is filled beyond the next week.
Filled == timeSum <= NextTime /\ \A n \in Nominees : timeWeight[n] <= NextTime

\* The points that a vote writes.
LEMMA RevotedType ==
  ASSUME now \in StartTime..MaxTime, NEW old \in Votes, NEW new \in Votes,
         NEW pt \in Points, NEW weight \in Nat
  PROVE  Revoted(pt, weight, old, new) \in Points
<1>1. NextTime \in Times
  BY NextWeek DEF NextTime, NextAfter
<1>2. /\ BiasAt(old, NextTime) \in Nat /\ BiasAt(new, NextTime) \in Nat
      /\ old.slope \in Nat /\ new.slope \in Nat /\ pt.slope \in Nat
  BY <1>1, WeekOfVote DEF Votes, Points
<1>3. \A a, b \in Nat : MaxAndSub(a, b) \in Nat
  BY DEF MaxAndSub
<1>4. weight + BiasAt(new, NextTime) \in Nat /\ pt.slope + new.slope \in Nat
  BY <1>2
<1>5. /\ MaxAndSub(weight + BiasAt(new, NextTime), BiasAt(old, NextTime)) \in Nat
      /\ MaxAndSub(pt.slope + new.slope, old.slope) \in Nat
  BY <1>2, <1>3, <1>4
<1>6. QED
  BY <1>4, <1>5 DEF Revoted, Points

\* A new vote is one.
LEMMA NewVoteType ==
  ASSUME locks \in [Users -> [slope : Nat, end : Times]], NEW u \in Users, NEW weight \in 0..MAX_WEIGHT
  PROVE  NewVote(u, weight) \in Votes /\ NewVote(u, weight).end = locks[u].end
<1>1. locks[u].slope \in Nat /\ locks[u].end \in Times
  OBVIOUS
<1>2. (locks[u].slope * weight) \div MAX_WEIGHT \in Nat
  <2>1. MAX_WEIGHT \in Nat \ {0} /\ weight \in Nat
    BY VotingAssumption
  <2>2. locks[u].slope * weight \in Nat
    BY <1>1, <2>1
  <2>3. \A x \in Nat : x \div MAX_WEIGHT \in Nat
    BY <2>1
  <2>4. QED
    BY <2>2, <2>3
<1>3. QED
  BY <1>1, <1>2 DEF NewVote, Votes

\* What the points of a nominee and of the sum are after a fill.
LEMMA WeightFilled ==
  ASSUME Types, Filled, NEW n \in Nominees, WeightFillable(n)
  PROVE  /\ WeightPoints(n) \in [Times -> Points]
         /\ CurrentWeight(n) \in Nat
         /\ TimeAfter(timeWeight[n]) \in Times /\ TimeAfter(timeWeight[n]) <= NextTime
<1>1. /\ pointsWeight[n] \in [Times -> Points] /\ changesWeight[n] \in [Times -> Nat]
      /\ timeWeight[n] \in Times /\ timeWeight[n] \in Nat /\ now \in StartTime..MaxTime
      /\ timeWeight[n] <= NextTime
  BY WeekSteps DEF Types, Filled
<1>2. WeightPoints(n) \in [Times -> Points]
  BY <1>1, FillType DEF WeightFillable, WeightPoints
<1>3. /\ LastFilled(timeWeight[n]) \in Times
      /\ TimeAfter(timeWeight[n]) \in Times /\ TimeAfter(timeWeight[n]) <= NextTime
  <2>1. /\ LastFilled(timeWeight[n]) \in Times /\ LastFilled(timeWeight[n]) <= NextTime
        /\ TimeAfter(timeWeight[n]) \in Times /\ TimeAfter(timeWeight[n]) <= LastFilled(timeWeight[n])
    BY <1>1, FillReach
  <2>2. NextTime \in Times
    BY <1>1, NextWeek DEF NextTime, NextAfter
  <2>3. LastFilled(timeWeight[n]) \in Nat /\ TimeAfter(timeWeight[n]) \in Nat /\ NextTime \in Nat
    BY <2>1, <2>2, WeekSteps
  <2>4. QED
    BY <2>1, <2>3
<1>4. CurrentWeight(n) \in Nat
  BY <1>2, <1>3 DEF CurrentWeight, Points
<1>5. QED
  BY <1>2, <1>3, <1>4

\* The same for the sum.
LEMMA SumFilled ==
  ASSUME Types, Filled, SumFillable
  PROVE  /\ SumPoints \in [Times -> Points]
         /\ CurrentSum \in Nat
         /\ TimeAfter(timeSum) \in Times /\ TimeAfter(timeSum) <= NextTime
<1>1. /\ pointsSum \in [Times -> Points] /\ changesSum \in [Times -> Nat]
      /\ timeSum \in Times /\ timeSum \in Nat /\ now \in StartTime..MaxTime
      /\ timeSum <= NextTime
  BY WeekSteps DEF Types, Filled
<1>2. SumPoints \in [Times -> Points]
  BY <1>1, FillType DEF SumFillable, SumPoints
<1>3. /\ LastFilled(timeSum) \in Times
      /\ TimeAfter(timeSum) \in Times /\ TimeAfter(timeSum) <= NextTime
  <2>1. /\ LastFilled(timeSum) \in Times /\ LastFilled(timeSum) <= NextTime
        /\ TimeAfter(timeSum) \in Times /\ TimeAfter(timeSum) <= LastFilled(timeSum)
    BY <1>1, FillReach
  <2>2. NextTime \in Times
    BY <1>1, NextWeek DEF NextTime, NextAfter
  <2>3. LastFilled(timeSum) \in Nat /\ TimeAfter(timeSum) \in Nat /\ NextTime \in Nat
    BY <2>1, <2>2, WeekSteps
  <2>4. QED
    BY <2>1, <2>3
<1>4. CurrentSum \in Nat
  BY <1>2, <1>3 DEF CurrentSum, Points
<1>5. QED
  BY <1>2, <1>3, <1>4

\* The parts of Types that are not those of VoteTypes.
PointTypes ==
    /\ now \in StartTime..MaxTime
    /\ setNominees \in Seq(Nominees)
    /\ setRemovedNominees \in Seq(Nominees)
    /\ mapNomineeIds \in [Nominees -> Nat]
    /\ mapRemovedNominees \in [Nominees -> 0..Len(setRemovedNominees)]
    /\ lastUserVote \in [Users -> [Nominees -> 0..now]]
    /\ pointsWeight \in [Nominees -> [Times -> Points]]
    /\ timeWeight \in [Nominees -> Times]
    /\ pointsSum \in [Times -> Points]
    /\ timeSum \in Times

\* Types is the types of the votes and those of the points.
LEMMA TypeParts == Types <=> VoteTypes /\ PointTypes
<1>1. now \in StartTime..MaxTime => now \in Nat
  BY VotingAssumption
<1>2. QED
  BY <1>1 DEF Types, VoteTypes, PointTypes

\* Nothing is filled, and nobody has voted, at the deployment.
LEMMA InitPoints == Init => PointTypes /\ Filled
<1> SUFFICES ASSUME Init
             PROVE  PointTypes /\ Filled
  OBVIOUS
<1>0. /\ StartTime \in Nat /\ MaxTime \in Nat /\ StartTime <= MaxTime
      /\ now = StartTime /\ now \in StartTime..MaxTime /\ now \in Nat
      /\ WEEK \in Nat \ {0} /\ 0 \in Times /\ Times \subseteq Nat
  BY VotingAssumption, WeekSteps DEF Init
<1>1. NoPoint \in Points
  BY DEF NoPoint, Points
<1>2. timeSum \in Times /\ timeSum <= now
  <2> DEFINE q == StartTime \div WEEK
  <2>1. q \in Nat /\ WEEK * q <= StartTime
    BY <1>0
  <2>2. timeSum = WEEK * q
    BY <1>0, <2>1 DEF Init
  <2> HIDE DEF q
  <2>3. q <= NumWeeks
    <3>1. NumWeeks \in Nat /\ StartTime + WEEK <= WEEK * NumWeeks
      BY VotingAssumption
    <3>2. CASE NumWeeks < q
      <4>1. WEEK * NumWeeks <= WEEK * q
        BY <1>0, <2>1, <3>1, <3>2, TimesMonotone
      <4>2. WEEK * q \in Nat /\ WEEK * NumWeeks \in Nat
        BY <1>0, <2>1, <3>1
      <4>3. QED
        BY <1>0, <2>1, <3>1, <4>1, <4>2
    <3>3. QED
      BY <2>1, <3>1, <3>2
  <2>4. QED
    BY <1>0, <2>1, <2>2, <2>3, VotingAssumption DEF Times
<1>3. NextTime \in Times /\ now < NextTime /\ NextTime \in Nat
  BY <1>0, NextWeek DEF NextTime, NextAfter
<1>4. Filled
  <2>1. timeSum \in Nat
    BY <1>0, <1>2
  <2>2. \A n \in Nominees : timeWeight[n] = 0
    BY DEF Init
  <2>3. QED
    BY <1>0, <1>2, <1>3, <2>1, <2>2 DEF Filled
<1>5. PointTypes
  <2>1. setNominees \in Seq(Nominees) /\ setRemovedNominees \in Seq(Nominees) /\ Len(setRemovedNominees) = 0
    BY DEF Init
  <2>2. mapRemovedNominees \in [Nominees -> 0..Len(setRemovedNominees)]
    BY <2>1 DEF Init
  <2>3. lastUserVote \in [Users -> [Nominees -> 0..now]]
    BY <1>0 DEF Init
  <2>4. QED
    BY <1>0, <1>1, <1>2, <2>1, <2>2, <2>3 DEF Init, PointTypes
<1>6. QED
  BY <1>4, <1>5

\* What every step may rely on: the invariant of the votes, the types of the
\* points and how far they are filled.
Typed == Inv /\ PointTypes /\ Filled

\* What follows from them for the types and for the next week.
LEMMA TypedTypes ==
  ASSUME Typed
  PROVE  /\ Types /\ Filled
         /\ NextTime \in Times /\ now < NextTime /\ now \in StartTime..MaxTime /\ now \in Nat
<1>1. Types /\ Filled /\ now \in StartTime..MaxTime
  BY TypeParts DEF Typed, Inv, PointTypes
<1>2. QED
  BY <1>1, NextWeek DEF NextTime, NextAfter

\* Adding a nominee.
LEMMA AddTyped ==
  ASSUME Typed, NEW n \in Nominees, addNominee(n)
  PROVE  (PointTypes /\ Filled)'
<1>1. Types /\ Filled /\ NextTime \in Times /\ NextTime \in Nat
  BY TypedTypes, WeekSteps
<1>2. /\ UNCHANGED <<now, setRemovedNominees, mapRemovedNominees, lastUserVote,
                     pointsWeight, pointsSum, timeSum>>
      /\ mapNomineeIds' = [mapNomineeIds EXCEPT ![n] = Len(setNominees) + 1]
      /\ setNominees' = Append(setNominees, n)
      /\ timeWeight' = [timeWeight EXCEPT ![n] = NextTime]
  BY DEF addNominee, userVars
<1>3. setNominees' \in Seq(Nominees) /\ Len(setNominees) + 1 \in Nat
  BY <1>1, <1>2 DEF Types
<1>4. PointTypes'
  BY <1>1, <1>2, <1>3 DEF Types, PointTypes
<1>5. Filled'
  <2>1. NextTime' = NextTime
    BY <1>2 DEF NextTime
  <2>2. QED
    BY <1>1, <1>2, <2>1 DEF Filled, Types
<1>6. QED
  BY <1>4, <1>5

\* Filling the sum.
LEMMA CheckpointTyped ==
  ASSUME Typed, checkpoint
  PROVE  (PointTypes /\ Filled)'
<1>1. Types /\ Filled
  BY TypedTypes
<1>2. SumPoints \in [Times -> Points] /\ TimeAfter(timeSum) \in Times /\ TimeAfter(timeSum) <= NextTime
  BY <1>1, SumFilled DEF checkpoint
<1>3. /\ UNCHANGED <<now, setVars, lastUserVote, pointsWeight, timeWeight>>
      /\ pointsSum' = SumPoints /\ timeSum' = TimeAfter(timeSum)
  BY DEF checkpoint, userVars
<1>4. NextTime' = NextTime
  BY <1>3 DEF NextTime
<1>5. QED
  BY <1>1, <1>2, <1>3, <1>4 DEF Types, PointTypes, Filled, setVars

\* Filling a nominee's weight and the sum.
LEMMA CheckpointNomineeTyped ==
  ASSUME Typed, NEW n \in Nominees, checkpointNominee(n)
  PROVE  (PointTypes /\ Filled)'
<1>1. Types /\ Filled
  BY TypedTypes
<1>2. SumPoints \in [Times -> Points] /\ TimeAfter(timeSum) \in Times /\ TimeAfter(timeSum) <= NextTime
  BY <1>1, SumFilled DEF checkpointNominee
<1>3. /\ WeightPoints(n) \in [Times -> Points]
      /\ TimeAfter(timeWeight[n]) \in Times /\ TimeAfter(timeWeight[n]) <= NextTime
  BY <1>1, WeightFilled DEF checkpointNominee
<1>4. /\ UNCHANGED <<now, setVars, lastUserVote>>
      /\ pointsWeight' = [pointsWeight EXCEPT ![n] = WeightPoints(n)]
      /\ timeWeight' = [timeWeight EXCEPT ![n] = TimeAfter(timeWeight[n])]
      /\ pointsSum' = SumPoints /\ timeSum' = TimeAfter(timeSum)
  BY DEF checkpointNominee, userVars
<1>5. NextTime' = NextTime
  BY <1>4 DEF NextTime
<1>6. PointTypes'
  BY <1>1, <1>2, <1>3, <1>4 DEF Types, PointTypes, setVars
<1>7. Filled'
  BY <1>1, <1>2, <1>3, <1>4, <1>5 DEF Filled, Types
<1>8. QED
  BY <1>6, <1>7

\* Removing a nominee.
LEMMA RemoveTyped ==
  ASSUME Typed, NEW n \in Nominees, removeNominee(n)
  PROVE  (PointTypes /\ Filled)'
<1> DEFINE id == mapNomineeIds[n]
           last == setNominees[Len(setNominees)]
           p == [WeightPoints(n) EXCEPT ![NextTime].bias = 0]
           q == [SumPoints EXCEPT ![NextTime].bias = CurrentSum - CurrentWeight(n)]
           short == SubSeq([setNominees EXCEPT ![id] = last], 1, Len(setNominees) - 1)
<1>1. Types /\ Filled /\ NextTime \in Times /\ NextTime \in Nat
  BY TypedTypes, WeekSteps
<1>2. SumPoints \in [Times -> Points] /\ CurrentSum \in Nat
  BY <1>1, SumFilled DEF removeNominee
<1>3. WeightPoints(n) \in [Times -> Points] /\ CurrentWeight(n) \in Nat
  BY <1>1, WeightFilled DEF removeNominee
<1>4. /\ UNCHANGED <<now, lastUserVote>>
      /\ id > 0 /\ id <= Len(setNominees)
      /\ CurrentSum >= CurrentWeight(n)
      /\ pointsWeight' = [pointsWeight EXCEPT ![n] = p]
      /\ timeWeight' = [timeWeight EXCEPT ![n] = NextTime]
      /\ pointsSum' = q /\ timeSum' = NextTime
      /\ mapRemovedNominees' = [mapRemovedNominees EXCEPT ![n] = Len(setRemovedNominees) + 1]
      /\ setRemovedNominees' = Append(setRemovedNominees, n)
      /\ mapNomineeIds' = [mapNomineeIds EXCEPT ![n] = 0, ![last] = id]
      /\ setNominees' = short
  BY DEF removeNominee, IdsAfterRemoval, userVars, RemovedBias
<1>5. p \in [Times -> Points]
  BY <1>1, <1>3 DEF Points
<1>6. q \in [Times -> Points]
  <2>1. CurrentSum - CurrentWeight(n) \in Nat
    BY <1>2, <1>3, <1>4
  <2>2. QED
    BY <1>1, <1>2, <2>1 DEF Points
<1>7. short \in Seq(Nominees)
  <2> DEFINE moved == [setNominees EXCEPT ![id] = last]
  <2>1. setNominees \in Seq(Nominees) /\ id \in Nat
    BY <1>1 DEF Types
  <2>2. last \in Nominees /\ id \in 1..Len(setNominees)
    BY <1>4, <2>1
  <2>3. moved \in Seq(Nominees) /\ Len(moved) = Len(setNominees)
    BY <2>1, <2>2
  <2> HIDE DEF moved
  <2>4. SubSeq(moved, 1, Len(setNominees) - 1) \in Seq(Nominees)
    BY <1>4, <2>1, <2>2, <2>3
  <2>5. QED
    BY <2>4 DEF moved
<1>8. mapRemovedNominees' \in [Nominees -> 0..Len(setRemovedNominees')] /\ setRemovedNominees' \in Seq(Nominees)
  <2>1. setRemovedNominees \in Seq(Nominees) /\ mapRemovedNominees \in [Nominees -> 0..Len(setRemovedNominees)]
    BY <1>1 DEF Types
  <2>2. /\ setRemovedNominees' \in Seq(Nominees) /\ Len(setRemovedNominees) \in Nat
        /\ Len(setRemovedNominees') = Len(setRemovedNominees) + 1
    BY <1>4, <2>1
  <2>3. QED
    BY <1>4, <2>1, <2>2
<1>9. mapNomineeIds' \in [Nominees -> Nat]
  BY <1>1, <1>4 DEF Types
<1> HIDE DEF p, q, short, last, id
<1>10. PointTypes'
  BY <1>1, <1>4, <1>5, <1>6, <1>7, <1>8, <1>9 DEF Types, PointTypes
<1>11. NextTime' = NextTime
  BY <1>4 DEF NextTime
<1>12. Filled'
  BY <1>1, <1>4, <1>11 DEF Filled, Types
<1>13. QED
  BY <1>10, <1>12

\* A vote.
LEMMA VoteTyped ==
  ASSUME Typed, NEW u \in Users, NEW n \in Nominees, NEW weight \in 0..MAX_WEIGHT,
         voteForNomineeWeights(u, n, weight)
  PROVE  (PointTypes /\ Filled)'
<1> DEFINE old == voteUserSlopes[u][n]
           new == NewVote(u, weight)
           p == [WeightPoints(n) EXCEPT ![NextTime] = Revoted(WeightPoints(n)[NextTime], CurrentWeight(n), old, new)]
           q == [SumPoints EXCEPT ![NextTime] = Revoted(SumPoints[NextTime], CurrentSum, old, new)]
<1>1. Types /\ Filled /\ NextTime \in Times /\ now \in StartTime..MaxTime /\ now \in Nat
  BY TypedTypes
<1>2. /\ SumPoints \in [Times -> Points] /\ CurrentSum \in Nat
      /\ TimeAfter(timeSum) \in Times /\ TimeAfter(timeSum) <= NextTime
  BY <1>1, SumFilled DEF voteForNomineeWeights
<1>3. /\ WeightPoints(n) \in [Times -> Points] /\ CurrentWeight(n) \in Nat
      /\ TimeAfter(timeWeight[n]) \in Times /\ TimeAfter(timeWeight[n]) <= NextTime
  BY <1>1, WeightFilled DEF voteForNomineeWeights
<1>4. /\ UNCHANGED <<now, setVars>>
      /\ pointsWeight' = [pointsWeight EXCEPT ![n] = p]
      /\ timeWeight' = [timeWeight EXCEPT ![n] = TimeAfter(timeWeight[n])]
      /\ pointsSum' = q /\ timeSum' = TimeAfter(timeSum)
      /\ lastUserVote' = [lastUserVote EXCEPT ![u][n] = now]
  BY DEF voteForNomineeWeights
<1>5. old \in Votes /\ new \in Votes
  BY <1>1, NewVoteType DEF Types
<1>6. p \in [Times -> Points] /\ q \in [Times -> Points]
  <2>1. WeightPoints(n)[NextTime] \in Points /\ SumPoints[NextTime] \in Points
    BY <1>1, <1>2, <1>3
  <2>2. /\ Revoted(WeightPoints(n)[NextTime], CurrentWeight(n), old, new) \in Points
        /\ Revoted(SumPoints[NextTime], CurrentSum, old, new) \in Points
    BY <1>1, <1>2, <1>3, <1>5, <2>1, RevotedType
  <2>3. QED
    BY <1>1, <1>2, <1>3, <2>2
<1> HIDE DEF p, q, old, new
<1>7. lastUserVote' \in [Users -> [Nominees -> 0..now]]
  BY <1>1, <1>4 DEF Types
<1>8. PointTypes'
  BY <1>1, <1>2, <1>3, <1>4, <1>6, <1>7 DEF Types, PointTypes, setVars
<1>9. NextTime' = NextTime
  BY <1>4 DEF NextTime
<1>10. Filled'
  BY <1>1, <1>2, <1>3, <1>4, <1>9 DEF Filled, Types
<1>11. QED
  BY <1>8, <1>10

\* Time passes or stays, and no point changes.
LEMMA OtherTyped ==
  ASSUME Typed, now' \in now..MaxTime, UNCHANGED <<setVars, lastUserVote, pointVars>>
  PROVE  (PointTypes /\ Filled)'
<1>1. Types /\ Filled /\ NextTime \in Times /\ now \in StartTime..MaxTime /\ now \in Nat /\ NextTime \in Nat
  BY TypedTypes, WeekSteps
<1>2. /\ setNominees' = setNominees /\ setRemovedNominees' = setRemovedNominees
      /\ mapNomineeIds' = mapNomineeIds /\ mapRemovedNominees' = mapRemovedNominees
      /\ lastUserVote' = lastUserVote /\ pointsWeight' = pointsWeight /\ timeWeight' = timeWeight
      /\ pointsSum' = pointsSum /\ timeSum' = timeSum
  BY DEF setVars, pointVars
<1>3. now' \in StartTime..MaxTime /\ now' \in Nat /\ now <= now'
  BY <1>1, VotingAssumption
<1>4. NextTime <= NextTime' /\ NextTime' \in Nat
  <2>1. /\ NextAfter(now') \in Times /\ now' < NextAfter(now')
        /\ \A t \in Times : t > now => NextAfter(now) <= t
    BY <1>1, <1>3, NextWeek
  <2>2. NextAfter(now') \in Nat
    BY <2>1, WeekSteps
  <2>3. NextAfter(now) <= NextAfter(now')
    BY <1>1, <1>3, <2>1, <2>2
  <2>4. QED
    BY <2>2, <2>3 DEF NextTime, NextAfter
<1>5. lastUserVote' \in [Users -> [Nominees -> 0..now']]
  <2>1. lastUserVote \in [Users -> [Nominees -> 0..now]]
    BY <1>1 DEF Types
  <2>2. \A u \in Users, n \in Nominees : lastUserVote[u][n] \in 0..now'
    <3>1. \A x \in 0..now : x \in 0..now'
      BY <1>1, <1>3
    <3>2. QED
      BY <2>1, <3>1
  <2>3. QED
    BY <1>2, <2>1, <2>2
<1>6. PointTypes'
  BY <1>1, <1>2, <1>3, <1>5 DEF Types, PointTypes
<1>7. Filled'
  <2>1. timeSum \in Nat /\ \A n \in Nominees : timeWeight[n] \in Nat
    BY <1>1, WeekSteps DEF Types
  <2>2. QED
    BY <1>1, <1>2, <1>4, <2>1 DEF Filled
<1>8. QED
  BY <1>6, <1>7

\* Types and filled points are invariant.
THEOREM TypedHolds == Spec => []Typed
<1>1. Init => PointTypes /\ Filled
  BY InitPoints
<1>2. Inv /\ Inv' /\ PointTypes /\ Filled /\ [Next]_vars => (PointTypes /\ Filled)'
  <2> SUFFICES ASSUME Typed, [Next]_vars
               PROVE  (PointTypes /\ Filled)'
    BY DEF Typed
  <2>0. now \in Nat /\ now \in StartTime..MaxTime /\ MaxTime \in Nat
    BY TypedTypes, VotingAssumption
  <2>1. CASE \E n \in Nominees : addNominee(n)
    BY <2>1, AddTyped
  <2>2. CASE checkpoint
    BY <2>2, CheckpointTyped
  <2>3. CASE \E n \in Nominees : checkpointNominee(n)
    BY <2>3, CheckpointNomineeTyped
  <2>4. CASE \E n \in Nominees : removeNominee(n)
    BY <2>4, RemoveTyped
  <2>5. CASE \E u \in Users, n \in Nominees, weight \in 0..MAX_WEIGHT :
                 voteForNomineeWeights(u, n, weight)
    BY <2>5, VoteTyped
  <2>6. CASE \/ \E u \in Users, n \in Nominees : revokeRemovedNomineeVotingPower(u, n)
             \/ \E u \in Users, slope \in Slopes, end \in LockEnds : ChangeLock(u, slope, end)
             \/ UNCHANGED vars
    <3>1. UNCHANGED <<now, setVars, lastUserVote, pointVars>>
      BY <2>6 DEF revokeRemovedNomineeVotingPower, ChangeLock, vars, userVars
    <3>2. now' \in now..MaxTime
      BY <2>0, <3>1
    <3>3. QED
      BY <3>1, <3>2, OtherTyped
  <2>7. CASE Tick
    <3>1. now' = now + 1 /\ now < MaxTime /\ UNCHANGED <<setVars, lastUserVote, pointVars>>
      BY <2>7 DEF Tick, userVars
    <3>2. now' \in now..MaxTime
      BY <2>0, <3>1
    <3>3. QED
      BY <3>1, <3>2, OtherTyped
  <2>8. QED
    BY <2>1, <2>2, <2>3, <2>4, <2>5, <2>6, <2>7 DEF Next
<1>3. QED
  BY <1>1, <1>2, InvHolds, PTL DEF Spec, Typed

\* Biases and slopes never underflow, however late points are filled.
LEMMA TypesHold == Spec => []Types
<1>1. Typed => Types
  BY TypedTypes
<1>2. QED
  BY <1>1, TypedHolds, PTL

\* An added nominee is not listed yet, and gets the next place.
LEMMA AddIds ==
  ASSUME Types, IdsKept, NEW n \in Nominees, addNominee(n)
  PROVE  IdsKept'
<1>1. /\ setNominees \in Seq(Nominees) /\ Len(setNominees) \in Nat
      /\ mapNomineeIds \in [Nominees -> Nat] /\ mapNomineeIds[n] = 0
      /\ setNominees' = Append(setNominees, n)
      /\ mapNomineeIds' = [mapNomineeIds EXCEPT ![n] = Len(setNominees) + 1]
      /\ mapRemovedNominees' = mapRemovedNominees /\ setRemovedNominees' = setRemovedNominees
  BY DEF Types, addNominee
<1>2. /\ DOMAIN setNominees = 1..Len(setNominees)
      /\ DOMAIN setNominees' = 1..(Len(setNominees) + 1)
      /\ setNominees'[Len(setNominees) + 1] = n
      /\ \A i \in DOMAIN setNominees : setNominees'[i] = setNominees[i] /\ setNominees[i] \in Nominees
  BY <1>1
<1>3. \A i \in DOMAIN setNominees : mapNomineeIds[setNominees[i]] = i
  BY DEF IdsKept
<1>4. \A i \in DOMAIN setNominees : setNominees[i] # n
  BY <1>1, <1>2, <1>3
<1>5. /\ mapNomineeIds'[n] = Len(setNominees) + 1
      /\ \A m \in Nominees : m # n => mapNomineeIds'[m] = mapNomineeIds[m]
  BY <1>1
<1>6. ASSUME NEW i \in DOMAIN setNominees' PROVE mapNomineeIds'[setNominees'[i]] = i
  <2>1. CASE i \in DOMAIN setNominees
    BY <1>2, <1>3, <1>4, <1>5, <2>1
  <2>2. CASE i = Len(setNominees) + 1
    BY <1>2, <1>5, <2>2
  <2>3. QED
    BY <1>1, <1>2, <2>1, <2>2
<1>7. \A m \in Nominees : Listed(m) => Listed(m)'
  BY <1>1, <1>2 DEF Listed
<1>8. Listed(n)'
  <2>1. Len(setNominees) + 1 \in DOMAIN setNominees'
    BY <1>1, <1>2
  <2>2. QED
    BY <1>2, <2>1 DEF Listed
<1>9. NoneRemovedTwice' = NoneRemovedTwice
  BY <1>1 DEF NoneRemovedTwice
<1>10. NoneRemovedTwice' => \A m \in Nominees :
         mapNomineeIds'[m] > 0 => Listed(m)' \/ mapRemovedNominees'[m] > 0
  BY <1>1, <1>5, <1>7, <1>8, <1>9 DEF IdsKept
<1>11. \A m \in Nominees :
         mapRemovedNominees'[m] > 0 => setRemovedNominees'[mapRemovedNominees'[m]] = m
  BY <1>1 DEF IdsKept
<1>12. QED
  BY <1>6, <1>10, <1>11 DEF IdsKept

\* What a removal makes of the set and of the ids.
LEMMA RemovedIds ==
  ASSUME Types, NEW n \in Nominees, removeNominee(n),
         NEW id, id = mapNomineeIds[n], NEW last, last = setNominees[Len(setNominees)]
  PROVE  /\ id \in 1..Len(setNominees) /\ Len(setNominees) \in Nat /\ last \in Nominees
         /\ DOMAIN setNominees = 1..Len(setNominees)
         /\ DOMAIN setNominees' = 1..(Len(setNominees) - 1)
         /\ \A i \in DOMAIN setNominees' :
              setNominees'[i] = IF i = id THEN last ELSE setNominees[i]
         /\ \A m \in Nominees : mapNomineeIds'[m] =
              IF m = last THEN id ELSE IF m = n THEN 0 ELSE mapNomineeIds[m]
<1> DEFINE moved == [setNominees EXCEPT ![id] = last]
<1>0. setNominees \in Seq(Nominees) /\ mapNomineeIds \in [Nominees -> Nat]
  BY DEF Types
<1>1. /\ setNominees \in Seq(Nominees) /\ Len(setNominees) \in Nat
      /\ DOMAIN setNominees = 1..Len(setNominees)
      /\ mapNomineeIds \in [Nominees -> Nat]
  BY <1>0
<1>2. /\ id > 0 /\ id <= Len(setNominees)
      /\ setNominees' = SubSeq(moved, 1, Len(setNominees) - 1)
      /\ mapNomineeIds' = [mapNomineeIds EXCEPT ![n] = 0, ![last] = id]
  BY DEF removeNominee, IdsAfterRemoval
<1>3. id \in 1..Len(setNominees) /\ id \in Nat
  BY <1>1, <1>2
<1>4. last \in Nominees /\ Len(setNominees) \in DOMAIN setNominees
  BY <1>1, <1>3
<1>5. /\ moved \in Seq(Nominees) /\ Len(moved) = Len(setNominees)
      /\ \A i \in 1..Len(setNominees) : moved[i] = IF i = id THEN last ELSE setNominees[i]
  BY <1>1, <1>3, <1>4
<1> HIDE DEF moved
<1>6. /\ DOMAIN setNominees' = 1..(Len(setNominees) - 1)
      /\ \A i \in 1..(Len(setNominees) - 1) : setNominees'[i] = moved[i]
  BY <1>1, <1>2, <1>3, <1>5
<1>7. ASSUME NEW i \in DOMAIN setNominees'
      PROVE  setNominees'[i] = IF i = id THEN last ELSE setNominees[i]
  <2>1. i \in 1..(Len(setNominees) - 1) /\ i \in 1..Len(setNominees)
    BY <1>1, <1>6
  <2>2. QED
    BY <1>5, <1>6, <2>1
<1>8. \A m \in Nominees : mapNomineeIds'[m] =
        IF m = last THEN id ELSE IF m = n THEN 0 ELSE mapNomineeIds[m]
  BY <1>1, <1>2, <1>3, <1>4
<1>9. QED
  BY <1>1, <1>3, <1>4, <1>6, <1>7, <1>8

\* The last nominee takes the place of the one removed; an id is left behind only
\* if that one had been removed before.
LEMMA RemoveIds ==
  ASSUME Types, IdsKept, NEW n \in Nominees, removeNominee(n)
  PROVE  IdsKept'
<1> DEFINE L == Len(setNominees)
           R == Len(setRemovedNominees)
<1>0. PICK id, last : id = mapNomineeIds[n] /\ last = setNominees[L]
  OBVIOUS
<1>1. /\ id \in 1..L /\ L \in Nat /\ last \in Nominees
      /\ DOMAIN setNominees = 1..L /\ DOMAIN setNominees' = 1..(L - 1)
      /\ \A i \in DOMAIN setNominees' :
           setNominees'[i] = IF i = id THEN last ELSE setNominees[i]
      /\ \A m \in Nominees : mapNomineeIds'[m] =
           IF m = last THEN id ELSE IF m = n THEN 0 ELSE mapNomineeIds[m]
  BY <1>0, RemovedIds
<1>2. \A i \in DOMAIN setNominees : mapNomineeIds[setNominees[i]] = i /\ setNominees[i] \in Nominees
  BY DEF IdsKept, Types
<1>3. /\ setRemovedNominees \in Seq(Nominees) /\ R \in Nat
      /\ mapRemovedNominees \in [Nominees -> 0..R]
  BY DEF Types
<1>4. /\ setRemovedNominees' = Append(setRemovedNominees, n)
      /\ mapRemovedNominees' = [mapRemovedNominees EXCEPT ![n] = R + 1]
  BY DEF removeNominee, IdsAfterRemoval
<1>5. /\ DOMAIN setRemovedNominees = 1..R /\ DOMAIN setRemovedNominees' = 1..(R + 1)
      /\ setRemovedNominees'[R + 1] = n
      /\ \A i \in 1..R : setRemovedNominees'[i] = setRemovedNominees[i]
  BY <1>3, <1>4
<1>6. /\ mapRemovedNominees'[n] = R + 1
      /\ \A m \in Nominees : m # n => mapRemovedNominees'[m] = mapRemovedNominees[m]
  BY <1>3, <1>4
<1>7. \A m \in Nominees :
        mapRemovedNominees[m] > 0 => setRemovedNominees[mapRemovedNominees[m]] = m
  BY DEF IdsKept
<1>8. ASSUME NEW i \in DOMAIN setNominees' PROVE mapNomineeIds'[setNominees'[i]] = i
  <2>1. CASE i = id
    BY <1>1, <2>1
  <2>2. CASE i # id
    <3>1. i \in DOMAIN setNominees /\ i # L /\ L \in DOMAIN setNominees
      BY <1>1
    <3>2. setNominees'[i] = setNominees[i] /\ setNominees[i] # last /\ setNominees[i] # n
      BY <1>0, <1>1, <1>2, <2>2, <3>1
    <3>3. QED
      BY <1>1, <1>2, <3>1, <3>2
  <2>3. QED
    BY <2>1, <2>2
<1>9. ASSUME NEW m \in Nominees, mapRemovedNominees'[m] > 0
      PROVE  setRemovedNominees'[mapRemovedNominees'[m]] = m
  <2>1. CASE m = n
    BY <1>5, <1>6, <2>1
  <2>2. CASE m # n
    <3>1. mapRemovedNominees'[m] = mapRemovedNominees[m] /\ mapRemovedNominees[m] \in 1..R
      BY <1>3, <1>6, <1>9, <2>2
    <3>2. QED
      BY <1>5, <1>7, <3>1
  <2>3. QED
    BY <2>1, <2>2
<1>10. ASSUME NoneRemovedTwice', NEW m \in Nominees, mapNomineeIds'[m] > 0
       PROVE  Listed(m)' \/ mapRemovedNominees'[m] > 0
  <2>0. \A i, j \in 1..(R + 1) : setRemovedNominees'[i] = setRemovedNominees'[j] => i = j
    BY <1>5, <1>10 DEF NoneRemovedTwice
  <2>1. NoneRemovedTwice
    BY <1>3, <1>5, <2>0 DEF NoneRemovedTwice
  <2>2. mapRemovedNominees[n] = 0
    <3> SUFFICES ASSUME mapRemovedNominees[n] # 0 PROVE FALSE
      OBVIOUS
    <3>1. mapRemovedNominees[n] \in 1..R
      BY <1>3
    <3>2. setRemovedNominees'[mapRemovedNominees[n]] = n
      BY <1>5, <1>7, <3>1
    <3>3. QED
      BY <1>3, <1>5, <2>0, <3>1, <3>2
  <2>3. PICK i0 \in DOMAIN setNominees : setNominees[i0] = n
    BY <1>0, <1>1, <2>1, <2>2 DEF IdsKept, Listed
  <2>4. setNominees[id] = n
    BY <1>0, <1>2, <2>3
  <2>5. CASE m = n
    BY <1>3, <1>6, <2>5
  <2>6. CASE m # n /\ m = last
    <3>1. id # L
      BY <1>0, <2>4, <2>6
    <3>0. id \in 1..(L - 1)
      <4>1. \A l \in Nat : \A i \in 1..l : i # l => i \in 1..(l - 1)
        OBVIOUS
      <4>2. QED
        BY ONLY <1>1, <3>1, <4>1
    <3>2. id \in DOMAIN setNominees' /\ setNominees'[id] = m
      BY ONLY <1>1, <2>6, <3>0
    <3>3. QED
      BY <3>2 DEF Listed
  <2>7. CASE m # n /\ m # last
    <3>1. mapNomineeIds[m] > 0
      BY <1>1, <1>10, <2>7
    <3>2. CASE mapRemovedNominees[m] > 0
      BY <1>6, <2>7, <3>2
    <3>3. CASE Listed(m)
      <4>1. PICK i \in DOMAIN setNominees : setNominees[i] = m
        BY <3>3 DEF Listed
      <4>2. i # id /\ i # L
        BY <1>0, <2>4, <2>7, <4>1
      <4>3. i \in DOMAIN setNominees' /\ setNominees'[i] = m
        BY <1>1, <4>1, <4>2
      <4>4. QED
        BY <4>3 DEF Listed
    <3>4. QED
      BY <2>1, <3>1, <3>2, <3>3 DEF IdsKept
  <2>8. QED
    BY <2>5, <2>6, <2>7
<1>11. QED
  BY <1>8, <1>9, <1>10 DEF IdsKept

LEMMA IdsHold == Spec => []IdsKept
<1>1. Init => IdsKept
  BY DEF Init, IdsKept
<1>2. Types /\ IdsKept /\ [Next]_vars => IdsKept'
  <2> SUFFICES ASSUME Types, IdsKept, [Next]_vars
               PROVE  IdsKept'
    OBVIOUS
  <2>1. ASSUME NEW n \in Nominees, addNominee(n) PROVE IdsKept'
    BY <2>1, AddIds
  <2>2. ASSUME NEW n \in Nominees, removeNominee(n) PROVE IdsKept'
    BY <2>2, RemoveIds
  <2>3. CASE UNCHANGED setVars
    BY <2>3 DEF IdsKept, NoneRemovedTwice, Listed, setVars
  <2>4. checkpoint => UNCHANGED setVars
    BY DEF checkpoint, setVars
  <2>5. \A n \in Nominees : checkpointNominee(n) => UNCHANGED setVars
    BY DEF checkpointNominee, setVars
  <2>6. \A u \in Users, n \in Nominees, weight \in 0..MAX_WEIGHT :
          voteForNomineeWeights(u, n, weight) => UNCHANGED setVars
    BY DEF voteForNomineeWeights, setVars
  <2>7. \A u \in Users, n \in Nominees :
          revokeRemovedNomineeVotingPower(u, n) => UNCHANGED setVars
    BY DEF revokeRemovedNomineeVotingPower, setVars
  <2>8. Tick => UNCHANGED setVars
    BY DEF Tick, setVars
  <2>9. \A u \in Users, slope \in Slopes, end \in LockEnds :
          ChangeLock(u, slope, end) => UNCHANGED setVars
    BY DEF ChangeLock, setVars
  <2>10. UNCHANGED vars => UNCHANGED setVars
    BY DEF vars, setVars
  <2>11. QED
    BY <2>1, <2>2, <2>3, <2>4, <2>5, <2>6, <2>7, <2>8, <2>9, <2>10 DEF Next
<1>3. QED
  BY <1>1, <1>2, TypesHold, PTL DEF Spec

\* Biases and slopes never underflow, and the id of a listed nominee is its place.
THEOREM TypeCorrect == Spec => []TypeOK
<1>1. QED
  BY TypesHold, IdsHold, PTL DEF TypeOK

-----------------------------------------------------------------------------
(* What a step does to one nominee, and to the sum                          *)

\* A vote of any user for a nominee.
Voted(n) == \E u \in Users, weight \in 0..MAX_WEIGHT : voteForNomineeWeights(u, n, weight)

\* The step is about other nominees.
Kept(n) ==
    /\ pointsWeight'[n] = pointsWeight[n] /\ timeWeight'[n] = timeWeight[n]
    /\ mapRemovedNominees'[n] = mapRemovedNominees[n]
    /\ mapRemovedNominees[n] = 0 =>
           /\ changesWeight'[n] = changesWeight[n]
           /\ \A u \in Users : voteUserSlopes'[u][n] = voteUserSlopes[u][n]

\* Every step is about one nominee at most, or keeps it.
LEMMA NomineeStep ==
  ASSUME Typed, [Next]_vars, NEW n \in Nominees
  PROVE  \/ Kept(n) \/ addNominee(n) \/ checkpointNominee(n) \/ removeNominee(n) \/ Voted(n)
<1>1. /\ pointsWeight \in [Nominees -> [Times -> Points]] /\ timeWeight \in [Nominees -> Times]
      /\ mapRemovedNominees \in [Nominees -> 0..Len(setRemovedNominees)]
      /\ changesWeight \in [Nominees -> [Times -> Nat]]
      /\ voteUserSlopes \in [Users -> [Nominees -> Votes]]
  BY TypedTypes DEF Types
<1>2. ASSUME NEW m \in Nominees, addNominee(m), m # n
      PROVE  Kept(n)
  BY <1>1, <1>2 DEF addNominee, userVars, changeVars, Kept
<1>3. ASSUME checkpoint
      PROVE  Kept(n)
  BY <1>1, <1>3 DEF checkpoint, userVars, changeVars, setVars, Kept
<1>4. ASSUME NEW m \in Nominees, checkpointNominee(m), m # n
      PROVE  Kept(n)
  BY <1>1, <1>4 DEF checkpointNominee, userVars, changeVars, setVars, Kept
<1>5. ASSUME NEW m \in Nominees, removeNominee(m), m # n
      PROVE  Kept(n)
  BY <1>1, <1>5 DEF removeNominee, userVars, changeVars, Kept
<1>6. ASSUME NEW u \in Users, NEW m \in Nominees, NEW weight \in 0..MAX_WEIGHT,
             voteForNomineeWeights(u, m, weight), m # n
      PROVE  Kept(n)
  <2>1. \A v \in Users : voteUserSlopes'[v][n] = voteUserSlopes[v][n]
    BY <1>1, <1>6 DEF voteForNomineeWeights
  <2>2. changesWeight'[n] = changesWeight[n] /\ pointsWeight'[n] = pointsWeight[n] /\ timeWeight'[n] = timeWeight[n]
    BY <1>1, <1>6 DEF voteForNomineeWeights
  <2>3. mapRemovedNominees' = mapRemovedNominees
    BY <1>6 DEF voteForNomineeWeights, setVars
  <2>4. QED
    BY <2>1, <2>2, <2>3 DEF Kept
<1>7. ASSUME NEW u \in Users, NEW m \in Nominees, revokeRemovedNomineeVotingPower(u, m)
      PROVE  Kept(n)
  <2>1. UNCHANGED <<setVars, pointVars>> /\ mapRemovedNominees[m] > 0
    BY <1>7 DEF revokeRemovedNomineeVotingPower
  <2>2. m # n => /\ changesWeight'[n] = changesWeight[n]
                 /\ \A v \in Users : voteUserSlopes'[v][n] = voteUserSlopes[v][n]
    BY <1>1, <1>7 DEF revokeRemovedNomineeVotingPower
  <2>3. mapRemovedNominees[n] = 0 => m # n
    BY <2>1
  <2>4. QED
    BY <2>1, <2>2, <2>3 DEF Kept, setVars, pointVars
<1>8. ASSUME \/ Tick
             \/ \E u \in Users, slope \in Slopes, end \in LockEnds : ChangeLock(u, slope, end)
             \/ UNCHANGED vars
      PROVE  Kept(n)
  BY <1>8 DEF Tick, ChangeLock, vars, userVars, changeVars, setVars, pointVars, Kept
<1>9. QED
  BY <1>2, <1>3, <1>4, <1>5, <1>6, <1>7, <1>8 DEF Next, Voted

\* The same for the sum.
LEMMA SumStep ==
  ASSUME [Next]_vars
  PROVE  \/ /\ pointsSum' = pointsSum /\ timeSum' = timeSum
            /\ setRemovedNominees' = setRemovedNominees
            /\ (\A n \in Nominees : mapRemovedNominees[n] = 0) => UNCHANGED <<voteUserSlopes, changesSum>>
         \/ /\ SumFillable /\ pointsSum' = SumPoints /\ timeSum' = TimeAfter(timeSum)
            /\ UNCHANGED <<now, setRemovedNominees, voteUserSlopes, changesSum>>
         \/ \E n \in Nominees : removeNominee(n) \/ Voted(n)
<1>1. ASSUME \/ \E n \in Nominees : addNominee(n)
             \/ Tick
             \/ \E u \in Users, slope \in Slopes, end \in LockEnds : ChangeLock(u, slope, end)
             \/ UNCHANGED vars
      PROVE  UNCHANGED <<pointsSum, timeSum, setRemovedNominees, voteUserSlopes, changesSum>>
  BY <1>1 DEF addNominee, Tick, ChangeLock, vars, pointVars, setVars, userVars, changeVars
<1>2. ASSUME \E u \in Users, n \in Nominees : revokeRemovedNomineeVotingPower(u, n)
      PROVE  /\ pointsSum' = pointsSum /\ timeSum' = timeSum
             /\ setRemovedNominees' = setRemovedNominees
             /\ \E n \in Nominees : mapRemovedNominees[n] > 0
  BY <1>2 DEF revokeRemovedNomineeVotingPower, pointVars, setVars
<1>3. ASSUME checkpoint \/ \E n \in Nominees : checkpointNominee(n)
      PROVE  /\ SumFillable /\ pointsSum' = SumPoints /\ timeSum' = TimeAfter(timeSum)
             /\ UNCHANGED <<now, setRemovedNominees, voteUserSlopes, changesSum>>
  BY <1>3 DEF checkpoint, checkpointNominee, setVars, userVars, changeVars
<1>4. QED
  <2>1. CASE \/ \E n \in Nominees : addNominee(n)
             \/ Tick
             \/ \E u \in Users, slope \in Slopes, end \in LockEnds : ChangeLock(u, slope, end)
             \/ UNCHANGED vars
    BY <1>1, <2>1
  <2>2. CASE \E u \in Users, n \in Nominees : revokeRemovedNomineeVotingPower(u, n)
    <3>1. \E n \in Nominees : ~ (mapRemovedNominees[n] = 0)
      BY <1>2, <2>2
    <3>2. QED
      BY <1>2, <2>2, <3>1
  <2>3. CASE checkpoint \/ \E n \in Nominees : checkpointNominee(n)
    BY <1>3, <2>3
  <2>4. CASE \E n \in Nominees : removeNominee(n)
    BY <2>4
  <2>5. CASE \E u \in Users, n \in Nominees, weight \in 0..MAX_WEIGHT :
                 voteForNomineeWeights(u, n, weight)
    BY <2>5 DEF Voted
  <2>6. QED
    BY <2>1, <2>2, <2>3, <2>4, <2>5 DEF Next

\* What a vote for a nominee is.
LEMMA VotedVotes ==
  ASSUME Typed, NEW u \in Users, NEW n \in Nominees, NEW weight \in 0..MAX_WEIGHT,
         voteForNomineeWeights(u, n, weight)
  PROVE  /\ voteUserSlopes' = [voteUserSlopes EXCEPT ![u][n] = NewVote(u, weight)]
         /\ mapRemovedNominees[n] = 0 /\ NewVote(u, weight).end > NextTime
         /\ NewVote(u, weight) \in Votes /\ voteUserSlopes[u][n] \in Votes
         /\ now' = now /\ setRemovedNominees' = setRemovedNominees
<1>1. /\ voteUserSlopes \in [Users -> [Nominees -> Votes]]
      /\ locks \in [Users -> [slope : Nat, end : Times]]
  BY TypedTypes DEF Types
<1>2. NewVote(u, weight) \in Votes /\ NewVote(u, weight).end = locks[u].end
  BY <1>1, NewVoteType
<1>3. NextTime < locks[u].end
  BY DEF voteForNomineeWeights
<1>4. NextTime \in Nat /\ locks[u].end \in Nat
  BY <1>1, TypedTypes, WeekSteps
<1>5. NewVote(u, weight).end > NextTime
  BY <1>2, <1>3, <1>4
<1>6. QED
  BY <1>1, <1>2, <1>5 DEF voteForNomineeWeights, setVars

\* What it writes for the nominee.
LEMMA VotedPoints ==
  ASSUME Typed, NEW u \in Users, NEW n \in Nominees, NEW weight \in 0..MAX_WEIGHT,
         voteForNomineeWeights(u, n, weight)
  PROVE  /\ WeightFillable(n)
         /\ pointsWeight'[n] =
                [WeightPoints(n) EXCEPT ![NextTime] =
                    Revoted(WeightPoints(n)[NextTime], CurrentWeight(n),
                            voteUserSlopes[u][n], NewVote(u, weight))]
         /\ timeWeight'[n] = TimeAfter(timeWeight[n])
<1>1. pointsWeight \in [Nominees -> [Times -> Points]] /\ timeWeight \in [Nominees -> Times]
  BY TypedTypes DEF Types
<1>2. QED
  BY <1>1 DEF voteForNomineeWeights

\* What it writes for the sum.
LEMMA VotedSum ==
  ASSUME NEW u \in Users, NEW n \in Nominees, NEW weight \in 0..MAX_WEIGHT,
         voteForNomineeWeights(u, n, weight)
  PROVE  /\ SumFillable
         /\ pointsSum' =
                [SumPoints EXCEPT ![NextTime] =
                    Revoted(SumPoints[NextTime], CurrentSum,
                            voteUserSlopes[u][n], NewVote(u, weight))]
         /\ timeSum' = TimeAfter(timeSum)
BY DEF voteForNomineeWeights

-----------------------------------------------------------------------------
(* The past                                                                 *)

\* A step writes no point of the past.
LEMMA PastStep ==
  ASSUME Typed, [Next]_vars, NEW t \in Times, t <= now
  PROVE  /\ t <= timeSum => pointsSum'[t] = pointsSum[t]
         /\ \A n \in Nominees : t <= timeWeight[n] => pointsWeight'[n][t] = pointsWeight[n][t]
<1>1. /\ Types /\ NextTime \in Times /\ now < NextTime /\ now \in Nat /\ NextTime \in Nat /\ t \in Nat
      /\ timeSum \in Nat /\ \A n \in Nominees : timeWeight[n] \in Nat /\ timeWeight[n] \in Times
      /\ timeSum \in Times /\ Filled
  BY TypedTypes, WeekSteps DEF Types
<1>2. t # NextTime
  BY <1>1
<1>3. ASSUME t <= timeSum
      PROVE  SumPoints[t] = pointsSum[t]
  BY <1>1, <1>3, FillKeeps DEF SumPoints
<1>4. ASSUME NEW n \in Nominees, t <= timeWeight[n]
      PROVE  WeightPoints(n)[t] = pointsWeight[n][t]
  BY <1>1, <1>4, FillKeeps DEF WeightPoints
<1>5. ASSUME t <= timeSum
      PROVE  pointsSum'[t] = pointsSum[t]
  <2>1. CASE \E n \in Nominees : removeNominee(n)
    <3>1. PICK n \in Nominees : removeNominee(n)
      BY <2>1
    <3>2. SumFillable /\ pointsSum' = [SumPoints EXCEPT ![NextTime].bias = CurrentSum - CurrentWeight(n)]
      BY <3>1 DEF removeNominee
    <3>3. SumPoints \in [Times -> Points]
      BY <1>1, <3>2, SumFilled
    <3>4. QED
      BY <1>2, <1>3, <1>5, <3>2, <3>3
  <2>2. CASE \E n \in Nominees : Voted(n)
    <3>1. PICK n \in Nominees, u \in Users, weight \in 0..MAX_WEIGHT : voteForNomineeWeights(u, n, weight)
      BY <2>2 DEF Voted
    <3>2. SumFillable /\ pointsSum' = [SumPoints EXCEPT ![NextTime] =
              Revoted(SumPoints[NextTime], CurrentSum, voteUserSlopes[u][n], NewVote(u, weight))]
      BY <3>1, VotedSum
    <3>3. SumPoints \in [Times -> Points]
      BY <1>1, <3>2, SumFilled
    <3>4. QED
      BY <1>2, <1>3, <1>5, <3>2, <3>3
  <2>3. QED
    BY <1>3, <1>5, <2>1, <2>2, SumStep
<1>6. ASSUME NEW n \in Nominees, t <= timeWeight[n]
      PROVE  pointsWeight'[n][t] = pointsWeight[n][t]
  <2>0. pointsWeight \in [Nominees -> [Times -> Points]]
    BY <1>1 DEF Types
  <2>1. CASE Kept(n)
    BY <2>1 DEF Kept
  <2>2. CASE addNominee(n)
    BY <2>2 DEF addNominee
  <2>3. CASE checkpointNominee(n)
    <3>1. pointsWeight'[n] = WeightPoints(n)
      BY <2>0, <2>3 DEF checkpointNominee
    <3>2. QED
      BY <1>4, <1>6, <3>1
  <2>4. CASE removeNominee(n)
    <3>1. /\ WeightFillable(n)
          /\ pointsWeight'[n] = [WeightPoints(n) EXCEPT ![NextTime].bias = RemovedBias(n)]
      BY <2>0, <2>4 DEF removeNominee
    <3>2. WeightPoints(n) \in [Times -> Points]
      BY <1>1, <3>1, WeightFilled
    <3>3. QED
      BY <1>2, <1>4, <1>6, <3>1, <3>2
  <2>5. CASE Voted(n)
    <3>1. PICK u \in Users, weight \in 0..MAX_WEIGHT : voteForNomineeWeights(u, n, weight)
      BY <2>5 DEF Voted
    <3>2. WeightFillable(n) /\ pointsWeight'[n] = [WeightPoints(n) EXCEPT ![NextTime] =
              Revoted(WeightPoints(n)[NextTime], CurrentWeight(n), voteUserSlopes[u][n], NewVote(u, weight))]
      BY <3>1, VotedPoints
    <3>3. WeightPoints(n) \in [Times -> Points]
      BY <1>1, <3>2, WeightFilled
    <3>4. QED
      BY <1>2, <1>4, <1>6, <3>2, <3>3
  <2>6. QED
    BY <2>1, <2>2, <2>3, <2>4, <2>5, NomineeStep
<1>7. QED
  BY <1>5, <1>6

\* The weights by which an epoch is rewarded are final: no vote, removal or late
\* checkpoint changes a point whose time has come.
THEOREM PastFinal == Spec => PastIsFinal
<1>1. Typed /\ [Next]_vars =>
          [\A t \in Times : t <= now =>
               /\ t <= timeSum => pointsSum'[t] = pointsSum[t]
               /\ \A n \in Nominees :
                      (mapNomineeIds[n] > 0 /\ t <= timeWeight[n]) =>
                          pointsWeight'[n][t] = pointsWeight[n][t]]_vars
  BY PastStep
<1>2. QED
  BY <1>1, TypedHolds, PTL DEF Spec, PastIsFinal

-----------------------------------------------------------------------------
(* Removed nominees                                                         *)

\* Whatever happens to a removed nominee, its weight stays zero.
LEMMA RemovedStep ==
  ASSUME Typed, RemovedHasNoWeight, [Next]_vars
  PROVE  RemovedHasNoWeight'
<1> SUFFICES ASSUME NEW n \in Nominees, mapRemovedNominees'[n] > 0
             PROVE  pointsWeight'[n][timeWeight'[n]].bias = 0
  BY DEF RemovedHasNoWeight
<1>1. /\ Types /\ Filled /\ now \in StartTime..MaxTime /\ NextTime \in Times
      /\ pointsWeight \in [Nominees -> [Times -> Points]] /\ timeWeight \in [Nominees -> Times]
      /\ timeWeight[n] \in Times /\ pointsWeight[n] \in [Times -> Points]
  BY TypedTypes DEF Types
<1>2. CASE Kept(n)
  BY <1>2 DEF Kept, RemovedHasNoWeight
<1>3. CASE addNominee(n)
  BY <1>3 DEF addNominee
<1>4. CASE checkpointNominee(n)
  <2>1. /\ pointsWeight'[n] = WeightPoints(n) /\ timeWeight'[n] = TimeAfter(timeWeight[n])
        /\ mapRemovedNominees'[n] = mapRemovedNominees[n]
    BY <1>1, <1>4 DEF checkpointNominee, setVars
  <2>2. pointsWeight[n][timeWeight[n]].bias = 0
    BY <2>1 DEF RemovedHasNoWeight
  <2>3. /\ LastFilled(timeWeight[n]) \in Times /\ TimeAfter(timeWeight[n]) \in Times
        /\ timeWeight[n] <= TimeAfter(timeWeight[n])
        /\ TimeAfter(timeWeight[n]) <= LastFilled(timeWeight[n])
    BY <1>1, FillReach DEF Filled
  <2>4. WeightPoints(n)[TimeAfter(timeWeight[n])].bias = 0
    BY <1>1, <2>2, <2>3, FillZero DEF WeightPoints
  <2>5. QED
    BY <2>1, <2>4
<1>5. CASE removeNominee(n)
  <2>1. /\ WeightFillable(n) /\ timeWeight'[n] = NextTime
        /\ pointsWeight'[n] = [WeightPoints(n) EXCEPT ![NextTime].bias = 0]
    BY <1>1, <1>5 DEF removeNominee, RemovedBias
  <2>2. WeightPoints(n) \in [Times -> Points]
    BY <1>1, <2>1, WeightFilled
  <2>3. QED
    BY <1>1, <2>1, <2>2 DEF Points
<1>6. CASE Voted(n)
  BY <1>6 DEF Voted, voteForNomineeWeights, setVars
<1>7. QED
  BY <1>2, <1>3, <1>4, <1>5, <1>6, NomineeStep

\* A removed nominee never has a weight again: neither a fill nor a second
\* removal of it gives it one.
THEOREM RemovedWeightless == Spec => []RemovedHasNoWeight
<1>1. Init => RemovedHasNoWeight
  BY DEF Init, RemovedHasNoWeight
<1>2. Typed /\ RemovedHasNoWeight /\ [Next]_vars => RemovedHasNoWeight'
  BY RemovedStep
<1>3. QED
  BY <1>1, <1>2, TypedHolds, PTL DEF Spec

-----------------------------------------------------------------------------
(* Nominees that were never added                                           *)

Known == {n \in Nominees : mapNomineeIds[n] > 0 \/ mapRemovedNominees[n] > 0}

\* The list of nominees holds only nominees that were added; for any other, no
\* point was written and nobody has voted.
Untouched ==
    /\ \A i \in 1..Len(setNominees) : setNominees[i] \in Known
    /\ \A n \in Nominees : n \notin Known =>
           /\ \A t \in Times : pointsWeight[n][t] = NoPoint
           /\ \A u \in Users : voteUserSlopes[u][n] = NoVote

\* Only an addition makes a nominee known, and it stays so.
LEMMA KnownStep ==
  ASSUME Typed, Untouched, [Next]_vars, NEW n \in Nominees
  PROVE  /\ n \in Known => n \in Known'
         /\ n \in Known' => n \in Known \/ addNominee(n)
<1>1. /\ mapNomineeIds \in [Nominees -> Nat] /\ setNominees \in Seq(Nominees)
      /\ mapRemovedNominees \in [Nominees -> 0..Len(setRemovedNominees)]
      /\ setRemovedNominees \in Seq(Nominees)
  BY TypedTypes DEF Types
<1>2. Len(setNominees) \in Nat /\ Len(setRemovedNominees) \in Nat
  BY <1>1
<1>3. CASE UNCHANGED <<mapNomineeIds, mapRemovedNominees>>
  BY <1>3 DEF Known
<1>4. ASSUME NEW m \in Nominees, addNominee(m)
      PROVE  /\ n \in Known => n \in Known'
             /\ n \in Known' => n \in Known \/ addNominee(n)
  <2>1. /\ mapNomineeIds' = [mapNomineeIds EXCEPT ![m] = Len(setNominees) + 1]
        /\ mapRemovedNominees' = mapRemovedNominees
    BY <1>4 DEF addNominee
  <2>2. QED
    BY <1>1, <1>2, <1>4, <2>1 DEF Known
<1>5. ASSUME NEW m \in Nominees, removeNominee(m)
      PROVE  /\ n \in Known => n \in Known'
             /\ n \in Known' => n \in Known
  <2> DEFINE id == mapNomineeIds[m]
             last == setNominees[Len(setNominees)]
  <2>1. /\ id > 0 /\ id <= Len(setNominees) /\ id \in Nat
        /\ mapNomineeIds' = [mapNomineeIds EXCEPT ![m] = 0, ![last] = id]
        /\ mapRemovedNominees' = [mapRemovedNominees EXCEPT ![m] = Len(setRemovedNominees) + 1]
    BY <1>1, <1>5 DEF removeNominee, IdsAfterRemoval
  <2>2. Len(setNominees) \in 1..Len(setNominees) /\ last \in Nominees
    BY <1>1, <1>2, <2>1
  <2>3. last \in Known /\ m \in Known
    BY <2>1, <2>2 DEF Known, Untouched
  <2> HIDE DEF last, id
  <2>4. CASE n = m
    <3>1. n \in Known'
      BY <1>1, <1>2, <2>1, <2>4 DEF Known
    <3>2. QED
      BY <2>3, <2>4, <3>1
  <2>5. CASE n # m /\ n = last
    <3>1. n \in Known'
      BY <1>1, <2>1, <2>5 DEF Known
    <3>2. QED
      BY <2>3, <2>5, <3>1
  <2>6. CASE n # m /\ n # last
    BY <1>1, <2>1, <2>2, <2>6 DEF Known
  <2>7. QED
    BY <2>4, <2>5, <2>6
<1>6. QED
  <2>1. CASE \E m \in Nominees : addNominee(m)
    BY <1>4, <2>1
  <2>2. CASE \E m \in Nominees : removeNominee(m)
    BY <1>5, <2>2
  <2>3. CASE \/ checkpoint \/ Tick \/ UNCHANGED vars
             \/ \E m \in Nominees : checkpointNominee(m)
             \/ \E u \in Users, m \in Nominees : revokeRemovedNomineeVotingPower(u, m)
             \/ \E u \in Users, m \in Nominees, weight \in 0..MAX_WEIGHT : voteForNomineeWeights(u, m, weight)
             \/ \E u \in Users, slope \in Slopes, end \in LockEnds : ChangeLock(u, slope, end)
    <3>1. UNCHANGED <<mapNomineeIds, mapRemovedNominees>>
      BY <2>3 DEF checkpoint, Tick, vars, setVars, checkpointNominee, revokeRemovedNomineeVotingPower,
                  voteForNomineeWeights, ChangeLock
    <3>2. QED
      BY <1>3, <3>1
  <2>4. QED
    BY <2>1, <2>2, <2>3 DEF Next

\* A nominee that is not added stays untouched.
LEMMA UntouchedStep ==
  ASSUME Typed, Untouched, [Next]_vars
  PROVE  Untouched'
<1>1. /\ mapNomineeIds \in [Nominees -> Nat] /\ setNominees \in Seq(Nominees)
      /\ pointsWeight \in [Nominees -> [Times -> Points]]
  BY TypedTypes DEF Types
<1>2. \A i \in 1..Len(setNominees') :
          \/ \E j \in 1..Len(setNominees) : setNominees'[i] = setNominees[j]
          \/ addNominee(setNominees'[i]) /\ setNominees'[i] \in Nominees
  <2>1. ASSUME NEW m \in Nominees, addNominee(m), NEW i \in 1..Len(setNominees')
        PROVE  \/ \E j \in 1..Len(setNominees) : setNominees'[i] = setNominees[j]
               \/ setNominees'[i] = m
    <3>1. setNominees' = Append(setNominees, m)
      BY <2>1 DEF addNominee
    <3>2. CASE i = Len(setNominees) + 1
      BY <1>1, <3>1, <3>2
    <3>3. CASE i # Len(setNominees) + 1
      <4>1. i \in 1..Len(setNominees) /\ setNominees'[i] = setNominees[i]
        BY <1>1, <3>1, <3>3
      <4>2. QED
        BY <4>1
    <3>4. QED
      BY <3>2, <3>3
  <2>2. ASSUME NEW m \in Nominees, removeNominee(m), NEW i \in 1..Len(setNominees')
        PROVE  \E j \in 1..Len(setNominees) : setNominees'[i] = setNominees[j]
    <3> DEFINE id == mapNomineeIds[m]
               last == setNominees[Len(setNominees)]
               moved == [setNominees EXCEPT ![id] = last]
    <3>1. /\ id > 0 /\ id <= Len(setNominees) /\ id \in Nat
          /\ setNominees' = SubSeq(moved, 1, Len(setNominees) - 1)
      BY <1>1, <2>2 DEF removeNominee
    <3>2. Len(setNominees) \in Nat /\ Len(setNominees) \in 1..Len(setNominees) /\ id \in 1..Len(setNominees)
      BY <1>1, <3>1
    <3>3. moved \in Seq(Nominees) /\ Len(moved) = Len(setNominees)
      BY <1>1, <3>2
    <3>4. moved[id] = last /\ \A j \in 1..Len(setNominees) : j # id => moved[j] = setNominees[j]
      BY <1>1, <3>2
    <3> HIDE DEF moved, id
    <3>5. i \in 1..Len(setNominees) /\ setNominees'[i] = moved[i]
      BY <3>1, <3>2, <3>3
    <3>6. QED
      BY <3>2, <3>4, <3>5
  <2>3. CASE \E m \in Nominees : addNominee(m)
    BY <2>1, <2>3
  <2>4. CASE \E m \in Nominees : removeNominee(m)
    BY <2>2, <2>4
  <2>5. CASE \/ checkpoint \/ Tick \/ UNCHANGED vars
             \/ \E m \in Nominees : checkpointNominee(m)
             \/ \E u \in Users, m \in Nominees : revokeRemovedNomineeVotingPower(u, m)
             \/ \E u \in Users, m \in Nominees, weight \in 0..MAX_WEIGHT : voteForNomineeWeights(u, m, weight)
             \/ \E u \in Users, slope \in Slopes, end \in LockEnds : ChangeLock(u, slope, end)
    <3>1. setNominees' = setNominees
      BY <2>5 DEF checkpoint, Tick, vars, setVars, checkpointNominee, revokeRemovedNomineeVotingPower,
                  voteForNomineeWeights, ChangeLock
    <3>2. QED
      BY <3>1
  <2>6. QED
    BY <2>3, <2>4, <2>5 DEF Next
<1>3. ASSUME NEW i \in 1..Len(setNominees')
      PROVE  setNominees'[i] \in Known'
  <2>1. CASE \E j \in 1..Len(setNominees) : setNominees'[i] = setNominees[j]
    <3>1. PICK j \in 1..Len(setNominees) : setNominees'[i] = setNominees[j]
      BY <2>1
    <3> DEFINE m == setNominees[j]
    <3>2. m \in Nominees /\ m \in Known
      BY <1>1 DEF Untouched
    <3> HIDE DEF m
    <3>3. m \in Known'
      BY <3>2, KnownStep
    <3>4. QED
      BY <3>1, <3>3 DEF m
  <2>2. CASE addNominee(setNominees'[i]) /\ setNominees'[i] \in Nominees
    <3> DEFINE m == setNominees'[i]
    <3>1. mapNomineeIds' = [mapNomineeIds EXCEPT ![m] = Len(setNominees) + 1] /\ m \in Nominees
      BY <2>2 DEF addNominee
    <3> HIDE DEF m
    <3>2. mapNomineeIds'[m] > 0
      BY <1>1, <3>1
    <3>3. QED
      BY <3>1, <3>2 DEF Known, m
  <2>3. QED
    BY <1>2, <2>1, <2>2
<1>4. ASSUME NEW n \in Nominees, n \notin Known'
      PROVE  /\ \A t \in Times : pointsWeight'[n][t] = NoPoint
             /\ \A u \in Users : voteUserSlopes'[u][n] = NoVote
  <2>1. n \notin Known
    BY <1>4, KnownStep
  <2>2. CASE Kept(n)
    <3>1. mapRemovedNominees[n] = 0
      <4>1. mapRemovedNominees \in [Nominees -> 0..Len(setRemovedNominees)]
        BY TypedTypes DEF Types
      <4>2. QED
        BY <2>1, <4>1 DEF Known
    <3>2. QED
      BY <2>1, <2>2, <3>1 DEF Kept, Untouched
  <2>3. CASE addNominee(n)
    <3>1. mapNomineeIds'[n] = Len(setNominees) + 1
      BY <1>1, <2>3 DEF addNominee
    <3>2. QED
      BY <1>1, <1>4, <3>1 DEF Known
  <2>4. CASE checkpointNominee(n) \/ removeNominee(n) \/ Voted(n)
    <3>1. WeightFillable(n)
      BY <2>4 DEF checkpointNominee, removeNominee, Voted, voteForNomineeWeights
    <3>2. QED
      BY <2>1, <3>1 DEF WeightFillable, Known
  <2>5. QED
    BY <2>2, <2>3, <2>4, NomineeStep
<1>5. QED
  BY <1>3, <1>4 DEF Untouched

-----------------------------------------------------------------------------
(* What a vote changes in the sums                                          *)

\* The sums for a nominee, when one vote for it is replaced.
LEMMA NomineeRevoted ==
  ASSUME NEW u \in Users, NEW n \in Nominees, NEW new \in Votes, NEW t \in Times,
         voteUserSlopes \in [Users -> [Nominees -> Votes]],
         voteUserSlopes' = [voteUserSlopes EXCEPT ![u][n] = new]
  PROVE  /\ BiasOf(n, t)' = BiasOf(n, t) - BiasAt(voteUserSlopes[u][n], t) + BiasAt(new, t)
         /\ SlopeOf(n, t)' = SlopeOf(n, t) - SlopeAt(voteUserSlopes[u][n], t) + SlopeAt(new, t)
         /\ BiasAt(voteUserSlopes[u][n], t) <= BiasOf(n, t)
         /\ SlopeAt(voteUserSlopes[u][n], t) <= SlopeOf(n, t)
         /\ BiasOf(n, t)' \in Nat /\ SlopeOf(n, t)' \in Nat
         /\ \A m \in Nominees : m # n => BiasOf(m, t)' = BiasOf(m, t) /\ SlopeOf(m, t)' = SlopeOf(m, t)
<1> DEFINE old == voteUserSlopes[u][n]
<1>0. NumUsers \in Nat /\ Users = 1..NumUsers /\ old \in Votes
  BY VotingSets
<1>1. /\ \A v \in Users : v # u => voteUserSlopes'[v][n] = voteUserSlopes[v][n]
      /\ voteUserSlopes'[u][n] = new
      /\ \A v \in Users, m \in Nominees : m # n => voteUserSlopes'[v][m] = voteUserSlopes[v][m]
      /\ \A v \in Users : voteUserSlopes'[v][n] \in Votes
  OBVIOUS
<1>2. \A vote \in Votes : BiasAt(vote, t) \in Nat /\ SlopeAt(vote, t) \in Nat
  BY WeekOfVote
<1>3. BiasesOf(n, t) \in [1..NumUsers -> Nat] /\ BiasesOf(n, t)' \in [1..NumUsers -> Nat]
  BY <1>0, <1>1, <1>2 DEF BiasesOf
<1>4. SlopesOf(n, t) \in [1..NumUsers -> Nat] /\ SlopesOf(n, t)' \in [1..NumUsers -> Nat]
  BY <1>0, <1>1, <1>2 DEF SlopesOf
<1>5. /\ BiasesOf(n, t)[u] = BiasAt(old, t) /\ BiasesOf(n, t)'[u] = BiasAt(new, t)
      /\ \A v \in 1..NumUsers : v # u => BiasesOf(n, t)'[v] = BiasesOf(n, t)[v]
  BY <1>0, <1>1 DEF BiasesOf
<1>6. /\ SlopesOf(n, t)[u] = SlopeAt(old, t) /\ SlopesOf(n, t)'[u] = SlopeAt(new, t)
      /\ \A v \in 1..NumUsers : v # u => SlopesOf(n, t)'[v] = SlopesOf(n, t)[v]
  BY <1>0, <1>1 DEF SlopesOf
<1>7. Total(BiasesOf(n, t)', NumUsers)
        = Total(BiasesOf(n, t), NumUsers) - BiasesOf(n, t)[u] + BiasesOf(n, t)'[u]
  BY <1>0, <1>3, <1>5, TotalReplaced
<1>8. Total(SlopesOf(n, t)', NumUsers)
        = Total(SlopesOf(n, t), NumUsers) - SlopesOf(n, t)[u] + SlopesOf(n, t)'[u]
  BY <1>0, <1>4, <1>6, TotalReplaced
<1>9. /\ BiasesOf(n, t)[u] <= Total(BiasesOf(n, t), NumUsers)
      /\ SlopesOf(n, t)[u] <= Total(SlopesOf(n, t), NumUsers)
      /\ Total(BiasesOf(n, t)', NumUsers) \in Nat /\ Total(SlopesOf(n, t)', NumUsers) \in Nat
  BY <1>0, <1>3, <1>4, TotalNonNegative
<1>10. /\ BiasOf(n, t)' = BiasOf(n, t) - BiasAt(old, t) + BiasAt(new, t)
       /\ SlopeOf(n, t)' = SlopeOf(n, t) - SlopeAt(old, t) + SlopeAt(new, t)
       /\ BiasAt(old, t) <= BiasOf(n, t) /\ SlopeAt(old, t) <= SlopeOf(n, t)
       /\ BiasOf(n, t)' \in Nat /\ SlopeOf(n, t)' \in Nat
  BY <1>5, <1>6, <1>7, <1>8, <1>9 DEF BiasOf, SlopeOf
<1>11. ASSUME NEW m \in Nominees, m # n
       PROVE  BiasOf(m, t)' = BiasOf(m, t) /\ SlopeOf(m, t)' = SlopeOf(m, t)
  <2>1. BiasesOf(m, t)' = BiasesOf(m, t) /\ SlopesOf(m, t)' = SlopesOf(m, t)
    BY <1>0, <1>1, <1>11 DEF BiasesOf, SlopesOf
  <2>2. QED
    BY <2>1 DEF BiasOf, SlopeOf
<1>12. QED
  BY <1>10, <1>11

\* The same for the sum of all.
LEMMA SumRevoted ==
  ASSUME NEW u \in Users, NEW n \in Nominees, NEW new \in Votes, NEW t \in Times,
         voteUserSlopes \in [Users -> [Nominees -> Votes]],
         voteUserSlopes' = [voteUserSlopes EXCEPT ![u][n] = new]
  PROVE  /\ SumBias(t)' = SumBias(t) - BiasAt(voteUserSlopes[u][n], t) + BiasAt(new, t)
         /\ SumSlope(t)' = SumSlope(t) - SlopeAt(voteUserSlopes[u][n], t) + SlopeAt(new, t)
         /\ BiasAt(voteUserSlopes[u][n], t) <= SumBias(t)
         /\ SlopeAt(voteUserSlopes[u][n], t) <= SumSlope(t)
<1> DEFINE old == voteUserSlopes[u][n]
<1>0. NumNominees \in Nat /\ Nominees = 1..NumNominees /\ old \in Votes
  BY VotingSets
<1>1. /\ BiasOf(n, t)' = BiasOf(n, t) - BiasAt(old, t) + BiasAt(new, t)
      /\ SlopeOf(n, t)' = SlopeOf(n, t) - SlopeAt(old, t) + SlopeAt(new, t)
      /\ BiasAt(old, t) <= BiasOf(n, t) /\ SlopeAt(old, t) <= SlopeOf(n, t)
      /\ BiasOf(n, t)' \in Nat /\ SlopeOf(n, t)' \in Nat
      /\ \A m \in Nominees : m # n => BiasOf(m, t)' = BiasOf(m, t) /\ SlopeOf(m, t)' = SlopeOf(m, t)
  BY NomineeRevoted
<1>2. \A m \in Nominees : BiasOf(m, t) \in Nat /\ SlopeOf(m, t) \in Nat
  BY WeekOfNominee
<1>3. BiasesAt(t) \in [1..NumNominees -> Nat] /\ BiasesAt(t)' \in [1..NumNominees -> Nat]
  BY <1>0, <1>1, <1>2 DEF BiasesAt
<1>4. SlopesAt(t) \in [1..NumNominees -> Nat] /\ SlopesAt(t)' \in [1..NumNominees -> Nat]
  BY <1>0, <1>1, <1>2 DEF SlopesAt
<1>5. /\ BiasesAt(t)[n] = BiasOf(n, t) /\ BiasesAt(t)'[n] = BiasOf(n, t)'
      /\ \A m \in 1..NumNominees : m # n => BiasesAt(t)'[m] = BiasesAt(t)[m]
  BY <1>0, <1>1 DEF BiasesAt
<1>6. /\ SlopesAt(t)[n] = SlopeOf(n, t) /\ SlopesAt(t)'[n] = SlopeOf(n, t)'
      /\ \A m \in 1..NumNominees : m # n => SlopesAt(t)'[m] = SlopesAt(t)[m]
  BY <1>0, <1>1 DEF SlopesAt
<1>7. Total(BiasesAt(t)', NumNominees)
        = Total(BiasesAt(t), NumNominees) - BiasesAt(t)[n] + BiasesAt(t)'[n]
  BY <1>0, <1>3, <1>5, TotalReplaced
<1>8. Total(SlopesAt(t)', NumNominees)
        = Total(SlopesAt(t), NumNominees) - SlopesAt(t)[n] + SlopesAt(t)'[n]
  BY <1>0, <1>4, <1>6, TotalReplaced
<1>9. /\ BiasesAt(t)[n] <= Total(BiasesAt(t), NumNominees)
      /\ SlopesAt(t)[n] <= Total(SlopesAt(t), NumNominees)
      /\ Total(BiasesAt(t), NumNominees) \in Nat /\ Total(SlopesAt(t), NumNominees) \in Nat
  BY <1>0, <1>3, <1>4, TotalNonNegative
<1>10. /\ BiasAt(old, t) \in Nat /\ SlopeAt(old, t) \in Nat
       /\ BiasAt(new, t) \in Nat /\ SlopeAt(new, t) \in Nat
  BY <1>0, WeekOfVote
<1>11. /\ SumBias(t)' = SumBias(t) - BiasOf(n, t) + BiasOf(n, t)' /\ SumBias(t) \in Nat
       /\ SumSlope(t)' = SumSlope(t) - SlopeOf(n, t) + SlopeOf(n, t)' /\ SumSlope(t) \in Nat
       /\ BiasOf(n, t) <= SumBias(t) /\ SlopeOf(n, t) <= SumSlope(t)
  BY <1>5, <1>6, <1>7, <1>8, <1>9 DEF SumBias, SumSlope
<1>12. BiasOf(n, t) \in Nat /\ SlopeOf(n, t) \in Nat
  BY <1>2
<1> HIDE DEF old
<1>13. /\ SumBias(t)' = SumBias(t) - BiasAt(old, t) + BiasAt(new, t) /\ BiasAt(old, t) <= SumBias(t)
       /\ SumSlope(t)' = SumSlope(t) - SlopeAt(old, t) + SlopeAt(new, t) /\ SlopeAt(old, t) <= SumSlope(t)
  BY <1>1, <1>10, <1>11, <1>12
<1>14. QED
  BY <1>13 DEF old

\* What a vote writes when the point that it finds is exact.
LEMMA RevotedExact ==
  ASSUME now \in StartTime..MaxTime, NEW old \in Votes, NEW new \in Votes, new.end > NextTime,
         NEW b \in Nat, NEW s \in Nat, BiasAt(old, NextTime) <= b, SlopeAt(old, NextTime) <= s
  PROVE  Revoted([bias |-> b, slope |-> s], b, old, new)
           = [bias  |-> b - BiasAt(old, NextTime) + BiasAt(new, NextTime),
              slope |-> s - SlopeAt(old, NextTime) + SlopeAt(new, NextTime)]
<1>1. NextTime \in Times
  BY NextWeek DEF NextTime, NextAfter
<1>2. /\ BiasAt(old, NextTime) \in Nat /\ BiasAt(new, NextTime) \in Nat
      /\ old.slope \in Nat /\ new.slope \in Nat /\ SlopeAt(new, NextTime) = new.slope
  BY <1>1, WeekOfVote DEF Votes, SlopeAt
<1>3. MaxAndSub(b + BiasAt(new, NextTime), BiasAt(old, NextTime))
        = b - BiasAt(old, NextTime) + BiasAt(new, NextTime)
  BY <1>2 DEF MaxAndSub
<1>4. CASE old.end > NextTime
  <2>1. SlopeAt(old, NextTime) = old.slope
    BY <1>4 DEF SlopeAt
  <2>2. MaxAndSub(s + new.slope, old.slope) = s - old.slope + new.slope
    BY <1>2, <2>1 DEF MaxAndSub
  <2>3. QED
    BY <1>2, <1>3, <1>4, <2>1, <2>2 DEF Revoted
<1>5. CASE ~ (old.end > NextTime)
  <2>1. SlopeAt(old, NextTime) = 0
    BY <1>5 DEF SlopeAt
  <2>2. s + new.slope = s - 0 + new.slope
    BY <1>2
  <2>3. QED
    BY <1>2, <1>3, <1>5, <2>1, <2>2 DEF Revoted
<1>6. QED
  BY <1>4, <1>5

-----------------------------------------------------------------------------
(* Exact points                                                             *)

\* The point of a nominee holds what its votes are worth at that time, and what
\* is scheduled after it are the changes of its votes.
PointExact(n, t) ==
    /\ pointsWeight[n][t] = [bias |-> BiasOf(n, t), slope |-> SlopeOf(n, t)]
    /\ \A r \in Times : r > t => changesWeight[n][r] = ChangeOf(n, r)

PointsExact ==
    \A n \in Nominees, t \in Times :
        (mapNomineeIds[n] > 0 /\ mapRemovedNominees[n] = 0 /\ t = timeWeight[n] /\ InReach(t)) =>
            PointExact(n, t)

\* The same for the sum, as long as no nominee was removed.
SumPointExact(t) ==
    /\ pointsSum[t] = [bias |-> SumBias(t), slope |-> SumSlope(t)]
    /\ \A r \in Times : r > t => changesSum[r] = SumChange(r)

SumPointsExact ==
    \A t \in Times : (setRemovedNominees = <<>> /\ t = timeSum /\ InReach(t)) => SumPointExact(t)

\* The slope changes of future weeks in terms of the sums over votes.
ChangesSummed ==
    \A t \in Times : t > now =>
        /\ \A n \in Nominees : changesWeight[n][t] = ChangeOf(n, t)
        /\ changesSum[t] = SumChange(t)

\* They follow from the invariant of the votes.
LEMMA ChangesSummedHolds == Inv => ChangesSummed
<1> SUFFICES ASSUME Inv, NEW t \in Times, t > now
             PROVE  /\ \A n \in Nominees : changesWeight[n][t] = ChangeOf(n, t)
                    /\ changesSum[t] = SumChange(t)
  BY DEF ChangesSummed
<1>1. \A n \in Nominees : changesWeight[n][t] = ChangeOf(n, t)
  BY DEF Inv, ChangesExact, ChangeOf
<1>2. changesSum[t] = Total(ScheduledChanges(t), NumNominees)
  BY DEF Inv, ChangesExact
<1>3. ScheduledChanges(t) = ChangesAt(t)
  BY <1>1, VotingSets DEF ScheduledChanges, ChangesAt
<1>4. QED
  BY <1>1, <1>2, <1>3 DEF SumChange

\* A fill that is in reach of the block's time makes the point of the next week
\* exact.
LEMMA WeightFilledExact ==
  ASSUME Typed, NEW n \in Nominees, PointExact(n, timeWeight[n]), InReach(timeWeight[n])
  PROVE  /\ WeightPoints(n)[NextTime] = [bias |-> BiasOf(n, NextTime), slope |-> SlopeOf(n, NextTime)]
         /\ CurrentWeight(n) = BiasOf(n, NextTime)
         /\ TimeAfter(timeWeight[n]) = NextTime
<1> DEFINE b == [t \in Times |-> BiasOf(n, t)]
           s == [t \in Times |-> SlopeOf(n, t)]
           c == [t \in Times |-> ChangeOf(n, t)]
           time == timeWeight[n]
<1>1. /\ Types /\ Filled /\ now \in StartTime..MaxTime /\ NextTime \in Times
      /\ timeWeight[n] \in Times /\ time <= NextTime
      /\ voteUserSlopes \in [Users -> [Nominees -> Votes]]
  BY TypedTypes DEF Types, Filled
<1>2. LastFilled(time) = NextTime /\ TimeAfter(time) = NextTime
  BY <1>1, FillReach
<1>3. /\ b \in [Times -> Nat] /\ s \in [Times -> Nat] /\ c \in [Times -> Nat]
      /\ \A t \in Times : t + WEEK \in Times =>
             /\ b[t] = b[t + WEEK] + s[t] * WEEK
             /\ s[t] = s[t + WEEK] + c[t + WEEK]
      /\ \A t \in Times : s[t] <= b[t]
  BY <1>1, WeekOfNominee
<1>4. /\ pointsWeight[n][time] = [bias |-> b[time], slope |-> s[time]]
      /\ \A t \in Times : t > time => changesWeight[n][t] = c[t]
  BY <1>1 DEF PointExact
<1>5. b[NextTime] = BiasOf(n, NextTime) /\ s[NextTime] = SlopeOf(n, NextTime)
  BY <1>1
<1> HIDE DEF b, s, c, time
<1>6. \A t \in Times : time <= t /\ t <= LastFilled(time) =>
          Fill(pointsWeight[n], changesWeight[n], time)[t] = [bias |-> b[t], slope |-> s[t]]
  BY <1>1, <1>2, <1>3, <1>4, FillExact DEF time
<1>7. WeightPoints(n)[NextTime] = [bias |-> b[NextTime], slope |-> s[NextTime]]
  <2>1. NextTime <= NextTime
    BY <1>1, WeekSteps
  <2>2. QED
    BY <1>1, <1>2, <1>6, <2>1 DEF WeightPoints, time
<1>8. QED
  BY <1>2, <1>5, <1>7 DEF CurrentWeight, time

\* The same for the sum.
LEMMA SumFilledExact ==
  ASSUME Typed, SumPointExact(timeSum), InReach(timeSum)
  PROVE  /\ SumPoints[NextTime] = [bias |-> SumBias(NextTime), slope |-> SumSlope(NextTime)]
         /\ CurrentSum = SumBias(NextTime)
         /\ TimeAfter(timeSum) = NextTime
<1> DEFINE b == [t \in Times |-> SumBias(t)]
           s == [t \in Times |-> SumSlope(t)]
           c == [t \in Times |-> SumChange(t)]
           time == timeSum
<1>1. /\ Types /\ Filled /\ now \in StartTime..MaxTime /\ NextTime \in Times
      /\ time \in Times /\ time <= NextTime
      /\ voteUserSlopes \in [Users -> [Nominees -> Votes]]
  BY TypedTypes DEF Types, Filled
<1>2. LastFilled(time) = NextTime /\ TimeAfter(time) = NextTime
  BY <1>1, FillReach
<1>3. /\ b \in [Times -> Nat] /\ s \in [Times -> Nat] /\ c \in [Times -> Nat]
      /\ \A t \in Times : t + WEEK \in Times =>
             /\ b[t] = b[t + WEEK] + s[t] * WEEK
             /\ s[t] = s[t + WEEK] + c[t + WEEK]
      /\ \A t \in Times : s[t] <= b[t]
  BY <1>1, WeekOfSum
<1>4. /\ pointsSum[time] = [bias |-> b[time], slope |-> s[time]]
      /\ \A t \in Times : t > time => changesSum[t] = c[t]
  BY <1>1 DEF SumPointExact
<1>5. b[NextTime] = SumBias(NextTime) /\ s[NextTime] = SumSlope(NextTime)
  BY <1>1
<1> HIDE DEF b, s, c, time
<1>6. \A t \in Times : time <= t /\ t <= LastFilled(time) =>
          Fill(pointsSum, changesSum, time)[t] = [bias |-> b[t], slope |-> s[t]]
  BY <1>1, <1>2, <1>3, <1>4, FillExact DEF time
<1>7. SumPoints[NextTime] = [bias |-> b[NextTime], slope |-> s[NextTime]]
  <2>1. NextTime <= NextTime
    BY <1>1, WeekSteps
  <2>2. QED
    BY <1>1, <1>2, <1>6, <2>1 DEF SumPoints, time
<1>8. QED
  BY <1>2, <1>5, <1>7 DEF CurrentSum, time

\* What was out of reach stays so.
LEMMA ReachStep ==
  ASSUME Typed, Typed', [Next]_vars, NEW time \in Times, InReach(time)'
  PROVE  InReach(time)
<1>1. now \in Nat /\ now' \in Nat /\ WEEK \in Nat /\ MAX_NUM_WEEKS \in Nat /\ time \in Nat
  BY WeekSteps, VotingAssumption DEF Typed, Inv, VoteTypes
<1>2. now <= now'
  BY <1>1 DEF Next, addNominee, checkpoint, checkpointNominee, removeNominee, voteForNomineeWeights,
              revokeRemovedNomineeVotingPower, Tick, ChangeLock, vars
<1>3. MAX_NUM_WEEKS * WEEK \in Nat
  BY <1>1
<1>4. QED
  BY <1>1, <1>2, <1>3 DEF InReach

\* A point that is exact for the next week.
LEMMA NextPointExact ==
  ASSUME Typed, ChangesSummed', now' = now, NEW n \in Nominees, NEW t \in Times, t = NextTime,
         pointsWeight'[n][t] = [bias |-> BiasOf(n, t)', slope |-> SlopeOf(n, t)']
  PROVE  PointExact(n, t)'
<1>1. \A r \in Times : r > t => changesWeight'[n][r] = ChangeOf(n, r)'
  <2>1. \A r \in Times : r > t => r > now'
    <3>1. now \in Nat /\ now < NextTime /\ t \in Nat /\ Times \subseteq Nat
      BY TypedTypes, WeekSteps
    <3>2. QED
      BY <3>1
  <2>2. QED
    BY <2>1 DEF ChangesSummed
<1>2. QED
  BY <1>1 DEF PointExact

\* Votes that stay as they are have the same worth.
LEMMA SameVotes ==
  ASSUME NEW n \in Nominees, NEW t \in Times,
         \A u \in Users : voteUserSlopes'[u][n] = voteUserSlopes[u][n]
  PROVE  BiasOf(n, t)' = BiasOf(n, t) /\ SlopeOf(n, t)' = SlopeOf(n, t) /\ ChangeOf(n, t)' = ChangeOf(n, t)
<1>1. /\ BiasesOf(n, t)' = BiasesOf(n, t) /\ SlopesOf(n, t)' = SlopesOf(n, t)
      /\ ScheduledSlopes(n, t)' = ScheduledSlopes(n, t)
  BY VotingSets DEF BiasesOf, SlopesOf, ScheduledSlopes
<1>2. QED
  BY <1>1 DEF BiasOf, SlopeOf, ChangeOf

\* No step makes the point of a nominee inexact.
LEMMA PointsStep ==
  ASSUME Typed, Typed', ChangesSummed', Untouched, PointsExact, [Next]_vars
  PROVE  PointsExact'
<1> SUFFICES ASSUME NEW n \in Nominees, NEW t \in Times,
                    mapNomineeIds'[n] > 0, mapRemovedNominees'[n] = 0,
                    t = timeWeight'[n], InReach(t)'
             PROVE  PointExact(n, t)'
  BY DEF PointsExact
<1>1. /\ Types /\ Filled /\ now \in StartTime..MaxTime /\ NextTime \in Times
      /\ pointsWeight \in [Nominees -> [Times -> Points]] /\ timeWeight \in [Nominees -> Times]
      /\ timeWeight[n] \in Times /\ timeWeight[n] <= NextTime
      /\ voteUserSlopes \in [Users -> [Nominees -> Votes]]
      /\ mapNomineeIds \in [Nominees -> Nat]
  BY TypedTypes DEF Types, Filled
<1>2. InReach(t)
  BY ReachStep
<1>3. n \in Known'
  BY DEF Known
<1>4. ASSUME mapRemovedNominees[n] = 0, n \in Known, InReach(timeWeight[n])
      PROVE  PointExact(n, timeWeight[n])
  BY <1>1, <1>4 DEF PointsExact, Known
<1>5. CASE Kept(n) /\ ~ addNominee(n)
  <2>1. /\ pointsWeight'[n] = pointsWeight[n] /\ timeWeight[n] = t
        /\ mapRemovedNominees[n] = 0
        /\ changesWeight'[n] = changesWeight[n]
        /\ \A u \in Users : voteUserSlopes'[u][n] = voteUserSlopes[u][n]
    BY <1>5 DEF Kept
  <2>2. n \in Known
    BY <1>3, <1>5, KnownStep
  <2>3. PointExact(n, t)
    BY <1>2, <1>4, <2>1, <2>2
  <2>4. \A r \in Times : /\ BiasOf(n, r)' = BiasOf(n, r) /\ SlopeOf(n, r)' = SlopeOf(n, r)
                         /\ ChangeOf(n, r)' = ChangeOf(n, r)
    BY <2>1, SameVotes
  <2>5. QED
    BY <2>1, <2>3, <2>4 DEF PointExact
<1>6. CASE addNominee(n)
  <2>1. /\ t = NextTime /\ now' = now /\ n \notin Known
        /\ pointsWeight' = pointsWeight /\ voteUserSlopes' = voteUserSlopes
    BY <1>1, <1>6 DEF addNominee, Known, userVars
  <2>2. pointsWeight'[n][t] = NoPoint /\ \A u \in Users : voteUserSlopes'[u][n] = NoVote
    BY <2>1 DEF Untouched
  <2>3. NumUsers \in Nat /\ Users = 1..NumUsers /\ t \in Nat
    BY VotingSets
  <2>4. \A u \in 1..NumUsers : BiasAt(voteUserSlopes'[u][n], t) = 0 /\ SlopeAt(voteUserSlopes'[u][n], t) = 0
    BY <2>2, <2>3 DEF NoVote, BiasAt, SlopeAt
  <2>5. /\ BiasesOf(n, t)' \in [1..NumUsers -> Int] /\ SlopesOf(n, t)' \in [1..NumUsers -> Int]
        /\ \A u \in 1..NumUsers : BiasesOf(n, t)'[u] = 0 /\ SlopesOf(n, t)'[u] = 0
    BY <2>4 DEF BiasesOf, SlopesOf
  <2>6. Total(BiasesOf(n, t)', NumUsers) = 0 /\ Total(SlopesOf(n, t)', NumUsers) = 0
    BY <2>3, <2>5, TotalZero
  <2>7. BiasOf(n, t)' = 0 /\ SlopeOf(n, t)' = 0
    BY <2>6 DEF BiasOf, SlopeOf
  <2>8. pointsWeight'[n][t] = [bias |-> BiasOf(n, t)', slope |-> SlopeOf(n, t)']
    BY <2>2, <2>7 DEF NoPoint
  <2>9. QED
    BY <2>1, <2>8, NextPointExact
<1>7. CASE checkpointNominee(n)
  <2>1. /\ WeightFillable(n) /\ pointsWeight'[n] = WeightPoints(n) /\ t = TimeAfter(timeWeight[n])
        /\ mapRemovedNominees[n] = 0 /\ now' = now /\ voteUserSlopes' = voteUserSlopes
    BY <1>1, <1>7 DEF checkpointNominee, setVars, userVars
  <2>2. InReach(timeWeight[n])
    BY <1>1, <1>2, <2>1, FillReach
  <2>3. n \in Known
    BY <2>1 DEF WeightFillable, Known
  <2>4. /\ WeightPoints(n)[NextTime] = [bias |-> BiasOf(n, NextTime), slope |-> SlopeOf(n, NextTime)]
        /\ t = NextTime
    BY <1>4, <2>1, <2>2, <2>3, WeightFilledExact
  <2>5. BiasOf(n, t)' = BiasOf(n, t) /\ SlopeOf(n, t)' = SlopeOf(n, t)
    BY <2>1, SameVotes
  <2>6. pointsWeight'[n][t] = [bias |-> BiasOf(n, t)', slope |-> SlopeOf(n, t)']
    BY <2>1, <2>4, <2>5
  <2>7. QED
    BY <2>1, <2>4, <2>6, NextPointExact
<1>8. CASE removeNominee(n)
  <2>1. mapRemovedNominees'[n] = Len(setRemovedNominees) + 1
    BY <1>1, <1>8 DEF removeNominee, Types
  <2>2. Len(setRemovedNominees) \in Nat
    BY <1>1 DEF Types
  <2>3. QED
    BY <2>1, <2>2
<1>9. CASE Voted(n)
  <2>1. PICK u \in Users, weight \in 0..MAX_WEIGHT : voteForNomineeWeights(u, n, weight)
    BY <1>9 DEF Voted
  <2> DEFINE old == voteUserSlopes[u][n]
             new == NewVote(u, weight)
  <2>2. /\ pointsWeight'[n] =
               [WeightPoints(n) EXCEPT ![NextTime] =
                   Revoted(WeightPoints(n)[NextTime], CurrentWeight(n), old, new)]
        /\ t = TimeAfter(timeWeight[n])
        /\ voteUserSlopes' = [voteUserSlopes EXCEPT ![u][n] = new]
        /\ mapRemovedNominees[n] = 0 /\ new.end > NextTime
        /\ new \in Votes /\ old \in Votes
        /\ WeightFillable(n) /\ now' = now
    BY <2>1, VotedVotes, VotedPoints
  <2>3. InReach(timeWeight[n])
    BY <1>1, <1>2, <2>2, FillReach
  <2>4. n \in Known
    BY <2>2 DEF WeightFillable, Known
  <2>5. /\ WeightPoints(n)[NextTime] = [bias |-> BiasOf(n, NextTime), slope |-> SlopeOf(n, NextTime)]
        /\ CurrentWeight(n) = BiasOf(n, NextTime)
        /\ t = NextTime
    BY <1>4, <2>2, <2>3, <2>4, WeightFilledExact
  <2>6. WeightPoints(n) \in [Times -> Points]
    BY <1>1, <2>2, WeightFilled
  <2> HIDE DEF new, old
  <2>7. /\ BiasOf(n, t)' = BiasOf(n, t) - BiasAt(old, t) + BiasAt(new, t)
        /\ SlopeOf(n, t)' = SlopeOf(n, t) - SlopeAt(old, t) + SlopeAt(new, t)
        /\ BiasAt(old, t) <= BiasOf(n, t) /\ SlopeAt(old, t) <= SlopeOf(n, t)
    <3>1. /\ voteUserSlopes \in [Users -> [Nominees -> Votes]]
          /\ voteUserSlopes' = [voteUserSlopes EXCEPT ![u][n] = new] /\ new \in Votes
      BY <1>1, <2>2
    <3>2. QED
      BY ONLY <3>1, u \in Users, n \in Nominees, t \in Times, NomineeRevoted DEF old
  <2>8. BiasOf(n, t) \in Nat /\ SlopeOf(n, t) \in Nat
    BY <1>1, WeekOfNominee
  <2>9. Revoted([bias |-> BiasOf(n, t), slope |-> SlopeOf(n, t)], BiasOf(n, t), old, new)
          = [bias |-> BiasOf(n, t)', slope |-> SlopeOf(n, t)']
    BY <1>1, <2>2, <2>5, <2>7, <2>8, RevotedExact
  <2>10. pointsWeight'[n][t] = [bias |-> BiasOf(n, t)', slope |-> SlopeOf(n, t)']
    BY <1>1, <2>2, <2>5, <2>6, <2>9
  <2>11. QED
    BY <2>2, <2>5, <2>10, NextPointExact
<1>10. QED
  BY <1>5, <1>6, <1>7, <1>8, <1>9, NomineeStep

\* No step makes the point of the sum inexact, as long as no nominee is removed.
LEMMA SumPointsStep ==
  ASSUME Typed, Typed', ChangesSummed', SumPointsExact, [Next]_vars
  PROVE  SumPointsExact'
<1> SUFFICES ASSUME NEW t \in Times, setRemovedNominees' = <<>>, t = timeSum', InReach(t)'
             PROVE  SumPointExact(t)'
  BY DEF SumPointsExact
<1>1. /\ Types /\ Filled /\ now \in StartTime..MaxTime /\ NextTime \in Times
      /\ now \in Nat /\ now < NextTime /\ Times \subseteq Nat
      /\ timeSum \in Times /\ timeSum <= NextTime
      /\ voteUserSlopes \in [Users -> [Nominees -> Votes]]
  BY TypedTypes, WeekSteps DEF Types, Filled
<1>2. InReach(t)
  BY ReachStep
<1>3. ASSUME setRemovedNominees = <<>>, InReach(timeSum)
      PROVE  SumPointExact(timeSum)
  BY <1>1, <1>3 DEF SumPointsExact
<1>4. ASSUME setRemovedNominees = <<>>, NEW n \in Nominees
      PROVE  mapRemovedNominees[n] = 0
  <2>1. mapRemovedNominees[n] \in 0..Len(setRemovedNominees) /\ Len(setRemovedNominees) = 0
    BY <1>1, <1>4 DEF Types
  <2>2. QED
    BY <2>1
<1>5. ASSUME t = NextTime, now' = now,
             pointsSum'[t] = [bias |-> SumBias(t)', slope |-> SumSlope(t)']
      PROVE  SumPointExact(t)'
  <2>1. \A r \in Times : r > t => r > now'
    BY <1>1, <1>5
  <2>2. \A r \in Times : r > t => changesSum'[r] = SumChange(r)'
    BY <2>1 DEF ChangesSummed
  <2>3. QED
    BY <1>5, <2>2 DEF SumPointExact
<1>6. ASSUME voteUserSlopes' = voteUserSlopes, NEW r \in Times
      PROVE  SumBias(r)' = SumBias(r) /\ SumSlope(r)' = SumSlope(r) /\ SumChange(r)' = SumChange(r)
  <2>1. \A n \in Nominees : /\ BiasOf(n, r)' = BiasOf(n, r) /\ SlopeOf(n, r)' = SlopeOf(n, r)
                            /\ ChangeOf(n, r)' = ChangeOf(n, r)
    BY <1>6, SameVotes
  <2>2. BiasesAt(r)' = BiasesAt(r) /\ SlopesAt(r)' = SlopesAt(r) /\ ChangesAt(r)' = ChangesAt(r)
    BY <2>1, VotingSets DEF BiasesAt, SlopesAt, ChangesAt
  <2>3. QED
    BY <2>2 DEF SumBias, SumSlope, SumChange
<1>7. CASE /\ pointsSum' = pointsSum /\ timeSum' = timeSum
           /\ setRemovedNominees' = setRemovedNominees
           /\ (\A n \in Nominees : mapRemovedNominees[n] = 0) => UNCHANGED <<voteUserSlopes, changesSum>>
  <2>1. voteUserSlopes' = voteUserSlopes /\ changesSum' = changesSum
    BY <1>4, <1>7
  <2>2. SumPointExact(t)
    BY <1>2, <1>3, <1>7
  <2>3. QED
    BY <1>6, <1>7, <2>1, <2>2 DEF SumPointExact
<1>8. CASE /\ SumFillable /\ pointsSum' = SumPoints /\ timeSum' = TimeAfter(timeSum)
           /\ UNCHANGED <<now, setRemovedNominees, voteUserSlopes, changesSum>>
  <2>1. InReach(timeSum)
    BY <1>1, <1>2, <1>8, FillReach
  <2>2. /\ SumPoints[NextTime] = [bias |-> SumBias(NextTime), slope |-> SumSlope(NextTime)]
        /\ t = NextTime
    BY <1>3, <1>8, <2>1, SumFilledExact
  <2>3. SumBias(t)' = SumBias(t) /\ SumSlope(t)' = SumSlope(t)
    BY <1>6, <1>8
  <2>4. pointsSum'[t] = [bias |-> SumBias(t)', slope |-> SumSlope(t)']
    BY <1>8, <2>2, <2>3
  <2>5. QED
    BY <1>5, <1>8, <2>2, <2>4
<1>9. CASE \E n \in Nominees : removeNominee(n)
  <2>1. PICK n \in Nominees : setRemovedNominees' = Append(setRemovedNominees, n)
    BY <1>9 DEF removeNominee
  <2>2. setRemovedNominees \in Seq(Nominees) /\ Len(setRemovedNominees') = 0
    BY <1>1 DEF Types
  <2>3. Len(Append(setRemovedNominees, n)) = Len(setRemovedNominees) + 1 /\ Len(setRemovedNominees) \in Nat
    BY <2>2
  <2>4. QED
    BY <2>1, <2>2, <2>3
<1>10. CASE \E n \in Nominees : Voted(n)
  <2>1. PICK n \in Nominees, u \in Users, weight \in 0..MAX_WEIGHT : voteForNomineeWeights(u, n, weight)
    BY <1>10 DEF Voted
  <2> DEFINE old == voteUserSlopes[u][n]
             new == NewVote(u, weight)
  <2>2. /\ voteUserSlopes' = [voteUserSlopes EXCEPT ![u][n] = new]
        /\ new.end > NextTime /\ new \in Votes /\ old \in Votes
        /\ now' = now /\ setRemovedNominees' = setRemovedNominees
    BY <2>1, VotedVotes
  <2>3. /\ SumFillable /\ t = TimeAfter(timeSum)
        /\ pointsSum' = [SumPoints EXCEPT ![NextTime] = Revoted(SumPoints[NextTime], CurrentSum, old, new)]
    BY <2>1, VotedSum
  <2>4. InReach(timeSum)
    BY <1>1, <1>2, <2>3, FillReach
  <2>5. /\ SumPoints[NextTime] = [bias |-> SumBias(NextTime), slope |-> SumSlope(NextTime)]
        /\ CurrentSum = SumBias(NextTime)
        /\ t = NextTime
    BY <1>3, <2>2, <2>3, <2>4, SumFilledExact
  <2>6. SumPoints \in [Times -> Points]
    BY <1>1, <2>3, SumFilled
  <2> HIDE DEF new, old
  <2>7. /\ SumBias(t)' = SumBias(t) - BiasAt(old, t) + BiasAt(new, t)
        /\ SumSlope(t)' = SumSlope(t) - SlopeAt(old, t) + SlopeAt(new, t)
        /\ BiasAt(old, t) <= SumBias(t) /\ SlopeAt(old, t) <= SumSlope(t)
    <3>1. /\ voteUserSlopes \in [Users -> [Nominees -> Votes]]
          /\ voteUserSlopes' = [voteUserSlopes EXCEPT ![u][n] = new] /\ new \in Votes
      BY <1>1, <2>2
    <3>2. QED
      BY ONLY <3>1, u \in Users, n \in Nominees, t \in Times, SumRevoted DEF old
  <2>8. SumBias(t) \in Nat /\ SumSlope(t) \in Nat
    BY <1>1, WeekOfSum
  <2>9. Revoted([bias |-> SumBias(t), slope |-> SumSlope(t)], SumBias(t), old, new)
          = [bias |-> SumBias(t)', slope |-> SumSlope(t)']
    BY <1>1, <2>2, <2>5, <2>7, <2>8, RevotedExact
  <2>10. pointsSum'[t] = [bias |-> SumBias(t)', slope |-> SumSlope(t)']
    BY <1>1, <2>3, <2>5, <2>6, <2>9
  <2>11. QED
    BY <1>5, <2>2, <2>5, <2>10
<1>11. QED
  BY <1>7, <1>8, <1>9, <1>10, SumStep

\* Nothing is worth anything at the deployment.
LEMMA InitExact == Init => Untouched /\ PointsExact /\ SumPointsExact
<1> SUFFICES ASSUME Init
             PROVE  Untouched /\ PointsExact /\ SumPointsExact
  OBVIOUS
<1>0. /\ NumUsers \in Nat /\ NumNominees \in Nat /\ Times \subseteq Nat
      /\ Users = 1..NumUsers /\ Nominees = 1..NumNominees
  BY VotingSets
<1>1. Untouched
  BY DEF Init, Untouched
<1>2. PointsExact
  BY DEF Init, PointsExact
<1>3. ASSUME NEW n \in Nominees, NEW t \in Times
      PROVE  BiasOf(n, t) = 0 /\ SlopeOf(n, t) = 0 /\ ChangeOf(n, t) = 0
  <2>1. \A u \in 1..NumUsers : /\ BiasAt(voteUserSlopes[u][n], t) = 0
                               /\ SlopeAt(voteUserSlopes[u][n], t) = 0
                               /\ ScheduledSlope(voteUserSlopes[u][n], t) = 0
    BY <1>0 DEF Init, NoVote, BiasAt, SlopeAt, ScheduledSlope
  <2>2. /\ BiasesOf(n, t) \in [1..NumUsers -> Int] /\ SlopesOf(n, t) \in [1..NumUsers -> Int]
        /\ ScheduledSlopes(n, t) \in [1..NumUsers -> Int]
        /\ \A u \in 1..NumUsers :
               BiasesOf(n, t)[u] = 0 /\ SlopesOf(n, t)[u] = 0 /\ ScheduledSlopes(n, t)[u] = 0
    BY <1>0, <2>1 DEF BiasesOf, SlopesOf, ScheduledSlopes
  <2>3. QED
    BY <1>0, <2>2, TotalZero DEF BiasOf, SlopeOf, ChangeOf
<1>4. ASSUME NEW t \in Times
      PROVE  SumBias(t) = 0 /\ SumSlope(t) = 0 /\ SumChange(t) = 0
  <2>1. /\ BiasesAt(t) \in [1..NumNominees -> Int] /\ SlopesAt(t) \in [1..NumNominees -> Int]
        /\ ChangesAt(t) \in [1..NumNominees -> Int]
        /\ \A n \in 1..NumNominees : BiasesAt(t)[n] = 0 /\ SlopesAt(t)[n] = 0 /\ ChangesAt(t)[n] = 0
    BY <1>0, <1>3 DEF BiasesAt, SlopesAt, ChangesAt
  <2>2. QED
    BY <1>0, <2>1, TotalZero DEF SumBias, SumSlope, SumChange
<1>5. SumPointsExact
  BY <1>4 DEF Init, SumPointsExact, SumPointExact, NoPoint
<1>6. QED
  BY <1>1, <1>2, <1>5

\* The inductive invariant of the points.
ExactInv == Typed /\ ChangesSummed /\ Untouched /\ PointsExact /\ SumPointsExact

\* Points are exact in every reachable state.
THEOREM ExactHolds == Spec => []ExactInv
<1>1. Init => Untouched /\ PointsExact /\ SumPointsExact
  BY InitExact
<1>2. Typed => ChangesSummed
  BY ChangesSummedHolds DEF Typed
<1>3. /\ Typed /\ Typed' /\ ChangesSummed' /\ Untouched /\ PointsExact /\ SumPointsExact /\ [Next]_vars
      => (Untouched /\ PointsExact /\ SumPointsExact)'
  <2> SUFFICES ASSUME Typed, Typed', ChangesSummed', Untouched, PointsExact, SumPointsExact, [Next]_vars
               PROVE  (Untouched /\ PointsExact /\ SumPointsExact)'
    OBVIOUS
  <2>1. Untouched' /\ PointsExact' /\ SumPointsExact'
    BY UntouchedStep, PointsStep, SumPointsStep
  <2>2. QED
    BY <2>1
<1>4. QED
  BY <1>1, <1>2, <1>3, TypedHolds, PTL DEF Spec, ExactInv

\* However the votes, revotes and lazy fills interleave with locks that end, the
\* weight of a nominee is what the votes for it are worth.
THEOREM WeightsExact == Spec => []WeightExact
<1>1. ExactInv => WeightExact
  <2> SUFFICES ASSUME ExactInv, NEW n \in Nominees, mapNomineeIds[n] > 0, mapRemovedNominees[n] = 0,
                      InReach(timeWeight[n])
               PROVE  pointsWeight[n][timeWeight[n]].bias = VotesFor(n, timeWeight[n])
    BY DEF WeightExact
  <2>1. timeWeight[n] \in Times
    BY TypedTypes DEF ExactInv, Types
  <2>2. pointsWeight[n][timeWeight[n]].bias = BiasOf(n, timeWeight[n])
    <3>1. PointExact(n, timeWeight[n])
      BY <2>1 DEF ExactInv, PointsExact
    <3>2. QED
      BY <3>1 DEF PointExact
  <2>3. QED
    BY <2>2 DEF BiasOf, BiasesOf, VotesFor, TotalOver
<1>2. QED
  BY <1>1, ExactHolds, PTL

\* The sum of the weights is what all votes are worth, as long as no nominee was
\* removed, even if some nominee was left behind for too long to be filled.
THEOREM SumsExact == Spec => []SumExact
<1>1. ExactInv => SumExact
  <2> SUFFICES ASSUME ExactInv, setRemovedNominees = <<>>, InReach(timeSum)
               PROVE  pointsSum[timeSum].bias = TotalOver(LAMBDA n : VotesFor(n, timeSum), NumNominees)
    BY DEF SumExact
  <2>1. timeSum \in Times
    BY TypedTypes DEF ExactInv, Types
  <2>2. pointsSum[timeSum].bias = SumBias(timeSum)
    <3>1. SumPointExact(timeSum)
      BY <2>1 DEF ExactInv, SumPointsExact
    <3>2. QED
      BY <3>1 DEF SumPointExact
  <2>3. \A n \in 1..NumNominees : VotesFor(n, timeSum) = BiasOf(n, timeSum)
    BY DEF BiasOf, BiasesOf, VotesFor, TotalOver
  <2>4. [n \in 1..NumNominees |-> VotesFor(n, timeSum)] = BiasesAt(timeSum)
    BY <2>3 DEF BiasesAt
  <2>5. TotalOver(LAMBDA n : VotesFor(n, timeSum), NumNominees)
          = Total([n \in 1..NumNominees |-> VotesFor(n, timeSum)], NumNominees)
    BY DEF TotalOver
  <2>6. QED
    BY <2>2, <2>4, <2>5 DEF SumBias
<1>2. QED
  BY <1>1, ExactHolds, PTL

-----------------------------------------------------------------------------
(* What never reverts                                                       *)

\* The arithmetic of a vote, a revocation and a fill does not underflow: the
\* changes of any vote may be canceled, and a nominee that is not removed, and
\* the sum before any removal, may be filled as long as they are in reach.
NothingUnderflows ==
    /\ \A u \in Users, n \in Nominees :
           /\ Cancelable(changesWeight[n], voteUserSlopes[u][n])
           /\ Cancelable(changesSum, voteUserSlopes[u][n])
    /\ \A n \in Nominees :
           (mapNomineeIds[n] > 0 /\ mapRemovedNominees[n] = 0 /\ InReach(timeWeight[n])) =>
               WeightFillable(n)
    /\ (setRemovedNominees = <<>> /\ InReach(timeSum)) => SumFillable

\* Exact points can be filled: a slope holds what is scheduled for the next week.
LEMMA ExactFillable ==
  ASSUME NEW time \in Times, NEW points, NEW changes,
         LastFilled(time) \in Times,
         NEW b \in [Times -> Nat], NEW s \in [Times -> Nat], NEW c \in [Times -> Nat],
         \A t \in Times : t + WEEK \in Times =>
             /\ b[t] = b[t + WEEK] + s[t] * WEEK
             /\ s[t] = s[t + WEEK] + c[t + WEEK],
         \A t \in Times : s[t] <= b[t],
         points[time] = [bias |-> b[time], slope |-> s[time]],
         \A t \in Times : t > time => changes[t] = c[t]
  PROVE  Fillable(points, changes, time)
<1> DEFINE pt == Fill(points, changes, time)
<1>0. /\ WEEK \in Nat /\ WEEK > 0 /\ time \in Nat /\ Times \subseteq Nat
      /\ \A r, t \in Times : r < t => r + WEEK <= t
  BY WeekSteps
<1>1. \A t \in Times : time <= t /\ t <= LastFilled(time) => pt[t] = [bias |-> b[t], slope |-> s[t]]
  BY FillExact
<1> SUFFICES ASSUME NEW t \in ToFill(time)
             PROVE  pt[t - WEEK].slope >= changes[t]
  BY DEF Fillable
<1>2. t \in Times /\ time < t /\ t <= LastFilled(time)
  BY DEF ToFill
<1>3. t - WEEK \in Times
  BY <1>0, ToFillLater
<1> DEFINE r == t - WEEK
<1>4. r + WEEK = t /\ time <= r /\ r <= LastFilled(time)
  <2>1. t \in Nat /\ LastFilled(time) \in Nat /\ time + WEEK <= t
    BY <1>0, <1>2
  <2>2. QED
    BY <1>0, <1>2, <2>1
<1> HIDE DEF r, pt
<1>5. r \in Times /\ r + WEEK \in Times
  BY <1>2, <1>3, <1>4 DEF r
<1>6. pt[r].slope = s[r]
  <2>1. pt[r] = [bias |-> b[r], slope |-> s[r]]
    BY <1>1, <1>4, <1>5
  <2>2. QED
    BY <2>1
<1>7. s[r] = s[t] + c[t] /\ s[t] \in Nat /\ c[t] \in Nat
  BY <1>2, <1>4, <1>5
<1>8. changes[t] = c[t]
  BY <1>0, <1>2
<1>9. pt[r].slope >= changes[t]
  BY <1>6, <1>7, <1>8
<1>10. QED
  BY <1>9 DEF r, pt

\* The changes scheduled for the future hold the slope of any vote.
LEMMA VotesCancelable ==
  ASSUME Inv, NEW u \in Users, NEW n \in Nominees
  PROVE  Cancelable(changesWeight[n], voteUserSlopes[u][n]) /\ Cancelable(changesSum, voteUserSlopes[u][n])
<1> DEFINE old == voteUserSlopes[u][n]
<1>0. /\ NumUsers \in Nat /\ NumNominees \in Nat
      /\ Users = 1..NumUsers /\ Nominees = 1..NumNominees
  BY VotingSets
<1>1. /\ voteUserSlopes \in [Users -> [Nominees -> Votes]] /\ old \in Votes
      /\ changesWeight \in [Nominees -> [Times -> Nat]] /\ changesSum \in [Times -> Nat]
  BY DEF Inv, VoteTypes
<1> SUFFICES ASSUME old.end > now
             PROVE  old.slope <= changesWeight[n][old.end] /\ old.slope <= changesSum[old.end]
  <2>1. old.slope \in Nat /\ old.end \in Times
    BY <1>1 DEF Votes
  <2>2. changesWeight[n][old.end] \in Nat /\ changesSum[old.end] \in Nat
    BY <1>1, <2>1
  <2>3. QED
    BY <2>1, <2>2 DEF Cancelable
<1> DEFINE t == old.end
<1>2. t \in Times /\ t > now /\ old.slope \in Nat
  BY <1>1 DEF Votes
<1>3. ScheduledSlopes(n, t) \in [1..NumUsers -> Nat] /\ ScheduledSlopes(n, t)[u] = old.slope
  <2>1. ScheduledSlopes(n, t) \in [1..NumUsers -> Nat]
    BY <1>1, <1>2, WeekOfNominee
  <2>2. QED
    BY <2>1 DEF ScheduledSlopes, ScheduledSlope
<1> HIDE DEF t
<1>4. changesWeight[n][t] = Total(ScheduledSlopes(n, t), NumUsers)
  BY <1>2 DEF Inv, ChangesExact
<1>5. old.slope <= changesWeight[n][t]
  BY <1>0, <1>3, <1>4, TotalNonNegative
<1>6. ScheduledChanges(t) \in [1..NumNominees -> Nat] /\ ScheduledChanges(t)[n] = changesWeight[n][t]
  BY <1>0, <1>1, <1>2 DEF ScheduledChanges
<1>7. changesSum[t] = Total(ScheduledChanges(t), NumNominees) /\ changesSum[t] \in Nat
  BY <1>1, <1>2 DEF Inv, ChangesExact
<1>8. changesWeight[n][t] <= changesSum[t] /\ changesWeight[n][t] \in Nat
  BY <1>0, <1>1, <1>2, <1>6, <1>7, TotalNonNegative
<1>9. QED
  BY <1>2, <1>5, <1>7, <1>8 DEF t

\* A vote can always be replaced or taken back, and what was checkpointed in
\* time never becomes impossible to fill, before a removal.
THEOREM NeverUnderflows == Spec => []NothingUnderflows
<1>1. ExactInv => NothingUnderflows
  <2> SUFFICES ASSUME ExactInv
               PROVE  NothingUnderflows
    OBVIOUS
  <2>0. /\ Typed /\ Types /\ Filled /\ now \in StartTime..MaxTime /\ Inv
        /\ voteUserSlopes \in [Users -> [Nominees -> Votes]]
    BY TypedTypes DEF ExactInv, Typed, Types
  <2>1. ASSUME NEW n \in Nominees, mapNomineeIds[n] > 0, mapRemovedNominees[n] = 0, InReach(timeWeight[n])
        PROVE  WeightFillable(n)
    <3> DEFINE b == [t \in Times |-> BiasOf(n, t)]
               s == [t \in Times |-> SlopeOf(n, t)]
               c == [t \in Times |-> ChangeOf(n, t)]
               time == timeWeight[n]
    <3>1. time \in Times /\ time <= NextTime
      BY <2>0 DEF Types, Filled
    <3>2. LastFilled(time) \in Times
      BY <2>0, <3>1, FillReach
    <3>3. /\ b \in [Times -> Nat] /\ s \in [Times -> Nat] /\ c \in [Times -> Nat]
          /\ \A t \in Times : t + WEEK \in Times =>
                 /\ b[t] = b[t + WEEK] + s[t] * WEEK
                 /\ s[t] = s[t + WEEK] + c[t + WEEK]
          /\ \A t \in Times : s[t] <= b[t]
      BY <2>0, WeekOfNominee
    <3>4. /\ pointsWeight[n][time] = [bias |-> b[time], slope |-> s[time]]
          /\ \A t \in Times : t > time => changesWeight[n][t] = c[t]
      <4>1. PointExact(n, time)
        BY <2>1, <3>1 DEF ExactInv, PointsExact
      <4>2. QED
        BY <3>1, <4>1 DEF PointExact
    <3> HIDE DEF b, s, c, time
    <3>5. Fillable(pointsWeight[n], changesWeight[n], time)
      BY <3>1, <3>2, <3>3, <3>4, ExactFillable
    <3>6. QED
      BY <2>1, <3>5 DEF WeightFillable, time
  <2>2. ASSUME setRemovedNominees = <<>>, InReach(timeSum)
        PROVE  SumFillable
    <3> DEFINE b == [t \in Times |-> SumBias(t)]
               s == [t \in Times |-> SumSlope(t)]
               c == [t \in Times |-> SumChange(t)]
               time == timeSum
    <3>1. time \in Times /\ time <= NextTime
      BY <2>0 DEF Types, Filled
    <3>2. LastFilled(time) \in Times
      BY <2>0, <3>1, FillReach
    <3>3. /\ b \in [Times -> Nat] /\ s \in [Times -> Nat] /\ c \in [Times -> Nat]
          /\ \A t \in Times : t + WEEK \in Times =>
                 /\ b[t] = b[t + WEEK] + s[t] * WEEK
                 /\ s[t] = s[t + WEEK] + c[t + WEEK]
          /\ \A t \in Times : s[t] <= b[t]
      BY <2>0, WeekOfSum
    <3>4. /\ pointsSum[time] = [bias |-> b[time], slope |-> s[time]]
          /\ \A t \in Times : t > time => changesSum[t] = c[t]
      <4>1. SumPointExact(time)
        BY <2>2, <3>1 DEF ExactInv, SumPointsExact
      <4>2. QED
        BY <3>1, <4>1 DEF SumPointExact
    <3> HIDE DEF b, s, c, time
    <3>5. Fillable(pointsSum, changesSum, time)
      BY <3>1, <3>2, <3>3, <3>4, ExactFillable
    <3>6. QED
      BY <3>5 DEF SumFillable, time
  <2>3. QED
    BY <2>0, <2>1, <2>2, VotesCancelable DEF NothingUnderflows
<1>2. QED
  BY <1>1, ExactHolds, PTL
=============================================================================
