--------------------------- MODULE TotalsTheorems ---------------------------
(***************************************************************************)
(* What Total returns, preserves and bounds.  The library's induction       *)
(* theorems take a predicate as a parameter; SetInduction takes a set       *)
(* instead, and follows from the well-foundedness of < on Nat.              *)
(***************************************************************************)
EXTENDS Totals, TLAPS, WellFoundedInduction

\* The relation of the well-foundedness theorem holds exactly of the pairs x < y.
LEMMA LessRelation ==
  ASSUME NEW x \in Nat, NEW y \in Nat, x < y
  PROVE  <<x, y>> \in OpToRel(<, Nat)
BY SMT DEF OpToRel

\* Every non-empty set of naturals has a least member.
LEMMA LeastMember ==
  ASSUME NEW T, T \subseteq Nat, T # {}
  PROVE  \E x \in T : \A y \in T : x <= y
<1>1. PICK x \in T : \A y \in T : ~ (<<y, x>> \in OpToRel(<, Nat))
  BY WFMin, NatLessThanWellFounded
<1>2. ASSUME NEW y \in T
      PROVE  x <= y
  <2>1. /\ x \in Nat
        /\ y \in Nat
    OBVIOUS
  <2>2. ~ (y < x)
    BY <1>1, <2>1, LessRelation
  <2> HIDE DEF OpToRel
  <2>3. QED
    BY <2>1, <2>2, SMT
<1>3. QED
  BY <1>2

\* A set of naturals that holds 0 and is closed under successor holds all of them.
LEMMA SetInduction ==
  ASSUME NEW S, 0 \in S, \A n \in Nat : n \in S => n + 1 \in S
  PROVE  Nat \subseteq S
<1> DEFINE T == {n \in Nat : n \notin S}
<1> SUFFICES ASSUME T # {}
             PROVE  FALSE
  OBVIOUS
<1>1. PICK x \in T : \A y \in T : x <= y
  BY LeastMember
<1>2. /\ x # 0
      /\ x - 1 \in Nat
      /\ x - 1 \in S
  BY <1>1
<1>3. QED
  BY <1>2

IsRunningTotal(s, f, N) ==
    s = [n \in 0..N |-> IF n = 0 THEN 0 ELSE s[n - 1] + f[n]]

\* A function that satisfies the recursion of RunningTotal exists up to every N.
LEMMA RunningTotalExists ==
  ASSUME NEW N \in Nat, NEW f \in [1..N -> Int]
  PROVE  \E s \in [0..N -> Int] : IsRunningTotal(s, f, N)
<1> DEFINE P(m) == \E s \in [0..m -> Int] : IsRunningTotal(s, f, m)
           S    == {m \in Nat : m <= N => P(m)}
<1>1. 0 \in S
  <2> DEFINE s0 == [n \in 0..0 |-> 0]
  <2>1. /\ s0 \in [0..0 -> Int]
        /\ s0 = [n \in 0..0 |-> IF n = 0 THEN 0 ELSE s0[n - 1] + f[n]]
    OBVIOUS
  <2>2. QED
    BY <2>1 DEF IsRunningTotal
<1>2. ASSUME NEW m \in Nat, m \in S
      PROVE  m + 1 \in S
  <2> SUFFICES ASSUME m + 1 <= N
               PROVE  P(m + 1)
    OBVIOUS
  <2>0. P(m)
    <3>1. m <= N => P(m)
      BY <1>2
    <3> HIDE DEF P
    <3>2. QED
      BY <3>1
  <2>1. PICK s \in [0..m -> Int] : IsRunningTotal(s, f, m)
    BY <2>0
  <2> DEFINE t == [n \in 0..(m + 1) |-> IF n = m + 1 THEN s[m] + f[m + 1] ELSE s[n]]
  <2>2. t \in [0..(m + 1) -> Int]
    OBVIOUS
  <2>3. ASSUME NEW n \in 0..(m + 1)
        PROVE  t[n] = IF n = 0 THEN 0 ELSE t[n - 1] + f[n]
    <3>1. CASE n = m + 1
      BY <3>1
    <3>2. CASE n # m + 1
      <4>1. n \in 0..m
        BY <3>2
      <4>2. s[n] = IF n = 0 THEN 0 ELSE s[n - 1] + f[n]
        BY <2>1, <4>1 DEF IsRunningTotal
      <4>3. n # 0 => n - 1 \in 0..(m + 1) /\ n - 1 # m + 1
        BY <4>1
      <4>4. QED
        BY <4>1, <4>2, <4>3, <3>2
    <3>3. QED
      BY <3>1, <3>2
  <2>4. t = [n \in 0..(m + 1) |-> IF n = 0 THEN 0 ELSE t[n - 1] + f[n]]
    BY <2>3, Zenon
  <2>5. QED
    BY <2>2, <2>4 DEF IsRunningTotal
<1>3. Nat \subseteq S
  <2> HIDE DEF S
  <2>1. QED
    BY <1>1, <1>2, SetInduction
<1>4. QED
  BY <1>3

\* RunningTotal is the function its recursive definition describes.
LEMMA RunningTotalRecursion ==
  ASSUME NEW N \in Nat, NEW f \in [1..N -> Int]
  PROVE  /\ RunningTotal(f, N) \in [0..N -> Int]
         /\ RunningTotal(f, N)[0] = 0
         /\ \A n \in 1..N : RunningTotal(f, N)[n] = RunningTotal(f, N)[n - 1] + f[n]
<1> DEFINE s == RunningTotal(f, N)
<1>1. PICK t \in [0..N -> Int] : IsRunningTotal(t, f, N)
  BY RunningTotalExists
<1>2. IsRunningTotal(s, f, N)
  BY <1>1, Zenon DEF RunningTotal, IsRunningTotal
<1>3. s = [n \in 0..N |-> IF n = 0 THEN 0 ELSE s[n - 1] + f[n]]
  BY <1>2, Zenon DEF IsRunningTotal
<1> HIDE DEF s
<1>4. \A n \in 0..N : s[n] = IF n = 0 THEN 0 ELSE s[n - 1] + f[n]
  BY <1>3
<1>5. \A n \in 1..N : s[n] = s[n - 1] + f[n]
  BY <1>4
<1>6. s[0] = 0
  BY <1>4
<1> DEFINE S == {m \in Nat : m <= N => s[m] \in Int}
<1>7. Nat \subseteq S
  <2>1. 0 \in S
    BY <1>6
  <2>2. ASSUME NEW m \in Nat, m \in S
        PROVE  m + 1 \in S
    <3> SUFFICES ASSUME m + 1 <= N
                 PROVE  s[m + 1] \in Int
      OBVIOUS
    <3>1. s[m + 1] = s[m] + f[m + 1]
      BY <1>5
    <3>2. QED
      BY <3>1, <2>2
  <2> HIDE DEF S
  <2>3. QED
    BY <2>1, <2>2, SetInduction
<1>8. \A m \in 0..N : s[m] \in Int
  BY <1>7
<1>9. s = [m \in 0..N |-> s[m]]
  BY <1>3, Zenon
<1> HIDE DEF S
<1>10. s \in [0..N -> Int]
  BY <1>8, <1>9, Zenon
<1>11. QED
  BY <1>5, <1>6, <1>10 DEF s

\* A total of integers is an integer.
LEMMA TotalType ==
  ASSUME NEW N \in Nat, NEW f \in [1..N -> Int]
  PROVE  Total(f, N) \in Int
<1>1. RunningTotal(f, N) \in [0..N -> Int]
  BY RunningTotalRecursion
<1>2. QED
  BY <1>1 DEF Total

\* A total of non-negative summands is non-negative, and no summand exceeds it.
LEMMA TotalNonNegative ==
  ASSUME NEW N \in Nat, NEW f \in [1..N -> Nat]
  PROVE  /\ Total(f, N) \in Nat
         /\ \A i \in 1..N : f[i] <= Total(f, N)
<1> DEFINE s == RunningTotal(f, N)
<1>1. f \in [1..N -> Int]
  OBVIOUS
<1>2. /\ s \in [0..N -> Int]
      /\ s[0] = 0
      /\ \A n \in 1..N : s[n] = s[n - 1] + f[n]
  BY <1>1, RunningTotalRecursion
<1> HIDE DEF s
<1> DEFINE S == {n \in Nat : n <= N => /\ s[n] \in Nat
                                     /\ \A i \in 1..n : f[i] <= s[n]}
<1>3. 0 \in S
  BY <1>2
<1>4. ASSUME NEW n \in Nat, n \in S
      PROVE  n + 1 \in S
  <2> SUFFICES ASSUME n + 1 <= N
               PROVE  /\ s[n + 1] \in Nat
                      /\ \A i \in 1..(n + 1) : f[i] <= s[n + 1]
    OBVIOUS
  <2>1. /\ s[n] \in Nat
        /\ \A i \in 1..n : f[i] <= s[n]
    BY <1>4
  <2>2. s[n + 1] = s[n] + f[n + 1]
    BY <1>2
  <2>3. f[n + 1] \in Nat
    OBVIOUS
  <2>4. ASSUME NEW i \in 1..(n + 1)
        PROVE  f[i] <= s[n + 1]
    <3>1. CASE i = n + 1
      BY <3>1, <2>1, <2>2, <2>3
    <3>2. CASE i \in 1..n
      <4>1. /\ f[i] <= s[n]
            /\ f[i] \in Nat
        BY <3>2, <2>1
      <4>2. QED
        BY <4>1, <2>1, <2>2, <2>3
    <3>3. QED
      BY <3>1, <3>2
  <2>5. QED
    BY <2>1, <2>2, <2>3, <2>4
<1>5. Nat \subseteq S
  <2> HIDE DEF S
  <2>1. QED
    BY <1>3, <1>4, SetInduction
<1>6. QED
  BY <1>5 DEF Total, s

\* Totals add up summand by summand.
LEMMA TotalSum ==
  ASSUME NEW N \in Nat, NEW f \in [1..N -> Int], NEW g \in [1..N -> Int],
         NEW h \in [1..N -> Int], \A i \in 1..N : h[i] = f[i] + g[i]
  PROVE  Total(h, N) = Total(f, N) + Total(g, N)
<1> DEFINE sf == RunningTotal(f, N)
           sg == RunningTotal(g, N)
           sh == RunningTotal(h, N)
<1>1. /\ sf \in [0..N -> Int] /\ sf[0] = 0
      /\ \A n \in 1..N : sf[n] = sf[n - 1] + f[n]
  BY RunningTotalRecursion
<1>2. /\ sg \in [0..N -> Int] /\ sg[0] = 0
      /\ \A n \in 1..N : sg[n] = sg[n - 1] + g[n]
  BY RunningTotalRecursion
<1>3. /\ sh \in [0..N -> Int] /\ sh[0] = 0
      /\ \A n \in 1..N : sh[n] = sh[n - 1] + h[n]
  BY RunningTotalRecursion
<1> HIDE DEF sf, sg, sh
<1> DEFINE S == {n \in Nat : n <= N => sh[n] = sf[n] + sg[n]}
<1>4. 0 \in S
  BY <1>1, <1>2, <1>3
<1>5. ASSUME NEW n \in Nat, n \in S
      PROVE  n + 1 \in S
  <2> SUFFICES ASSUME n + 1 <= N
               PROVE  sh[n + 1] = sf[n + 1] + sg[n + 1]
    OBVIOUS
  <2>1. sh[n] = sf[n] + sg[n]
    BY <1>5
  <2>0. /\ n + 1 \in 1..N
        /\ n \in 0..N
        /\ (n + 1) - 1 = n
    OBVIOUS
  <2>2. /\ sf[n + 1] = sf[n] + f[n + 1]
        /\ sg[n + 1] = sg[n] + g[n + 1]
        /\ sh[n + 1] = sh[n] + h[n + 1]
        /\ h[n + 1] = f[n + 1] + g[n + 1]
    BY <2>0, <1>1, <1>2, <1>3
  <2>3. /\ f[n + 1] \in Int /\ g[n + 1] \in Int
        /\ sf[n] \in Int /\ sg[n] \in Int
    BY <2>0, <1>1, <1>2
  <2>4. QED
    BY <2>1, <2>2, <2>3
<1>6. Nat \subseteq S
  <2> HIDE DEF S
  <2>1. QED
    BY <1>4, <1>5, SetInduction
<1>7. QED
  BY <1>6 DEF Total, sf, sg, sh

\* A bound g[i] * t <= f[i] * a on every summand carries over to the totals.
LEMMA TotalScaledBound ==
  ASSUME NEW N \in Nat, NEW f \in [1..N -> Int], NEW g \in [1..N -> Int],
         NEW a \in Int, NEW t \in Int, \A i \in 1..N : g[i] * t <= f[i] * a
  PROVE  Total(g, N) * t <= Total(f, N) * a
<1> DEFINE sf == RunningTotal(f, N)
           sg == RunningTotal(g, N)
<1>1. /\ sf \in [0..N -> Int] /\ sf[0] = 0
      /\ \A n \in 1..N : sf[n] = sf[n - 1] + f[n]
  BY RunningTotalRecursion
<1>2. /\ sg \in [0..N -> Int] /\ sg[0] = 0
      /\ \A n \in 1..N : sg[n] = sg[n - 1] + g[n]
  BY RunningTotalRecursion
<1> HIDE DEF sf, sg
<1> DEFINE S == {n \in Nat : n <= N => sg[n] * t <= sf[n] * a}
<1>3. 0 \in S
  BY <1>1, <1>2
<1>4. ASSUME NEW n \in Nat, n \in S
      PROVE  n + 1 \in S
  <2> SUFFICES ASSUME n + 1 <= N
               PROVE  sg[n + 1] * t <= sf[n + 1] * a
    OBVIOUS
  <2>1. sg[n] * t <= sf[n] * a
    BY <1>4
  <2>0. /\ n + 1 \in 1..N
        /\ n \in 0..N
        /\ (n + 1) - 1 = n
    OBVIOUS
  <2>2. /\ sf[n + 1] = sf[n] + f[n + 1]
        /\ sg[n + 1] = sg[n] + g[n + 1]
        /\ g[n + 1] * t <= f[n + 1] * a
    BY <2>0, <1>1, <1>2
  <2>3. /\ f[n + 1] \in Int /\ g[n + 1] \in Int
        /\ sf[n] \in Int /\ sg[n] \in Int
    BY <2>0, <1>1, <1>2
  <2>4. ASSUME NEW p \in Int, NEW q \in Int, NEW u \in Int, NEW v \in Int,
               p * t <= u * a, q * t <= v * a
        PROVE  (p + q) * t <= (u + v) * a
    <3>1. /\ (p + q) * t = p * t + q * t
          /\ (u + v) * a = u * a + v * a
      OBVIOUS
    <3>2. p * t \in Int /\ q * t \in Int /\ u * a \in Int /\ v * a \in Int
      OBVIOUS
    <3>3. QED
      BY <3>1, <3>2, <2>4
  <2>5. QED
    BY <2>1, <2>2, <2>3, <2>4
<1>5. Nat \subseteq S
  <2> HIDE DEF S
  <2>1. QED
    BY <1>3, <1>4, SetInduction
<1>6. QED
  BY <1>5 DEF Total, sf, sg

\* A function that is zero but at i totals its value there.
LEMMA TotalSingle ==
  ASSUME NEW N \in Nat, NEW f \in [1..N -> Int], NEW i \in 1..N,
         \A j \in 1..N : j # i => f[j] = 0
  PROVE  Total(f, N) = f[i]
<1> DEFINE s == RunningTotal(f, N)
<1>1. /\ s \in [0..N -> Int] /\ s[0] = 0
      /\ \A n \in 1..N : s[n] = s[n - 1] + f[n]
  BY RunningTotalRecursion
<1> HIDE DEF s
<1> DEFINE S == {n \in Nat : n <= N => s[n] = IF n < i THEN 0 ELSE f[i]}
<1>2. 0 \in S
  BY <1>1
<1>3. ASSUME NEW n \in Nat, n \in S
      PROVE  n + 1 \in S
  <2> SUFFICES ASSUME n + 1 <= N
               PROVE  s[n + 1] = IF n + 1 < i THEN 0 ELSE f[i]
    OBVIOUS
  <2>1. s[n] = IF n < i THEN 0 ELSE f[i]
    BY <1>3
  <2>2. s[n + 1] = s[n] + f[n + 1]
    BY <1>1
  <2>3. f[n + 1] \in Int /\ f[i] \in Int
    OBVIOUS
  <2>4. CASE n + 1 = i
    BY <2>1, <2>2, <2>3, <2>4
  <2>5. CASE n + 1 # i
    <3>1. f[n + 1] = 0
      BY <2>5
    <3>2. QED
      BY <2>1, <2>2, <2>3, <2>5, <3>1
  <2>6. QED
    BY <2>4, <2>5
<1>4. Nat \subseteq S
  <2> HIDE DEF S
  <2>1. QED
    BY <1>2, <1>3, SetInduction
<1>5. QED
  BY <1>4 DEF Total, s

\* Changing one summand changes the total by the difference.
LEMMA TotalExcept ==
  ASSUME NEW N \in Nat, NEW f \in [1..N -> Int], NEW i \in 1..N, NEW v \in Int
  PROVE  Total([f EXCEPT ![i] = v], N) = Total(f, N) - f[i] + v
<1> DEFINE g == [f EXCEPT ![i] = v]
           d == [j \in 1..N |-> IF j = i THEN v - f[i] ELSE 0]
<1>1. /\ g \in [1..N -> Int]
      /\ d \in [1..N -> Int]
      /\ \A j \in 1..N : g[j] = f[j] + d[j]
  OBVIOUS
<1>2. d[i] = v - f[i] /\ \A j \in 1..N : j # i => d[j] = 0
  OBVIOUS
<1> HIDE DEF g, d
<1>3. Total(g, N) = Total(f, N) + Total(d, N)
  BY <1>1, TotalSum
<1>4. Total(d, N) = v - f[i]
  BY <1>1, <1>2, TotalSingle
<1>5. Total(f, N) \in Int /\ f[i] \in Int
  BY TotalType
<1>6. QED
  BY <1>3, <1>4, <1>5 DEF g

\* The total of zeros is zero.
LEMMA TotalZero ==
  ASSUME NEW N \in Nat, NEW f \in [1..N -> Int], \A i \in 1..N : f[i] = 0
  PROVE  Total(f, N) = 0
<1>1. \A i \in 1..N : f[i] = f[i] + f[i]
  OBVIOUS
<1>2. Total(f, N) = Total(f, N) + Total(f, N)
  BY <1>1, TotalSum
<1>3. Total(f, N) \in Int
  BY TotalType
<1>4. QED
  BY <1>2, <1>3

\* A summand appended to the others adds its value.
LEMMA TotalAppend ==
  ASSUME NEW N \in Nat, NEW f \in [1..N -> Int], NEW g \in [1..(N + 1) -> Int],
         \A i \in 1..N : g[i] = f[i]
  PROVE  Total(g, N + 1) = Total(f, N) + g[N + 1]
<1> DEFINE sf == RunningTotal(f, N)
           sg == RunningTotal(g, N + 1)
<1>1. /\ sf \in [0..N -> Int] /\ sf[0] = 0
      /\ \A n \in 1..N : sf[n] = sf[n - 1] + f[n]
  BY RunningTotalRecursion
<1>2. /\ sg \in [0..(N + 1) -> Int] /\ sg[0] = 0
      /\ \A n \in 1..(N + 1) : sg[n] = sg[n - 1] + g[n]
  <2>1. N + 1 \in Nat
    OBVIOUS
  <2>2. QED
    BY <2>1, RunningTotalRecursion
<1> HIDE DEF sf, sg
<1> DEFINE S == {n \in Nat : n <= N => sg[n] = sf[n]}
<1>3. 0 \in S
  BY <1>1, <1>2
<1>4. ASSUME NEW n \in Nat, n \in S
      PROVE  n + 1 \in S
  <2> SUFFICES ASSUME n + 1 <= N
               PROVE  sg[n + 1] = sf[n + 1]
    OBVIOUS
  <2>1. /\ n + 1 \in 1..N
        /\ n + 1 \in 1..(N + 1)
        /\ (n + 1) - 1 = n
    OBVIOUS
  <2>2. /\ sf[n + 1] = sf[n] + f[n + 1]
        /\ sg[n + 1] = sg[n] + g[n + 1]
        /\ g[n + 1] = f[n + 1]
        /\ sg[n] = sf[n]
    <3>1. sf[n + 1] = sf[n] + f[n + 1]
      BY <2>1, <1>1
    <3>2. sg[n + 1] = sg[n] + g[n + 1]
      BY <2>1, <1>2
    <3>3. g[n + 1] = f[n + 1]
      BY <2>1
    <3>4. sg[n] = sf[n]
      BY <1>4
    <3>5. QED
      BY <3>1, <3>2, <3>3, <3>4
  <2>3. QED
    BY <2>2
<1>5. Nat \subseteq S
  <2> HIDE DEF S
  <2>1. QED
    BY <1>3, <1>4, SetInduction
<1>6. sg[N] = sf[N]
  BY <1>5
<1>7. /\ N + 1 \in 1..(N + 1)
      /\ (N + 1) - 1 = N
  OBVIOUS
<1>8. sg[N + 1] = sf[N] + g[N + 1]
  BY <1>2, <1>6, <1>7
<1>9. QED
  BY <1>8 DEF Total, sf, sg

\* A factor may be taken out of a sum.
LEMMA TotalScaled ==
  ASSUME NEW N \in Nat, NEW f \in [1..N -> Int], NEW k \in Int
  PROVE  Total([i \in 1..N |-> f[i] * k], N) = Total(f, N) * k
<1> DEFINE g == [i \in 1..N |-> f[i] * k]
<1>1. \A i \in 1..N : f[i] * k \in Int
  OBVIOUS
<1>2. g \in [1..N -> Int] /\ \A i \in 1..N : g[i] = f[i] * k
  BY <1>1
<1> HIDE DEF g
<1>3. \A i \in 1..N : g[i] * 1 <= f[i] * k /\ f[i] * k <= g[i] * 1
  BY <1>1, <1>2
<1>4. Total(g, N) * 1 <= Total(f, N) * k
  <2>1. \A i \in 1..N : g[i] * 1 <= f[i] * k
    BY <1>3
  <2>2. 1 \in Int
    OBVIOUS
  <2>3. QED
    BY ONLY <1>2, <2>1, <2>2, N \in Nat, f \in [1..N -> Int], k \in Int, TotalScaledBound
<1>5. Total(f, N) * k <= Total(g, N) * 1
  <2>1. \A i \in 1..N : f[i] * k <= g[i] * 1
    BY <1>3
  <2>2. 1 \in Int
    OBVIOUS
  <2>3. QED
    BY ONLY <1>2, <2>1, <2>2, N \in Nat, f \in [1..N -> Int], k \in Int, TotalScaledBound
<1>6. Total(f, N) \in Int /\ Total(g, N) \in Int
  BY <1>2, TotalType
<1>7. Total(f, N) * k \in Int
  BY <1>6
<1>8. Total(g, N) = Total(f, N) * k
  BY <1>4, <1>5, <1>6, <1>7
<1>9. QED
  BY <1>8 DEF g

\* Sums are monotone.
LEMMA TotalMonotone ==
  ASSUME NEW N \in Nat, NEW f \in [1..N -> Int], NEW g \in [1..N -> Int],
         \A i \in 1..N : f[i] <= g[i]
  PROVE  Total(f, N) <= Total(g, N)
<1>1. \A i \in 1..N : f[i] * 1 <= g[i] * 1
  OBVIOUS
<1>2. Total(f, N) * 1 <= Total(g, N) * 1
  <2>1. 1 \in Int
    OBVIOUS
  <2>2. QED
    BY ONLY <1>1, <2>1, N \in Nat, f \in [1..N -> Int], g \in [1..N -> Int], TotalScaledBound
<1>3. Total(f, N) \in Int /\ Total(g, N) \in Int
  BY TotalType
<1>4. QED
  BY <1>2, <1>3

\* The total of a sum with a scaled summand.
LEMMA TotalSumScaled ==
  ASSUME NEW N \in Nat, NEW f \in [1..N -> Int], NEW g \in [1..N -> Int],
         NEW h \in [1..N -> Int], NEW k \in Int, \A i \in 1..N : h[i] = f[i] + g[i] * k
  PROVE  Total(h, N) = Total(f, N) + Total(g, N) * k
<1> DEFINE gk == [i \in 1..N |-> g[i] * k]
<1>1. \A i \in 1..N : g[i] * k \in Int
  OBVIOUS
<1>2. gk \in [1..N -> Int] /\ \A i \in 1..N : h[i] = f[i] + gk[i]
  BY <1>1
<1>3. Total(gk, N) = Total(g, N) * k
  BY TotalScaled
<1> HIDE DEF gk
<1>4. Total(h, N) = Total(f, N) + Total(gk, N)
  BY <1>2, TotalSum
<1>5. QED
  BY <1>3, <1>4
=============================================================================
