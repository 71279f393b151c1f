---------------------------- MODULE StakingProofs ----------------------------
(***************************************************************************)
(* The invariants of Staking hold for every value of its constants, and so  *)
(* do the bound on what is emitted, the return of services to their stakers *)
(* and the life of a service that StakingLifecycle promises.                *)
(***************************************************************************)
EXTENDS Staking, TotalsTheorems, SequenceTheorems, FiniteSetTheorems

-----------------------------------------------------------------------------
(* What the operators of Staking return: the swap-and-pop removal of array   *)
(* elements, the eviction loop, the stack of payouts                         *)

\* Swap-and-pop drops one element and moves the last one to its place.
LEMMA SwapRemoveElements ==
  ASSUME NEW S, NEW ids \in Seq(S), NEW idx \in 1..Len(ids)
  PROVE  /\ SwapRemove(ids, idx) \in Seq(S)
         /\ Len(SwapRemove(ids, idx)) = Len(ids) - 1
         /\ \A j \in 1..(Len(ids) - 1) :
              SwapRemove(ids, idx)[j] = IF j = idx THEN ids[Len(ids)] ELSE ids[j]
<1> DEFINE n == Len(ids)
           t == [ids EXCEPT ![idx] = ids[n]]
<1>1. n \in Nat \ {0}
  BY LenProperties, SMT
<1>2. ids[n] \in S
  BY <1>1, ElementOfSeq
<1>3. /\ t \in Seq(S)
      /\ Len(t) = n
      /\ \A j \in 1..n : t[j] = IF j = idx THEN ids[n] ELSE ids[j]
  BY <1>2, ExceptSeq
<1> HIDE DEF n, t
<1>4. \A j \in 1..(n - 1) : t[j] \in S
  BY <1>1, <1>3, ElementOfSeq
<1>5. /\ SubSeq(t, 1, n - 1) \in Seq(S)
      /\ Len(SubSeq(t, 1, n - 1)) = IF 1 <= n - 1 THEN (n - 1) - 1 + 1 ELSE 0
      /\ \A j \in 1..((n - 1) - 1 + 1) : SubSeq(t, 1, n - 1)[j] = t[1 + j - 1]
  BY <1>1, <1>4, SubSeqProperties
<1>6. SwapRemove(ids, idx) = SubSeq(t, 1, n - 1)
  BY DEF SwapRemove, t, n
<1>7. Len(SwapRemove(ids, idx)) = n - 1
  BY <1>1, <1>5, <1>6
<1>8. \A j \in 1..(n - 1) : SwapRemove(ids, idx)[j] = IF j = idx THEN ids[n] ELSE ids[j]
  BY <1>1, <1>3, <1>5, <1>6
<1>9. QED
  BY <1>5, <1>6, <1>7, <1>8 DEF n

\* On an array without duplicates it removes exactly the element at the index.
LEMMA SwapRemoveSet ==
  ASSUME NEW S, NEW ids \in Seq(S), NEW idx \in 1..Len(ids), IsInjective(ids)
  PROVE  /\ IsInjective(SwapRemove(ids, idx))
         /\ Range(SwapRemove(ids, idx)) = Range(ids) \ {ids[idx]}
<1> DEFINE n == Len(ids)
           t == SwapRemove(ids, idx)
<1>1. /\ n \in Nat
      /\ idx \in 1..n
      /\ DOMAIN ids = 1..n
  BY LenProperties
<1>2. /\ t \in Seq(S)
      /\ Len(t) = n - 1
      /\ \A j \in 1..(n - 1) : t[j] = IF j = idx THEN ids[n] ELSE ids[j]
  BY SwapRemoveElements
<1>3. DOMAIN t = 1..(n - 1)
  BY <1>2, LenProperties
<1>4. \A a, b \in 1..n : ids[a] = ids[b] => a = b
  BY <1>1 DEF IsInjective
<1> HIDE DEF n, t
<1>5. IsInjective(t)
  <2> SUFFICES ASSUME NEW a \in 1..(n - 1), NEW b \in 1..(n - 1), t[a] = t[b]
               PROVE  a = b
    BY <1>3 DEF IsInjective
  <2>1. /\ t[a] = ids[IF a = idx THEN n ELSE a]
        /\ t[b] = ids[IF b = idx THEN n ELSE b]
    BY <1>2
  <2>2. /\ (IF a = idx THEN n ELSE a) \in 1..n
        /\ (IF b = idx THEN n ELSE b) \in 1..n
    BY <1>1
  <2>4. (IF a = idx THEN n ELSE a) = (IF b = idx THEN n ELSE b)
    BY <2>1, <2>2, <1>4
  <2>5. QED
    BY <2>4, <1>1
<1>6. Range(t) \subseteq Range(ids) \ {ids[idx]}
  <2> SUFFICES ASSUME NEW j \in 1..(n - 1)
               PROVE  t[j] \in {ids[i] : i \in 1..n} \ {ids[idx]}
    BY <1>1, <1>3, Zenon DEF Range
  <2>1. CASE j = idx
    <3>1. t[j] = ids[n] /\ n \in 1..n /\ n # idx
      BY <2>1, <1>1, <1>2
    <3>2. QED
      BY <3>1, <1>1, <1>4
  <2>2. CASE j # idx
    <3>1. t[j] = ids[j] /\ j \in 1..n
      BY <2>2, <1>1, <1>2
    <3>2. QED
      BY <3>1, <2>2, <1>1, <1>4
  <2>3. QED
    BY <2>1, <2>2
<1>7. Range(ids) \ {ids[idx]} \subseteq Range(t)
  <2> SUFFICES ASSUME NEW i \in 1..n, ids[i] # ids[idx]
               PROVE  \E j \in 1..(n - 1) : t[j] = ids[i]
    BY <1>1, <1>3, Zenon DEF Range
  <2>1. i # idx
    OBVIOUS
  <2>2. CASE i = n
    <3>1. idx \in 1..(n - 1) /\ t[idx] = ids[i]
      BY <2>1, <2>2, <1>1, <1>2
    <3>2. QED
      BY <3>1
  <2>3. CASE i # n
    <3>1. i \in 1..(n - 1) /\ t[i] = ids[i]
      BY <2>1, <2>3, <1>1, <1>2
    <3>2. QED
      BY <3>1
  <2>4. QED
    BY <2>2, <2>3
<1>8. QED
  BY <1>5, <1>6, <1>7 DEF t

-----------------------------------------------------------------------------
(* The eviction loop                                                        *)

EvictStep(ids, evict, k, before) ==
    IF ids[Len(ids) + 1 - k] \in evict THEN SwapRemove(before, Len(ids) + 1 - k) ELSE before

IsEvictSteps(s, ids, evict, m) ==
    s = [k \in 0..m |-> IF k = 0 THEN ids ELSE EvictStep(ids, evict, k, s[k - 1])]

\* A function that satisfies the recursion of EvictSteps exists.
LEMMA EvictStepsExists ==
  ASSUME NEW ids, NEW evict, NEW N \in Nat
  PROVE  \E s : IsEvictSteps(s, ids, evict, N)
<1> DEFINE P(m) == \E s : IsEvictSteps(s, ids, evict, m)
           S    == {m \in Nat : P(m)}
<1>1. 0 \in S
  <2> DEFINE s0 == [k \in 0..0 |-> ids]
  <2>1. s0 = [k \in 0..0 |-> IF k = 0 THEN ids ELSE EvictStep(ids, evict, k, s0[k - 1])]
    OBVIOUS
  <2>2. QED
    BY <2>1 DEF IsEvictSteps
<1>2. ASSUME NEW m \in Nat, m \in S
      PROVE  m + 1 \in S
  <2>1. PICK s : IsEvictSteps(s, ids, evict, m)
    BY <1>2
  <2> DEFINE t == [k \in 0..(m + 1) |->
                     IF k = m + 1 THEN EvictStep(ids, evict, m + 1, s[m]) ELSE s[k]]
  <2>2. ASSUME NEW k \in 0..(m + 1)
        PROVE  t[k] = IF k = 0 THEN ids ELSE EvictStep(ids, evict, k, t[k - 1])
    <3>1. CASE k = m + 1
      <4>1. m \in 0..(m + 1) /\ m # m + 1 /\ k - 1 = m /\ k # 0
        BY <3>1
      <4>2. t[k] = EvictStep(ids, evict, m + 1, s[m]) /\ t[m] = s[m]
        BY <3>1, <4>1
      <4> HIDE DEF t
      <4>3. QED
        BY <3>1, <4>1, <4>2
    <3>2. CASE k # m + 1
      <4>1. k \in 0..m
        BY <3>2
      <4>2. s[k] = IF k = 0 THEN ids ELSE EvictStep(ids, evict, k, s[k - 1])
        <5>1. s = [j \in 0..m |-> IF j = 0 THEN ids ELSE EvictStep(ids, evict, j, s[j - 1])]
          BY <2>1, Zenon DEF IsEvictSteps
        <5>2. QED
          BY <4>1, <5>1
      <4>3. k # 0 => k - 1 \in 0..(m + 1) /\ k - 1 # m + 1
        BY <4>1
      <4>4. t[k] = s[k] /\ (k # 0 => t[k - 1] = s[k - 1])
        BY <3>2, <4>3
      <4> HIDE DEF t
      <4>5. QED
        BY <4>2, <4>4
    <3>3. QED
      BY <3>1, <3>2
  <2>3. t = [k \in 0..(m + 1) |-> IF k = 0 THEN ids ELSE EvictStep(ids, evict, k, t[k - 1])]
    BY <2>2, Zenon
  <2>4. P(m + 1)
    BY <2>3 DEF IsEvictSteps
  <2>5. QED
    BY <2>4
<1>3. Nat \subseteq S
  <2> HIDE DEF S
  <2>1. QED
    BY <1>1, <1>2, SetInduction
<1>4. QED
  BY <1>3

\* EvictSteps is the function its recursive definition describes.
LEMMA EvictStepsRecursion ==
  ASSUME NEW ids, NEW evict, Len(ids) \in Nat
  PROVE  /\ EvictSteps(ids, evict)[0] = ids
         /\ \A k \in 1..Len(ids) : EvictSteps(ids, evict)[k]
                = EvictStep(ids, evict, k, EvictSteps(ids, evict)[k - 1])
<1> DEFINE s == EvictSteps(ids, evict)
<1>1. PICK t : IsEvictSteps(t, ids, evict, Len(ids))
  BY EvictStepsExists
<1>2. IsEvictSteps(s, ids, evict, Len(ids))
  BY <1>1, Zenon DEF EvictSteps, IsEvictSteps, EvictStep
<1>3. s = [k \in 0..Len(ids) |-> IF k = 0 THEN ids ELSE EvictStep(ids, evict, k, s[k - 1])]
  BY <1>2, Zenon DEF IsEvictSteps
<1> HIDE DEF s
<1>4. \A k \in 0..Len(ids) : s[k] = IF k = 0 THEN ids ELSE EvictStep(ids, evict, k, s[k - 1])
  BY <1>3
<1>5. QED
  BY <1>4 DEF s

\* After k steps of the loop the evicted services of the last k positions are
\* gone, the earlier positions are untouched, and so is every position that
\* held a service to keep and still exists.
EvictLoopInvariant(S, ids, evict, k) ==
    LET rest == EvictSteps(ids, evict)[k]
        done == (Len(ids) + 1 - k)..Len(ids)
    IN  /\ rest \in Seq(S)
        /\ Len(rest) <= Len(ids)
        /\ Len(rest) >= Len(ids) - k
        /\ IsInjective(rest)
        /\ Range(rest) = Range(ids) \ {e \in evict : \E j \in done : ids[j] = e}
        /\ \A j \in 1..Len(rest) : (ids[j] \notin evict \/ j \notin done) => rest[j] = ids[j]

\* One round of the eviction loop preserves what it has established so far.
LEMMA EvictLoop ==
  ASSUME NEW S, NEW ids \in Seq(S), IsInjective(ids), NEW evict,
         NEW k \in 0..(Len(ids) - 1), EvictLoopInvariant(S, ids, evict, k)
  PROVE  EvictLoopInvariant(S, ids, evict, k + 1)
<1> DEFINE n    == Len(ids)
           r    == EvictSteps(ids, evict)[k]
           r1   == EvictSteps(ids, evict)[k + 1]
           idx  == n - k
<1>1. /\ n \in Nat
      /\ idx \in 1..n
      /\ n + 1 - (k + 1) = idx
      /\ n + 1 - k = idx + 1
      /\ (k + 1) - 1 = k
      /\ k + 1 \in 1..n
  BY LenProperties
<1>2. r1 = IF ids[idx] \in evict THEN SwapRemove(r, idx) ELSE r
  BY <1>1, EvictStepsRecursion, SMT DEF EvictStep
<1>3. /\ r \in Seq(S)
      /\ Len(r) <= n
      /\ Len(r) >= idx
      /\ IsInjective(r)
      /\ Range(r) = Range(ids) \ {e \in evict : \E j \in (idx + 1)..n : ids[j] = e}
      /\ \A j \in 1..Len(r) : (ids[j] \notin evict \/ j \notin (idx + 1)..n) => r[j] = ids[j]
  BY <1>1 DEF EvictLoopInvariant
<1>4. Len(r) \in Nat
  BY <1>3, LenProperties
<1> HIDE DEF n, r, r1, idx
<1>5. /\ idx \in 1..Len(r)
      /\ r[idx] = ids[idx]
  BY <1>1, <1>3, <1>4
<1>6. /\ r1 \in Seq(S)
      /\ Len(r1) <= n
      /\ Len(r1) >= n - (k + 1)
      /\ IsInjective(r1)
      /\ Range(r1) = Range(ids) \ {e \in evict : \E j \in idx..n : ids[j] = e}
      /\ \A j \in 1..Len(r1) : (ids[j] \notin evict \/ j \notin idx..n) => r1[j] = ids[j]
  <2>1. CASE ids[idx] \in evict
    <3>1. r1 = SwapRemove(r, idx)
      BY <1>2, <2>1
    <3>2. /\ r1 \in Seq(S)
          /\ Len(r1) = Len(r) - 1
          /\ \A j \in 1..(Len(r) - 1) : r1[j] = IF j = idx THEN r[Len(r)] ELSE r[j]
      BY <3>1, <1>3, <1>5, SwapRemoveElements
    <3>3. /\ IsInjective(r1)
          /\ Range(r1) = Range(r) \ {ids[idx]}
      BY <3>1, <1>3, <1>5, SwapRemoveSet
    <3>4. {e \in evict : \E j \in idx..n : ids[j] = e}
            = {e \in evict : \E j \in (idx + 1)..n : ids[j] = e} \cup {ids[idx]}
      BY <2>1, <1>1
    <3>5. Range(r1) = Range(ids) \ {e \in evict : \E j \in idx..n : ids[j] = e}
      BY <3>3, <3>4, <1>3
    <3>6. Len(r1) <= n /\ Len(r1) >= n - (k + 1)
      BY <3>2, <1>1, <1>3, <1>4
    <3>7. ASSUME NEW j \in 1..Len(r1), ids[j] \notin evict \/ j \notin idx..n
          PROVE  r1[j] = ids[j]
      <4>0. j # idx
        <5>1. idx \in idx..n
          BY <1>1
        <5>2. QED
          BY <3>7, <2>1, <5>1
      <4>1. j \in 1..(Len(r) - 1) /\ j \in 1..Len(r) /\ j # idx
        <5>1. Len(r1) = Len(r) - 1
          BY <3>2
        <5>2. QED
          BY <5>1, <4>0, <1>4
      <4>2. j \notin idx..n => j \notin (idx + 1)..n
        BY <1>1
      <4>3. r[j] = ids[j]
        BY <1>3, <3>7, <4>1, <4>2
      <4>4. QED
        BY <3>2, <4>1, <4>3
    <3>8. QED
      BY <3>2, <3>3, <3>5, <3>6, <3>7
  <2>2. CASE ids[idx] \notin evict
    <3>1. r1 = r
      BY <1>2, <2>2
    <3>2. {e \in evict : \E j \in idx..n : ids[j] = e}
            = {e \in evict : \E j \in (idx + 1)..n : ids[j] = e}
      BY <2>2, <1>1
    <3>3. Len(r1) >= n - (k + 1)
      BY <3>1, <1>1, <1>3, <1>4
    <3>4. \A j \in 1..Len(r) : (ids[j] \notin evict \/ j \notin idx..n) => r[j] = ids[j]
      BY <1>1, <1>3
    <3>5. QED
      BY <3>1, <3>2, <3>3, <3>4, <1>3
  <2>3. QED
    BY <2>1, <2>2
<1>7. QED
  BY <1>1, <1>6 DEF EvictLoopInvariant, n, r1

\* _evict keeps exactly the services that are not evicted, each once, and does
\* not move a service that stays within the shorter array.
LEMMA EvictResult ==
  ASSUME NEW S, NEW ids \in Seq(S), IsInjective(ids), NEW evict
  PROVE  /\ _evict(ids, evict) \in Seq(S)
         /\ Len(_evict(ids, evict)) <= Len(ids)
         /\ IsInjective(_evict(ids, evict))
         /\ Range(_evict(ids, evict)) = Range(ids) \ evict
         /\ \A j \in 1..Len(_evict(ids, evict)) :
              ids[j] \notin evict => _evict(ids, evict)[j] = ids[j]
<1> DEFINE n == Len(ids)
           T == {k \in Nat : k <= n => EvictLoopInvariant(S, ids, evict, k)}
<1>1. n \in Nat /\ DOMAIN ids = 1..n
  BY LenProperties
<1>2. 0 \in T
  <2>1. EvictSteps(ids, evict)[0] = ids
    BY <1>1, EvictStepsRecursion
  <2>2. (n + 1 - 0)..n = {}
    BY <1>1
  <2>3. EvictLoopInvariant(S, ids, evict, 0)
    BY <1>1, <2>1, <2>2 DEF EvictLoopInvariant
  <2>4. QED
    BY <2>3
<1>3. ASSUME NEW k \in Nat, k \in T
      PROVE  k + 1 \in T
  <2> SUFFICES ASSUME k + 1 <= n
               PROVE  EvictLoopInvariant(S, ids, evict, k + 1)
    OBVIOUS
  <2>1. k \in 0..(Len(ids) - 1)
    BY <1>1
  <2>2. EvictLoopInvariant(S, ids, evict, k)
    BY <1>1, <1>3
  <2>3. QED
    BY <2>1, <2>2, EvictLoop
<1>4. Nat \subseteq T
  <2> HIDE DEF T
  <2>1. QED
    BY <1>2, <1>3, SetInduction
<1>5. EvictLoopInvariant(S, ids, evict, n)
  BY <1>1, <1>4
<1>6. /\ n + 1 - n = 1
      /\ {e \in evict : \E j \in 1..n : ids[j] = e} = evict \cap Range(ids)
  BY <1>1 DEF Range
<1>7. QED
  BY <1>5, <1>6 DEF EvictLoopInvariant, _evict

-----------------------------------------------------------------------------
(* Totals of stacks                                                         *)

\* An empty stack of pending withdrawals owes nothing.
LEMMA TotalEmpty == Total(<<>>, 0) = 0
<1>1. ASSUME NEW f \in [1..0 -> Int]
      PROVE  Total(f, 0) = 0
  <2>1. 0 \in Nat /\ \A i \in 1..0 : f[i] = 0
    OBVIOUS
  <2>2. QED
    BY <2>1, TotalZero
<1>2. <<>> \in [1..0 -> Int]
  BY EmptySeq, LenProperties
<1>3. QED
  BY <1>1, <1>2

\* A withdrawal that is pushed adds its amount to what is pending.
LEMMA TotalPush ==
  ASSUME NEW p \in Seq(Nat), NEW v \in Nat
  PROVE  /\ Append(p, v) \in Seq(Nat)
         /\ Total(Append(p, v), Len(Append(p, v))) = Total(p, Len(p)) + v
<1> DEFINE n == Len(p)
           q == Append(p, v)
<1>1. /\ n \in Nat
      /\ p \in [1..n -> Int]
  BY LenProperties
<1>2. /\ q \in Seq(Nat)
      /\ Len(q) = n + 1
      /\ \A i \in 1..n : q[i] = p[i]
      /\ q[n + 1] = v
  BY <1>1
<1> HIDE DEF q, n
<1>3. q \in [1..(n + 1) -> Int]
  <2>1. q \in [1..Len(q) -> Nat]
    BY <1>2, LenProperties
  <2>2. QED
    BY <1>2, <2>1
<1>4. Total(q, n + 1) = Total(p, n) + q[n + 1]
  BY <1>1, <1>2, <1>3, TotalAppend
<1>5. QED
  BY <1>2, <1>4 DEF q, n

\* A withdrawal that is popped takes its amount off what is pending.
LEMMA TotalPop ==
  ASSUME NEW p \in Seq(Nat), p # <<>>
  PROVE  /\ SubSeq(p, 1, Len(p) - 1) \in Seq(Nat)
         /\ p[Len(p)] \in Nat
         /\ Total(p, Len(p))
              = Total(SubSeq(p, 1, Len(p) - 1), Len(SubSeq(p, 1, Len(p) - 1))) + p[Len(p)]
<1> DEFINE n == Len(p) - 1
           q == SubSeq(p, 1, n)
<1>1. /\ n \in Nat
      /\ Len(p) = n + 1
      /\ p \in [1..(n + 1) -> Nat]
  BY LenProperties, EmptySeq
<1> HIDE DEF n
<1>2. \A i \in 1..n : p[i] \in Nat
  BY <1>1
<1>3. /\ q \in Seq(Nat)
      /\ Len(q) = IF 1 <= n THEN n - 1 + 1 ELSE 0
      /\ \A i \in 1..(n - 1 + 1) : q[i] = p[1 + i - 1]
  BY <1>1, <1>2, SubSeqProperties
<1>4. /\ Len(q) = n
      /\ \A i \in 1..n : p[i] = q[i]
  BY <1>1, <1>3
<1> HIDE DEF q
<1>5. /\ q \in [1..n -> Int]
      /\ p \in [1..(n + 1) -> Int]
  <2>1. q \in [1..Len(q) -> Nat]
    BY <1>3, LenProperties
  <2>2. QED
    BY <1>1, <1>4, <2>1
<1>6. p[n + 1] \in Nat
  BY <1>1
<1>7. Total(p, n + 1) = Total(q, n) + p[n + 1]
  BY <1>1, <1>4, <1>5, TotalAppend
<1>8. QED
  BY <1>1, <1>3, <1>4, <1>6, <1>7 DEF q, n

\* Summands of at most c each, and none outside of the array ids, total at most
\* c for each element of the array.
LEMMA SparseTotalBound ==
  ASSUME NEW N \in Nat, NEW ids \in Seq(1..N), NEW c \in Nat, NEW f \in [1..N -> Nat],
         \A i \in 1..N : f[i] <= c /\ (f[i] > 0 => i \in Range(ids))
  PROVE  Total(f, N) <= c * Len(ids)
<1> DEFINE n    == Len(ids)
           B(g, k) == \A i \in 1..N : g[i] <= c /\ (g[i] > 0 => \E j \in 1..k : ids[j] = i)
           P(k) == \A g \in [1..N -> Nat] : B(g, k) => Total(g, N) <= c * k
           S    == {k \in Nat : k <= n => P(k)}
<1>1. n \in Nat /\ DOMAIN ids = 1..n
  BY LenProperties
<1>2. \A k \in 1..n : ids[k] \in 1..N
  BY <1>1, ElementOfSeq
<1> HIDE DEF n
<1>3. 0 \in S
  <2> SUFFICES ASSUME NEW g \in [1..N -> Nat], B(g, 0)
               PROVE  Total(g, N) <= c * 0
    OBVIOUS
  <2>1. \A i \in 1..N : g[i] = 0
    OBVIOUS
  <2>2. g \in [1..N -> Int]
    OBVIOUS
  <2>3. Total(g, N) = 0
    BY <2>1, <2>2, TotalZero
  <2>4. QED
    BY <2>3
<1>4. ASSUME NEW k \in Nat, k \in S
      PROVE  k + 1 \in S
  <2>0. k <= n => P(k)
    BY <1>4
  <2> HIDE DEF P
  <2> SUFFICES ASSUME k + 1 <= n
               PROVE  P(k + 1)
    OBVIOUS
  <2> USE DEF P
  <2> SUFFICES ASSUME NEW g \in [1..N -> Nat], B(g, k + 1)
               PROVE  Total(g, N) <= c * (k + 1)
    OBVIOUS
  <2> DEFINE x == ids[k + 1]
             h == [g EXCEPT ![x] = 0]
  <2>1. x \in 1..N
    BY <1>1, <1>2
  <2> HIDE DEF x
  <2>2. /\ h \in [1..N -> Nat]
        /\ \A i \in 1..N : h[i] = IF i = x THEN 0 ELSE g[i]
    BY <2>1
  <2>3. B(h, k)
    <3> SUFFICES ASSUME NEW i \in 1..N
                 PROVE  h[i] <= c /\ (h[i] > 0 => \E j \in 1..k : ids[j] = i)
      OBVIOUS
    <3>1. CASE i = x
      BY <2>2, <3>1
    <3>2. CASE i # x
      <4>1. h[i] = g[i]
        BY <2>2, <3>2
      <4>2. ASSUME g[i] > 0
            PROVE  \E j \in 1..k : ids[j] = i
        <5>1. PICK j \in 1..(k + 1) : ids[j] = i
          BY <4>2
        <5>2. j # k + 1
          BY <3>2, <5>1 DEF x
        <5>3. j \in 1..k
          BY <5>2
        <5>4. QED
          BY <5>1, <5>3
      <4>3. QED
        BY <4>1, <4>2
    <3>3. QED
      BY <3>1, <3>2
  <2>4. Total(h, N) <= c * k
    <3> HIDE DEF h
    <3>1. P(k)
      <4> HIDE DEF P
      <4>1. QED
        BY <2>0, <1>1
    <3>2. QED
      BY <2>2, <2>3, <3>1
  <2>5. Total(h, N) = Total(g, N) - g[x] + 0
    <3>1. g \in [1..N -> Int] /\ 0 \in Int
      OBVIOUS
    <3>2. QED
      BY <2>1, <3>1, TotalExcept
  <2>6. g[x] <= c /\ g[x] \in Nat
    BY <2>1
  <2>7. Total(g, N) \in Int /\ Total(h, N) \in Int
    <3>1. /\ g \in [1..N -> Int]
          /\ h \in [1..N -> Int]
      BY <2>2
    <3>2. QED
      BY <3>1, TotalType
  <2>8. c * (k + 1) = c * k + c /\ c * k \in Nat
    OBVIOUS
  <2> HIDE DEF h
  <2>9. QED
    BY <2>4, <2>5, <2>6, <2>7, <2>8
<1>5. Nat \subseteq S
  <2> HIDE DEF S
  <2>1. QED
    BY <1>3, <1>4, SetInduction
<1>6. B(f, n)
  BY <1>1 DEF Range
<1>7. Total(f, N) <= c * n
  <2>1. n \in S
    BY <1>1, <1>5
  <2>2. P(n)
    <3> HIDE DEF P
    <3>1. n <= n
      BY <1>1
    <3>2. QED
      BY <2>1, <3>1
  <2>3. QED
    BY <1>6, <2>2
<1>8. QED
  BY <1>7 DEF n

-----------------------------------------------------------------------------
(* The invariant                                                             *)

USE DEF Services

\* The inductive invariant: what unstake, claim and checkpoint keep depends on
\* the types, on the array being exact and on records being in custody together.
Inv == TypeOK /\ Solvency /\ StakedSetExact /\ Custody

-----------------------------------------------------------------------------
(* What a checkpoint computes from a state that satisfies the invariant      *)

\* The constants and the periods derived from them are naturals.
LEMMA ConstantTypes ==
  /\ MaxNumServices \in Nat \ {0}
  /\ RewardsPerSecond \in Nat \ {0}
  /\ LivenessPeriod \in Nat \ {0}
  /\ MinStakingDuration \in Nat
  /\ MaxInactivityDuration \in Nat
  /\ NumServices \in Nat
BY StakingParamsAssumption, EnvironmentAssumption DEF MinStakingDuration, MaxInactivityDuration

\* The services that a checkpoint looks at are in the array, each once.
LEMMA CheckedTypes ==
  ASSUME Inv
  PROVE  /\ CheckpointIds \in Seq(Services)
         /\ IsInjective(CheckpointIds)
         /\ Len(CheckpointIds) <= MaxNumServices
         /\ Checked \subseteq Range(setServiceIds)
         /\ Range(setServiceIds) \subseteq Services
         /\ DOMAIN CheckpointIds = 1..Len(CheckpointIds)
         /\ Len(CheckpointIds) \in Nat
<1>1. /\ setServiceIds \in Seq(Services)
      /\ IsInjective(setServiceIds)
      /\ Range(setServiceIds) = StakedServices
      /\ Len(setServiceIds) <= MaxNumServices
  BY DEF Inv, TypeOK, StakedSetExact
<1>2. Range(setServiceIds) \subseteq Services
  BY <1>1 DEF StakedServices
<1>3. CASE Due
  BY <1>1, <1>2, <1>3, LenProperties DEF CheckpointIds, Checked
<1>4. CASE ~ Due
  <2>1. CheckpointIds = <<>>
    BY <1>4 DEF CheckpointIds
  <2>2. CheckpointIds \in Seq(Services) /\ Len(CheckpointIds) = 0
    BY <2>1, EmptySeq
  <2>3. DOMAIN CheckpointIds = {}
    BY <2>2, LenProperties
  <2>4. QED
    BY <1>2, <2>2, <2>3, ConstantTypes DEF Checked, Range, IsInjective
<1>5. QED
  BY <1>3, <1>4

\* A service is rewarded for a time that is not negative.
LEMMA PeriodTypes ==
  ASSUME Inv, NEW s \in Services
  PROVE  /\ LastTime(s) \in Nat
         /\ Period(s) \in Nat
         /\ Period(s) <= now - tsCheckpoint
<1>1. /\ now \in Nat /\ tsCheckpoint \in 0..now
      /\ tsStart[s] \in Nat
      /\ tsStart[s] <= now
  BY DEF Inv, TypeOK, Custody
<1>2. QED
  BY <1>1 DEF LastTime, Period

\* The reward of a service is a natural number.
LEMMA EligibleRewardType ==
  ASSUME Inv, NEW active
  PROVE  /\ EligibleReward(active) \in [Services -> Nat]
         /\ TotalRewards(active) \in Nat
<1>1. ASSUME NEW s \in Services
      PROVE  (IF s \in Checked \cap active THEN RewardsPerSecond * Period(s) ELSE 0) \in Nat
  <2>1. Period(s) \in Nat /\ RewardsPerSecond \in Nat
    BY PeriodTypes, ConstantTypes
  <2>2. RewardsPerSecond * Period(s) \in Nat
    BY <2>1
  <2>3. QED
    BY <2>2
<1>2. EligibleReward(active) \in [Services -> Nat]
  BY <1>1 DEF EligibleReward
<1>3. QED
  BY <1>2, ConstantTypes, TotalNonNegative DEF TotalRewards

\* Rewards that cannot all be paid have a first eligible service to round for.
LEMMA FirstEligibleChecked ==
  ASSUME Inv, NEW active, Insufficient(active)
  PROVE  FirstEligible(active) \in Checked
<1>1. \E s \in Services : EligibleReward(active)[s] # 0
  <2> SUFFICES ASSUME \A s \in Services : EligibleReward(active)[s] = 0
               PROVE  FALSE
    OBVIOUS
  <2>1. EligibleReward(active) \in [1..NumServices -> Int]
    BY EligibleRewardType
  <2>2. TotalRewards(active) = 0
    BY <2>1, ConstantTypes, TotalZero DEF TotalRewards
  <2>3. QED
    BY <2>2 DEF Insufficient, Inv, TypeOK
<1>2. \E s \in Checked : s \in active
  BY <1>1 DEF EligibleReward
<1> DEFINE T == {i \in DOMAIN CheckpointIds : CheckpointIds[i] \in active}
<1>3. T # {}
  BY <1>2 DEF Checked, Range
<1>4. T \subseteq Nat
  BY CheckedTypes
<1>5. PICK i \in T : \A j \in T : i <= j
  BY <1>3, <1>4, LeastMember
<1>6. \A j \in 1..(i - 1) : CheckpointIds[j] \notin active
  <2> SUFFICES ASSUME NEW j \in 1..(i - 1), CheckpointIds[j] \in active
               PROVE  FALSE
    OBVIOUS
  <2>1. i \in 1..Len(CheckpointIds) /\ Len(CheckpointIds) \in Nat
    BY CheckedTypes
  <2>2. j \in 1..Len(CheckpointIds)
    BY <2>1
  <2>3. j \in T
    BY <2>2, CheckedTypes
  <2>4. i <= j
    BY <1>5, <2>3
  <2>5. QED
    BY <2>1, <2>4
<1> HIDE DEF T
<1>7. \E k \in DOMAIN CheckpointIds :
        /\ CheckpointIds[k] \in active
        /\ \A j \in 1..(k - 1) : CheckpointIds[j] \notin active
  BY <1>5, <1>6 DEF T
<1>8. QED
  BY <1>7, Zenon DEF FirstEligible, Checked, Range

\* A rounded share is at most the exact one.
LEMMA DivBound ==
  ASSUME NEW x \in Nat, NEW t \in Nat \ {0}
  PROVE  /\ x \div t \in Nat
         /\ (x \div t) * t <= x
OBVIOUS

\* The shares are not more than what is available.
LEMMA ShareBound ==
  ASSUME Inv, NEW active
  PROVE  /\ Share(active) \in [Services -> Nat]
         /\ Total(Share(active), NumServices) \in Nat
         /\ Insufficient(active) => Total(Share(active), NumServices) <= availableRewards
         /\ ~ Insufficient(active) => Total(Share(active), NumServices) = TotalRewards(active)
<1> DEFINE e == EligibleReward(active)
           t == TotalRewards(active)
<1>1. /\ e \in [Services -> Nat]
      /\ t \in Nat
      /\ availableRewards \in Nat
  BY EligibleRewardType DEF Inv, TypeOK
<1>2. CASE Insufficient(active)
  <2>1. t \in Nat \ {0} /\ t > availableRewards
    BY <1>1, <1>2 DEF Insufficient
  <2>2. Share(active) = [s \in Services |-> (e[s] * availableRewards) \div t]
    BY <1>2 DEF Share
  <2> HIDE DEF e, t
  <2>3. ASSUME NEW s \in Services
        PROVE  /\ (e[s] * availableRewards) \div t \in Nat
               /\ ((e[s] * availableRewards) \div t) * t <= e[s] * availableRewards
    <3>1. e[s] * availableRewards \in Nat
      BY <1>1
    <3>2. QED
      BY <2>1, <3>1, DivBound
  <2>4. Share(active) \in [Services -> Nat]
    BY <2>2, <2>3
  <2>5. \A s \in Services : Share(active)[s] * t <= e[s] * availableRewards
    BY <2>2, <2>3
  <2>6. /\ Share(active) \in [1..NumServices -> Int]
        /\ e \in [1..NumServices -> Int]
    BY <1>1, <2>4
  <2>7. Total(Share(active), NumServices) * t <= Total(e, NumServices) * availableRewards
    <3> DEFINE sh == Share(active)
    <3>1. /\ sh \in [1..NumServices -> Int]
          /\ \A s \in 1..NumServices : sh[s] * t <= e[s] * availableRewards
      BY <2>5, <2>6
    <3>2. /\ NumServices \in Nat
          /\ availableRewards \in Int
          /\ t \in Int
      BY <1>1, <2>1, ConstantTypes
    <3> HIDE DEF sh
    <3>3. Total(sh, NumServices) * t <= Total(e, NumServices) * availableRewards
      BY <2>6, <3>1, <3>2, TotalScaledBound
    <3>4. QED
      BY <3>3 DEF sh
  <2>8. Total(e, NumServices) = t
    BY DEF e, t, TotalRewards
  <2>9. Total(Share(active), NumServices) \in Nat
    BY <2>4, ConstantTypes, TotalNonNegative
  <2>10. Total(Share(active), NumServices) <= availableRewards
    <3>1. ASSUME NEW x \in Nat, NEW y \in Nat, x * t <= t * y
          PROVE  x <= y
      <4>1. ASSUME x >= y + 1
            PROVE  FALSE
        <5>1. x * t >= (y + 1) * t
          BY <4>1, <2>1
        <5>2. (y + 1) * t = t * y + t
          BY <2>1
        <5>3. t * y \in Nat /\ x * t \in Nat
          BY <2>1
        <5>4. QED
          BY <5>1, <5>2, <5>3, <3>1, <2>1
      <4>2. QED
        BY <4>1
    <3>2. QED
      BY <2>7, <2>8, <2>9, <1>1, <3>1
  <2>11. QED
    BY <1>2, <2>4, <2>9, <2>10
<1>3. CASE ~ Insufficient(active)
  <2>1. Share(active) = [s \in Services |-> e[s]]
    BY <1>3 DEF Share
  <2>2. Share(active) = e
    BY <1>1, <2>1
  <2>3. QED
    BY <1>1, <1>3, <2>2 DEF TotalRewards
<1>4. QED
  BY <1>2, <1>3

\* A checkpoint moves funds from availableRewards to rewards and loses none;
\* a service that is not checked earns nothing.
LEMMA CheckpointRewards ==
  ASSUME Inv, NEW active
  PROVE  /\ RewardAfter(active) \in [Services -> Nat]
         /\ AvailableAfter(active) \in Nat
         /\ availableRewards + Total(reward, NumServices)
              = AvailableAfter(active) + Total(RewardAfter(active), NumServices)
         /\ \A s \in Services \ Checked : RewardAfter(active)[s] = reward[s]
<1> DEFINE sh    == Share(active)
           first == FirstEligible(active)
           mid   == [s \in Services |-> reward[s] + sh[s]]
<1>1. /\ availableRewards \in Nat
      /\ reward \in [Services -> Nat]
      /\ sh \in [Services -> Nat]
      /\ Total(sh, NumServices) \in Nat
      /\ NumServices \in Nat
      /\ Total(reward, NumServices) \in Nat
      /\ TotalRewards(active) \in Nat
  BY ShareBound, ConstantTypes, EligibleRewardType, TotalNonNegative DEF Inv, TypeOK
<1>2. \A s \in Services \ Checked : sh[s] = 0
  <2> SUFFICES ASSUME NEW s \in Services \ Checked
               PROVE  sh[s] = 0
    OBVIOUS
  <2>1. EligibleReward(active)[s] = 0
    BY DEF EligibleReward
  <2>2. CASE Insufficient(active)
    <3>1. TotalRewards(active) \in Nat \ {0}
      BY <2>2, <1>1 DEF Insufficient
    <3>2. sh[s] = (0 * availableRewards) \div TotalRewards(active)
      BY <2>1, <2>2 DEF Share
    <3>3. 0 * availableRewards = 0
      BY <1>1
    <3>4. 0 \div TotalRewards(active) = 0
      BY <3>1
    <3>5. QED
      BY <3>2, <3>3, <3>4
  <2>3. CASE ~ Insufficient(active)
    BY <2>1, <2>3 DEF Share
  <2>4. QED
    BY <2>2, <2>3
<1> HIDE DEF sh
<1>3. /\ mid \in [Services -> Nat]
      /\ Total(mid, NumServices) = Total(reward, NumServices) + Total(sh, NumServices)
  <2>1. /\ mid \in [Services -> Nat]
        /\ \A s \in Services : mid[s] = reward[s] + sh[s]
    BY <1>1
  <2> HIDE DEF mid
  <2>2. /\ mid \in [1..NumServices -> Int]
        /\ sh \in [1..NumServices -> Int]
        /\ reward \in [1..NumServices -> Int]
    BY <1>1, <2>1
  <2>3. Total(mid, NumServices) = Total(reward, NumServices) + Total(sh, NumServices)
    BY <1>1, <2>1, <2>2, TotalSum
  <2>4. QED
    BY <2>1, <2>3
<1>4. CASE Insufficient(active)
  <2>1. first \in Checked
    BY <1>4, FirstEligibleChecked
  <2>2. first \in Services
    BY <2>1, CheckedTypes
  <2> DEFINE left == Leftover(active)
  <2>3. /\ left = availableRewards - Total(sh, NumServices)
        /\ left \in Nat
    BY <1>1, <1>4, ShareBound DEF Leftover, sh
  <2> HIDE DEF left
  <2>4. \A s \in Services : RewardAfter(active)[s] = mid[s] + IF s = first THEN left ELSE 0
    BY <1>4 DEF RewardAfter, sh, left
  <2>5. RewardAfter(active) = [mid EXCEPT ![first] = mid[first] + left]
    <3>1. RewardAfter(active) = [s \in Services |-> RewardAfter(active)[s]]
      BY DEF RewardAfter
    <3> DEFINE next == [mid EXCEPT ![first] = mid[first] + left]
    <3> HIDE DEF first, mid
    <3>2. next = [s \in Services |-> next[s]]
      BY <1>3
    <3>3. \A s \in Services : next[s] = mid[s] + IF s = first THEN left ELSE 0
      BY <1>3, <2>2, <2>3
    <3> HIDE DEF next
    <3>4. \A s \in Services : next[s] = RewardAfter(active)[s]
      BY <2>4, <3>3
    <3>5. RewardAfter(active) = next
      BY <3>1, <3>2, <3>4, Zenon
    <3>6. QED
      BY <3>5 DEF next
  <2>6. RewardAfter(active) \in [Services -> Nat]
    BY <1>3, <2>2, <2>3, <2>5
  <2>7. Total(RewardAfter(active), NumServices) = Total(mid, NumServices) + left
    <3> HIDE DEF first, mid
    <3>1. mid \in [1..NumServices -> Int] /\ first \in 1..NumServices /\ mid[first] + left \in Int
      BY <1>3, <2>2, <2>3
    <3> DEFINE v == mid[first] + left
    <3> HIDE DEF v
    <3>4. v \in Int
      BY <3>1 DEF v
    <3>5. Total([mid EXCEPT ![first] = v], NumServices) = Total(mid, NumServices) - mid[first] + v
      BY <1>1, <3>1, <3>4, TotalExcept
    <3>2. Total(RewardAfter(active), NumServices)
            = Total(mid, NumServices) - mid[first] + (mid[first] + left)
      BY <2>5, <3>5 DEF v
    <3>3. Total(mid, NumServices) \in Int /\ mid[first] \in Int /\ left \in Int
      BY <1>1, <1>3, <2>3, <3>1, TotalType
    <3>6. QED
      BY <3>2, <3>3
  <2>8. AvailableAfter(active) = 0
    BY <1>4 DEF AvailableAfter
  <2>9. \A s \in Services \ Checked : RewardAfter(active)[s] = reward[s]
    <3> SUFFICES ASSUME NEW s \in Services \ Checked
                 PROVE  RewardAfter(active)[s] = reward[s]
      OBVIOUS
    <3>1. s # first /\ sh[s] = 0
      BY <1>2, <2>1
    <3>2. RewardAfter(active)[s] = reward[s] + sh[s] + 0
      BY <2>4, <3>1
    <3>3. QED
      BY <1>1, <3>1, <3>2
  <2> HIDE DEF first, mid
  <2>10. availableRewards + Total(reward, NumServices)
           = AvailableAfter(active) + Total(RewardAfter(active), NumServices)
    BY <1>1, <1>3, <2>3, <2>7, <2>8
  <2>11. QED
    BY <2>6, <2>8, <2>9, <2>10
<1>5. CASE ~ Insufficient(active)
  <2>1. /\ RewardAfter(active) = [s \in Services |-> reward[s] + sh[s] + 0]
        /\ RewardAfter(active) = mid
    BY <1>1, <1>5 DEF RewardAfter, sh
  <2>2. /\ AvailableAfter(active) = availableRewards - TotalRewards(active)
        /\ AvailableAfter(active) \in Nat
    BY <1>1, <1>5 DEF AvailableAfter, Insufficient
  <2>3. Total(sh, NumServices) = TotalRewards(active)
    BY <1>5, ShareBound DEF sh
  <2>4. \A s \in Services \ Checked : RewardAfter(active)[s] = reward[s]
    BY <1>1, <1>2, <2>1
  <2>7. RewardAfter(active) = mid
    BY <2>1
  <2> HIDE DEF mid
  <2>5. availableRewards + Total(reward, NumServices)
           = AvailableAfter(active) + Total(RewardAfter(active), NumServices)
    BY <1>1, <1>3, <2>7, <2>2, <2>3
  <2>6. QED
    BY <1>3, <2>7, <2>2, <2>4, <2>5
<1>6. QED
  BY <1>4, <1>5

\* Inactivity counts stay natural numbers.
LEMMA CheckpointInactivity ==
  ASSUME Inv, NEW active
  PROVE  /\ InactivityAfter(active) \in [Services -> Nat]
         /\ \A s \in Services \ Checked : InactivityAfter(active)[s] = inactivity[s]
<1>1. \A s \in Services : Period(s) \in Nat /\ inactivity[s] \in Nat
  BY PeriodTypes DEF Inv, TypeOK
<1>2. QED
  BY <1>1 DEF InactivityAfter

\* After a checkpoint the array holds the staked services that are not over the
\* inactivity limit, each once; those that keep a position keep their index.
LEMMA CheckpointSet ==
  ASSUME Inv, NEW active
  PROVE  /\ SetAfter(active) \in Seq(Services)
         /\ Len(SetAfter(active)) <= Len(setServiceIds)
         /\ IsInjective(SetAfter(active))
         /\ Range(SetAfter(active)) = Range(setServiceIds) \ Evicted(active)
         /\ Range(SetAfter(active))
              = {s \in Services : tsStart[s] > 0 /\ InactivityAfter(active)[s] <= MaxInactivityDuration}
         /\ \A j \in 1..Len(SetAfter(active)) :
              setServiceIds[j] \notin Evicted(active) => SetAfter(active)[j] = setServiceIds[j]
<1>1. /\ setServiceIds \in Seq(Services)
      /\ IsInjective(setServiceIds)
      /\ Range(setServiceIds) = StakedServices
  BY DEF Inv, TypeOK, StakedSetExact
<1>2. /\ SetAfter(active) \in Seq(Services)
      /\ Len(SetAfter(active)) <= Len(setServiceIds)
      /\ IsInjective(SetAfter(active))
      /\ Range(SetAfter(active)) = Range(setServiceIds) \ Evicted(active)
      /\ \A j \in 1..Len(SetAfter(active)) :
           setServiceIds[j] \notin Evicted(active) => SetAfter(active)[j] = setServiceIds[j]
  <2> DEFINE ev == Evicted(active)
  <2> HIDE DEF ev
  <2>1. SetAfter(active) = _evict(setServiceIds, ev)
    BY DEF SetAfter, ev
  <2>2. QED
    BY <1>1, <2>1, EvictResult DEF ev
<1>3. \A s \in Services \ Checked : InactivityAfter(active)[s] = inactivity[s]
  BY CheckpointInactivity
<1>4. Checked \subseteq StakedServices
  BY <1>1, CheckedTypes
<1>5. Range(setServiceIds) \ Evicted(active)
        = {s \in Services : tsStart[s] > 0 /\ InactivityAfter(active)[s] <= MaxInactivityDuration}
  <2>1. \A s \in Services : InactivityAfter(active)[s] \in Nat
    BY CheckpointInactivity
  <2>2. MaxInactivityDuration \in Nat
    BY ConstantTypes
  <2>3. \A s \in Services : s \in Evicted(active) <=>
            s \in Checked /\ ~ (InactivityAfter(active)[s] <= MaxInactivityDuration)
    BY <2>1, <2>2 DEF Evicted
  <2>4. \A s : s \in StakedServices <=>
            s \in Services /\ tsStart[s] > 0 /\ inactivity[s] <= MaxInactivityDuration
    BY DEF StakedServices
  <2>5. QED
    BY <1>1, <1>3, <1>4, <2>3, <2>4
<1>6. QED
  BY <1>2, <1>5

-----------------------------------------------------------------------------
(* Every call preserves the invariant                                        *)

\* A new staking contract satisfies the invariant.
LEMMA InitInv == Init => Inv
<1> SUFFICES ASSUME Init
             PROVE  Inv
  OBVIOUS
<1>1. /\ Len(<<>>) = 0
      /\ DOMAIN setServiceIds = {}
      /\ setServiceIds \in Seq(Services)
      /\ pending \in Seq(Nat)
  <2>1. setServiceIds = <<>> /\ pending = <<>>
    BY DEF Init
  <2>2. QED
    BY <2>1, EmptySeq, LenProperties
<1>2. TypeOK
  BY <1>1 DEF Init, TypeOK
<1>3. Solvency
  <2>1. Total(reward, NumServices) = 0
    <3>1. /\ reward \in [1..NumServices -> Int]
          /\ \A s \in 1..NumServices : reward[s] = 0
      BY DEF Init
    <3>2. QED
      BY <3>1, ConstantTypes, TotalZero
  <2>2. PendingTotal = 0
    BY <1>1, TotalEmpty DEF PendingTotal, Init
  <2>3. QED
    BY <2>1, <2>2 DEF Init, Solvency
<1>4. StakedSetExact
  <2>1. StakedServices = {}
    BY DEF Init, StakedServices
  <2>2. Range(setServiceIds) = {} /\ IsInjective(setServiceIds)
    BY <1>1 DEF Range, IsInjective
  <2>3. Len(setServiceIds) <= MaxNumServices
    BY <1>1, ConstantTypes DEF Init
  <2>4. QED
    BY <2>1, <2>2, <2>3 DEF StakedSetExact
<1>5. Custody
  BY DEF Init, Custody
<1>6. QED
  BY <1>2, <1>3, <1>4, <1>5 DEF Inv

\* The sums that Solvency compares are natural numbers.
LEMMA StepTypes ==
  ASSUME Inv
  PROVE  /\ balance \in Nat
         /\ Total(reward, NumServices) \in Nat
         /\ PendingTotal \in Nat
<1>1. Total(reward, NumServices) \in Nat
  BY ConstantTypes, TotalNonNegative DEF Inv, TypeOK
<1>2. PendingTotal \in Nat
  <2>1. /\ Len(pending) \in Nat
        /\ pending \in [1..Len(pending) -> Nat]
    BY LenProperties DEF Inv, TypeOK
  <2>2. QED
    BY <2>1, TotalNonNegative DEF PendingTotal
<1>3. QED
  BY <1>1, <1>2 DEF Inv, TypeOK, Solvency

\* The epoch variables stay natural numbers.
LEMMA EpochAfterTypes ==
  ASSUME Inv, EpochAfter
  PROVE  /\ epochCounter' \in Nat
         /\ tsCheckpoint' \in 0..now
         /\ tsCheckpoint <= tsCheckpoint'
BY DEF EpochAfter, Inv, TypeOK

\* deposit keeps the invariant.
LEMMA depositInv ==
  ASSUME Inv, NEW amount \in DepositAmounts, deposit(amount)
  PROVE  Inv'
<1>1. amount \in Nat
  BY EnvironmentAssumption
<1>2. TypeOK'
  BY <1>1 DEF Inv, TypeOK, deposit, infoVars
<1>3. Solvency'
  <2>1. PendingTotal' = PendingTotal
    BY DEF deposit, PendingTotal
  <2>2. QED
    BY <1>1, <2>1, StepTypes DEF Inv, TypeOK, Solvency, deposit, infoVars
<1>4. StakedSetExact' /\ Custody'
  BY DEF Inv, StakedSetExact, StakedServices, Custody, deposit, infoVars
<1>5. QED
  BY <1>2, <1>3, <1>4 DEF Inv

\* Time passing keeps the invariant.
LEMMA TickInv ==
  ASSUME Inv, Tick
  PROVE  Inv'
<1>1. TypeOK'
  BY DEF Inv, TypeOK, Tick, infoVars, epochVars
<1>2. Solvency' /\ StakedSetExact'
  BY DEF Inv, Solvency, PendingTotal, StakedSetExact, StakedServices, Tick, infoVars, epochVars
<1>3. Custody'
  BY DEF Inv, TypeOK, Custody, Tick, infoVars, epochVars
<1>4. QED
  BY <1>1, <1>2, <1>3 DEF Inv

\* A service token that moves between accounts keeps the invariant.
LEMMA TransferServiceInv ==
  ASSUME Inv, NEW s \in Services, NEW to \in Owners \cup {StakingContract},
         TransferService(s, to)
  PROVE  Inv'
<1>1. TypeOK'
  BY DEF Inv, TypeOK, TransferService, infoVars, epochVars
<1>2. Solvency' /\ StakedSetExact'
  BY DEF Inv, Solvency, PendingTotal, StakedSetExact, StakedServices, TransferService,
         infoVars, epochVars
<1>3. Custody'
  <2>1. tsStart[s] = 0
    BY EnvironmentAssumption DEF Inv, TypeOK, Custody, TransferService
  <2>2. QED
    BY <2>1 DEF Inv, TypeOK, Custody, TransferService, infoVars, epochVars
<1>4. QED
  BY <1>1, <1>2, <1>3 DEF Inv

\* A pending withdrawal that is paid keeps the invariant.
LEMMA _withdrawInv ==
  ASSUME Inv, _withdraw
  PROVE  Inv'
<1>1. /\ pending' \in Seq(Nat)
      /\ pending[Len(pending)] \in Nat
      /\ PendingTotal = PendingTotal' + pending[Len(pending)]
  BY TotalPop DEF Inv, TypeOK, PendingTotal, _withdraw
<1>2. TypeOK'
  BY <1>1 DEF Inv, TypeOK, _withdraw, infoVars, epochVars
<1>3. Solvency'
  <2>1. PendingTotal' \in Int
    <3>1. /\ Len(pending') \in Nat
          /\ pending' \in [1..Len(pending') -> Int]
      BY <1>1, LenProperties
    <3>2. QED
      BY <3>1, TotalType DEF PendingTotal
  <2>2. /\ balance' = balance - pending[Len(pending)]
        /\ availableRewards' = availableRewards
        /\ reward' = reward
    BY DEF _withdraw, infoVars, epochVars
  <2>3. balance = availableRewards + Total(reward, NumServices) + PendingTotal
    BY DEF Inv, Solvency
  <2>4. availableRewards \in Nat
    BY DEF Inv, TypeOK
  <2> DEFINE v == pending[Len(pending)]
  <2>7. v \in Nat /\ PendingTotal = PendingTotal' + v /\ balance' = balance - v
    BY <1>1, <2>2
  <2> HIDE DEF v
  <2>8. balance' = availableRewards + Total(reward, NumServices) + PendingTotal'
    BY <2>1, <2>3, <2>4, <2>7, StepTypes
  <2>5. balance' = availableRewards' + Total(reward', NumServices) + PendingTotal'
    BY <2>2, <2>8
  <2>6. QED
    BY <2>5 DEF Solvency
<1>4. StakedSetExact' /\ Custody'
  BY DEF Inv, StakedSetExact, StakedServices, Custody, _withdraw, infoVars, epochVars
<1>5. QED
  BY <1>2, <1>3, <1>4 DEF Inv

\* claim keeps the invariant.
LEMMA claimInv ==
  ASSUME Inv, NEW sender \in Owners, NEW s \in Services, claim(sender, s)
  PROVE  Inv'
<1>1. TypeOK'
  BY DEF Inv, TypeOK, claim, infoVars, epochVars
<1>2. Solvency'
  <2>1. Total([reward EXCEPT ![s] = 0], NumServices)
          = Total(reward, NumServices) - reward[s] + 0
    <3>1. reward \in [1..NumServices -> Int] /\ 0 \in Int
      BY DEF Inv, TypeOK
    <3>2. QED
      BY <3>1, ConstantTypes, TotalExcept
  <2>2. reward[s] \in Nat
    BY DEF Inv, TypeOK
  <2>3. PendingTotal' = PendingTotal
    BY DEF claim, PendingTotal
  <2>4. /\ reward' = [reward EXCEPT ![s] = 0]
        /\ balance' = balance - reward[s]
        /\ availableRewards' = availableRewards
    BY DEF claim, epochVars
  <2>5. balance = availableRewards + Total(reward, NumServices) + PendingTotal
    BY DEF Inv, Solvency
  <2>6. availableRewards \in Nat
    BY DEF Inv, TypeOK
  <2>7. balance' = availableRewards' + Total(reward', NumServices) + PendingTotal'
    BY <2>1, <2>2, <2>3, <2>4, <2>5, <2>6, StepTypes
  <2>8. QED
    BY <2>7 DEF Solvency
<1>3. StakedSetExact'
  BY DEF Inv, StakedSetExact, StakedServices, claim
<1>4. Custody'
  BY DEF Inv, TypeOK, Custody, claim
<1>5. QED
  BY <1>1, <1>2, <1>3, <1>4 DEF Inv

\* stake keeps the invariant.
LEMMA stakeInv ==
  ASSUME Inv, NEW sender \in Owners, NEW s \in Services, stake(sender, s)
  PROVE  Inv'
<1> DEFINE n == Len(setServiceIds)
<1>1. /\ setServiceIds \in Seq(Services)
      /\ n \in Nat
      /\ DOMAIN setServiceIds = 1..n
      /\ IsInjective(setServiceIds)
      /\ Range(setServiceIds) = StakedServices
      /\ n < MaxNumServices
  BY LenProperties, ConstantTypes DEF Inv, TypeOK, StakedSetExact, stake
<1>2. /\ setServiceIds' = Append(setServiceIds, s)
      /\ tsStart[s] = 0
      /\ tsStart' = [tsStart EXCEPT ![s] = now]
      /\ inactivity' = inactivity
      /\ inactivity[s] = 0
      /\ now \in Nat \ {0}
      /\ tsStart \in [Services -> Nat]
  BY DEF Inv, TypeOK, Custody, stake
<1>3. /\ setServiceIds' \in Seq(Services)
      /\ Len(setServiceIds') = n + 1
      /\ \A i \in 1..n : setServiceIds'[i] = setServiceIds[i]
      /\ setServiceIds'[n + 1] = s
  BY <1>1, <1>2
<1>4. DOMAIN setServiceIds' = 1..(n + 1)
  BY <1>3, LenProperties
<1> HIDE DEF n
<1>5. TypeOK'
  BY <1>3 DEF Inv, TypeOK, stake, epochVars
<1>6. Solvency'
  BY DEF Inv, Solvency, PendingTotal, stake, epochVars
<1>7. s \notin StakedServices
  BY <1>2 DEF StakedServices
<1>8. StakedSetExact'
  <2>1. \A i \in 1..n : setServiceIds[i] # s
    BY <1>1, <1>7 DEF Range
  <2>2. IsInjective(setServiceIds')
    <3> SUFFICES ASSUME NEW a \in 1..(n + 1), NEW b \in 1..(n + 1),
                        setServiceIds'[a] = setServiceIds'[b]
                 PROVE  a = b
      BY <1>4 DEF IsInjective
    <3>1. CASE a \in 1..n /\ b \in 1..n
      <4>1. setServiceIds[a] = setServiceIds[b]
        BY <1>3, <3>1
      <4>2. QED
        BY <1>1, <3>1, <4>1 DEF IsInjective
    <3>2. CASE ~ (a \in 1..n /\ b \in 1..n)
      BY <1>1, <1>3, <2>1, <3>2
    <3>3. QED
      BY <3>1, <3>2
  <2>3. Range(setServiceIds') = Range(setServiceIds) \cup {s}
    <3>1. \A e : e \in Range(setServiceIds') <=> \E i \in 1..(n + 1) : e = setServiceIds'[i]
      BY <1>4, Zenon DEF Range
    <3>2. \A e : e \in Range(setServiceIds) <=> \E i \in 1..n : e = setServiceIds[i]
      BY <1>1, Zenon DEF Range
    <3>3. /\ 1..(n + 1) = 1..n \cup {n + 1}
      BY <1>1
    <3>4. \A e : (\E i \in 1..(n + 1) : e = setServiceIds'[i]) <=>
                 (\E i \in 1..n : e = setServiceIds[i]) \/ e = s
      BY <1>3, <3>3, Zenon
    <3>5. QED
      BY <3>1, <3>2, <3>4
  <2>4. StakedServices' = StakedServices \cup {s}
    BY <1>2, ConstantTypes DEF StakedServices
  <2>5. Len(setServiceIds') <= MaxNumServices
    BY <1>1, <1>3, ConstantTypes
  <2>6. QED
    BY <1>1, <2>2, <2>3, <2>4, <2>5 DEF StakedSetExact
<1>9. Custody'
  BY <1>2 DEF Inv, TypeOK, Custody, stake
<1>10. QED
  BY <1>5, <1>6, <1>8, <1>9 DEF Inv

\* A service without a record has nothing to be checked, rewarded or evicted.
LEMMA NoRecordUnchanged ==
  ASSUME Inv, NEW active, NEW s \in Services, tsStart[s] = 0
  PROVE  /\ RewardAfter(active)[s] = 0
         /\ InactivityAfter(active)[s] = 0
<1>1. s \notin StakedServices
  BY DEF Inv, TypeOK, StakedServices
<1>2. s \notin Checked
  BY <1>1, CheckedTypes DEF Inv, StakedSetExact
<1>3. QED
  BY <1>2, CheckpointRewards, CheckpointInactivity DEF Inv, Custody

\* checkpoint keeps the invariant.
LEMMA checkpointInv ==
  ASSUME Inv, NEW active \in SUBSET Checked, checkpoint(active)
  PROVE  Inv'
<1>1. TypeOK'
  BY CheckpointRewards, CheckpointInactivity, CheckpointSet, EpochAfterTypes
     DEF Inv, TypeOK, checkpoint
<1>2. Solvency'
  <2>1. /\ availableRewards' = AvailableAfter(active)
        /\ reward' = RewardAfter(active)
        /\ balance' = balance
        /\ PendingTotal' = PendingTotal
    BY DEF checkpoint, PendingTotal
  <2>2. /\ availableRewards + Total(reward, NumServices)
             = AvailableAfter(active) + Total(RewardAfter(active), NumServices)
        /\ AvailableAfter(active) \in Nat
        /\ RewardAfter(active) \in [1..NumServices -> Nat]
    BY CheckpointRewards
  <2>3. Total(RewardAfter(active), NumServices) \in Nat
    BY <2>2, ConstantTypes, TotalNonNegative
  <2>4. balance = availableRewards + Total(reward, NumServices) + PendingTotal
    BY DEF Inv, Solvency
  <2>5. availableRewards \in Nat
    BY DEF Inv, TypeOK
  <2>6. balance = AvailableAfter(active) + Total(RewardAfter(active), NumServices) + PendingTotal
    BY <2>2, <2>3, <2>4, <2>5, StepTypes
  <2>7. QED
    BY <2>1, <2>6 DEF Solvency
<1>3. StakedSetExact'
  <2>1. StakedServices' = Range(setServiceIds')
    BY CheckpointSet DEF StakedServices, checkpoint
  <2>2. IsInjective(setServiceIds')
    BY CheckpointSet DEF checkpoint
  <2>3. Len(setServiceIds') <= MaxNumServices
    <3>1. /\ Len(setServiceIds') <= Len(setServiceIds)
          /\ Len(setServiceIds) <= MaxNumServices
      BY CheckpointSet DEF checkpoint, Inv, StakedSetExact
    <3>2. Len(setServiceIds') \in Nat /\ Len(setServiceIds) \in Nat
      BY CheckpointSet, LenProperties DEF checkpoint, Inv, TypeOK
    <3>3. QED
      BY <3>1, <3>2, ConstantTypes
  <2>4. QED
    BY <2>1, <2>2, <2>3 DEF StakedSetExact
<1>4. Custody'
  BY NoRecordUnchanged DEF Inv, TypeOK, Custody, checkpoint
<1>5. QED
  BY <1>1, <1>2, <1>3, <1>4 DEF Inv

\* Paying a service what it has after a checkpoint takes its reward to zero.
LEMMA PayAfterCheckpoint ==
  ASSUME Inv, NEW active, NEW s \in Services
  PROVE  /\ [RewardAfter(active) EXCEPT ![s] = 0] \in [Services -> Nat]
         /\ RewardAfter(active)[s] \in Nat
         /\ AvailableAfter(active) \in Nat
         /\ Total([RewardAfter(active) EXCEPT ![s] = 0], NumServices) \in Nat
         /\ balance = AvailableAfter(active)
                      + Total([RewardAfter(active) EXCEPT ![s] = 0], NumServices)
                      + RewardAfter(active)[s] + PendingTotal
<1> DEFINE r == RewardAfter(active)
           z == [r EXCEPT ![s] = 0]
<1>1. /\ r \in [1..NumServices -> Nat]
      /\ AvailableAfter(active) \in Nat
      /\ availableRewards + Total(reward, NumServices) = AvailableAfter(active) + Total(r, NumServices)
  BY CheckpointRewards
<1> HIDE DEF r
<1>2. z \in [1..NumServices -> Nat] /\ r[s] \in Nat /\ 0 \in Int
  BY <1>1
<1>3. Total(z, NumServices) = Total(r, NumServices) - r[s] + 0
  <2>1. r \in [1..NumServices -> Int] /\ s \in 1..NumServices /\ 0 \in Int /\ NumServices \in Nat
    BY <1>1, ConstantTypes DEF Services
  <2>2. QED
    BY <2>1, TotalExcept
<1>4. Total(z, NumServices) \in Nat /\ Total(r, NumServices) \in Nat
  BY <1>1, <1>2, ConstantTypes, TotalNonNegative
<1>5. balance = availableRewards + Total(reward, NumServices) + PendingTotal
  BY DEF Inv, Solvency
<1>6. availableRewards \in Nat
  BY DEF Inv, TypeOK
<1> HIDE DEF z
<1>7. balance = AvailableAfter(active) + Total(z, NumServices) + r[s] + PendingTotal
  <2>1. PendingTotal \in Nat /\ Total(reward, NumServices) \in Nat
    BY StepTypes
  <2>2. r[s] \in Nat /\ AvailableAfter(active) \in Nat
    BY <1>1, <1>2
  <2>3. availableRewards + Total(reward, NumServices) = AvailableAfter(active) + Total(r, NumServices)
    BY <1>1
  <2>4. QED
    BY <1>3, <1>4, <1>5, <1>6, <2>1, <2>2, <2>3
<1>8. QED
  BY <1>1, <1>2, <1>4, <1>7 DEF z, r

\* checkpointAndClaim keeps the invariant.
LEMMA checkpointAndClaimInv ==
  ASSUME Inv, NEW active \in SUBSET Checked, NEW sender \in Owners, NEW s \in Services,
         checkpointAndClaim(sender, s, active)
  PROVE  Inv'
<1>1. TypeOK'
  <2>1. /\ reward' \in [Services -> Nat]
        /\ balance' \in Int
        /\ availableRewards' \in Nat
    <3> DEFINE v == RewardAfter(active)[s]
    <3>1. /\ [RewardAfter(active) EXCEPT ![s] = 0] \in [Services -> Nat]
          /\ v \in Nat
          /\ AvailableAfter(active) \in Nat
      BY PayAfterCheckpoint
    <3>2. /\ reward' = [RewardAfter(active) EXCEPT ![s] = 0]
          /\ balance' = balance - v
          /\ availableRewards' = AvailableAfter(active)
      BY DEF checkpointAndClaim
    <3> HIDE DEF v
    <3>3. balance' \in Int
      BY <3>1, <3>2, StepTypes
    <3>4. QED
      BY <3>1, <3>2, <3>3
  <2>2. /\ inactivity' \in [Services -> Nat]
        /\ setServiceIds' \in Seq(Services)
    BY CheckpointInactivity, CheckpointSet DEF checkpointAndClaim
  <2>3. /\ epochCounter' \in Nat
        /\ tsCheckpoint' \in 0..now
    BY EpochAfterTypes DEF checkpointAndClaim
  <2>4. UNCHANGED <<now, owner, tsStart, nftOwner, pending>>
    BY DEF checkpointAndClaim
  <2>5. QED
    BY <2>1, <2>2, <2>3, <2>4 DEF Inv, TypeOK
<1>2. Solvency'
  <2> DEFINE z == [RewardAfter(active) EXCEPT ![s] = 0]
             v == RewardAfter(active)[s]
  <2>1. /\ availableRewards' = AvailableAfter(active)
        /\ reward' = z
        /\ balance' = balance - v
        /\ PendingTotal' = PendingTotal
    BY DEF checkpointAndClaim, PendingTotal
  <2>2. /\ v \in Nat
        /\ AvailableAfter(active) \in Nat
        /\ Total(z, NumServices) \in Nat
        /\ balance = AvailableAfter(active) + Total(z, NumServices) + v + PendingTotal
    BY PayAfterCheckpoint
  <2> HIDE DEF z, v
  <2>3. balance' = AvailableAfter(active) + Total(z, NumServices) + PendingTotal
    BY <2>1, <2>2, StepTypes
  <2>4. QED
    BY <2>1, <2>3 DEF Solvency
<1>3. StakedSetExact'
  <2>1. StakedServices' = Range(setServiceIds')
    BY CheckpointSet DEF StakedServices, checkpointAndClaim
  <2>2. IsInjective(setServiceIds')
    BY CheckpointSet DEF checkpointAndClaim
  <2>3. Len(setServiceIds') <= MaxNumServices
    <3>1. /\ Len(setServiceIds') <= Len(setServiceIds)
          /\ Len(setServiceIds) <= MaxNumServices
      BY CheckpointSet DEF checkpointAndClaim, Inv, StakedSetExact
    <3>2. Len(setServiceIds') \in Nat /\ Len(setServiceIds) \in Nat
      BY CheckpointSet, LenProperties DEF checkpointAndClaim, Inv, TypeOK
    <3>3. QED
      BY <3>1, <3>2, ConstantTypes
  <2>4. QED
    BY <2>1, <2>2, <2>3 DEF StakedSetExact
<1>4. Custody'
  <2>1. ASSUME NEW q \in Services, tsStart[q] = 0
        PROVE  [RewardAfter(active) EXCEPT ![s] = 0][q] = 0
    <3>1. RewardAfter(active)[q] = 0
      BY <2>1, NoRecordUnchanged
    <3>2. RewardAfter(active) \in [Services -> Nat]
      BY CheckpointRewards
    <3>3. QED
      BY <3>1, <3>2
  <2>2. \A q \in Services : tsStart[q] = 0 => reward'[q] = 0 /\ inactivity'[q] = 0
    BY <2>1, NoRecordUnchanged DEF checkpointAndClaim
  <2>3. UNCHANGED <<now, owner, tsStart, nftOwner>>
    BY DEF checkpointAndClaim
  <2>4. \A q \in Services : tsStart[q] \in Nat
    BY DEF Inv, TypeOK
  <2>5. QED
    BY <2>2, <2>3, <2>4 DEF Inv, Custody
<1>5. QED
  BY <1>1, <1>2, <1>3, <1>4 DEF Inv

\* unstake, with the checkpoint it makes, keeps the invariant.
LEMMA unstakeInv ==
  ASSUME Inv, NEW active \in SUBSET Checked, NEW sender \in Owners, NEW s \in Services,
         unstake(sender, s, active)
  PROVE  Inv'
<1> DEFINE v == RewardAfter(active)[s]
           z == [RewardAfter(active) EXCEPT ![s] = 0]
<1>1. /\ z \in [Services -> Nat]
      /\ v \in Nat
      /\ AvailableAfter(active) \in Nat
      /\ Total(z, NumServices) \in Nat
      /\ balance = AvailableAfter(active) + Total(z, NumServices) + v + PendingTotal
  BY PayAfterCheckpoint
<1>2. /\ reward' = z
      /\ availableRewards' = AvailableAfter(active)
      /\ pending' = IF v > 0 THEN Append(pending, v) ELSE pending
      /\ balance' = balance
      /\ now' = now
  BY DEF unstake, deleteInfo
<1> HIDE DEF v, z
<1>3. /\ pending' \in Seq(Nat)
      /\ PendingTotal' = PendingTotal + v
  <2>1. pending \in Seq(Nat)
    BY DEF Inv, TypeOK
  <2>2. CASE v > 0
    <3>1. pending' = Append(pending, v)
      BY <1>2, <2>2
    <3>2. QED
      BY <1>1, <2>1, <3>1, TotalPush DEF PendingTotal
  <2>3. CASE ~ (v > 0)
    <3>1. pending' = pending /\ v = 0
      BY <1>1, <1>2, <2>3
    <3>2. PendingTotal' = PendingTotal
      BY <3>1 DEF PendingTotal
    <3>3. QED
      BY <2>1, <3>1, <3>2, StepTypes
  <2>4. QED
    BY <2>2, <2>3
<1>4. /\ owner' = [owner EXCEPT ![s] = NoOwner]
      /\ tsStart' = [tsStart EXCEPT ![s] = 0]
      /\ inactivity' = [InactivityAfter(active) EXCEPT ![s] = 0]
      /\ nftOwner' = [nftOwner EXCEPT ![s] = sender]
  BY DEF unstake, deleteInfo
<1>5. /\ InactivityAfter(active) \in [Services -> Nat]
      /\ owner \in [Services -> Owners \cup {NoOwner}]
      /\ tsStart \in [Services -> Nat]
      /\ nftOwner \in [Services -> Owners \cup {StakingContract}]
  BY CheckpointInactivity DEF Inv, TypeOK
<1> DEFINE after == SetAfter(active)
           idx   == IndexOf(s)
<1>6. /\ after \in Seq(Services)
      /\ Len(after) \in Nat
      /\ Len(after) <= MaxNumServices
      /\ IsInjective(after)
      /\ Range(after) = Range(setServiceIds) \ Evicted(active)
      /\ Range(after) = {q \in Services :
                           tsStart[q] > 0 /\ InactivityAfter(active)[q] <= MaxInactivityDuration}
      /\ \A j \in 1..Len(after) : setServiceIds[j] \notin Evicted(active) => after[j] = setServiceIds[j]
  <2>1. Len(after) <= Len(setServiceIds) /\ Len(setServiceIds) <= MaxNumServices
    BY CheckpointSet DEF Inv, StakedSetExact
  <2>2. Len(after) \in Nat /\ Len(setServiceIds) \in Nat
    BY CheckpointSet, LenProperties DEF Inv, TypeOK
  <2>3. Len(after) <= MaxNumServices
    BY <2>1, <2>2, ConstantTypes
  <2>4. QED
    BY <2>2, <2>3, CheckpointSet
<1>7. /\ setServiceIds' \in Seq(Services)
      /\ Len(setServiceIds') <= MaxNumServices
      /\ IsInjective(setServiceIds')
      /\ Range(setServiceIds') = Range(after) \ {s}
  <2>1. setServiceIds' = IF InSet(s, active) THEN SwapRemove(after, idx) ELSE after
    BY DEF unstake
  <2>2. s \in Range(after) <=> InSet(s, active)
    BY <1>6 DEF InSet
  <2>3. CASE InSet(s, active)
    <3>1. idx <= Len(after)
      BY <2>3 DEF unstake, IndexExists
    <3>2. idx \in DOMAIN setServiceIds /\ setServiceIds[idx] = s
      <4>1. \E i \in DOMAIN setServiceIds : setServiceIds[i] = s
        BY <2>3 DEF InSet, Range
      <4>2. QED
        BY <4>1, Zenon DEF IndexOf
    <3>3. idx \in 1..Len(after)
      <4>1. DOMAIN setServiceIds = 1..Len(setServiceIds) /\ Len(setServiceIds) \in Nat
        BY LenProperties DEF Inv, TypeOK
      <4> HIDE DEF idx
      <4>2. QED
        BY <1>6, <3>1, <3>2, <4>1
    <3>4. after[idx] = s
      BY <1>6, <2>3, <3>2, <3>3 DEF InSet
    <3> HIDE DEF after, idx
    <3>5. /\ SwapRemove(after, idx) \in Seq(Services)
          /\ Len(SwapRemove(after, idx)) = Len(after) - 1
          /\ IsInjective(SwapRemove(after, idx))
          /\ Range(SwapRemove(after, idx)) = Range(after) \ {s}
      BY <1>6, <3>3, <3>4, SwapRemoveElements, SwapRemoveSet
    <3>6. setServiceIds' = SwapRemove(after, idx)
      BY <2>1, <2>3
    <3>7. Len(setServiceIds') <= MaxNumServices
      BY <1>6, <3>5, <3>6, ConstantTypes
    <3>8. QED
      BY <3>5, <3>6, <3>7
  <2>4. CASE ~ InSet(s, active)
    <3>1. setServiceIds' = after /\ s \notin Range(after)
      BY <2>1, <2>2, <2>4
    <3>2. QED
      BY <1>6, <3>1
  <2>5. QED
    BY <2>3, <2>4
<1> HIDE DEF after, idx
<1>8. TypeOK'
  <2>1. /\ epochCounter' \in Nat
        /\ tsCheckpoint' \in 0..now
    BY EpochAfterTypes DEF unstake
  <2>2. balance \in Int /\ now \in Nat \ {0}
    BY DEF Inv, TypeOK
  <2>3. QED
    BY <1>1, <1>2, <1>3, <1>4, <1>5, <1>7, <2>1, <2>2 DEF TypeOK
<1>9. Solvency'
  <2>1. balance = AvailableAfter(active) + Total(z, NumServices) + (PendingTotal + v)
    BY <1>1, StepTypes
  <2>2. QED
    BY <1>2, <1>3, <2>1 DEF Solvency
<1>10. StakedSetExact'
  <2>1. StakedServices' = {q \in Services : tsStart'[q] > 0 /\ inactivity'[q] <= MaxInactivityDuration}
    BY DEF StakedServices
  <2>2. \A q \in Services : q # s =>
          tsStart'[q] = tsStart[q] /\ inactivity'[q] = InactivityAfter(active)[q]
    BY <1>4, <1>5
  <2>3. tsStart'[s] = 0
    BY <1>4, <1>5
  <2>4. StakedServices' = Range(after) \ {s}
    BY <1>6, <2>1, <2>2, <2>3
  <2>5. QED
    BY <1>7, <2>4 DEF StakedSetExact
<1>11. Custody'
  <2> SUFFICES ASSUME NEW q \in Services
               PROVE  IF tsStart'[q] > 0
                      THEN nftOwner'[q] = StakingContract /\ owner'[q] \in Owners /\ tsStart'[q] <= now'
                      ELSE owner'[q] = NoOwner /\ reward'[q] = 0 /\ inactivity'[q] = 0
    BY DEF Custody
  <2>1. CASE q = s
    BY <1>1, <1>2, <1>4, <1>5, <2>1 DEF z
  <2>2. CASE q # s
    <3>1. /\ tsStart'[q] = tsStart[q] /\ owner'[q] = owner[q] /\ nftOwner'[q] = nftOwner[q]
          /\ inactivity'[q] = InactivityAfter(active)[q]
      BY <1>4, <1>5, <2>2
    <3>2. reward'[q] = RewardAfter(active)[q]
      <4>1. RewardAfter(active) \in [Services -> Nat]
        BY CheckpointRewards
      <4>2. QED
        BY <1>2, <2>2, <4>1 DEF z
    <3>3. tsStart[q] = 0 => RewardAfter(active)[q] = 0 /\ InactivityAfter(active)[q] = 0
      BY NoRecordUnchanged
    <3>4. QED
      BY <1>2, <1>5, <3>1, <3>2, <3>3 DEF Inv, Custody
  <2>3. QED
    BY <2>1, <2>2
<1>12. QED
  BY <1>8, <1>9, <1>10, <1>11 DEF Inv

\* A step that changes nothing keeps the invariant.
LEMMA StutterInv ==
  ASSUME Inv, UNCHANGED vars
  PROVE  Inv'
BY DEF Inv, TypeOK, Solvency, PendingTotal, StakedSetExact, StakedServices, Custody, vars,
       infoVars, epochVars

\* The invariant holds in every reachable state.
THEOREM InvHolds == Spec => []Inv
<1>1. Inv /\ [Next]_vars => Inv'
  <2> SUFFICES ASSUME Inv, [Next]_vars
               PROVE  Inv'
    OBVIOUS
  <2>1. CASE Tick
    BY <2>1, TickInv
  <2>2. ASSUME NEW amount \in DepositAmounts, deposit(amount)
        PROVE  Inv'
    BY <2>2, depositInv
  <2>3. ASSUME NEW s \in Services, NEW to \in Owners \cup {StakingContract}, TransferService(s, to)
        PROVE  Inv'
    BY <2>3, TransferServiceInv
  <2>4. ASSUME NEW sender \in Owners, NEW s \in Services, stake(sender, s)
        PROVE  Inv'
    BY <2>4, stakeInv
  <2>5. ASSUME NEW active \in SUBSET Checked, checkpoint(active)
        PROVE  Inv'
    BY <2>5, checkpointInv
  <2>6. ASSUME NEW sender \in Owners, NEW s \in Services, claim(sender, s)
        PROVE  Inv'
    BY <2>6, claimInv
  <2>7. ASSUME NEW active \in SUBSET Checked, NEW sender \in Owners, NEW s \in Services,
               checkpointAndClaim(sender, s, active)
        PROVE  Inv'
    BY <2>7, checkpointAndClaimInv
  <2>8. ASSUME NEW active \in SUBSET Checked, NEW sender \in Owners, NEW s \in Services,
               unstake(sender, s, active)
        PROVE  Inv'
    BY <2>8, unstakeInv
  <2>9. CASE _withdraw
    BY <2>9, _withdrawInv
  <2>10. CASE UNCHANGED vars
    BY <2>10, StutterInv
  <2>11. QED
    BY <2>1, <2>2, <2>3, <2>4, <2>5, <2>6, <2>7, <2>8, <2>9, <2>10 DEF Next
<1>2. QED
  BY InitInv, <1>1, PTL DEF Spec

\* Types are kept whatever the calls do.
THEOREM TypeCorrect == Spec => []TypeOK
BY InvHolds, PTL DEF Inv

\* The balance always covers the available rewards, what services have earned and
\* the payouts of unstake calls that are under way: no withdrawal can underflow.
THEOREM AlwaysSolvent == Spec => []Solvency
BY InvHolds, PTL DEF Inv

\* The swap-and-pop removals of evictions and unstakes never lose, duplicate or
\* leave behind a service in the array.
THEOREM StakedSetStaysExact == Spec => []StakedSetExact
BY InvHolds, PTL DEF Inv

\* Staked and evicted services stay in custody with their owner on record, and a
\* service without a record carries no residue, callbacks included.
THEOREM CustodyHolds == Spec => []Custody
BY InvHolds, PTL DEF Inv

-----------------------------------------------------------------------------
(* The rate of emission                                                      *)

EmissionBound(elapsed) == RewardsPerSecond * MaxNumServices * elapsed

\* A checkpoint takes no more out of availableRewards than every slot can earn
\* in the time since the last one, and nothing if no service was checked.
LEMMA CheckpointEmission ==
  ASSUME Inv, NEW active
  PROVE  /\ availableRewards - AvailableAfter(active) <= EmissionBound(now - tsCheckpoint)
         /\ CheckpointIds = <<>> => AvailableAfter(active) = availableRewards
<1> DEFINE d == now - tsCheckpoint
           c == RewardsPerSecond * d
           e == EligibleReward(active)
           n == Len(CheckpointIds)
<1>1. /\ d \in Nat
      /\ RewardsPerSecond \in Nat
      /\ MaxNumServices \in Nat
      /\ availableRewards \in Nat
  BY ConstantTypes DEF Inv, TypeOK
<1>2. /\ CheckpointIds \in Seq(1..NumServices)
      /\ n \in Nat
      /\ n <= MaxNumServices
  BY CheckedTypes
<1>3. /\ e \in [1..NumServices -> Nat]
      /\ TotalRewards(active) = Total(e, NumServices)
      /\ TotalRewards(active) \in Nat
  BY EligibleRewardType DEF TotalRewards
<1>4. \A s \in Services : e[s] <= c /\ (e[s] > 0 => s \in Range(CheckpointIds))
  <2> SUFFICES ASSUME NEW s \in Services
               PROVE  e[s] <= c /\ (e[s] > 0 => s \in Range(CheckpointIds))
    OBVIOUS
  <2>1. e[s] = IF s \in Checked \cap active THEN RewardsPerSecond * Period(s) ELSE 0
    BY DEF EligibleReward
  <2>2. Period(s) \in Nat /\ Period(s) <= d
    BY PeriodTypes
  <2> HIDE DEF d, e
  <2>3. RewardsPerSecond * Period(s) <= RewardsPerSecond * d /\ RewardsPerSecond * d \in Nat
    BY <1>1, <2>2
  <2>4. QED
    BY <2>1, <2>3 DEF Checked
<1>5. c \in Nat
  <2> HIDE DEF d
  <2>1. QED
    BY <1>1
<1> HIDE DEF d, e, n, c
<1>6. Total(e, NumServices) <= c * n
  <2>1. NumServices \in Nat
    BY ConstantTypes
  <2>2. QED
    BY <1>2, <1>3, <1>4, <1>5, <2>1, SparseTotalBound DEF n
<1>7. c * n <= EmissionBound(d)
  <2>1. c * n <= c * MaxNumServices
    BY <1>1, <1>2, <1>5
  <2>2. c * MaxNumServices = (RewardsPerSecond * MaxNumServices) * d
    BY <1>1 DEF c
  <2>3. QED
    BY <2>1, <2>2 DEF EmissionBound
<1>8. availableRewards - AvailableAfter(active) <= TotalRewards(active)
  BY <1>1, <1>3 DEF AvailableAfter, Insufficient
<1>9. EmissionBound(d) \in Nat /\ c * n \in Nat
  <2>1. \A x, y \in Nat : x * y \in Nat
    OBVIOUS
  <2>2. QED
    BY <1>1, <1>2, <1>5, <2>1 DEF EmissionBound
<1>10. AvailableAfter(active) \in Nat
  BY CheckpointRewards
<1>11. availableRewards - AvailableAfter(active) <= EmissionBound(d)
  BY <1>1, <1>3, <1>6, <1>7, <1>8, <1>9, <1>10
<1>12. ASSUME CheckpointIds = <<>>
       PROVE  AvailableAfter(active) = availableRewards
  <2>1. n = 0
    BY <1>12, EmptySeq DEF n
  <2>2. c * n = 0
    BY <2>1, <1>5
  <2>3. TotalRewards(active) = 0
    BY <1>3, <1>6, <2>2
  <2>4. QED
    BY <1>1, <2>3 DEF AvailableAfter, Insufficient
<1>13. QED
  BY <1>11, <1>12 DEF d

\* Whatever the calls do, rewards leave availableRewards no faster than
\* rewardsPerSecond for each slot over the time that checkpoints account for.
THEOREM EmissionRateHolds == Spec => EmissionRate
<1> DEFINE Bound == availableRewards - availableRewards'
                      <= RewardsPerSecond * MaxNumServices * (tsCheckpoint' - tsCheckpoint)
<1>1. ASSUME Inv, [Next]_vars
      PROVE  Bound \/ UNCHANGED vars
  <2>0. /\ availableRewards \in Nat /\ tsCheckpoint \in Nat /\ now \in Nat
        /\ RewardsPerSecond * MaxNumServices \in Nat
    <3>1. \A x, y \in Nat : x * y \in Nat
      OBVIOUS
    <3>2. QED
      BY <1>1, <3>1, ConstantTypes DEF Inv, TypeOK
  <2>1. ASSUME NEW active, availableRewards' = AvailableAfter(active), EpochAfter
        PROVE  Bound
    <3>1. /\ availableRewards - AvailableAfter(active)
               <= RewardsPerSecond * MaxNumServices * (now - tsCheckpoint)
          /\ CheckpointIds = <<>> => AvailableAfter(active) = availableRewards
      BY <1>1, CheckpointEmission DEF EmissionBound
    <3>2. CASE CheckpointIds = <<>>
      <4>1. availableRewards' = availableRewards /\ tsCheckpoint' = tsCheckpoint
        BY <2>1, <3>1, <3>2 DEF EpochAfter
      <4>2. RewardsPerSecond * MaxNumServices * (tsCheckpoint' - tsCheckpoint) = 0
        BY <2>0, <4>1
      <4>3. QED
        BY <2>0, <4>1, <4>2
    <3>3. CASE CheckpointIds # <<>>
      <4>1. tsCheckpoint' = now
        BY <2>1, <3>3 DEF EpochAfter
      <4>2. QED
        BY <2>1, <3>1, <4>1
    <3>4. QED
      BY <3>2, <3>3
  <2>2. ASSUME tsCheckpoint' = tsCheckpoint, availableRewards' \in Nat,
               availableRewards' >= availableRewards
        PROVE  Bound
    <3>1. RewardsPerSecond * MaxNumServices * (tsCheckpoint' - tsCheckpoint) = 0
      BY <2>0, <2>2
    <3>2. QED
      BY <2>0, <2>2, <3>1
  <2> HIDE DEF Bound
  <2>3. CASE UNCHANGED vars
    BY <2>3
  <2>4. CASE Tick
    BY <2>0, <2>2, <2>4 DEF Tick, epochVars
  <2>5. CASE \E amount \in DepositAmounts : deposit(amount)
    BY <2>0, <2>2, <2>5, EnvironmentAssumption DEF deposit
  <2>6. CASE \E s \in Services, to \in Owners \cup {StakingContract} : TransferService(s, to)
    BY <2>0, <2>2, <2>6 DEF TransferService, epochVars
  <2>7. CASE \E sender \in Owners, s \in Services : stake(sender, s)
    BY <2>0, <2>2, <2>7 DEF stake, epochVars
  <2>8. CASE \E active \in SUBSET Checked : checkpoint(active)
    BY <2>1, <2>8 DEF checkpoint
  <2>9. CASE \E sender \in Owners, s \in Services : claim(sender, s)
    BY <2>0, <2>2, <2>9 DEF claim, epochVars
  <2>10. CASE \E active \in SUBSET Checked, sender \in Owners, s \in Services :
                checkpointAndClaim(sender, s, active)
    BY <2>1, <2>10 DEF checkpointAndClaim
  <2>11. CASE \E active \in SUBSET Checked, sender \in Owners, s \in Services :
                unstake(sender, s, active)
    BY <2>1, <2>11 DEF unstake
  <2>12. CASE _withdraw
    BY <2>0, <2>2, <2>12 DEF _withdraw, epochVars
  <2>13. QED
    BY <1>1, <2>3, <2>4, <2>5, <2>6, <2>7, <2>8, <2>9, <2>10, <2>11, <2>12 DEF Next
<1>2. QED
  BY <1>1, InvHolds, PTL DEF Spec, EmissionRate

-----------------------------------------------------------------------------
(* Whom a service belongs to while it is in custody                          *)

\* One service in one step of ServiceReturnsToStaker.
Returns(s) ==
    IF tsStart[s] = 0
    THEN tsStart'[s] > 0 => owner'[s] = nftOwner[s]
    ELSE IF tsStart'[s] > 0 THEN owner'[s] = owner[s]
    ELSE nftOwner'[s] = owner[s]

\* Whoever calls what, also from the callback of unstake: the staker's record
\* outlives every call until the service goes back to that staker.
THEOREM ReturnsToStaker == Spec => ServiceReturnsToStaker
<1>1. ASSUME Inv, [Next]_vars
      PROVE  \A q \in Services : Returns(q)
  <2>0. /\ owner \in [Services -> Owners \cup {NoOwner}]
        /\ tsStart \in [Services -> Nat]
        /\ nftOwner \in [Services -> Owners \cup {StakingContract}]
        /\ now \in Nat
    BY <1>1 DEF Inv, TypeOK
  <2>1. ASSUME tsStart' = tsStart, owner' = owner
        PROVE  \A q \in Services : Returns(q)
    BY <2>0, <2>1 DEF Returns
  <2>2. CASE UNCHANGED vars
    BY <2>1, <2>2 DEF vars, infoVars
  <2>3. CASE Tick
    BY <2>1, <2>3 DEF Tick, infoVars
  <2>4. CASE \E amount \in DepositAmounts : deposit(amount)
    BY <2>1, <2>4 DEF deposit, infoVars
  <2>5. CASE \E s \in Services, to \in Owners \cup {StakingContract} : TransferService(s, to)
    BY <2>1, <2>5 DEF TransferService, infoVars
  <2>6. CASE \E sender \in Owners, s \in Services : stake(sender, s)
    <3>1. PICK sender \in Owners, s \in Services : stake(sender, s)
      BY <2>6
    <3>2. /\ tsStart[s] = 0
          /\ nftOwner[s] = sender
          /\ owner' = [owner EXCEPT ![s] = sender]
          /\ tsStart' = [tsStart EXCEPT ![s] = now]
      BY <3>1 DEF stake
    <3>3. QED
      BY <2>0, <3>2 DEF Returns
  <2>7. CASE \E active \in SUBSET Checked : checkpoint(active)
    BY <2>1, <2>7 DEF checkpoint
  <2>8. CASE \E sender \in Owners, s \in Services : claim(sender, s)
    BY <2>1, <2>8 DEF claim
  <2>9. CASE \E active \in SUBSET Checked, sender \in Owners, s \in Services :
               checkpointAndClaim(sender, s, active)
    BY <2>1, <2>9 DEF checkpointAndClaim
  <2>10. CASE \E active \in SUBSET Checked, sender \in Owners, s \in Services :
                unstake(sender, s, active)
    <3>1. PICK active \in SUBSET Checked, sender \in Owners, s \in Services :
                 unstake(sender, s, active)
      BY <2>10
    <3>2. /\ sender = owner[s]
          /\ owner' = [owner EXCEPT ![s] = NoOwner]
          /\ tsStart' = [tsStart EXCEPT ![s] = 0]
          /\ nftOwner' = [nftOwner EXCEPT ![s] = sender]
      BY <3>1 DEF unstake, onlyOwner, deleteInfo
    <3>3. QED
      BY <2>0, <3>2 DEF Returns
  <2>11. CASE _withdraw
    BY <2>1, <2>11 DEF _withdraw, infoVars
  <2>12. QED
    BY <1>1, <2>2, <2>3, <2>4, <2>5, <2>6, <2>7, <2>8, <2>9, <2>10, <2>11 DEF Next
<1>2. ASSUME Inv, [Next]_vars
      PROVE  \A s \in Services :
               IF tsStart[s] = 0
               THEN tsStart'[s] > 0 => owner'[s] = nftOwner[s]
               ELSE IF tsStart'[s] > 0 THEN owner'[s] = owner[s]
               ELSE nftOwner'[s] = owner[s]
  BY <1>1, <1>2 DEF Returns
<1>3. QED
  BY <1>2, InvHolds, PTL DEF Spec, ServiceReturnsToStaker

-----------------------------------------------------------------------------
(* A service is paid or held inactive for a time, not both                   *)

\* Integers of a product that is smaller by n are smaller.
LEMMA ScaledLess ==
  ASSUME NEW t \in Nat \ {0}, NEW x \in Nat, NEW n \in Nat \ {0}, t * x <= (t - 1) * n
  PROVE  x <= n - 1
<1> SUFFICES ASSUME x >= n
             PROVE  FALSE
  OBVIOUS
<1>1. t * x >= t * n
  OBVIOUS
<1>2. (t - 1) * n = t * n - n
  OBVIOUS
<1>3. t * x \in Nat /\ t * n \in Nat
  OBVIOUS
<1>4. QED
  BY <1>1, <1>2, <1>3

\* A quotient, rounded down, of numbers at most in the ratio r.
LEMMA QuotientBound ==
  ASSUME NEW x \in Nat, NEW t \in Nat \ {0}, NEW r \in Nat, x <= r * t
  PROVE  /\ x \div t \in Nat
         /\ (x \div t) * t <= x
         /\ x - (x \div t) * t <= t - 1
         /\ x \div t <= r
<1>1. /\ x \div t \in Nat
      /\ (x \div t) * t <= x
      /\ x - (x \div t) * t <= t - 1
  OBVIOUS
<1> DEFINE d == x \div t
<1> HIDE DEF d
<1>2. d \in Nat /\ d * t <= x
  BY <1>1 DEF d
<1>3. d <= r
  <2> SUFFICES ASSUME d >= r + 1
               PROVE  FALSE
    BY <1>2
  <2>1. d * t >= (r + 1) * t
    BY <1>2
  <2>2. (r + 1) * t = r * t + t /\ r * t \in Nat /\ d * t \in Nat
    BY <1>2
  <2>3. QED
    BY <1>2, <2>1, <2>2
<1>4. QED
  BY <1>1, <1>3 DEF d

\* What rounding leaves is less than one unit for each service that is checked.
LEMMA LeftoverBound ==
  ASSUME Inv, NEW active, Insufficient(active)
  PROVE  /\ Leftover(active) \in Nat
         /\ Leftover(active) <= MaxNumServices - 1
         /\ \A s \in Services : Share(active)[s] <= EligibleReward(active)[s]
<1> DEFINE N  == NumServices
           e  == EligibleReward(active)
           t  == TotalRewards(active)
           sh == Share(active)
           a  == availableRewards
           n  == Len(CheckpointIds)
<1>1. /\ e \in [1..N -> Nat]
      /\ t \in Nat \ {0}
      /\ a \in Nat
      /\ a < t
      /\ N \in Nat
      /\ sh \in [1..N -> Nat]
      /\ Total(sh, N) \in Nat
      /\ Total(sh, N) <= a
      /\ t = Total(e, N)
      /\ Leftover(active) = a - Total(sh, N)
  <2>1. t \in Nat /\ t > a /\ a \in Nat
    BY EligibleRewardType DEF Insufficient, Inv, TypeOK
  <2>2. t = Total(e, N)
    BY DEF TotalRewards
  <2>3. Leftover(active) = a - Total(sh, N)
    BY DEF Leftover
  <2>4. QED
    BY <2>1, <2>2, <2>3, EligibleRewardType, ShareBound, ConstantTypes
<1>2. /\ CheckpointIds \in Seq(1..N)
      /\ n \in Nat
      /\ n <= MaxNumServices
      /\ Checked = Range(CheckpointIds)
  BY CheckedTypes DEF Checked
<1>3. \A s \in 1..N : sh[s] = (e[s] * a) \div t
  BY DEF Share
<1>4. \A s \in 1..N : e[s] > 0 => s \in Range(CheckpointIds)
  BY <1>1, <1>2 DEF EligibleReward
<1>5. n # 0
  <2>1. FirstEligible(active) \in Range(CheckpointIds)
    BY <1>2, FirstEligibleChecked
  <2>2. DOMAIN CheckpointIds = 1..n
    BY CheckedTypes
  <2>3. QED
    BY <2>1, <2>2 DEF Range
<1> HIDE DEF e, t, sh, a, n, N
<1>6. ASSUME NEW s \in 1..N
      PROVE  /\ e[s] * a \in Nat
             /\ sh[s] * t <= e[s] * a
             /\ e[s] * a - sh[s] * t <= t - 1
             /\ sh[s] <= e[s]
             /\ e[s] = 0 => e[s] * a - sh[s] * t = 0
  <2>1. e[s] \in Nat /\ sh[s] \in Nat
    BY <1>1
  <2>2. e[s] * a \in Nat /\ e[s] * a <= e[s] * t
    BY <1>1, <2>1
  <2> DEFINE x == e[s] * a
  <2>3. sh[s] = x \div t /\ x \in Nat
    BY <1>3, <2>2
  <2>4. e[s] = 0 => x = 0
    BY <1>1
  <2>5. x <= e[s] * t
    BY <2>2
  <2> HIDE DEF x
  <2>6. /\ (x \div t) * t <= x
        /\ x - (x \div t) * t <= t - 1
        /\ x \div t \in Nat
        /\ x \div t <= e[s]
    BY ONLY <1>1, <2>1, <2>3, <2>5, QuotientBound
  <2>8. e[s] = 0 => x - (x \div t) * t = 0
    <3> SUFFICES ASSUME e[s] = 0
                 PROVE  x - (x \div t) * t = 0
      OBVIOUS
    <3>1. x = 0 /\ x \div t = 0
      BY <1>1, <2>1, <2>4, <2>6
    <3>2. 0 * t = 0
      BY <1>1
    <3>3. QED
      BY <3>1, <3>2
  <2>9. QED
    BY <2>2, <2>3, <2>6, <2>8 DEF x
<1> DEFINE ea == [s \in 1..N |-> e[s] * a]
           f  == [s \in 1..N |-> ea[s] + sh[s] * (0 - t)]
<1>7. ASSUME NEW s \in 1..N
      PROVE  /\ ea[s] = e[s] * a
             /\ f[s] = e[s] * a - sh[s] * t
             /\ f[s] \in Nat
  <2>1. sh[s] * (0 - t) = 0 - sh[s] * t /\ sh[s] * t \in Nat
    BY <1>1
  <2>2. QED
    BY <1>6, <2>1
<1>8. /\ f \in [1..N -> Nat]
      /\ f \in [1..N -> Int]
      /\ ea \in [1..N -> Int]
      /\ sh \in [1..N -> Int]
      /\ e \in [1..N -> Int]
      /\ \A s \in 1..N : f[s] = ea[s] + sh[s] * (0 - t)
      /\ \A s \in 1..N : f[s] <= t - 1 /\ (f[s] > 0 => s \in Range(CheckpointIds))
  <2>1. \A s \in 1..N : f[s] \in Nat /\ ea[s] \in Nat
    BY <1>6, <1>7
  <2>2. \A s \in 1..N : f[s] <= t - 1
    BY <1>6, <1>7
  <2>3. ASSUME NEW s \in 1..N, f[s] > 0
        PROVE  s \in Range(CheckpointIds)
    <3>1. e[s] # 0
      BY <2>3, <1>6, <1>7
    <3>2. QED
      BY <1>1, <1>4, <3>1
  <2>4. /\ f \in [1..N -> Nat]
        /\ ea \in [1..N -> Nat]
    BY <2>1
  <2>5. \A s \in 1..N : f[s] = ea[s] + sh[s] * (0 - t)
    OBVIOUS
  <2> HIDE DEF ea, f
  <2>6. \A g \in [1..N -> Nat] : g \in [1..N -> Int]
    OBVIOUS
  <2>7. f \in [1..N -> Int] /\ ea \in [1..N -> Int] /\ sh \in [1..N -> Int] /\ e \in [1..N -> Int]
    BY <1>1, <2>4, <2>6
  <2>8. QED
    BY <2>2, <2>3, <2>4, <2>5, <2>7
<1>9. ea = [s \in 1..N |-> e[s] * a]
  OBVIOUS
<1> HIDE DEF ea, f
<1>10. Total(ea, N) = Total(e, N) * a
  <2>1. a \in Int
    BY <1>1
  <2>2. QED
    BY <1>1, <1>8, <1>9, <2>1, TotalScaled
<1>11. Total(f, N) = Total(ea, N) + Total(sh, N) * (0 - t)
  <2> DEFINE k == 0 - t
  <2>1. k \in Int /\ N \in Nat
    BY <1>1
  <2>2. \A s \in 1..N : f[s] = ea[s] + sh[s] * k
    BY <1>8
  <2> HIDE DEF k
  <2>3. /\ f \in [1..N -> Int]
        /\ ea \in [1..N -> Int]
        /\ sh \in [1..N -> Int]
    BY <1>8
  <2>4. Total(f, N) = Total(ea, N) + Total(sh, N) * k
    BY ONLY <2>1, <2>2, <2>3, TotalSumScaled
  <2>5. QED
    BY <2>4 DEF k
<1>12. Total(f, N) <= (t - 1) * n
  <2>1. t - 1 \in Nat
    BY <1>1
  <2>2. QED
    BY ONLY <1>1, <1>2, <1>8, <2>1, SparseTotalBound DEF n
<1>13. Leftover(active) \in Nat
  BY <1>1
<1>14. t * Leftover(active) <= (t - 1) * n
  <2> DEFINE S == Total(sh, N)
  <2>1. S \in Nat /\ Leftover(active) = a - S
    BY <1>1
  <2>2. Total(f, N) = t * a + S * (0 - t)
    BY <1>1, <1>10, <1>11
  <2> HIDE DEF S
  <2>3. t * (a - S) = t * a + S * (0 - t)
    BY <1>1, <2>1
  <2>4. QED
    BY <1>12, <2>1, <2>2, <2>3
<1>15. Leftover(active) <= n - 1
  <2>1. n \in Nat \ {0}
    BY <1>2, <1>5
  <2>2. QED
    BY <1>1, <1>13, <1>14, <2>1, ScaledLess
<1>16. QED
  BY <1>2, <1>6, <1>13, <1>15, ConstantTypes DEF sh, e, N

\* What a checkpoint pays a checked service for its period, and holds against
\* it when it was inactive, exceeds the period by the leftover only.
LEMMA CheckpointCounts ==
  ASSUME Inv, NEW active, NEW s \in Services
  PROVE  /\ RewardAfter(active)[s] >= reward[s]
         /\ s \in Checked =>
              RewardAfter(active)[s] + RewardsPerSecond * InactivityAfter(active)[s]
                <= reward[s] + RewardsPerSecond * inactivity[s]
                   + RewardsPerSecond * Period(s) + (MaxNumServices - 1)
<1> DEFINE R  == RewardsPerSecond
           p  == Period(s)
           sh == Share(active)[s]
           lo == IF Insufficient(active) /\ s = FirstEligible(active) THEN Leftover(active) ELSE 0
           ra == RewardAfter(active)[s]
           ia == InactivityAfter(active)[s]
<1>1. /\ R \in Nat
      /\ p \in Nat
      /\ MaxNumServices \in Nat \ {0}
      /\ reward[s] \in Nat
      /\ inactivity[s] \in Nat
      /\ sh \in Nat
      /\ ra \in Nat
      /\ ia \in Nat
  BY ConstantTypes, PeriodTypes, ShareBound, CheckpointRewards, CheckpointInactivity DEF Inv, TypeOK
<1>2. ra = reward[s] + sh + lo
  BY DEF RewardAfter
<1>3. lo \in Nat /\ lo <= MaxNumServices - 1
  BY LeftoverBound, ConstantTypes
<1>4. sh <= EligibleReward(active)[s]
  <2>1. CASE Insufficient(active)
    BY <2>1, LeftoverBound
  <2>2. CASE ~ Insufficient(active)
    <3>1. sh = EligibleReward(active)[s]
      BY <2>2 DEF Share
    <3>2. QED
      BY <1>1, <3>1
  <2>3. QED
    BY <2>1, <2>2
<1>5. EligibleReward(active)[s] = IF s \in Checked \cap active THEN R * p ELSE 0
  BY DEF EligibleReward
<1>6. s \in Checked => ia = IF s \notin active /\ p > 0 THEN inactivity[s] + p ELSE 0
  BY DEF InactivityAfter
<1> HIDE DEF R, p, sh, lo, ra, ia
<1>7. ra >= reward[s]
  BY <1>1, <1>2, <1>3
<1>8. R * p \in Nat /\ R * inactivity[s] \in Nat
  BY <1>1
<1>9. ASSUME s \in Checked
      PROVE  ra + R * ia <= reward[s] + R * inactivity[s] + R * p + (MaxNumServices - 1)
  <2>1. CASE s \in active
    <3>1. ia = 0 /\ sh <= R * p
      BY <1>4, <1>5, <1>6, <1>9, <2>1
    <3>2. R * ia = 0
      BY <1>1, <3>1
    <3>3. QED
      BY <1>1, <1>2, <1>3, <1>8, <3>1, <3>2
  <2>2. CASE s \notin active
    <3>1. sh = 0
      BY <1>1, <1>4, <1>5, <2>2
    <3>2. ia <= inactivity[s] + p
      BY <1>1, <1>6, <1>9
    <3>3. R * ia <= R * (inactivity[s] + p) /\ R * ia \in Nat
      BY <1>1, <3>2
    <3>4. R * (inactivity[s] + p) = R * inactivity[s] + R * p
      BY <1>1
    <3>5. QED
      BY <1>1, <1>2, <1>3, <1>8, <3>1, <3>3, <3>4
  <2>3. QED
    BY <2>1, <2>2
<1>10. QED
  BY <1>7, <1>9 DEF R, p, ra, ia

\* What NoDoubleCounting says of one service.
CountedOnce(s) ==
    tsStart[s] > 0 =>
        reward[s] + RewardsPerSecond * inactivity[s]
            <= RewardsPerSecond * (LastTime(s) - tsStart[s]) + (MaxNumServices - 1) * epochCounter

\* The epoch of a checkpoint gives a service with a record that much more time
\* and one more leftover.
LEMMA EpochCountsOnce ==
  ASSUME Inv, NEW active, NEW s \in Services, CountedOnce(s), tsStart[s] > 0,
         EpochAfter, now' = now, tsStart'[s] = tsStart[s],
         reward'[s] \in Nat, reward'[s] <= RewardAfter(active)[s],
         inactivity'[s] = InactivityAfter(active)[s]
  PROVE  CountedOnce(s)'
<1> DEFINE R  == RewardsPerSecond
           K  == MaxNumServices - 1
           L  == LastTime(s)
           T0 == tsStart[s]
           L1 == LastTime(s)'
           p  == Period(s)
           c  == epochCounter
           c1 == epochCounter'
           ra == RewardAfter(active)[s]
           ia == InactivityAfter(active)[s]
<1>1. /\ R \in Nat
      /\ K \in Nat
      /\ L \in Nat
      /\ p \in Nat
      /\ T0 \in Nat
      /\ T0 <= L
      /\ L <= now
      /\ now \in Nat
      /\ c \in Nat
      /\ reward[s] \in Nat
      /\ inactivity[s] \in Nat
      /\ ra \in Nat
      /\ ia \in Nat
      /\ p = now - L
  <2>1. /\ now \in Nat /\ tsCheckpoint \in 0..now
        /\ tsStart[s] \in Nat
        /\ tsStart[s] <= now
        /\ epochCounter \in Nat
        /\ reward[s] \in Nat
        /\ inactivity[s] \in Nat
    BY DEF Inv, TypeOK, Custody
  <2>2. T0 <= L /\ L <= now /\ p = now - L
    BY <2>1 DEF LastTime, Period
  <2>3. R \in Nat /\ K \in Nat
    BY ConstantTypes
  <2>4. L \in Nat /\ p \in Nat
    BY PeriodTypes
  <2>5. ra \in Nat /\ ia \in Nat
    BY CheckpointRewards, CheckpointInactivity
  <2> HIDE DEF R, K, L, p, ra, ia
  <2>6. QED
    BY <2>1, <2>2, <2>3, <2>4, <2>5
<1>2. reward[s] + R * inactivity[s] <= R * (L - T0) + K * c
  BY DEF CountedOnce
<1>3. CountedOnce(s)' <=> reward'[s] + R * ia <= R * (L1 - T0) + K * c1
  BY DEF CountedOnce
<1>4. CASE CheckpointIds = <<>>
  <2>1. s \notin Checked
    <3>1. Len(CheckpointIds) = 0 /\ DOMAIN CheckpointIds = 1..Len(CheckpointIds)
      BY <1>4, CheckedTypes
    <3>2. QED
      BY <3>1 DEF Checked, Range
  <2>2. ra = reward[s] /\ ia = inactivity[s]
    BY <2>1, CheckpointRewards, CheckpointInactivity
  <2>3. c1 = c /\ L1 = L
    BY <1>4 DEF EpochAfter, LastTime
  <2> HIDE DEF R, K, L, T0, L1, p, c, c1, ra, ia
  <2>4. R * ia = R * inactivity[s] /\ R * (L1 - T0) + K * c1 = R * (L - T0) + K * c
    BY <2>2, <2>3
  <2>5. R * inactivity[s] \in Nat /\ R * (L - T0) \in Nat /\ K * c \in Nat
    <3>1. \A x, y \in Nat : x * y \in Nat
      OBVIOUS
    <3>2. L - T0 \in Nat
      BY <1>1
    <3>3. QED
      BY <1>1, <3>1, <3>2
  <2>6. reward'[s] <= reward[s]
    BY <2>2 DEF ra
  <2>7. reward'[s] + R * ia <= R * (L1 - T0) + K * c1
    BY <1>1, <1>2, <2>4, <2>5, <2>6
  <2>8. QED
    BY <1>3, <2>7
<1>5. CASE CheckpointIds # <<>>
  <2>1. c1 = c + 1 /\ L1 = now
    <3>1. tsCheckpoint' = now /\ c1 = c + 1
      BY <1>5 DEF EpochAfter
    <3>2. tsStart'[s] <= now
      BY <1>1
    <3>3. QED
      BY <1>1, <3>1, <3>2 DEF LastTime
  <2>2. ra + R * ia <= reward[s] + R * inactivity[s] + R * p + K
    <3>1. CASE s \in Checked
      BY <3>1, CheckpointCounts
    <3>2. CASE s \notin Checked
      <4>1. ra = reward[s] /\ ia = inactivity[s]
        BY <3>2, CheckpointRewards, CheckpointInactivity
      <4> HIDE DEF R, K, L, T0, L1, p, c, c1, ra, ia
      <4>2. R * ia = R * inactivity[s] /\ R * ia \in Nat /\ R * p \in Nat
        BY <1>1, <4>1
      <4>3. QED
        BY <1>1, <4>1, <4>2
    <3>3. QED
      BY <3>1, <3>2
  <2> HIDE DEF R, K, L, T0, L1, p, c, c1, ra, ia
  <2>3. R * (L1 - T0) = R * (L - T0) + R * p
    <3>1. L1 - T0 = (L - T0) + p /\ L - T0 \in Nat
      BY <1>1, <2>1
    <3>2. \A x, y \in Nat : R * (x + y) = R * x + R * y
      BY <1>1
    <3>3. QED
      BY <1>1, <3>1, <3>2
  <2>4. K * c1 = K * c + K
    BY <1>1, <2>1
  <2>5. /\ R * inactivity[s] \in Nat
        /\ R * (L - T0) \in Nat
        /\ R * p \in Nat
        /\ R * ia \in Nat
        /\ K * c \in Nat
    <3>1. \A x, y \in Nat : x * y \in Nat
      OBVIOUS
    <3>2. L - T0 \in Nat
      BY <1>1
    <3>3. QED
      BY <1>1, <3>1, <3>2
  <2>6. reward'[s] <= ra
    BY DEF ra
  <2>7. reward'[s] + R * ia <= R * (L1 - T0) + K * c1
    BY <1>1, <1>2, <2>2, <2>3, <2>4, <2>5, <2>6
  <2>8. QED
    BY <1>3, <2>7
<1>6. QED
  BY <1>4, <1>5

\* No order of checkpoints, activity checks, claims and stays lets a service be
\* rewarded for time that also counts towards its eviction.
THEOREM CountsOnce == Spec => []NoDoubleCounting
<1>1. Init => NoDoubleCounting
  BY DEF Init, NoDoubleCounting
<1>2. ASSUME Inv, Inv', NoDoubleCounting, [Next]_vars
      PROVE  NoDoubleCounting'
  <2>0. /\ \A q \in Services : CountedOnce(q)
        /\ tsStart \in [Services -> Nat]
        /\ reward \in [Services -> Nat]
        /\ inactivity \in [Services -> Nat]
        /\ now \in Nat
        /\ tsCheckpoint \in 0..now
        /\ epochCounter \in Nat
        /\ RewardsPerSecond \in Nat
        /\ MaxNumServices - 1 \in Nat
    <3>1. \A q \in Services : CountedOnce(q)
      BY <1>2 DEF NoDoubleCounting, CountedOnce
    <3>2. RewardsPerSecond \in Nat /\ MaxNumServices - 1 \in Nat
      BY ConstantTypes
    <3>3. QED
      BY <1>2, <3>1, <3>2 DEF Inv, TypeOK
  <2> SUFFICES ASSUME NEW q \in Services, tsStart'[q] > 0
               PROVE  CountedOnce(q)'
    BY DEF NoDoubleCounting, CountedOnce
  <2>1. ASSUME UNCHANGED <<tsCheckpoint, epochCounter, tsStart, reward, inactivity>>
        PROVE  CountedOnce(q)'
    BY <2>0, <2>1 DEF CountedOnce, LastTime
  <2>2. ASSUME NEW active, EpochAfter, now' = now, tsStart'[q] = tsStart[q],
               reward'[q] \in Nat, reward'[q] <= RewardAfter(active)[q],
               inactivity'[q] = InactivityAfter(active)[q]
        PROVE  CountedOnce(q)'
    BY <1>2, <2>0, <2>2, EpochCountsOnce
  <2>3. CASE UNCHANGED vars
    BY <2>1, <2>3 DEF vars, infoVars, epochVars
  <2>4. CASE Tick
    BY <2>1, <2>4 DEF Tick, infoVars, epochVars
  <2>5. CASE \E amount \in DepositAmounts : deposit(amount)
    BY <2>1, <2>5 DEF deposit, infoVars
  <2>6. CASE \E s \in Services, to \in Owners \cup {StakingContract} : TransferService(s, to)
    BY <2>1, <2>6 DEF TransferService, infoVars, epochVars
  <2>7. CASE \E sender \in Owners, s \in Services : stake(sender, s)
    <3>1. PICK sender \in Owners, s \in Services : stake(sender, s)
      BY <2>7
    <3>2. /\ tsStart[s] = 0
          /\ tsStart' = [tsStart EXCEPT ![s] = now]
          /\ UNCHANGED <<now, tsCheckpoint, epochCounter, reward, inactivity>>
      BY <3>1 DEF stake, epochVars
    <3>3. CASE q # s
      <4>1. tsStart'[q] = tsStart[q]
        BY <2>0, <3>2, <3>3
      <4>2. QED
        BY <2>0, <3>2, <4>1 DEF CountedOnce, LastTime
    <3>4. CASE q = s
      <4>1. tsStart'[q] = now /\ reward'[q] = 0 /\ inactivity'[q] = 0
        BY <1>2, <2>0, <3>2, <3>4 DEF Inv, Custody
      <4>2. LastTime(q)' = now
        BY <2>0, <3>2, <4>1 DEF LastTime
      <4>3. /\ RewardsPerSecond * 0 = 0
            /\ RewardsPerSecond * (now - now) = 0
            /\ (MaxNumServices - 1) * epochCounter \in Nat
        BY <2>0
      <4>4. QED
        BY <3>2, <4>1, <4>2, <4>3 DEF CountedOnce
    <3>5. QED
      BY <3>3, <3>4
  <2>8. CASE \E active \in SUBSET Checked : checkpoint(active)
    <3>1. PICK active \in SUBSET Checked : checkpoint(active)
      BY <2>8
    <3>2. RewardAfter(active) \in [Services -> Nat]
      BY <1>2, CheckpointRewards
    <3>3. /\ reward' = RewardAfter(active)
          /\ inactivity' = InactivityAfter(active)
          /\ EpochAfter
          /\ now' = now /\ tsStart' = tsStart
      BY <3>1 DEF checkpoint
    <3>4. reward'[q] \in Nat /\ reward'[q] <= RewardAfter(active)[q]
      BY <3>2, <3>3
    <3>5. QED
      BY <2>2, <3>3, <3>4
  <2>9. CASE \E sender \in Owners, s \in Services : claim(sender, s)
    <3>1. PICK sender \in Owners, s \in Services : claim(sender, s)
      BY <2>9
    <3>2. /\ reward' = [reward EXCEPT ![s] = 0]
          /\ UNCHANGED <<tsCheckpoint, epochCounter, tsStart, inactivity>>
      BY <3>1 DEF claim, epochVars
    <3>3. reward'[q] \in Nat /\ reward'[q] <= reward[q]
      BY <2>0, <3>2
    <3>4. LastTime(q)' = LastTime(q)
      BY <3>2 DEF LastTime
    <3> DEFINE b == RewardsPerSecond * (LastTime(q) - tsStart[q]) + (MaxNumServices - 1) * epochCounter
               i == RewardsPerSecond * inactivity[q]
    <3>5. reward[q] + i <= b
      BY <2>0, <3>2 DEF CountedOnce
    <3>6. i \in Nat
      BY <2>0
    <3>7. b \in Int
      <4>1. LastTime(q) - tsStart[q] \in Int
        BY <2>0 DEF LastTime
      <4>2. RewardsPerSecond * (LastTime(q) - tsStart[q]) \in Int /\ (MaxNumServices - 1) * epochCounter \in Int
        BY <2>0, <4>1
      <4>3. QED
        BY <4>2
    <3>8. CountedOnce(q)' <=> reward'[q] + i <= b
      BY <3>2, <3>4 DEF CountedOnce
    <3> HIDE DEF b, i
    <3>9. reward'[q] + i <= b
      BY <2>0, <3>3, <3>5, <3>6, <3>7
    <3>10. QED
      BY <3>8, <3>9
  <2>10. CASE \E active \in SUBSET Checked, sender \in Owners, s \in Services :
                checkpointAndClaim(sender, s, active)
    <3>1. PICK active \in SUBSET Checked, sender \in Owners, s \in Services :
                 checkpointAndClaim(sender, s, active)
      BY <2>10
    <3>2. RewardAfter(active) \in [Services -> Nat]
      BY <1>2, CheckpointRewards
    <3>3. reward' = [RewardAfter(active) EXCEPT ![s] = 0]
      BY <3>1 DEF checkpointAndClaim
    <3>4. reward'[q] \in Nat /\ reward'[q] <= RewardAfter(active)[q]
      BY <3>2, <3>3
    <3>5. QED
      BY <2>2, <3>1, <3>4 DEF checkpointAndClaim
  <2>11. CASE \E active \in SUBSET Checked, sender \in Owners, s \in Services :
                unstake(sender, s, active)
    <3>1. PICK active \in SUBSET Checked, sender \in Owners, s \in Services :
                 unstake(sender, s, active)
      BY <2>11
    <3>2. /\ RewardAfter(active) \in [Services -> Nat]
          /\ InactivityAfter(active) \in [Services -> Nat]
      BY <1>2, CheckpointRewards, CheckpointInactivity
    <3>3. /\ reward' = [RewardAfter(active) EXCEPT ![s] = 0]
          /\ inactivity' = [InactivityAfter(active) EXCEPT ![s] = 0]
          /\ tsStart' = [tsStart EXCEPT ![s] = 0]
          /\ EpochAfter
          /\ now' = now
      BY <3>1 DEF unstake, deleteInfo
    <3>4. q # s
      BY <2>0, <3>3
    <3>5. /\ reward'[q] = RewardAfter(active)[q]
          /\ inactivity'[q] = InactivityAfter(active)[q]
          /\ tsStart'[q] = tsStart[q]
      BY <2>0, <3>2, <3>3, <3>4
    <3>6. reward'[q] \in Nat /\ reward'[q] <= RewardAfter(active)[q]
      BY <3>2, <3>5
    <3>7. QED
      BY <2>2, <3>3, <3>5, <3>6
  <2>12. CASE _withdraw
    BY <2>1, <2>12 DEF _withdraw, infoVars, epochVars
  <2>13. QED
    BY <1>2, <2>3, <2>4, <2>5, <2>6, <2>7, <2>8, <2>9, <2>10, <2>11, <2>12 DEF Next
<1>3. QED
  BY <1>1, <1>2, InvHolds, PTL DEF Spec

-----------------------------------------------------------------------------
(* The life of a service that StakingLifecycle promises                      *)

\* The abstraction takes its sums with the same operator.
LEMMA SameTotal ==
  ASSUME NEW f, NEW n
  PROVE  Lifecycle!Total(f, n) = Total(f, n)
BY DEF Lifecycle!Total, Lifecycle!RunningTotal, Total, RunningTotal

\* It counts sets with the same operator, too.
LEMMA SameCardinality ==
  ASSUME NEW S
  PROVE  Lifecycle!Cardinality(S) = Cardinality(S)
BY DEF Lifecycle!Cardinality, Cardinality

\* An array holds no more different services than it is long.
LEMMA RangeBound ==
  ASSUME NEW S, NEW ids \in Seq(S)
  PROVE  Cardinality(Range(ids)) <= Len(ids)
<1> DEFINE n == Len(ids)
<1>1. n \in Nat /\ DOMAIN ids = 1..n /\ ids \in [1..n -> S]
  BY LenProperties
<1>2. Range(ids) = {ids[i] : i \in 1..n}
  BY <1>1 DEF Range
<1>3. ids \in [1..n -> Range(ids)]
  BY <1>1, <1>2
<1>4. ids \in Surjection(1..n, Range(ids))
  BY <1>2, <1>3 DEF Surjection
<1>5. ExistsSurjection(1..n, Range(ids))
  BY <1>4 DEF ExistsSurjection
<1>6. QED
  BY <1>1, <1>5, FS_SurjCardinalityBound

\* The state that the abstraction sees of a service.
LEMMA LifeOf ==
  ASSUME Inv
  PROVE  /\ Lifecycle!Services = Services
         /\ \A s \in Services :
              /\ inactivity[s] > MaxInactivityDuration => tsStart[s] > 0
              /\ getStakingState(s) = "Staked" <=> s \in StakedServices
              /\ getStakingState(s) = "Unstaked" <=> tsStart[s] = 0
<1>1. Lifecycle!Services = Services
  BY DEF Lifecycle!Services
<1>2. MaxInactivityDuration \in Nat
  BY ConstantTypes
<1>3. \A s \in Services : inactivity[s] \in Nat /\ tsStart[s] \in Nat
  BY DEF Inv, TypeOK
<1>4. \A s \in Services : inactivity[s] > MaxInactivityDuration => tsStart[s] > 0
  BY <1>2, <1>3 DEF Inv, Custody
<1>5. QED
  BY <1>1, <1>2, <1>3, <1>4 DEF getStakingState, StakedServices

\* The slots that the abstraction counts are the elements of the array.
LEMMA SlotsCounted ==
  ASSUME Inv
  PROVE  Cardinality(Lifecycle!In("Staked")) <= Len(setServiceIds)
<1>1. Lifecycle!In("Staked") = StakedServices
  BY LifeOf DEF Lifecycle!In, StakedServices
<1>2. setServiceIds \in Seq(Services) /\ Range(setServiceIds) = StakedServices
  BY DEF Inv, TypeOK, StakedSetExact
<1>3. QED
  BY <1>1, <1>2, RangeBound

\* staking through a free slot is the abstract Enter.
LEMMA stakeEnters ==
  ASSUME Inv, NEW sender \in Owners, NEW s \in Services, stake(sender, s)
  PROVE  Lifecycle!Enter(s)
<1>1. /\ tsStart[s] = 0
      /\ tsStart' = [tsStart EXCEPT ![s] = now]
      /\ inactivity' = inactivity
      /\ inactivity[s] = 0
      /\ now \in Nat \ {0}
      /\ tsStart \in [Services -> Nat]
      /\ Len(setServiceIds) # MaxNumServices
      /\ Len(setServiceIds) <= MaxNumServices
      /\ Len(setServiceIds) \in Nat
      /\ availableRewards # 0
      /\ availableRewards \in Nat
      /\ UNCHANGED <<now, availableRewards, reward, balance, pending>>
  BY LenProperties DEF Inv, TypeOK, Custody, StakedSetExact, stake, epochVars
<1>2. getStakingState(s) = "Unstaked"
  BY <1>1, LifeOf
<1>3. \A q \in Services : getStakingState(q)' = IF q = s THEN "Staked" ELSE getStakingState(q)
  BY <1>1, ConstantTypes DEF getStakingState
<1>4. Cardinality(Lifecycle!In("Staked")) < MaxNumServices
  <2>1. Cardinality(Lifecycle!In("Staked")) <= Len(setServiceIds)
    BY SlotsCounted
  <2>2. Cardinality(Lifecycle!In("Staked")) \in Nat
    <3>1. Lifecycle!In("Staked") \in SUBSET Services
      BY LifeOf DEF Lifecycle!In
    <3>2. IsFiniteSet(Services)
      BY FS_Interval, ConstantTypes
    <3>3. QED
      BY <3>1, <3>2, FS_Subset, FS_CardinalityType
  <2>3. QED
    BY <1>1, <2>1, <2>2, ConstantTypes
<1>5. PendingTotal' = PendingTotal
  BY <1>1 DEF PendingTotal
<1>6. [q \in Services |-> getStakingState(q)]' = [[q \in Services |-> getStakingState(q)] EXCEPT ![s] = "Staked"]
  BY <1>3
<1>7. QED
  <2>1. [q \in Services |-> getStakingState(q)][s] = "Unstaked"
    BY <1>2
  <2>2. Lifecycle!Cardinality(Lifecycle!In("Staked")) < MaxNumServices
    BY <1>4, SameCardinality
  <2>3. QED
    BY <1>1, <2>1, <2>2, <1>5, <1>6 DEF Lifecycle!Enter

\* What a checkpoint adds to the rewards, by service.
GainOf(active) == [s \in Services |-> RewardAfter(active)[s] - reward[s]]

\* It comes out of the available rewards, and only staked services get it.
LEMMA CheckpointGains ==
  ASSUME Inv, NEW active, availableRewards' = AvailableAfter(active)
  PROVE  Lifecycle!EpochGains(GainOf(active))
<1> DEFINE g == GainOf(active)
           N == NumServices
<1>1. /\ RewardAfter(active) \in [1..N -> Int]
      /\ reward \in [1..N -> Int]
      /\ \A s \in Services : RewardAfter(active)[s] \in Nat /\ reward[s] \in Nat
      /\ N \in Nat
      /\ AvailableAfter(active) \in Nat
      /\ availableRewards \in Nat
      /\ availableRewards + Total(reward, N) = AvailableAfter(active) + Total(RewardAfter(active), N)
  <2>1. /\ RewardAfter(active) \in [1..N -> Nat]
        /\ AvailableAfter(active) \in Nat
        /\ availableRewards + Total(reward, N) = AvailableAfter(active) + Total(RewardAfter(active), N)
    BY CheckpointRewards
  <2>2. reward \in [1..N -> Nat] /\ availableRewards \in Nat /\ N \in Nat
    BY ConstantTypes DEF Inv, TypeOK
  <2>3. \A f \in [1..N -> Nat] : f \in [1..N -> Int] /\ \A s \in 1..N : f[s] \in Nat
    OBVIOUS
  <2>4. QED
    BY <2>1, <2>2, <2>3
<1>2. \A s \in Services : g[s] = RewardAfter(active)[s] - reward[s]
  BY DEF GainOf
<1>3. g \in [1..N -> Int]
  BY <1>1, <1>2 DEF GainOf
<1>4. \A s \in Services : g[s] >= 0 /\ (g[s] > 0 => getStakingState(s) = "Staked")
  <2> SUFFICES ASSUME NEW s \in Services
               PROVE  g[s] >= 0 /\ (g[s] > 0 => getStakingState(s) = "Staked")
    OBVIOUS
  <2>1. g[s] >= 0
    <3>1. RewardAfter(active)[s] >= reward[s]
      BY CheckpointCounts
    <3>2. QED
      BY <1>1, <1>2, <3>1
  <2>2. ASSUME g[s] > 0
        PROVE  getStakingState(s) = "Staked"
    <3>1. s \in Checked
      <4>1. RewardAfter(active)[s] # reward[s]
        BY <1>1, <1>2, <2>2
      <4>2. QED
        BY <4>1, CheckpointRewards
    <3>2. s \in StakedServices
      BY <3>1, CheckedTypes DEF Inv, StakedSetExact
    <3>3. QED
      BY <3>2, LifeOf
  <2>3. QED
    BY <2>1, <2>2
<1> HIDE DEF g
<1>5. Total(RewardAfter(active), N) = Total(reward, N) + Total(g, N)
  <2> DEFINE ra == RewardAfter(active)
  <2>1. /\ ra \in [1..N -> Int]
        /\ \A s \in 1..N : ra[s] = reward[s] + g[s]
    BY <1>1, <1>2
  <2> HIDE DEF ra
  <2>2. Total(ra, N) = Total(reward, N) + Total(g, N)
    BY <1>1, <1>3, <2>1, TotalSum
  <2>3. QED
    BY <2>2 DEF ra
<1>6. Total(reward, N) \in Int /\ Total(g, N) \in Int
  BY <1>1, <1>3, TotalType
<1>7. availableRewards - availableRewards' = Total(g, N) /\ availableRewards' >= 0
  <2> DEFINE x == Total(reward, N)
             y == Total(g, N)
             z == Total(RewardAfter(active), N)
             a == AvailableAfter(active)
  <2>1. /\ x \in Int /\ y \in Int
        /\ z = x + y
        /\ a \in Nat
        /\ availableRewards \in Nat
        /\ availableRewards + x = a + z
        /\ availableRewards' = a
    BY <1>1, <1>5, <1>6
  <2> HIDE DEF x, y, z, a
  <2>2. availableRewards - availableRewards' = y /\ availableRewards' >= 0
    BY <2>1
  <2>3. QED
    BY <2>2 DEF y
<1>8. availableRewards - availableRewards' = Lifecycle!Total(g, N)
  BY <1>7, SameTotal
<1>9. \A s \in Services :
        g[s] >= 0 /\ (g[s] > 0 => [q \in Services |-> getStakingState(q)][s] = "Staked")
  BY <1>4
<1>10. QED
  BY <1>7, <1>8, <1>9, LifeOf DEF Lifecycle!EpochGains, g, N

\* An epoch that gains nothing.
LEMMA NoGains ==
  ASSUME Inv, availableRewards' = availableRewards
  PROVE  Lifecycle!EpochGains([s \in Services |-> 0])
<1> DEFINE g == [s \in Services |-> 0]
<1>1. /\ \A s \in Services : g[s] = 0
      /\ g \in [1..NumServices -> Int]
  OBVIOUS
<1> HIDE DEF g
<1>2. Total(g, NumServices) = 0
  BY <1>1, ConstantTypes, TotalZero
<1>3. availableRewards - availableRewards' = Lifecycle!Total(g, NumServices) /\ availableRewards' >= 0
  BY <1>2, SameTotal DEF Inv, TypeOK
<1>4. \A s \in Services :
        g[s] >= 0 /\ (g[s] > 0 => [q \in Services |-> getStakingState(q)][s] = "Staked")
  BY <1>1
<1>5. QED
  BY <1>3, <1>4, LifeOf DEF Lifecycle!EpochGains, g

\* A checkpoint evicts staked services and changes the state of no other.
LEMMA CheckpointEvicts ==
  ASSUME Inv, NEW active, NEW others \in SUBSET Services,
         \A s \in others : /\ tsStart'[s] = tsStart[s]
                           /\ inactivity'[s] = InactivityAfter(active)[s]
  PROVE  Lifecycle!EvictsOnlyStaked(others)
<1>1. \A s \in others :
        getStakingState(s)' # getStakingState(s) =>
           getStakingState(s) = "Staked" /\ getStakingState(s)' = "Evicted"
  <2> SUFFICES ASSUME NEW s \in others
               PROVE  getStakingState(s)' # getStakingState(s) =>
                        getStakingState(s) = "Staked" /\ getStakingState(s)' = "Evicted"
    OBVIOUS
  <2>1. CASE s \in Checked
    <3>1. s \in StakedServices
      BY <2>1, CheckedTypes DEF Inv, StakedSetExact
    <3>2. getStakingState(s) = "Staked" /\ tsStart[s] > 0
      BY <3>1, LifeOf DEF StakedServices
    <3>3. QED
      BY <3>2 DEF getStakingState
  <2>2. CASE s \notin Checked
    <3>1. inactivity'[s] = inactivity[s]
      BY <2>2, CheckpointInactivity
    <3>2. getStakingState(s)' = getStakingState(s)
      BY <3>1 DEF getStakingState
    <3>3. QED
      BY <3>2
  <2>3. QED
    BY <2>1, <2>2
<1>2. \A s \in others : /\ [q \in Services |-> getStakingState(q)][s] = getStakingState(s)
                        /\ [q \in Services |-> getStakingState(q)]'[s] = getStakingState(s)'
  OBVIOUS
<1>3. QED
  BY <1>1, <1>2 DEF Lifecycle!EvictsOnlyStaked

\* A checkpoint is an abstract epoch.
LEMMA checkpointIsEpoch ==
  ASSUME Inv, NEW active, checkpoint(active)
  PROVE  Lifecycle!Epoch
<1>1. /\ reward' = RewardAfter(active)
      /\ inactivity' = InactivityAfter(active)
      /\ availableRewards' = AvailableAfter(active)
      /\ UNCHANGED <<now, tsStart, balance, pending>>
  BY DEF checkpoint
<1>2. Lifecycle!EpochGains([s \in Services |-> reward'[s] - reward[s]])
  BY <1>1, CheckpointGains DEF GainOf
<1>3. Lifecycle!EvictsOnlyStaked(Services)
  BY <1>1, CheckpointEvicts
<1>4. PendingTotal' = PendingTotal
  BY <1>1 DEF PendingTotal
<1>5. QED
  BY <1>1, <1>2, <1>3, <1>4, LifeOf DEF Lifecycle!Epoch

\* Only a service with a record has an owner to call for it.
LEMMA OwnedHasRecord ==
  ASSUME Inv, NEW sender \in Owners, NEW s \in Services, onlyOwner(sender, s)
  PROVE  [q \in Services |-> getStakingState(q)][s] # "Unstaked"
<1>1. tsStart[s] # 0
  BY EnvironmentAssumption DEF Inv, TypeOK, Custody, onlyOwner
<1>2. QED
  BY <1>1, LifeOf

\* A claim pays what is earned, in an epoch that gains nothing.
LEMMA claimClaims ==
  ASSUME Inv, NEW sender \in Owners, NEW s \in Services, claim(sender, s)
  PROVE  Lifecycle!Claim(s)
<1>1. /\ onlyOwner(sender, s)
      /\ reward[s] # 0
      /\ reward' = [reward EXCEPT ![s] = 0]
      /\ balance' = balance - reward[s]
      /\ UNCHANGED <<now, availableRewards, tsStart, inactivity, pending>>
      /\ reward \in [Services -> Nat]
      /\ balance \in Int
  BY DEF claim, epochVars, Inv, TypeOK
<1>2. balance - balance' = reward[s] /\ balance - balance' > 0
  BY <1>1
<1> DEFINE gain == [r \in Services |->
                      reward'[r] + (IF r = s THEN balance - balance' ELSE 0) - reward[r]]
<1>3. gain = [r \in Services |-> 0]
  BY <1>1, <1>2
<1>4. Lifecycle!EpochGains(gain)
  BY <1>1, <1>3, NoGains
<1> HIDE DEF gain
<1>5. Lifecycle!EvictsOnlyStaked(Services)
  <2>1. [q \in Services |-> getStakingState(q)]' = [q \in Services |-> getStakingState(q)]
    BY <1>1 DEF getStakingState
  <2>2. QED
    BY <2>1 DEF Lifecycle!EvictsOnlyStaked
<1>6. PendingTotal' = PendingTotal
  BY <1>1 DEF PendingTotal
<1>7. QED
  BY <1>1, <1>2, <1>4, <1>5, <1>6, LifeOf, OwnedHasRecord DEF Lifecycle!Claim, gain

\* A checkpoint and a claim in one call pay what the epoch gained, too.
LEMMA checkpointAndClaimClaims ==
  ASSUME Inv, NEW active, NEW sender \in Owners, NEW s \in Services,
         checkpointAndClaim(sender, s, active)
  PROVE  Lifecycle!Claim(s)
<1>1. /\ onlyOwner(sender, s)
      /\ RewardAfter(active)[s] # 0
      /\ reward' = [RewardAfter(active) EXCEPT ![s] = 0]
      /\ balance' = balance - RewardAfter(active)[s]
      /\ inactivity' = InactivityAfter(active)
      /\ availableRewards' = AvailableAfter(active)
      /\ UNCHANGED <<now, tsStart, pending>>
      /\ RewardAfter(active) \in [Services -> Nat]
      /\ reward \in [Services -> Nat]
      /\ balance \in Int
  BY CheckpointRewards DEF checkpointAndClaim, Inv, TypeOK
<1>2. balance - balance' = RewardAfter(active)[s] /\ balance - balance' > 0
  <2> DEFINE v == RewardAfter(active)[s]
  <2>1. v \in Nat /\ v # 0 /\ balance' = balance - v
    BY <1>1
  <2> HIDE DEF v
  <2>2. balance - balance' = v /\ v > 0
    BY <1>1, <2>1
  <2>3. QED
    BY <2>2 DEF v
<1> DEFINE gain == [r \in Services |->
                      reward'[r] + (IF r = s THEN balance - balance' ELSE 0) - reward[r]]
<1>3. gain = GainOf(active)
  BY <1>1, <1>2 DEF GainOf
<1>4. Lifecycle!EpochGains(gain)
  BY <1>1, <1>3, CheckpointGains
<1> HIDE DEF gain
<1>5. Lifecycle!EvictsOnlyStaked(Services)
  BY <1>1, CheckpointEvicts
<1>6. PendingTotal' = PendingTotal
  BY <1>1 DEF PendingTotal
<1>7. reward'[s] = 0
  BY <1>1
<1>8. QED
  BY <1>1, <1>2, <1>4, <1>5, <1>6, <1>7, LifeOf, OwnedHasRecord DEF Lifecycle!Claim, gain

\* What unstake owes is counted as leaving from then on.
LEMMA LeavingGrows ==
  ASSUME Inv, NEW v \in Nat, pending' = IF v > 0 THEN Append(pending, v) ELSE pending
  PROVE  PendingTotal' - PendingTotal = v
<1>1. pending \in Seq(Nat)
  BY DEF Inv, TypeOK
<1>2. CASE v > 0
  <2>1. PendingTotal' = PendingTotal + v
    BY <1>1, <1>2, TotalPush DEF PendingTotal
  <2>2. QED
    BY <2>1, StepTypes
<1>3. CASE ~ (v > 0)
  <2>1. PendingTotal' = PendingTotal
    BY <1>3 DEF PendingTotal
  <2>2. QED
    BY <1>3, <2>1, StepTypes
<1>4. QED
  BY <1>2, <1>3

\* unstake, with the checkpoint it makes, is the abstract Leave.
LEMMA unstakeLeaves ==
  ASSUME Inv, NEW active, NEW sender \in Owners, NEW s \in Services, unstake(sender, s, active)
  PROVE  Lifecycle!Leave(s)
<1> DEFINE v == RewardAfter(active)[s]
<1>1. /\ onlyOwner(sender, s)
      /\ reward' = [RewardAfter(active) EXCEPT ![s] = 0]
      /\ pending' = IF v > 0 THEN Append(pending, v) ELSE pending
      /\ tsStart' = [tsStart EXCEPT ![s] = 0]
      /\ inactivity' = [InactivityAfter(active) EXCEPT ![s] = 0]
      /\ availableRewards' = AvailableAfter(active)
      /\ balance' = balance /\ now' = now
      /\ RewardAfter(active) \in [Services -> Nat]
      /\ InactivityAfter(active) \in [Services -> Nat]
      /\ reward \in [Services -> Nat]
      /\ tsStart \in [Services -> Nat]
  BY CheckpointRewards, CheckpointInactivity DEF unstake, deleteInfo, Inv, TypeOK
<1>2. PendingTotal' - PendingTotal = v
  <2>1. v \in Nat
    BY <1>1
  <2> HIDE DEF v
  <2>2. QED
    BY <1>1, <2>1, LeavingGrows
<1> DEFINE gain == [r \in Services |->
                      reward'[r] + (IF r = s THEN PendingTotal' - PendingTotal ELSE 0) - reward[r]]
<1>3. gain = GainOf(active)
  BY <1>1, <1>2 DEF GainOf
<1>4. Lifecycle!EpochGains(gain)
  BY <1>1, <1>3, CheckpointGains
<1> HIDE DEF gain
<1>5. Lifecycle!EvictsOnlyStaked(Services \ {s})
  BY <1>1, CheckpointEvicts
<1>6. getStakingState(s)' = "Unstaked"
  BY <1>1, ConstantTypes DEF getStakingState
<1>7. [q \in Services |-> getStakingState(q)]'[s] = "Unstaked"
  BY <1>6
<1>8. PendingTotal' - PendingTotal >= reward[s]
  BY <1>2, CheckpointCounts
<1>9. reward'[s] = 0
  BY <1>1
<1>10. now - tsStart[s] > MinStakingDuration \/ availableRewards = 0
  BY DEF unstake, StakedLongEnough
<1>11. QED
  BY <1>1, <1>4, <1>5, <1>7, <1>8, <1>9, <1>10, LifeOf, OwnedHasRecord DEF Lifecycle!Leave, gain

\* The view of the abstraction is unchanged when what it is made of is.
LEMMA SameView ==
  ASSUME UNCHANGED <<now, tsStart, inactivity, availableRewards, reward, pending, balance>>
  PROVE  UNCHANGED Lifecycle!vars
<1>1. [q \in Services |-> getStakingState(q)]' = [q \in Services |-> getStakingState(q)]
  BY DEF getStakingState
<1>2. PendingTotal' = PendingTotal
  BY DEF PendingTotal
<1>3. QED
  BY <1>1, <1>2 DEF Lifecycle!vars

\* The payout of an unstake call is an abstract payment.
LEMMA _withdrawPays ==
  ASSUME Inv, Inv', _withdraw
  PROVE  Lifecycle!Pay \/ UNCHANGED Lifecycle!vars
<1> DEFINE v == pending[Len(pending)]
<1>1. /\ balance' = balance - v
      /\ balance \in Int
      /\ UNCHANGED <<now, availableRewards, reward, tsStart, inactivity>>
  BY DEF _withdraw, epochVars, infoVars, Inv, TypeOK
<1>2. v \in Nat /\ PendingTotal = PendingTotal' + v
  BY TotalPop DEF Inv, TypeOK, PendingTotal, _withdraw
<1>3. PendingTotal \in Nat
  BY StepTypes
<1>4. PendingTotal' \in Nat
  <2>1. /\ Len(pending') \in Nat
        /\ pending' \in [1..Len(pending') -> Nat]
    BY LenProperties DEF Inv, TypeOK
  <2>2. QED
    BY <2>1, TotalNonNegative DEF PendingTotal
<1> HIDE DEF v
<1>5. [q \in Services |-> getStakingState(q)]' = [q \in Services |-> getStakingState(q)]
  BY <1>1 DEF getStakingState
<1> DEFINE p  == PendingTotal
           p1 == PendingTotal'
<1>6. /\ p = p1 + v /\ p \in Nat /\ p1 \in Nat /\ v \in Nat
      /\ balance' = balance - v /\ balance \in Int
  BY <1>1, <1>2, <1>3, <1>4
<1> HIDE DEF p, p1
<1>7. CASE v = 0
  <2>1. p1 = p /\ balance' = balance
    BY <1>6, <1>7
  <2>2. QED
    BY <1>1, <1>5, <2>1 DEF Lifecycle!vars, p, p1
<1>8. CASE v # 0
  <2>1. /\ p1 < p
        /\ balance - balance' = p - p1
        /\ p1 >= 0
    BY <1>6, <1>8
  <2>2. QED
    BY <1>1, <1>5, <2>1 DEF Lifecycle!Pay, p, p1
<1>9. QED
  BY <1>7, <1>8

\* Time passes for the abstraction, too.
LEMMA TickPasses ==
  ASSUME Inv, Tick
  PROVE  Lifecycle!TimePasses
<1>1. /\ now' > now
      /\ UNCHANGED <<tsStart, inactivity, availableRewards, reward, pending, balance>>
  BY DEF Tick, infoVars, epochVars, Inv, TypeOK
<1>2. [q \in Services |-> getStakingState(q)]' = [q \in Services |-> getStakingState(q)]
  BY <1>1 DEF getStakingState
<1>3. PendingTotal' = PendingTotal
  BY <1>1 DEF PendingTotal
<1>4. QED
  BY <1>1, <1>2, <1>3 DEF Lifecycle!TimePasses

\* A deposit is an abstract funding.
LEMMA depositFunds ==
  ASSUME Inv, NEW amount \in DepositAmounts, deposit(amount)
  PROVE  Lifecycle!Fund
<1>1. /\ amount \in Nat /\ amount > 0
      /\ balance' = balance + amount
      /\ availableRewards' = availableRewards + amount
      /\ UNCHANGED <<now, tsStart, inactivity, reward, pending>>
      /\ balance \in Int
      /\ availableRewards \in Nat
  BY EnvironmentAssumption DEF deposit, infoVars, Inv, TypeOK
<1>2. [q \in Services |-> getStakingState(q)]' = [q \in Services |-> getStakingState(q)]
  BY <1>1 DEF getStakingState
<1>3. PendingTotal' = PendingTotal
  BY <1>1 DEF PendingTotal
<1>4. availableRewards' > availableRewards /\ balance' - balance = availableRewards' - availableRewards
  BY <1>1
<1>5. QED
  BY <1>1, <1>2, <1>3, <1>4 DEF Lifecycle!Fund

\* A new contract looks like the abstract one at its start.
LEMMA InitialView == Init => Lifecycle!Init
<1> SUFFICES ASSUME Init
             PROVE  Lifecycle!Init
  OBVIOUS
<1>1. \A s \in Services : getStakingState(s) = "Unstaked"
  BY ConstantTypes DEF Init, getStakingState
<1>2. [s \in Services |-> getStakingState(s)] = [s \in Services |-> "Unstaked"]
  BY <1>1
<1>3. PendingTotal = 0
  BY TotalEmpty, EmptySeq DEF PendingTotal, Init
<1>4. QED
  BY <1>2, <1>3 DEF Init, Lifecycle!Init, Lifecycle!Services

\* Whatever services, owners and callbacks do, a caller sees the promised life
\* of a service: rewards come out of the available funds, go to staked services
\* only and are paid once, and an eviction ends with leaving.
THEOREM LifecycleImplemented == Spec => ImplementsLifecycle
<1>1. ASSUME Inv, Inv', [Next]_vars
      PROVE  [Lifecycle!Next]_(Lifecycle!vars)
  <2>1. ASSUME UNCHANGED <<now, tsStart, inactivity, availableRewards, reward, pending, balance>>
        PROVE  [Lifecycle!Next]_(Lifecycle!vars)
    BY <2>1, SameView
  <2>2. CASE UNCHANGED vars
    BY <2>1, <2>2 DEF vars, infoVars, epochVars
  <2>3. CASE Tick
    BY <1>1, <2>3, TickPasses DEF Lifecycle!Next
  <2>4. CASE \E amount \in DepositAmounts : deposit(amount)
    BY <1>1, <2>4, depositFunds DEF Lifecycle!Next
  <2>5. CASE \E s \in Services, to \in Owners \cup {StakingContract} : TransferService(s, to)
    BY <2>1, <2>5 DEF TransferService, infoVars, epochVars
  <2>6. CASE \E sender \in Owners, s \in Services : stake(sender, s)
    BY <1>1, <2>6, stakeEnters, LifeOf DEF Lifecycle!Next
  <2>7. CASE \E active \in SUBSET Checked : checkpoint(active)
    BY <1>1, <2>7, checkpointIsEpoch DEF Lifecycle!Next
  <2>8. CASE \E sender \in Owners, s \in Services : claim(sender, s)
    BY <1>1, <2>8, claimClaims, LifeOf DEF Lifecycle!Next
  <2>9. CASE \E active \in SUBSET Checked, sender \in Owners, s \in Services :
               checkpointAndClaim(sender, s, active)
    BY <1>1, <2>9, checkpointAndClaimClaims, LifeOf DEF Lifecycle!Next
  <2>10. CASE \E active \in SUBSET Checked, sender \in Owners, s \in Services :
                unstake(sender, s, active)
    BY <1>1, <2>10, unstakeLeaves, LifeOf DEF Lifecycle!Next
  <2>11. CASE _withdraw
    BY <1>1, <2>11, _withdrawPays DEF Lifecycle!Next
  <2>12. QED
    BY <1>1, <2>2, <2>3, <2>4, <2>5, <2>6, <2>7, <2>8, <2>9, <2>10, <2>11 DEF Next
<1>2. QED
  BY <1>1, InitialView, InvHolds, PTL DEF Spec, ImplementsLifecycle, Lifecycle!Spec
=============================================================================
