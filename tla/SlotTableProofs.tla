-------------------------- MODULE SlotTableProofs --------------------------
(***************************************************************************)
(* meteor_build_dist, for any number of candidates, any weights and any    *)
(* Beta: every slot is handed out once, by largest remainder; a table that *)
(* is big enough leaves no candidate without one; and the ranges come out  *)
(* as one step of the code needs them.  What the estimator makes of such a *)
(* table is the mean of what the encoder sends.                            *)
(***************************************************************************)
EXTENDS Capacity, SlotCodingProofs, FiniteSetTheorems

LEMMA Distributes ==
  ASSUME NEW a \in Int, NEW b \in Int, NEW c \in Int
  PROVE  a * (b + c) = a * b + a * c
OBVIOUS

(* What division by a positive number leaves.                              *)
LEMMA Division ==
  ASSUME NEW a \in Int, NEW d \in Int, 0 < d
  PROVE  \E q \in Int, r \in Int : /\ q = a \div d /\ r = a % d
                                    /\ 0 <= r /\ r < d /\ a = d * q + r
<1>1. PICK q \in Int, r \in Int : q = a \div d /\ r = a % d
  OBVIOUS
<1>2. 0 <= r /\ r < d
  BY <1>1
<1>3. a = d * q + r
  BY <1>1
<1> QED BY <1>1, <1>2, <1>3

(***************************************************************************)
(* Sums.                                                                   *)
(***************************************************************************)
LEMMA SumRec ==
  ASSUME NEW n \in Nat, NEW s \in [1..n -> Int]
  PROVE  \E g \in [0..n -> Int] : /\ g[0] = 0
                                  /\ \A j \in 1..n : g[j] = g[j - 1] + s[j]
                                  /\ \A k \in 0..n : SumTo(s, k) = g[k]
                                  /\ Sum(s) = g[n]
<1> DEFINE P(m, g) == g = [j \in 0..m |-> IF j = 0 THEN 0 ELSE g[j - 1] + s[j]]
           H(m) == CHOOSE g : P(m, g)
<1>1. \A j \in 1..n : s[j] \in Int
  OBVIOUS
<1>2. PICK F : F = [j \in 1..n |-> [u \in Int |-> u + s[j]]]
  OBVIOUS
<1>3. F \in [1..n -> [Int -> Int]] /\ \A j \in 1..n : \A u \in Int : F[j][u] = u + s[j]
  BY <1>1, <1>2
<1>4. PICK f \in [0..n -> Int] : f[0] = 0 /\ \A j \in 1..n : f[j] = F[j][f[j - 1]]
  <2>1. PICK zero \in Int : zero = 0
    OBVIOUS
  <2>2. \E f \in [0..n -> Int] : f[0] = zero /\ \A j \in 1..n : f[j] = F[j][f[j - 1]]
    BY <1>3, RecursionExists
  <2> QED BY <2>1, <2>2
<1>5. ASSUME NEW j \in 1..n PROVE f[j] = f[j - 1] + s[j]
  <2>1. f[j - 1] \in Int /\ f[j] = F[j][f[j - 1]]
    BY <1>4
  <2> QED BY <1>3, <2>1
<1>6. ASSUME NEW m \in 0..n PROVE H(m)[m] = f[m]
  <2>0. m \in Nat
    OBVIOUS
  <2>1. P(m, [j \in 0..m |-> f[j]])
    BY <1>4, <1>5
  <2>2. P(m, H(m))
    <3> HIDE DEF P
    <3> QED BY <2>1
  <2>3. PICK h : h = H(m)
    OBVIOUS
  <2>4. h[0] = 0 /\ \A j \in 1..m : h[j] = h[j - 1] + s[j]
    <3>1. P(m, h)
      BY <2>2, <2>3
    <3> QED BY <3>1
  <2> DEFINE T == {j \in 0..m : h[j] = f[j]}
  <2>5. 0 \in T /\ \A j \in 1..m : j - 1 \in T => j \in T
    BY <1>4, <1>5, <2>4
  <2>6. m \in T
    <3> HIDE DEF T
    <3>1. \A j \in 0..m : j \in T
      BY <2>0, <2>5, UpTo
    <3> QED BY <2>0, <3>1
  <2> HIDE DEF H
  <2> QED BY <2>3, <2>6
<1>7. \A k \in 0..n : SumTo(s, k) = H(k)[k]
  BY DEF SumTo
<1>8. Sum(s) = SumTo(s, n)
  BY DEF Sum
<1> HIDE DEF H
<1>9. \A k \in 0..n : SumTo(s, k) = f[k]
  BY <1>6, <1>7
<1>10. Sum(s) = f[n]
  BY <1>8, <1>9
<1> QED BY <1>4, <1>5, <1>9, <1>10

LEMMA SumType ==
  ASSUME NEW n \in Nat, NEW s \in [1..n -> Int]
  PROVE  Sum(s) \in Int
BY SumRec

LEMMA SumToNext ==
  ASSUME NEW n \in Nat, NEW s \in [1..n -> Int]
  PROVE  /\ SumTo(s, 0) = 0 /\ SumTo(s, n) = Sum(s)
         /\ \A k \in 1..n : SumTo(s, k) = SumTo(s, k - 1) + s[k]
         /\ \A k \in 0..n : SumTo(s, k) \in Int
<1>1. PICK g \in [0..n -> Int] : /\ g[0] = 0
                                 /\ \A j \in 1..n : g[j] = g[j - 1] + s[j]
                                 /\ \A k \in 0..n : SumTo(s, k) = g[k]
                                 /\ Sum(s) = g[n]
  BY SumRec
<1> QED BY <1>1

(* What is proportional term by term is so in sum.                         *)
LEMMA SumCombine ==
  ASSUME NEW n \in Nat, NEW s \in [1..n -> Int], NEW t \in [1..n -> Int], NEW u \in [1..n -> Int],
         NEW a \in Int, NEW b \in Int,
         \A k \in 1..n : s[k] + a * t[k] <= b * u[k]
  PROVE  Sum(s) + a * Sum(t) <= b * Sum(u)
<1>1. PICK f \in [0..n -> Int] : /\ f[0] = 0 /\ \A j \in 1..n : f[j] = f[j - 1] + s[j]
                                 /\ Sum(s) = f[n]
  BY SumRec
<1>2. PICK g \in [0..n -> Int] : /\ g[0] = 0 /\ \A j \in 1..n : g[j] = g[j - 1] + t[j]
                                 /\ Sum(t) = g[n]
  BY SumRec
<1>3. PICK h \in [0..n -> Int] : /\ h[0] = 0 /\ \A j \in 1..n : h[j] = h[j - 1] + u[j]
                                 /\ Sum(u) = h[n]
  BY SumRec
<1> DEFINE T == {j \in 0..n : f[j] + a * g[j] <= b * h[j]}
<1>4. 0 \in T
  BY <1>1, <1>2, <1>3
<1>5. ASSUME NEW j \in 1..n, j - 1 \in T PROVE j \in T
  <2>1. PICK x \in Int, y \in Int, z \in Int : x = f[j - 1] /\ y = g[j - 1] /\ z = h[j - 1]
    <3>1. j - 1 \in 0..n
      OBVIOUS
    <3>2. f[j - 1] \in Int /\ g[j - 1] \in Int /\ h[j - 1] \in Int
      BY <3>1
    <3> QED BY <3>2
  <2>2. PICK p \in Int, q \in Int, r \in Int : p = s[j] /\ q = t[j] /\ r = u[j]
    <3>1. s[j] \in Int /\ t[j] \in Int /\ u[j] \in Int
      OBVIOUS
    <3> QED BY <3>1
  <2>3. x + a * y <= b * z /\ p + a * q <= b * r
    BY <1>5, <2>1, <2>2
  <2>4. a * (y + q) = a * y + a * q /\ b * (z + r) = b * z + b * r
    BY Distributes
  <2>5. (x + p) + a * (y + q) <= b * (z + r)
    BY <2>3, <2>4
  <2>6. f[j] = x + p /\ g[j] = y + q /\ h[j] = z + r
    BY <1>1, <1>2, <1>3, <2>1, <2>2
  <2> QED BY <2>5, <2>6
<1>6. n \in T
  <2> HIDE DEF T
  <2>1. \A j \in 0..n : j \in T
    BY <1>4, <1>5, UpTo
  <2> QED BY <2>1
<1> QED BY <1>1, <1>2, <1>3, <1>6

LEMMA SumCombineAbove ==
  ASSUME NEW n \in Nat, NEW s \in [1..n -> Int], NEW t \in [1..n -> Int], NEW u \in [1..n -> Int],
         NEW a \in Int, NEW b \in Int,
         \A k \in 1..n : b * u[k] <= s[k] + a * t[k]
  PROVE  b * Sum(u) <= Sum(s) + a * Sum(t)
<1>1. PICK f \in [0..n -> Int] : /\ f[0] = 0 /\ \A j \in 1..n : f[j] = f[j - 1] + s[j]
                                 /\ Sum(s) = f[n]
  BY SumRec
<1>2. PICK g \in [0..n -> Int] : /\ g[0] = 0 /\ \A j \in 1..n : g[j] = g[j - 1] + t[j]
                                 /\ Sum(t) = g[n]
  BY SumRec
<1>3. PICK h \in [0..n -> Int] : /\ h[0] = 0 /\ \A j \in 1..n : h[j] = h[j - 1] + u[j]
                                 /\ Sum(u) = h[n]
  BY SumRec
<1> DEFINE T == {j \in 0..n : b * h[j] <= f[j] + a * g[j]}
<1>4. 0 \in T
  BY <1>1, <1>2, <1>3
<1>5. ASSUME NEW j \in 1..n, j - 1 \in T PROVE j \in T
  <2>1. PICK x \in Int, y \in Int, z \in Int : x = f[j - 1] /\ y = g[j - 1] /\ z = h[j - 1]
    <3>1. j - 1 \in 0..n
      OBVIOUS
    <3>2. f[j - 1] \in Int /\ g[j - 1] \in Int /\ h[j - 1] \in Int
      BY <3>1
    <3> QED BY <3>2
  <2>2. PICK p \in Int, q \in Int, r \in Int : p = s[j] /\ q = t[j] /\ r = u[j]
    <3>1. s[j] \in Int /\ t[j] \in Int /\ u[j] \in Int
      OBVIOUS
    <3> QED BY <3>1
  <2>3. b * z <= x + a * y /\ b * r <= p + a * q
    BY <1>5, <2>1, <2>2
  <2>4. a * (y + q) = a * y + a * q /\ b * (z + r) = b * z + b * r
    BY Distributes
  <2>5. b * (z + r) <= (x + p) + a * (y + q)
    BY <2>3, <2>4
  <2>6. f[j] = x + p /\ g[j] = y + q /\ h[j] = z + r
    BY <1>1, <1>2, <1>3, <2>1, <2>2
  <2> QED BY <2>5, <2>6
<1>6. n \in T
  <2> HIDE DEF T
  <2>1. \A j \in 0..n : j \in T
    BY <1>4, <1>5, UpTo
  <2> QED BY <2>1
<1> QED BY <1>1, <1>2, <1>3, <1>6

LEMMA SumLe ==
  ASSUME NEW n \in Nat, NEW s \in [1..n -> Int], NEW u \in [1..n -> Int],
         \A k \in 1..n : s[k] <= u[k]
  PROVE  Sum(s) <= Sum(u)
<1>1. PICK a \in Int, b \in Int : a = 0 /\ b = 1
  OBVIOUS
<1>2. \A k \in 1..n : s[k] + a * s[k] <= b * u[k]
  <2> SUFFICES ASSUME NEW k \in 1..n PROVE s[k] + a * s[k] <= b * u[k]
    OBVIOUS
  <2>1. s[k] \in Int /\ u[k] \in Int /\ s[k] <= u[k]
    OBVIOUS
  <2> QED BY <1>1, <2>1
<1>3. Sum(s) + a * Sum(s) <= b * Sum(u)
  BY <1>2, SumCombine
<1>4. Sum(s) \in Int /\ Sum(u) \in Int
  BY SumType
<1> QED BY <1>1, <1>3, <1>4

LEMMA SumConstant ==
  ASSUME NEW n \in Nat, NEW c \in Int
  PROVE  Sum([k \in 1..n |-> c]) = c * n
<1>1. PICK s : s = [k \in 1..n |-> c]
  OBVIOUS
<1>2. s \in [1..n -> Int]
  BY <1>1
<1>3. PICK f \in [0..n -> Int] : /\ f[0] = 0 /\ \A j \in 1..n : f[j] = f[j - 1] + s[j]
                                 /\ Sum(s) = f[n]
  BY <1>2, SumRec
<1> DEFINE T == {j \in 0..n : f[j] = c * j}
<1>4. 0 \in T
  BY <1>3
<1>5. ASSUME NEW j \in 1..n, j - 1 \in T PROVE j \in T
  <2>1. PICK m \in Int : m = j - 1 /\ j = m + 1
    OBVIOUS
  <2>2. f[m] = c * m /\ f[j] = f[m] + c
    BY <1>1, <1>3, <1>5, <2>1
  <2>3. c * (m + 1) = c * m + c
    OBVIOUS
  <2> QED BY <2>1, <2>2, <2>3
<1>6. n \in T
  <2> HIDE DEF T
  <2>1. \A j \in 0..n : j \in T
    BY <1>4, <1>5, UpTo
  <2> QED BY <2>1
<1> QED BY <1>1, <1>3, <1>6

LEMMA SumUpdate ==
  ASSUME NEW n \in Nat, NEW s \in [1..n -> Int], NEW k \in 1..n, NEW v \in Int
  PROVE  Sum([s EXCEPT ![k] = v]) = Sum(s) - s[k] + v
<1>1. PICK t : t = [s EXCEPT ![k] = v]
  OBVIOUS
<1>2. t \in [1..n -> Int] /\ t[k] = v /\ \A j \in 1..n : j # k => t[j] = s[j]
  BY <1>1
<1>3. PICK f \in [0..n -> Int] : /\ f[0] = 0 /\ \A j \in 1..n : f[j] = f[j - 1] + s[j]
                                 /\ Sum(s) = f[n]
  BY SumRec
<1>4. PICK g \in [0..n -> Int] : /\ g[0] = 0 /\ \A j \in 1..n : g[j] = g[j - 1] + t[j]
                                 /\ Sum(t) = g[n]
  BY <1>2, SumRec
<1> DEFINE T == {j \in 0..n : g[j] = IF j < k THEN f[j] ELSE f[j] - s[k] + v}
<1>5. 0 \in T
  BY <1>3, <1>4
<1>6. ASSUME NEW j \in 1..n, j - 1 \in T PROVE j \in T
  <2>1. f[j - 1] \in Int /\ f[j] = f[j - 1] + s[j] /\ g[j] = g[j - 1] + t[j]
    BY <1>3, <1>4
  <2>2. s[j] \in Int /\ s[k] \in Int
    OBVIOUS
  <2>3. CASE j < k
    BY <1>2, <1>6, <2>1, <2>2, <2>3
  <2>4. CASE j = k
    BY <1>2, <1>6, <2>1, <2>2, <2>4
  <2>5. CASE j > k
    <3>1. j # k /\ ~(j < k) /\ ~(j - 1 < k)
      BY <2>5
    <3>2. g[j - 1] = f[j - 1] - s[k] + v /\ t[j] = s[j]
      BY <1>2, <1>6, <3>1
    <3>3. g[j] = f[j - 1] - s[k] + v + s[j]
      BY <2>1, <3>2
    <3>4. g[j] = f[j] - s[k] + v
      BY <2>1, <2>2, <3>3
    <3> QED BY <3>1, <3>4
  <2> QED BY <2>3, <2>4, <2>5
<1>7. n \in T
  <2> HIDE DEF T
  <2>1. \A j \in 0..n : j \in T
    BY <1>5, <1>6, UpTo
  <2> QED BY <2>1
<1>8. ~(n < k)
  OBVIOUS
<1> QED BY <1>1, <1>3, <1>4, <1>7, <1>8

LEMMA SumOfNaturals ==
  ASSUME NEW n \in Nat, NEW s \in [1..n -> Int], \A k \in 1..n : 0 <= s[k]
  PROVE  0 <= Sum(s) /\ \A k \in 1..n : s[k] <= Sum(s)
<1>1. ASSUME NEW t \in [1..n -> Int], \A k \in 1..n : 0 <= t[k] PROVE 0 <= Sum(t)
  <2>1. PICK z : z \in [1..n -> Int] /\ z = [k \in 1..n |-> 0]
    <3>1. [k \in 1..n |-> 0] \in [1..n -> Int]
      OBVIOUS
    <3> QED BY <3>1
  <2>2. Sum(z) = 0
    <3>1. PICK c \in Int : c = 0
      OBVIOUS
    <3>2. Sum([k \in 1..n |-> c]) = c * n
      BY SumConstant
    <3> QED BY <2>1, <3>1, <3>2
  <2>3. \A k \in 1..n : z[k] <= t[k]
    BY <1>1, <2>1
  <2> QED BY <2>1, <2>2, <2>3, SumLe
<1>2. ASSUME NEW k \in 1..n PROVE s[k] <= Sum(s)
  <2>1. PICK zero \in Int : zero = 0
    OBVIOUS
  <2>2. PICK t : t = [s EXCEPT ![k] = zero]
    OBVIOUS
  <2>3. t \in [1..n -> Int] /\ \A j \in 1..n : 0 <= t[j]
    BY <2>1, <2>2
  <2>4. 0 <= Sum(t) /\ Sum(t) = Sum(s) - s[k] + zero
    BY <1>1, <2>2, <2>3, SumUpdate
  <2>5. Sum(s) \in Int /\ s[k] \in Int
    BY SumType
  <2> QED BY <2>1, <2>4, <2>5
<1> QED BY <1>1, <1>2

(* A positive sum has a positive term.                                     *)
LEMMA PositiveTerm ==
  ASSUME NEW n \in Nat, NEW s \in [1..n -> Int], 0 < Sum(s)
  PROVE  \E k \in 1..n : 0 < s[k]
<1> SUFFICES ASSUME \A k \in 1..n : ~(0 < s[k]) PROVE FALSE
  OBVIOUS
<1>1. PICK z : z \in [1..n -> Int] /\ z = [k \in 1..n |-> 0]
  <2>1. [k \in 1..n |-> 0] \in [1..n -> Int]
    OBVIOUS
  <2> QED BY <2>1
<1>2. Sum(z) = 0
  <2>1. PICK c \in Int : c = 0
    OBVIOUS
  <2>2. Sum([k \in 1..n |-> c]) = c * n
    BY SumConstant
  <2> QED BY <1>1, <2>1, <2>2
<1>3. \A k \in 1..n : s[k] <= z[k]
  <2> SUFFICES ASSUME NEW k \in 1..n PROVE s[k] <= z[k]
    OBVIOUS
  <2>1. s[k] \in Int /\ ~(0 < s[k]) /\ z[k] = 0
    BY <1>1
  <2> QED BY <2>1
<1>4. Sum(s) <= Sum(z)
  BY <1>1, <1>3, SumLe
<1>5. Sum(s) \in Int
  BY SumType
<1> QED BY <1>2, <1>4, <1>5

(* Terms of at most one, one of them not positive, add up to less than     *)
(* their number.                                                           *)
LEMMA SumBelow ==
  ASSUME NEW n \in Nat, NEW s \in [1..n -> Int], \A j \in 1..n : s[j] <= 1,
         NEW k \in 1..n, s[k] < 1
  PROVE  Sum(s) < n
<1>1. PICK one \in Int : one = 1
  OBVIOUS
<1>2. PICK t : t = [s EXCEPT ![k] = one]
  OBVIOUS
<1>3. PICK u \in [1..n -> Int] : u = [j \in 1..n |-> one]
  BY <1>1
<1>4. Sum(u) = n
  <2>1. Sum([j \in 1..n |-> one]) = one * n
    BY SumConstant
  <2> QED BY <1>1, <1>3, <2>1
<1>5. t \in [1..n -> Int] /\ \A j \in 1..n : t[j] <= u[j]
  <2>1. t \in [1..n -> Int]
    BY <1>1, <1>2
  <2>2. ASSUME NEW j \in 1..n PROVE t[j] <= u[j]
    BY <1>1, <1>2, <1>3
  <2> QED BY <2>1, <2>2
<1>6. Sum(t) <= n
  BY <1>4, <1>5, SumLe
<1>7. Sum(t) = Sum(s) - s[k] + one
  BY <1>2, SumUpdate
<1>8. Sum(s) \in Int /\ s[k] \in Int
  BY SumType
<1> QED BY <1>1, <1>6, <1>7, <1>8

LEMMA Largest ==
  ASSUME NEW n \in Nat \ {0}, NEW s \in [1..n -> Int]
  PROVE  \E c \in 1..n : \A d \in 1..n : s[d] < s[c] \/ (s[d] = s[c] /\ c <= d)
<1> DEFINE Best(j, c) == \A d \in 1..j : s[d] < s[c] \/ (s[d] = s[c] /\ c <= d)
           T == {m \in 0..(n - 1) : \E c \in 1..(m + 1) : Best(m + 1, c)}
<1>1. 0 \in T
  <2>1. Best(1, 1)
    OBVIOUS
  <2> QED BY <2>1
<1>2. ASSUME NEW m \in 1..(n - 1), m - 1 \in T PROVE m \in T
  <2>1. PICK c \in 1..m : Best(m, c)
    <3>1. (m - 1) + 1 = m
      OBVIOUS
    <3> HIDE DEF Best
    <3> QED BY <1>2, <3>1
  <2>2. m + 1 \in 1..n /\ c \in 1..n /\ s[m + 1] \in Int /\ s[c] \in Int
    OBVIOUS
  <2>3. CASE s[m + 1] > s[c]
    <3>1. Best(m + 1, m + 1)
      <4> SUFFICES ASSUME NEW d \in 1..(m + 1), d # m + 1 PROVE s[d] < s[m + 1]
        BY <2>2
      <4>1. d \in 1..m /\ s[d] \in Int
        BY <2>2
      <4>2. s[d] <= s[c]
        BY <2>1, <2>2, <4>1
      <4> QED BY <2>2, <2>3, <4>1, <4>2
    <3> HIDE DEF Best
    <3> QED BY <2>2, <3>1
  <2>4. CASE ~(s[m + 1] > s[c])
    <3>1. Best(m + 1, c)
      <4> SUFFICES ASSUME NEW d \in 1..(m + 1) PROVE s[d] < s[c] \/ (s[d] = s[c] /\ c <= d)
        OBVIOUS
      <4>1. CASE d = m + 1
        BY <2>2, <2>4, <4>1
      <4>2. CASE d # m + 1
        <5>1. d \in 1..m
          BY <4>2
        <5> QED BY <2>1, <5>1
      <4> QED BY <4>1, <4>2
    <3> HIDE DEF Best
    <3> QED BY <2>2, <3>1
  <2> QED BY <2>3, <2>4
<1>3. n - 1 \in T
  <2>1. n - 1 \in Nat
    OBVIOUS
  <2> HIDE DEF T
  <2>2. \A j \in 0..(n - 1) : j \in T
    BY <1>1, <1>2, <2>1, UpTo
  <2> QED BY <2>1, <2>2
<1>4. (n - 1) + 1 = n
  OBVIOUS
<1>5. \E c \in 1..n : Best(n, c)
  <2> HIDE DEF Best
  <2> QED BY <1>3, <1>4
<1> QED BY <1>5

LEMMA FirstLargestIs ==
  ASSUME NEW n \in Nat \ {0}, Candidates = 1..n, NEW s \in [1..n -> Int]
  PROVE  /\ FirstLargest(s) \in 1..n
         /\ \A d \in 1..n : s[d] <= s[FirstLargest(s)]
<1> DEFINE Best(c) == \A d \in Candidates : s[d] < s[c] \/ (s[d] = s[c] /\ c <= d)
<1>1. \E c \in Candidates : Best(c)
  BY Largest
<1>2. PICK c : c = CHOOSE x \in Candidates : Best(x)
  OBVIOUS
<1>3. c \in Candidates /\ Best(c)
  <2> HIDE DEF Best
  <2> QED BY <1>1, <1>2
<1>4. FirstLargest(s) = c
  BY <1>2 DEF FirstLargest
<1>5. \A d \in 1..n : s[d] <= s[c]
  <2> SUFFICES ASSUME NEW d \in 1..n PROVE s[d] <= s[c]
    OBVIOUS
  <2>1. s[d] \in Int /\ s[c] \in Int
    BY <1>3
  <2> QED BY <1>3, <2>1
<1> QED BY <1>3, <1>4, <1>5

(***************************************************************************)
(* The invariant.                                                          *)
(***************************************************************************)

(* Slots and fraction make up a candidate's ideal, from its flooring on.   *)
Shares ==
  \A c \in Candidates :
    IF pc = "floor" /\ c >= i THEN counts[c] = 0 /\ fracs[c] = 0
    ELSE pc \in {"floor", "topup"} \/ (pc = "steal" /\ i = 1) =>
           fracs[c] + Divisor * counts[c] = weights[c] * Slots

(* A fraction that was topped up is negative and by less than one slot;    *)
(* while flooring no fraction is.                                          *)
FracsBounded ==
  /\ pc = "floor" => \A c \in Candidates : 0 <= fracs[c]
  /\ Sum(weights) > 0 =>
       \A c \in Candidates : -Divisor <= fracs[c] /\ fracs[c] < Divisor

(* The candidates the stealing pass has seen have a slot.                  *)
Served ==
  /\ pc = "steal" /\ Fits => \A c \in Candidates : c < i => counts[c] >= 1
  /\ pc \in {"layout", "done"} /\ Fits => \A c \in Candidates : counts[c] >= 1

Ranked ==
  pc \in {"steal", "layout", "done"} =>
    \A c, d \in Candidates : weights[c] > weights[d] => counts[c] >= counts[d] - 1

(* The ranges follow one another.                                          *)
LaidOutSoFar ==
  /\ pc \in {"floor", "topup", "steal"} => table = <<>> /\ cursor = 0
  /\ pc = "layout" => Len(table) = i - 1
  /\ pc = "done" => Len(table) = Len(weights)
  /\ cursor = SumTo(counts, Len(table))
  /\ table = [c \in 1..Len(table) |->
                [text |-> c, start |-> SumTo(counts, c - 1), end |-> SumTo(counts, c) - 1]]

IInv == TypeOK /\ Shares /\ FracsBounded /\ Served /\ Ranked /\ LaidOutSoFar

LEMMA PartialSums ==
  ASSUME NEW n \in Nat, NEW s \in [1..n -> Int], \A k \in 1..n : 0 <= s[k]
  PROVE  \A k \in 0..n : 0 <= SumTo(s, k) /\ SumTo(s, k) <= Sum(s)
<1>1. PICK f \in [0..n -> Int] : /\ f[0] = 0 /\ \A j \in 1..n : f[j] = f[j - 1] + s[j]
                                 /\ \A k \in 0..n : SumTo(s, k) = f[k]
                                 /\ Sum(s) = f[n]
  BY SumRec
<1>2. \A k \in 0..n : 0 <= f[k]
  <2> DEFINE T == {j \in 0..n : 0 <= f[j]}
  <2>1. 0 \in T
    BY <1>1
  <2>2. ASSUME NEW j \in 1..n, j - 1 \in T PROVE j \in T
    <3>1. f[j - 1] \in Int /\ s[j] \in Int /\ 0 <= s[j] /\ f[j] = f[j - 1] + s[j] /\ 0 <= f[j - 1]
      BY <1>1, <2>2
    <3> QED BY <3>1
  <2>3. \A j \in 0..n : j \in T
    <3> HIDE DEF T
    <3> QED BY <2>1, <2>2, UpTo
  <2> QED BY <2>3
<1>3. \A k \in 0..n : f[k] <= f[n]
  <2> DEFINE T == {j \in 0..n : f[n - j] <= f[n]}
  <2>1. 0 \in T
    OBVIOUS
  <2>2. ASSUME NEW j \in 1..n, j - 1 \in T PROVE j \in T
    <3>1. n - j \in 0..n /\ n - (j - 1) \in 1..n /\ (n - (j - 1)) - 1 = n - j
      OBVIOUS
    <3>2. PICK m \in 1..n : m = n - (j - 1) /\ m - 1 = n - j
      BY <3>1
    <3>3. f[m] <= f[n] /\ f[m] = f[m - 1] + s[m] /\ 0 <= s[m]
      BY <1>1, <2>2, <3>2
    <3>4. f[m] \in Int /\ f[m - 1] \in Int /\ s[m] \in Int /\ f[n] \in Int
      OBVIOUS
    <3>5. f[m - 1] <= f[n]
      BY <3>3, <3>4
    <3> QED BY <3>2, <3>5
  <2>3. \A j \in 0..n : j \in T
    <3> HIDE DEF T
    <3> QED BY <2>1, <2>2, UpTo
  <2> SUFFICES ASSUME NEW k \in 0..n PROVE f[k] <= f[n]
    OBVIOUS
  <2>4. n - k \in 0..n /\ n - (n - k) = k
    OBVIOUS
  <2>5. n - k \in T
    <3> HIDE DEF T
    <3> QED BY <2>3, <2>4
  <2> QED BY <2>4, <2>5
<1> QED BY <1>1, <1>2, <1>3

LEMMA SlotsPositive == Slots \in Int /\ 0 < Slots
<1>1. PICK n \in Nat : n = Beta
  BY BetaAssumption
<1> DEFINE T == {j \in 0..n : PowerOfTwo(j) \in Int /\ 0 < PowerOfTwo(j)}
<1>2. 0 \in T
  <2>1. PowerOfTwo(0) = 1
    BY PowerRec
  <2> QED BY <2>1
<1>3. ASSUME NEW j \in 1..n, j - 1 \in T PROVE j \in T
  <2>1. PICK k \in Nat : k = j - 1 /\ k + 1 = j
    OBVIOUS
  <2>2. PowerOfTwo(k + 1) = 2 * PowerOfTwo(k)
    BY PowerRec
  <2> QED BY <1>3, <2>1, <2>2
<1>4. n \in T
  <2> HIDE DEF T
  <2>1. \A j \in 0..n : j \in T
    BY <1>2, <1>3, UpTo
  <2> QED BY <2>1
<1> QED BY <1>1, <1>4 DEF Slots

(***************************************************************************)
(* The types, as the steps use them.                                       *)
(***************************************************************************)
LEMMA WeightsType ==
  ASSUME weights \in Weights
  PROVE  /\ Len(weights) \in Nat \ {0} /\ Candidates = 1..Len(weights)
         /\ weights \in [1..Len(weights) -> Int]
         /\ \A c \in 1..Len(weights) : weights[c] \in Int /\ 0 <= weights[c]
         /\ Sum(weights) \in Int /\ 0 <= Sum(weights)
         /\ \A c \in 1..Len(weights) : weights[c] <= Sum(weights)
         /\ Divisor \in Int /\ 0 < Divisor
<1>1. weights \in Seq(Nat) /\ weights # <<>>
  BY WeightsAssumption
<1>2. PICK n \in Nat \ {0} : n = Len(weights) /\ weights \in [1..n -> Nat]
  BY <1>1
<1>3. weights \in [1..n -> Int] /\ \A c \in 1..n : weights[c] \in Int /\ 0 <= weights[c]
  BY <1>2
<1>4. Sum(weights) \in Int /\ 0 <= Sum(weights) /\ \A c \in 1..n : weights[c] <= Sum(weights)
  BY <1>3, SumType, SumOfNaturals
<1>5. Candidates = 1..n
  BY <1>2 DEF Candidates
<1>6. Divisor \in Int /\ 0 < Divisor
  BY <1>4 DEF Divisor
<1> QED BY <1>2, <1>3, <1>4, <1>5, <1>6

LEMMA CountsType ==
  ASSUME TypeOK
  PROVE  /\ counts \in [1..Len(weights) -> Int] /\ fracs \in [1..Len(weights) -> Int]
         /\ \A c \in 1..Len(weights) : counts[c] \in Int /\ 0 <= counts[c] /\ fracs[c] \in Int
         /\ total \in Int /\ total <= Slots
<1>1. PICK n \in Nat \ {0} : n = Len(weights) /\ Candidates = 1..n
  BY WeightsType DEF TypeOK
<1>2. counts \in [1..n -> 0..Slots] /\ fracs \in [1..n -> Int] /\ total <= Slots
  BY <1>1 DEF TypeOK
<1>3. counts \in [1..n -> Int] /\ \A c \in 1..n : counts[c] \in Int /\ 0 <= counts[c]
  BY <1>2, SlotsPositive
<1>4. total \in Int
  BY <1>3, SumType DEF total
<1> QED BY <1>1, <1>2, <1>3, <1>4

(* Counts that are not negative and no more than all slots in sum.         *)
LEMMA CountsFit ==
  ASSUME NEW n \in Nat, NEW s \in [1..n -> Int], \A k \in 1..n : 0 <= s[k], Sum(s) <= Slots
  PROVE  s \in [1..n -> 0..Slots]
<1>1. \A k \in 1..n : s[k] <= Sum(s)
  BY SumOfNaturals
<1>2. Sum(s) \in Int
  BY SumType
<1>3. \A k \in 1..n : s[k] \in 0..Slots
  <2> SUFFICES ASSUME NEW k \in 1..n PROVE s[k] \in 0..Slots
    OBVIOUS
  <2>1. s[k] \in Int /\ 0 <= s[k] /\ s[k] <= Sum(s)
    BY <1>1
  <2> QED BY <1>2, <2>1, SlotsPositive
<1> QED BY <1>3

(* Shares that are not negative leave no more slots than there are.        *)
LEMMA TotalFits ==
  ASSUME weights \in Weights, NEW C \in [1..Len(weights) -> Int], NEW F \in [1..Len(weights) -> Int],
         \A c \in 1..Len(weights) : 0 <= F[c] /\ F[c] + Divisor * C[c] <= Slots * weights[c]
  PROVE  Sum(C) <= Slots
<1>1. PICK n \in Nat \ {0} : n = Len(weights) /\ weights \in [1..n -> Int]
  BY WeightsType
<1>2. PICK D \in Int : D = Divisor /\ 0 < D
  BY WeightsType
<1>3. PICK S \in Int : S = Slots /\ 0 < S
  BY SlotsPositive
<1>4. PICK W \in Int : W = Sum(weights) /\ 0 <= W
  BY WeightsType
<1>5. PICK Z \in Int : Z = Sum(C)
  BY <1>1, SumType
<1>6. Sum(F) \in Int /\ 0 <= Sum(F)
  BY <1>1, SumType, SumOfNaturals
<1>7. Sum(F) + D * Z <= S * W
  BY <1>1, <1>2, <1>3, <1>4, <1>5, SumCombine
<1>8. D * Z <= S * W
  <2>1. D * Z \in Int /\ S * W \in Int
    OBVIOUS
  <2> QED BY <1>6, <1>7, <2>1
<1>9. CASE W = 0
  <2>1. D = 1
    BY <1>2, <1>4, <1>9 DEF Divisor
  <2> QED BY <1>3, <1>5, <1>8, <1>9, <2>1
<1>10. CASE W # 0
  <2>1. D = W
    BY <1>2, <1>4, <1>10 DEF Divisor
  <2>2. D * Z <= D * S
    BY <1>8, <2>1
  <2>3. Z <= S
    BY <1>2, <2>2
  <2> QED BY <1>3, <1>5, <2>3
<1> QED BY <1>9, <1>10

(* Once all are floored, the fractions add up to the slots left over.      *)
LEMMA LeftOver ==
  ASSUME IInv, pc = "topup", Sum(weights) > 0
  PROVE  Sum(fracs) = Divisor * (Slots - total)
<1>0. weights \in Weights /\ TypeOK
  BY DEF IInv, TypeOK
<1>1. PICK n \in Nat \ {0} : n = Len(weights) /\ weights \in [1..n -> Int] /\ Candidates = 1..n
  BY <1>0, WeightsType
<1>2. PICK D \in Int : D = Divisor /\ D = Sum(weights)
  BY <1>0, WeightsType DEF Divisor
<1>3. PICK S \in Int : S = Slots
  BY SlotsPositive
<1>4. counts \in [1..n -> Int] /\ fracs \in [1..n -> Int] /\ total \in Int
  BY <1>0, <1>1, CountsType
<1>5. \A c \in 1..n : fracs[c] + D * counts[c] = S * weights[c]
  <2> SUFFICES ASSUME NEW c \in 1..n PROVE fracs[c] + D * counts[c] = S * weights[c]
    OBVIOUS
  <2>1. fracs[c] + D * counts[c] = weights[c] * S
    BY <1>1, <1>2, <1>3 DEF IInv, Shares
  <2>2. PICK w \in Int : w = weights[c]
    BY <1>1
  <2>3. w * S = S * w
    BY <1>3, <2>2
  <2> QED BY <2>1, <2>2, <2>3
<1>6. Sum(fracs) + D * Sum(counts) = S * Sum(weights)
  <2>1. /\ Sum(fracs) \in Int /\ Sum(counts) \in Int /\ Sum(weights) \in Int
        /\ weights \in [1..n -> Int]
    BY <1>1, <1>4, SumType
  <2>2. \A c \in 1..n : /\ fracs[c] + D * counts[c] <= S * weights[c]
                        /\ S * weights[c] <= fracs[c] + D * counts[c]
    <3> SUFFICES ASSUME NEW c \in 1..n
                 PROVE /\ fracs[c] + D * counts[c] <= S * weights[c]
                       /\ S * weights[c] <= fracs[c] + D * counts[c]
      OBVIOUS
    <3>1. PICK x \in Int, y \in Int, z \in Int : x = fracs[c] /\ y = counts[c] /\ z = weights[c]
      BY <1>4, <2>1
    <3>2. x + D * y = S * z
      BY <1>5, <3>1
    <3>3. x + D * y <= S * z /\ S * z <= x + D * y
      BY <1>2, <1>3, <3>1, <3>2
    <3> QED BY <3>1, <3>3
  <2>3. Sum(fracs) + D * Sum(counts) <= S * Sum(weights)
    BY <1>2, <1>3, <1>4, <2>1, <2>2, SumCombine
  <2>4. S * Sum(weights) <= Sum(fracs) + D * Sum(counts)
    BY <1>2, <1>3, <1>4, <2>1, <2>2, SumCombineAbove
  <2>5. PICK f \in Int, t \in Int, w \in Int : f = Sum(fracs) /\ t = Sum(counts) /\ w = Sum(weights)
    BY <2>1
  <2>6. f + D * t <= S * w /\ S * w <= f + D * t
    BY <2>3, <2>4, <2>5
  <2>7. D * t \in Int /\ S * w \in Int
    BY <1>2, <1>3, <2>5
  <2>8. f + D * t = S * w
    BY <2>6, <2>7
  <2> QED BY <2>5, <2>8
<1>7. PICK f \in Int, t \in Int : f = Sum(fracs) /\ t = total
  BY <1>4, SumType
<1>8. f + D * t = S * D
  BY <1>2, <1>6, <1>7 DEF total
<1>9. D * (S - t) = D * S - D * t /\ D * S = S * D /\ D * t \in Int /\ D * S \in Int
  BY <1>2, <1>3, <1>7
<1>10. f = D * (S - t)
  BY <1>7, <1>8, <1>9
<1> QED BY <1>2, <1>3, <1>7, <1>10

(***************************************************************************)
(* Each pass keeps the invariant.                                          *)
(***************************************************************************)
LEMMA FloorStep ==
  ASSUME IInv, Floor
  PROVE  IInv'
<1>0. TypeOK /\ weights \in Weights
  BY DEF IInv, TypeOK
<1>1. PICK n \in Nat \ {0} : /\ n = Len(weights) /\ Candidates = 1..n
                             /\ counts \in [1..n -> Int] /\ fracs \in [1..n -> Int]
  BY <1>0, WeightsType, CountsType
<1>2. i \in 1..(n + 1) /\ pc = "floor" /\ weights' = weights /\ table' = table /\ cursor' = cursor
      /\ cursor \in 0..Slots /\ table = <<>>
  BY <1>1 DEF IInv, TypeOK, Floor, LaidOutSoFar
<1>3. Len(weights') = n /\ Candidates' = 1..n /\ Divisor' = Divisor /\ Slots' = Slots /\ Fits' = Fits
  BY <1>1, <1>2 DEF Candidates, Divisor, Slots, Fits
<1>4. CASE i > Len(weights)
  <2>1. pc' = "topup" /\ UNCHANGED <<i, counts, fracs>>
    BY <1>4 DEF Floor
  <2>2. TypeOK'
    BY <1>0, <1>2, <2>1 DEF TypeOK, total, Candidates
  <2>3. Shares'
    <3> SUFFICES ASSUME NEW c \in 1..n
                 PROVE fracs[c] + Divisor * counts[c] = weights[c] * Slots
      BY <1>2, <1>3, <2>1 DEF Shares
    <3>1. ~(c >= i)
      BY <1>1, <1>2, <1>4
    <3> QED BY <1>1, <1>2, <3>1 DEF Shares, IInv
  <2>4. FracsBounded'
    BY <1>1, <1>2, <1>3, <2>1 DEF FracsBounded, IInv
  <2>5. Served' /\ Ranked'
    BY <2>1 DEF Served, Ranked
  <2>6. LaidOutSoFar'
    BY <1>2, <2>1 DEF LaidOutSoFar, IInv
  <2> QED BY <2>2, <2>3, <2>4, <2>5, <2>6 DEF IInv
<1>5. CASE ~(i > Len(weights))
  <2>1. i \in 1..n
    BY <1>1, <1>2, <1>5
  <2>2. PICK W \in Int : W = weights[i] * Slots
    BY <1>0, <1>1, <2>1, WeightsType, SlotsPositive
  <2>3. PICK D \in Int : D = Divisor /\ 0 < D
    BY <1>0, WeightsType
  <2>4. PICK q \in Int, r \in Int : q = W \div D /\ r = W % D /\ 0 <= r /\ r < D /\ W = D * q + r
    BY <2>3, Division
  <2>5. /\ counts' = [counts EXCEPT ![i] = q] /\ fracs' = [fracs EXCEPT ![i] = r]
        /\ i' = i + 1 /\ pc' = "floor"
    BY <1>2, <1>5, <2>2, <2>3, <2>4 DEF Floor
  <2>6. 0 <= q
    <3>1. 0 <= W
      <4>1. PICK a \in Int, b \in Int : a = weights[i] /\ b = Slots /\ 0 <= a /\ 0 < b
        BY <1>0, <1>1, <2>1, WeightsType, SlotsPositive
      <4>2. 0 <= a * b
        BY <4>1
      <4> QED BY <2>2, <4>1, <4>2
    <3> QED BY <2>3, <2>4, <3>1
  <2>7. /\ counts' \in [1..n -> Int] /\ fracs' \in [1..n -> Int]
        /\ counts'[i] = q /\ fracs'[i] = r
        /\ \A c \in 1..n : c # i => counts'[c] = counts[c] /\ fracs'[c] = fracs[c]
    BY <1>1, <2>1, <2>4, <2>5
  <2>8. Shares'
    <3> SUFFICES ASSUME NEW c \in 1..n
                 PROVE IF c >= i' THEN counts'[c] = 0 /\ fracs'[c] = 0
                       ELSE fracs'[c] + D * counts'[c] = weights[c] * Slots
      BY <1>2, <1>3, <2>3, <2>5 DEF Shares
    <3>1. CASE c = i
      <4>1. r + D * q = W
        BY <2>4
      <4> QED BY <1>2, <2>1, <2>2, <2>5, <2>7, <3>1, <4>1
    <3>2. CASE c > i
      <4>1. c >= i' /\ c # i /\ c >= i
        BY <2>1, <2>5, <3>2
      <4> QED BY <1>1, <1>2, <2>7, <4>1 DEF IInv, Shares
    <3>3. CASE c < i
      <4>1. ~(c >= i') /\ c # i /\ ~(c >= i)
        BY <2>1, <2>5, <3>3
      <4> QED BY <1>1, <1>2, <2>3, <2>7, <4>1 DEF IInv, Shares
    <3> QED BY <2>1, <3>1, <3>2, <3>3
  <2>9. FracsBounded'
    BY <1>1, <1>2, <1>3, <2>1, <2>3, <2>4, <2>5, <2>7 DEF IInv, FracsBounded
  <2>10. \A c \in 1..n : 0 <= counts'[c] /\ 0 <= fracs'[c]
    BY <1>0, <1>1, <1>2, <2>4, <2>6, <2>7, CountsType DEF IInv, FracsBounded
  <2>11. Sum(counts') <= Slots
    <3> SUFFICES ASSUME NEW c \in 1..n PROVE fracs'[c] + D * counts'[c] <= Slots * weights[c]
      BY <1>0, <1>1, <2>3, <2>7, <2>10, TotalFits
    <3>1. PICK w \in Int, S \in Int : w = weights[c] /\ S = Slots /\ 0 <= w /\ 0 < S
      BY <1>0, <1>1, WeightsType, SlotsPositive
    <3>2. w * S = S * w /\ 0 <= S * w /\ S * w \in Int
      BY <3>1
    <3>3. CASE c >= i'
      <4>1. counts'[c] = 0 /\ fracs'[c] = 0
        BY <1>3, <2>5, <2>8, <3>3 DEF Shares
      <4>2. 0 + D * 0 = 0
        OBVIOUS
      <4> QED BY <3>1, <3>2, <4>1, <4>2
    <3>4. CASE ~(c >= i')
      <4>1. fracs'[c] + D * counts'[c] = weights[c] * Slots
        BY <1>2, <1>3, <2>3, <2>5, <2>8, <3>4 DEF Shares
      <4> QED BY <3>1, <3>2, <4>1
    <3> QED BY <3>3, <3>4
  <2>12. counts' \in [1..n -> 0..Slots]
    BY <2>7, <2>10, <2>11, CountsFit
  <2>13. TypeOK'
    <3>1. i' \in 1..(n + 1)
      BY <2>1, <2>5
    <3>2. Len(table) <= n
      BY <1>2
    <3> QED BY <1>0, <1>1, <1>2, <1>3, <2>5, <2>7, <2>11, <2>12, <3>1, <3>2 DEF TypeOK, total
  <2>14. Served' /\ Ranked'
    BY <2>5 DEF Served, Ranked
  <2>15. LaidOutSoFar'
    <3>1. SumTo(counts', 0) = 0 /\ SumTo(counts, 0) = 0
      BY <1>1, <2>7, SumToNext
    <3>2. cursor = 0 /\ table' = <<>> /\ Len(table') = 0
      BY <1>2 DEF IInv, LaidOutSoFar
    <3> QED BY <1>2, <2>5, <3>1, <3>2 DEF LaidOutSoFar
  <2> QED BY <2>8, <2>9, <2>13, <2>14, <2>15 DEF IInv
<1> QED BY <1>4, <1>5
LEMMA TopUpStep ==
  ASSUME IInv, TopUp
  PROVE  IInv'
<1>0. TypeOK /\ weights \in Weights
  BY DEF IInv, TypeOK
<1>1. PICK n \in Nat \ {0} : /\ n = Len(weights) /\ Candidates = 1..n
                             /\ counts \in [1..n -> Int] /\ fracs \in [1..n -> Int]
                             /\ weights \in [1..n -> Int]
  BY <1>0, WeightsType, CountsType
<1>2. /\ pc = "topup" /\ weights' = weights /\ table' = table /\ cursor' = cursor
      /\ cursor = 0 /\ table = <<>> /\ cursor \in 0..Slots /\ i \in 1..(n + 1)
  BY <1>1 DEF IInv, TypeOK, TopUp, LaidOutSoFar
<1>3. Len(weights') = n /\ Candidates' = 1..n /\ Divisor' = Divisor /\ Slots' = Slots /\ Fits' = Fits
      /\ Sum(weights)' = Sum(weights)
  BY <1>1, <1>2 DEF Candidates, Divisor, Slots, Fits
<1>4. PICK D \in Int, S \in Int : D = Divisor /\ 0 < D /\ S = Slots /\ 0 < S
  BY <1>0, WeightsType, SlotsPositive
<1>5. \A c \in 1..n : fracs[c] + D * counts[c] = weights[c] * S
  BY <1>1, <1>2, <1>4 DEF IInv, Shares
<1>6. PICK t \in Int : t = total /\ t <= S
  BY <1>0, <1>4, CountsType
<1>7. \A c \in 1..n : counts[c] \in Int /\ 0 <= counts[c] /\ fracs[c] \in Int /\ weights[c] \in Int
                      /\ 0 <= weights[c] /\ weights[c] <= Sum(weights)
  BY <1>0, <1>1, CountsType, WeightsType
<1>8. CASE total < Slots
  <2>1. PICK b \in 1..n : b = FirstLargest(fracs) /\ \A c \in 1..n : fracs[c] <= fracs[b]
    BY <1>1, FirstLargestIs
  <2>2. PICK x \in Int, y \in Int : x = counts[b] /\ y = fracs[b]
    BY <1>7
  <2>3. /\ counts' = [counts EXCEPT ![b] = x + 1] /\ fracs' = [fracs EXCEPT ![b] = y - D]
        /\ i' = i /\ pc' = "topup"
    BY <1>2, <1>4, <1>8, <2>1, <2>2 DEF TopUp
  <2>4. /\ counts' \in [1..n -> Int] /\ fracs' \in [1..n -> Int]
        /\ counts'[b] = x + 1 /\ fracs'[b] = y - D
        /\ \A c \in 1..n : c # b => counts'[c] = counts[c] /\ fracs'[c] = fracs[c]
    BY <1>1, <2>3
  <2>5. Sum(counts') = t + 1
    <3>1. PICK v \in Int : v = x + 1
      OBVIOUS
    <3>2. Sum([counts EXCEPT ![b] = v]) = Sum(counts) - counts[b] + v
      BY <1>1, <2>1, <3>1, SumUpdate
    <3> QED BY <1>6, <2>2, <2>3, <3>1, <3>2 DEF total
  <2>6. \A c \in 1..n : 0 <= counts'[c]
    <3>1. 0 <= x + 1
      BY <1>7, <2>1, <2>2
    <3> QED BY <1>7, <2>4, <3>1
  <2>7. counts' \in [1..n -> 0..Slots] /\ Sum(counts') <= Slots
    <3>1. Sum(counts') <= Slots
      BY <1>4, <1>6, <1>8, <2>5
    <3> QED BY <2>4, <2>6, <3>1, CountsFit
  <2>8. TypeOK'
    BY <1>0, <1>1, <1>2, <1>3, <2>3, <2>4, <2>7 DEF TypeOK, total
  <2>9. Shares'
    <3> SUFFICES ASSUME NEW c \in 1..n PROVE fracs'[c] + D * counts'[c] = weights[c] * S
      BY <1>2, <1>3, <1>4, <2>3 DEF Shares
    <3>1. CASE c = b
      <4>1. y + D * x = weights[b] * S
        BY <1>5, <2>2
      <4>2. PICK w \in Int : w = weights[b] * S
        BY <1>4, <1>7
      <4>3. D * (x + 1) = D * x + D /\ D * x \in Int
        OBVIOUS
      <4>4. (y - D) + D * (x + 1) = w
        BY <4>1, <4>2, <4>3
      <4> QED BY <2>4, <3>1, <4>2, <4>4
    <3>2. CASE c # b
      BY <1>5, <2>4, <3>2
    <3> QED BY <3>1, <3>2
  <2>10. FracsBounded'
    <3> SUFFICES ASSUME Sum(weights) > 0, NEW c \in 1..n
                 PROVE -D <= fracs'[c] /\ fracs'[c] < D
      BY <1>3, <1>4, <2>3 DEF FracsBounded
    <3>1. -D <= fracs[c] /\ fracs[c] < D
      BY <1>1, <1>4 DEF IInv, FracsBounded
    <3>2. CASE c # b
      BY <2>4, <3>1, <3>2
    <3>3. CASE c = b
      <4>1. Sum(fracs) = D * (S - t)
        BY <1>2, <1>4, <1>6, LeftOver
      <4>2. 0 < D * (S - t)
        <5>1. PICK z \in Int : z = S - t /\ 0 < z
          BY <1>4, <1>6, <1>8
        <5>2. 0 < D * z
          BY <1>4, <5>1
        <5> QED BY <5>1, <5>2
      <4>3. PICK k \in 1..n : 0 < fracs[k]
        BY <1>1, <4>1, <4>2, PositiveTerm
      <4>4. 0 < y
        <5>1. fracs[k] \in Int /\ fracs[k] <= y
          BY <1>7, <2>1, <2>2, <4>3
        <5> QED BY <4>3, <5>1
      <4> QED BY <1>4, <2>2, <2>4, <3>1, <3>3, <4>4
    <3> QED BY <3>2, <3>3
  <2>11. Served' /\ Ranked'
    BY <2>3 DEF Served, Ranked
  <2>12. LaidOutSoFar'
    <3>1. SumTo(counts', 0) = 0
      BY <2>4, SumToNext
    <3> QED BY <1>2, <2>3, <3>1 DEF LaidOutSoFar
  <2> QED BY <2>8, <2>9, <2>10, <2>11, <2>12 DEF IInv
<1>9. CASE ~(total < Slots)
  <2>1. pc' = "steal" /\ i' = 1 /\ counts' = counts /\ fracs' = fracs
    BY <1>2, <1>9 DEF TopUp
  <2>2. total = Slots
    BY <1>4, <1>6, <1>9
  <2>3. TypeOK'
    BY <1>0, <1>1, <1>2, <1>3, <2>1, <2>2 DEF TypeOK, total
  <2>4. Shares'
    <3> SUFFICES ASSUME NEW c \in 1..n PROVE fracs[c] + D * counts[c] = weights[c] * S
      BY <1>2, <1>3, <1>4, <2>1 DEF Shares
    <3> QED BY <1>5
  <2>5. FracsBounded'
    BY <1>1, <1>2, <1>3, <2>1 DEF FracsBounded, IInv
  <2>6. Served'
    <3>1. \A c \in 1..n : ~(c < 1)
      OBVIOUS
    <3> QED BY <1>3, <2>1, <3>1 DEF Served
  <2>7. Ranked'
    <3> SUFFICES ASSUME NEW c \in 1..n, NEW d \in 1..n, weights[c] > weights[d]
                 PROVE counts[c] >= counts[d] - 1
      BY <1>2, <1>3, <2>1 DEF Ranked
    <3>1. PICK p \in Int, q \in Int, v \in Int, w \in Int, f \in Int, g \in Int :
            /\ p = counts[c] /\ q = counts[d] /\ v = weights[c] /\ w = weights[d]
            /\ f = fracs[c] /\ g = fracs[d]
      BY <1>7
    <3>2. Sum(weights) > 0 /\ v > w
      <4>1. Sum(weights) \in Int /\ 0 <= weights[d] /\ weights[c] <= Sum(weights)
        BY <1>0, <1>7, WeightsType
      <4> QED BY <3>1, <4>1
    <3>3. f < D /\ -D <= g
      BY <1>1, <1>4, <3>1, <3>2 DEF IInv, FracsBounded
    <3>4. f + D * p = v * S /\ g + D * q = w * S
      BY <1>5, <3>1
    <3>5. w * S < v * S
      <4>1. PICK z \in Int : z = v - w /\ 0 < z /\ v = w + z
        BY <3>2
      <4>2. 0 < z * S /\ z * S \in Int /\ w * S \in Int
        BY <1>4, <4>1
      <4>3. (w + z) * S = w * S + z * S
        BY <1>4
      <4> QED BY <4>1, <4>2, <4>3
    <3>6. D * q < D * p + (D + D)
      <4>1. D * q \in Int /\ D * p \in Int /\ v * S \in Int /\ w * S \in Int
        BY <1>4, <3>1
      <4> QED BY <1>4, <3>3, <3>4, <3>5, <4>1
    <3>7. q < p + 2
      <4>1. D * (p + 2) = D * p + (D + D)
        BY <1>4, <3>1
      <4>2. PICK z \in Int : z = p + 2
        OBVIOUS
      <4>3. D * q < D * z
        BY <3>6, <4>1, <4>2
      <4>4. q < z
        BY <1>4, <4>3
      <4> QED BY <4>2, <4>4
    <3> QED BY <3>1, <3>7
  <2>8. LaidOutSoFar'
    BY <1>2, <2>1 DEF LaidOutSoFar, IInv
  <2> QED BY <2>3, <2>4, <2>5, <2>6, <2>7, <2>8 DEF IInv
<1> QED BY <1>8, <1>9
LEMMA StealStep ==
  ASSUME IInv, Steal
  PROVE  IInv'
<1>0. TypeOK /\ weights \in Weights
  BY DEF IInv, TypeOK
<1>1. PICK n \in Nat \ {0} : /\ n = Len(weights) /\ Candidates = 1..n
                             /\ counts \in [1..n -> Int] /\ fracs \in [1..n -> Int]
                             /\ weights \in [1..n -> Int]
  BY <1>0, WeightsType, CountsType
<1>2. /\ pc = "steal" /\ weights' = weights /\ fracs' = fracs /\ table' = table /\ cursor' = cursor
      /\ cursor = 0 /\ table = <<>> /\ cursor \in 0..Slots /\ i \in 1..(n + 1) /\ total = Slots
  BY <1>1 DEF IInv, TypeOK, Steal, LaidOutSoFar
<1>3. Len(weights') = n /\ Candidates' = 1..n /\ Divisor' = Divisor /\ Slots' = Slots /\ Fits' = Fits
      /\ Sum(weights)' = Sum(weights)
  BY <1>1, <1>2 DEF Candidates, Divisor, Slots, Fits
<1>4. \A c \in 1..n : counts[c] \in Int /\ 0 <= counts[c]
  BY <1>0, <1>1, CountsType
<1>5. FracsBounded'
  <2>1. pc' # "floor"
    BY <1>2 DEF Steal
  <2> QED BY <1>1, <1>2, <1>3, <2>1 DEF FracsBounded, IInv
<1>6. \A c, d \in 1..n : weights[c] > weights[d] => counts[c] >= counts[d] - 1
  BY <1>1, <1>2 DEF IInv, Ranked
<1>7. CASE i > Len(weights)
  <2>1. pc' = "layout" /\ i' = 1 /\ counts' = counts
    BY <1>7 DEF Steal
  <2>2. TypeOK'
    BY <1>0, <1>1, <1>2, <1>3, <2>1 DEF TypeOK, total
  <2>3. Shares'
    BY <2>1 DEF Shares
  <2>4. Served'
    <3> SUFFICES ASSUME Fits, NEW c \in 1..n PROVE counts[c] >= 1
      BY <1>3, <2>1 DEF Served
    <3>1. c < i
      BY <1>1, <1>2, <1>7
    <3> QED BY <1>1, <1>2, <3>1 DEF IInv, Served
  <2>5. Ranked'
    BY <1>2, <1>3, <1>6, <2>1 DEF Ranked
  <2>6. LaidOutSoFar'
    <3>1. table' = <<>> /\ cursor' = 0 /\ Len(table') = 0 /\ i' - 1 = 0
      BY <1>2, <2>1
    <3>2. SumTo(counts', 0) = 0
      BY <1>1, <2>1, SumToNext
    <3> QED BY <1>2, <2>1, <3>1, <3>2 DEF LaidOutSoFar, IInv
  <2> QED BY <1>5, <2>2, <2>3, <2>4, <2>5, <2>6 DEF IInv
<1>8. CASE ~(i > Len(weights))
  <2>1. i \in 1..n /\ i' = i + 1 /\ pc' = "steal"
    BY <1>1, <1>2, <1>8 DEF Steal
  <2>2. PICK b \in 1..n : b = FirstLargest(counts) /\ \A c \in 1..n : counts[c] <= counts[b]
    BY <1>1, FirstLargestIs
  <2>3. Shares'
    <3>1. ~(i' = 1)
      BY <2>1
    <3> QED BY <2>1, <3>1 DEF Shares
  <2>4. CASE ~(counts[i] < 1 /\ counts[b] > 1)
    <3>1. counts' = counts
      BY <1>2, <1>8, <2>2, <2>4 DEF Steal
    <3>2. TypeOK'
      <4>1. i' \in 1..(n + 1)
        BY <2>1
      <4> QED BY <1>0, <1>1, <1>2, <1>3, <2>1, <3>1, <4>1 DEF TypeOK, total
    <3>3. Served'
      <4> SUFFICES ASSUME Fits, NEW c \in 1..n, c < i' PROVE counts[c] >= 1
        BY <1>3, <2>1, <3>1 DEF Served
      <4>1. CASE c < i
        BY <1>1, <1>2, <4>1 DEF IInv, Served
      <4>2. CASE ~(c < i)
        <5>1. c = i
          BY <2>1, <4>2
        <5> SUFFICES ASSUME counts[i] < 1 PROVE FALSE
          BY <1>4, <5>1
        <5>2. \A d \in 1..n : counts[d] <= 1
          <6> SUFFICES ASSUME NEW d \in 1..n PROVE counts[d] <= 1
            OBVIOUS
          <6>1. counts[d] \in Int /\ counts[b] \in Int /\ counts[d] <= counts[b] /\ ~(counts[b] > 1)
            BY <1>4, <2>2, <2>4
          <6> QED BY <6>1
        <5>3. Sum(counts) < n
          BY <1>1, <2>1, <5>2, SumBelow
        <5>4. Sum(counts) = Slots /\ n <= Slots
          BY <1>1, <1>2 DEF total, Fits
        <5> QED BY <5>3, <5>4, SlotsPositive
      <4> QED BY <4>1, <4>2
    <3>4. Ranked'
      BY <1>2, <1>3, <1>6, <2>1, <3>1 DEF Ranked
    <3>5. LaidOutSoFar'
      <4>1. SumTo(counts', 0) = 0 /\ Len(table') = 0
        BY <1>1, <1>2, <3>1, SumToNext
      <4> QED BY <1>2, <2>1, <4>1 DEF LaidOutSoFar
    <3> QED BY <1>5, <2>3, <3>2, <3>3, <3>4, <3>5 DEF IInv
  <2>5. CASE counts[i] < 1 /\ counts[b] > 1
    <3>1. counts' = [counts EXCEPT ![b] = @ - 1, ![i] = @ + 1] /\ b # i
      <4>1. b # i
        BY <1>4, <2>1, <2>5
      <4>2. counts' = [counts EXCEPT ![b] = @ - 1, ![i] = @ + 1]
        BY <1>2, <1>8, <2>2, <2>5 DEF Steal
      <4> QED BY <4>1, <4>2
    <3>2. PICK x \in Int, y \in Int : x = counts[b] /\ y = counts[i] /\ x > 1 /\ y = 0
      BY <1>4, <2>1, <2>2, <2>5
    <3>3. PICK low \in Int, high \in Int : low = x - 1 /\ high = y + 1
      BY <3>2
    <3>4. PICK once \in [1..n -> Int] : once = [counts EXCEPT ![b] = low] /\ once[i] = y
      <4>1. [counts EXCEPT ![b] = low] \in [1..n -> Int]
        BY <1>1, <3>3
      <4>2. [counts EXCEPT ![b] = low][i] = y
        BY <1>1, <2>1, <3>1, <3>2
      <4> QED BY <4>1, <4>2
    <3>5. counts' = [once EXCEPT ![i] = high]
      <4>1. counts' = [[counts EXCEPT ![b] = counts[b] - 1] EXCEPT ![i] = once[i] + 1]
        BY <3>1, <3>2, <3>3, <3>4
      <4> QED BY <3>2, <3>3, <3>4, <4>1
    <3>6. /\ counts' \in [1..n -> Int] /\ counts'[b] = low /\ counts'[i] = high
          /\ \A c \in 1..n : c # b /\ c # i => counts'[c] = counts[c]
      BY <1>1, <2>1, <2>2, <3>1, <3>3, <3>4, <3>5
    <3>7. Sum(counts') = Slots
      <4>1. Sum([counts EXCEPT ![b] = low]) = Sum(counts) - counts[b] + low
        BY <1>1, <2>2, <3>3, SumUpdate
      <4>2. Sum([once EXCEPT ![i] = high]) = Sum(once) - once[i] + high
        <5>1. n \in Nat /\ once \in [1..n -> Int]
          BY <1>1, <3>4
        <5> QED BY <2>1, <3>3, <5>1, SumUpdate
      <4>3. Sum(counts) \in Int /\ Sum(counts) = Slots
        BY <1>1, <1>2, SumType DEF total
      <4>4. PICK z \in Int, u \in Int : z = Sum(counts) /\ u = Sum(once) /\ u = z - x + low
        BY <3>2, <3>3, <3>4, <4>1, <4>3
      <4>5. Sum(counts') = u - y + high
        BY <3>4, <3>5, <4>2, <4>4
      <4>6. u - y + high = z
        <5>1. x \in Int /\ y \in Int /\ z \in Int
          BY <3>2, <4>4
        <5>2. u = z - x + low /\ low = x - 1 /\ high = y + 1
          BY <3>3, <4>4
        <5> QED BY <5>1, <5>2
      <4> QED BY <4>3, <4>4, <4>5, <4>6
    <3>8. \A c \in 1..n : 0 <= counts'[c]
      <4>1. 0 <= low /\ 0 <= high
        BY <3>2, <3>3
      <4> QED BY <1>4, <3>6, <4>1
    <3>9. counts' \in [1..n -> 0..Slots]
      <4>1. Sum(counts') <= Slots
        BY <3>7, SlotsPositive
      <4> QED BY <3>6, <3>8, <4>1, CountsFit
    <3>10. TypeOK'
      <4>1. i' \in 1..(n + 1) /\ Slots <= Slots
        BY <2>1, SlotsPositive
      <4> QED BY <1>0, <1>1, <1>2, <1>3, <2>1, <3>7, <3>9, <4>1 DEF TypeOK, total
    <3>11. Served'
      <4> SUFFICES ASSUME Fits, NEW c \in 1..n, c < i' PROVE counts'[c] >= 1
        BY <1>3, <2>1 DEF Served
      <4>1. CASE c = i \/ c = b
        BY <3>2, <3>3, <3>6, <4>1
      <4>2. CASE c # i /\ c # b
        <5>1. c < i
          BY <2>1, <4>2
        <5>2. counts[c] >= 1
          BY <1>1, <1>2, <5>1 DEF IInv, Served
        <5> QED BY <3>6, <4>2, <5>2
      <4> QED BY <4>1, <4>2
    <3>12. Ranked'
      <4> SUFFICES ASSUME NEW c \in 1..n, NEW d \in 1..n, weights[c] > weights[d]
                   PROVE counts'[c] >= counts'[d] - 1
        BY <1>2, <1>3, <2>1 DEF Ranked
      <4>1. PICK p \in Int, q \in Int, v \in Int, w \in Int :
              p = counts[c] /\ q = counts[d] /\ v = counts'[c] /\ w = counts'[d]
        BY <1>4, <3>6
      <4>2. p >= q - 1 /\ q <= x /\ 0 <= q /\ 0 <= v
        BY <1>4, <1>6, <2>2, <3>2, <3>8, <4>1
      <4>3. CASE d = i
        BY <3>2, <3>3, <3>6, <4>1, <4>2, <4>3
      <4>4. CASE d # i /\ c = b
        <5>1. v = x - 1 /\ w <= x
          <6>1. CASE d = b
            BY <3>2, <3>3, <3>6, <4>1, <4>4, <6>1
          <6>2. CASE d # b
            BY <3>3, <3>6, <4>1, <4>2, <4>4, <6>2
          <6> QED BY <6>1, <6>2
        <5> QED BY <3>2, <4>1, <5>1
      <4>5. CASE d # i /\ c # b
        <5>1. w <= q
          <6>1. CASE d = b
            BY <3>2, <3>3, <3>6, <4>1, <4>5, <6>1
          <6>2. CASE d # b
            BY <3>6, <4>1, <4>5, <6>2
          <6> QED BY <6>1, <6>2
        <5>2. v >= p
          <6>1. CASE c = i
            <7>1. p = y /\ v = high
              BY <3>2, <3>6, <4>1, <6>1
            <7> QED BY <3>2, <3>3, <7>1
          <6>2. CASE c # i
            BY <3>6, <4>1, <4>5, <6>2
          <6> QED BY <6>1, <6>2
        <5>3. p \in Int /\ q \in Int /\ v \in Int /\ w \in Int
          BY <4>1
        <5>4. p >= q - 1
          BY <4>2
        <5>5. v >= w - 1
          BY <5>1, <5>2, <5>3, <5>4
        <5> QED BY <4>1, <5>5
      <4> QED BY <4>3, <4>4, <4>5
    <3>13. LaidOutSoFar'
      <4>1. SumTo(counts', 0) = 0 /\ Len(table') = 0
        BY <1>2, <3>6, SumToNext
      <4> QED BY <1>2, <2>1, <4>1 DEF LaidOutSoFar
    <3> QED BY <1>5, <2>3, <3>10, <3>11, <3>12, <3>13 DEF IInv
  <2> QED BY <2>4, <2>5
<1> QED BY <1>7, <1>8
LEMMA LayoutStep ==
  ASSUME IInv, Layout
  PROVE  IInv'
<1>0. TypeOK /\ weights \in Weights
  BY DEF IInv, TypeOK
<1>1. PICK n \in Nat \ {0} : /\ n = Len(weights) /\ Candidates = 1..n
                             /\ counts \in [1..n -> Int] /\ fracs \in [1..n -> Int]
  BY <1>0, WeightsType, CountsType
<1>2. /\ pc = "layout" /\ weights' = weights /\ fracs' = fracs /\ counts' = counts
      /\ i \in 1..(n + 1) /\ total = Slots /\ Len(table) = i - 1 /\ cursor \in 0..Slots
      /\ cursor = SumTo(counts, i - 1)
  BY <1>1 DEF IInv, TypeOK, Layout, LaidOutSoFar
<1>3. Len(weights') = n /\ Candidates' = 1..n /\ Divisor' = Divisor /\ Slots' = Slots /\ Fits' = Fits
      /\ Sum(weights)' = Sum(weights)
  BY <1>1, <1>2 DEF Candidates, Divisor, Slots, Fits
<1>4. pc' \in {"layout", "done"}
  BY <1>2 DEF Layout
<1>5. Shares' /\ FracsBounded' /\ Served' /\ Ranked'
  <2>1. Shares'
    BY <1>4 DEF Shares
  <2>2. FracsBounded'
    BY <1>1, <1>2, <1>3, <1>4 DEF FracsBounded, IInv
  <2>3. Served' /\ Ranked'
    BY <1>1, <1>2, <1>3, <1>4 DEF Served, Ranked, IInv
  <2> QED BY <2>1, <2>2, <2>3
<1>6. CASE i > Len(weights)
  <2>1. pc' = "done" /\ UNCHANGED <<i, cursor, table>> /\ i - 1 = n
    BY <1>1, <1>2, <1>6 DEF Layout
  <2>2. TypeOK'
    BY <1>0, <1>1, <1>2, <1>3, <2>1 DEF TypeOK, total
  <2>3. LaidOutSoFar'
    BY <1>1, <1>2, <1>3, <2>1 DEF LaidOutSoFar, IInv
  <2> QED BY <1>5, <2>2, <2>3 DEF IInv
<1>7. CASE ~(i > Len(weights))
  <2>1. i \in 1..n /\ pc' = "layout" /\ i' = i + 1 /\ cursor' = cursor + counts[i]
        /\ table' = Append(table, [text |-> i, start |-> cursor, end |-> cursor + counts[i] - 1])
    BY <1>1, <1>2, <1>7 DEF Layout
  <2>2. PICK m \in 0..n : m = i - 1 /\ i = m + 1 /\ Len(table) = m
    BY <1>2, <2>1
  <2>3. \A k \in 1..n : SumTo(counts, k) = SumTo(counts, k - 1) + counts[k]
    BY <1>1, SumToNext
  <2>4. cursor' = SumTo(counts, i)
    BY <1>2, <2>1, <2>3
  <2>5. cursor' \in 0..Slots
    <3>1. \A k \in 1..n : 0 <= counts[k]
      BY <1>0, <1>1, CountsType
    <3>2. 0 <= SumTo(counts, i) /\ SumTo(counts, i) <= Sum(counts)
      <4>1. \A k \in 0..n : 0 <= SumTo(counts, k) /\ SumTo(counts, k) <= Sum(counts)
        BY <1>1, <3>1, PartialSums
      <4> QED BY <2>1, <4>1
    <3>3. SumTo(counts, i) \in Int
      <4>1. \A k \in 0..n : SumTo(counts, k) \in Int
        BY <1>1, SumToNext
      <4> QED BY <2>1, <4>1
    <3> QED BY <1>2, <2>4, <3>2, <3>3, SlotsPositive DEF total
  <2>6. table = [c \in 1..m |-> [text |-> c, start |-> SumTo(counts, c - 1), end |-> SumTo(counts, c) - 1]]
    BY <2>2 DEF IInv, LaidOutSoFar
  <2>7. table' = [c \in 1..(m + 1) |->
                    [text |-> c, start |-> SumTo(counts, c - 1), end |-> SumTo(counts, c) - 1]]
    <3> DEFINE Entry(c) == [text |-> c, start |-> SumTo(counts, c - 1), end |-> SumTo(counts, c) - 1]
    <3>1. table' = Append(table, Entry(i))
      <4>1. PICK e : e = [text |-> i, start |-> cursor, end |-> cursor + counts[i] - 1]
        OBVIOUS
      <4>2. e = [text |-> i, start |-> SumTo(counts, i - 1), end |-> SumTo(counts, i) - 1]
        <5>1. cursor + counts[i] = SumTo(counts, i) /\ cursor = SumTo(counts, i - 1)
          BY <1>2, <2>1, <2>4
        <5>2. cursor \in Int /\ counts[i] \in Int
          BY <1>1, <1>2, <2>1, SlotsPositive
        <5>3. cursor + counts[i] - 1 = SumTo(counts, i) - 1
          BY <5>1, <5>2
        <5> QED BY <4>1, <5>1, <5>3
      <4> QED BY <2>1, <4>1, <4>2
    <3>2. table = [c \in 1..m |-> Entry(c)]
      BY <2>6
    <3> HIDE DEF Entry
    <3>3. table' = [c \in 1..(m + 1) |-> Entry(c)]
      BY <2>2, <3>1, <3>2
    <3> QED BY <3>3 DEF Entry
  <2>8. Len(table') = m + 1 /\ m + 1 = i' - 1
    BY <2>1, <2>2, <2>7
  <2>9. TypeOK'
    <3>1. i' \in 1..(n + 1) /\ m + 1 <= n
      BY <2>1, <2>2
    <3> QED BY <1>0, <1>1, <1>2, <1>3, <2>1, <2>5, <2>8, <3>1 DEF TypeOK, total
  <2>10. LaidOutSoFar'
    <3>1. m + 1 = i
      BY <2>2
    <3> QED BY <1>2, <2>1, <2>4, <2>7, <2>8, <3>1 DEF LaidOutSoFar
  <2> QED BY <1>5, <2>9, <2>10 DEF IInv
<1> QED BY <1>6, <1>7

LEMMA Start ==
  ASSUME Init
  PROVE  IInv
<1>0. weights \in Weights
  BY DEF Init
<1>1. PICK n \in Nat \ {0} : n = Len(weights) /\ Candidates = 1..n
  BY <1>0, WeightsType
<1>2. PICK D \in Int : D = Divisor /\ 0 < D
  BY <1>0, WeightsType
<1>3. PICK zero \in Int : zero = 0
  OBVIOUS
<1>4. /\ counts = [c \in 1..n |-> zero] /\ fracs = [c \in 1..n |-> zero] /\ pc = "floor" /\ i = 1
      /\ cursor = 0 /\ table = <<>>
  BY <1>1, <1>3 DEF Init
<1>5. total = 0
  <2>1. Sum([c \in 1..n |-> zero]) = zero * n
    BY <1>1, <1>3, SumConstant
  <2> QED BY <1>3, <1>4, <2>1 DEF total
<1>6. TypeOK
  <2>1. 0 \in 0..Slots /\ 0 <= Slots
    BY SlotsPositive
  <2>2. counts \in [1..n -> 0..Slots] /\ fracs \in [1..n -> Int]
    BY <1>3, <1>4, <2>1
  <2>3. i \in 1..(n + 1) /\ Len(table) <= n
    BY <1>4
  <2> QED BY <1>0, <1>1, <1>4, <1>5, <2>1, <2>2, <2>3 DEF TypeOK
<1>7. Shares
  BY <1>1, <1>3, <1>4 DEF Shares
<1>8. FracsBounded
  <2>1. \A c \in 1..n : fracs[c] = 0
    BY <1>3, <1>4
  <2> QED BY <1>1, <1>2, <2>1 DEF FracsBounded
<1>9. Served /\ Ranked
  BY <1>4 DEF Served, Ranked
<1>10. LaidOutSoFar
  <2>1. SumTo(counts, 0) = 0
    <3>1. counts \in [1..n -> Int]
      BY <1>3, <1>4
    <3> QED BY <1>1, <3>1, SumToNext
  <2> QED BY <1>4, <2>1 DEF LaidOutSoFar
<1> QED BY <1>6, <1>7, <1>8, <1>9, <1>10 DEF IInv

LEMMA Invariance == Spec => []IInv
<1>1. Init => IInv
  BY Start
<1>2. IInv /\ [Next]_vars => IInv'
  <2> SUFFICES ASSUME IInv, [Next]_vars PROVE IInv'
    OBVIOUS
  <2>1. CASE Floor
    BY <2>1, FloorStep
  <2>2. CASE TopUp
    BY <2>2, TopUpStep
  <2>3. CASE Steal
    BY <2>3, StealStep
  <2>4. CASE Layout
    BY <2>4, LayoutStep
  <2>5. CASE UNCHANGED vars
    BY <2>5 DEF vars, IInv, TypeOK, Shares, FracsBounded, Served, Ranked, LaidOutSoFar, total,
                Candidates, Divisor, Slots, Fits
  <2> QED BY <2>1, <2>2, <2>3, <2>4, <2>5 DEF Next
<1> QED BY <1>1, <1>2, PTL DEF Spec
(* The locals keep their types and no pass hands out more slots than there *)
(* are.                                                                    *)
THEOREM TypeCorrect == Spec => []TypeOK
BY Invariance, PTL DEF IInv

(* Topping up gives no candidate two of the slots flooring left over: the  *)
(* fraction is then below zero, and while slots are left one is above.     *)
THEOREM SharesAreRounded == Spec => []LargestRemainder
<1>1. ASSUME IInv PROVE LargestRemainder
  <2>0. TypeOK /\ weights \in Weights
    BY <1>1 DEF IInv, TypeOK
  <2>1. PICK n \in Nat \ {0} : n = Len(weights) /\ Candidates = 1..n
    BY <2>0, WeightsType
  <2> SUFFICES ASSUME pc = "steal", i = 1, Sum(weights) > 0, NEW c \in 1..n
               PROVE counts[c] - (weights[c] * Slots) \div Divisor \in {0, 1}
    BY <2>1 DEF LargestRemainder
  <2>2. PICK D \in Int, S \in Int : D = Divisor /\ 0 < D /\ S = Slots
    BY <2>0, WeightsType, SlotsPositive
  <2>3. PICK p \in Int, f \in Int, w \in Int : p = counts[c] /\ f = fracs[c] /\ w = weights[c]
    BY <2>0, <2>1, WeightsType, CountsType
  <2>4. f + D * p = w * S
    BY <1>1, <2>1, <2>2, <2>3 DEF IInv, Shares
  <2>5. -D <= f /\ f < D
    BY <1>1, <2>1, <2>2, <2>3 DEF IInv, FracsBounded
  <2>6. PICK W \in Int : W = w * S
    BY <2>2, <2>3
  <2>7. PICK q \in Int, r \in Int : q = W \div D /\ 0 <= r /\ r < D /\ W = D * q + r
    BY <2>2, Division
  <2>8. D * (p - q) = D * p - D * q
    <3>1. PICK m \in Int : m = -q /\ p - q = p + m
      BY <2>3, <2>7
    <3>2. D * (p + m) = D * p + D * m /\ D * m = -(D * q)
      BY <2>2, <2>3, <2>7, <3>1
    <3>3. D * p \in Int /\ D * q \in Int
      BY <2>2, <2>3, <2>7
    <3> QED BY <3>1, <3>2, <3>3
  <2>9. PICK z \in Int : z = p - q
    BY <2>3, <2>7
  <2>10. D * z = r - f
    <3>1. D * p \in Int /\ D * q \in Int /\ f \in Int /\ r \in Int
      BY <2>2, <2>3, <2>7
    <3>2. f + D * p = D * q + r
      BY <2>4, <2>6, <2>7
    <3> QED BY <2>8, <2>9, <3>1, <3>2
  <2>11. -D < D * z /\ D * z < D + D
    BY <2>2, <2>3, <2>5, <2>7, <2>10
  <2>12. ~(z <= -1)
    <3> SUFFICES ASSUME z <= -1 PROVE FALSE
      OBVIOUS
    <3>1. D * z <= D * (-1)
      BY <2>2, <2>9
    <3>2. D * (-1) = -D
      BY <2>2
    <3> QED BY <2>2, <2>9, <2>11, <3>1, <3>2
  <2>13. ~(2 <= z)
    <3> SUFFICES ASSUME 2 <= z PROVE FALSE
      OBVIOUS
    <3>1. D * 2 <= D * z
      BY <2>2, <2>9
    <3>2. D * 2 = D + D
      BY <2>2
    <3> QED BY <2>2, <2>9, <2>11, <3>1, <3>2
  <2>14. p - q \in {0, 1}
    BY <2>9, <2>12, <2>13
  <2> QED BY <2>2, <2>3, <2>6, <2>7, <2>14
<1> QED BY <1>1, Invariance, PTL

(* Taking a slot from the first of the largest shares never leaves it two  *)
(* below the share of a less probable candidate.                           *)
THEOREM RankSurvives == Spec => []RankKept
<1>1. IInv => RankKept
  BY DEF IInv, Ranked, RankKept, Done
<1> QED BY <1>1, Invariance, PTL

(* When there are slots for all, the second pass finds a donor for every   *)
(* candidate without any and empties none: each has a range of words.      *)
THEOREM AllReachable == Spec => []EveryCandidateReachable
<1>1. ASSUME IInv PROVE EveryCandidateReachable
  <2>0. TypeOK /\ weights \in Weights
    BY <1>1 DEF IInv, TypeOK
  <2>1. PICK n \in Nat \ {0} : n = Len(weights) /\ Candidates = 1..n /\ counts \in [1..n -> Int]
    BY <2>0, WeightsType, CountsType
  <2> SUFFICES ASSUME Done, Fits, NEW c \in 1..n PROVE table[c].start <= table[c].end
    BY <2>1 DEF EveryCandidateReachable
  <2>2. counts[c] \in Int /\ counts[c] >= 1
    BY <1>1, <2>1 DEF IInv, Served, Done
  <2>3. table[c] = [text |-> c, start |-> SumTo(counts, c - 1), end |-> SumTo(counts, c) - 1]
    BY <1>1, <2>1 DEF IInv, LaidOutSoFar, Done
  <2>4. SumTo(counts, c) = SumTo(counts, c - 1) + counts[c]
    BY <2>1, SumToNext
  <2>5. PICK a \in Int : a = SumTo(counts, c - 1)
    <3>1. c - 1 \in 0..n
      OBVIOUS
    <3>2. \A k \in 0..n : SumTo(counts, k) \in Int
      BY <2>1, SumToNext
    <3> QED BY <3>1, <3>2
  <2> QED BY <2>2, <2>3, <2>4, <2>5
<1> QED BY <1>1, Invariance, PTL
LEMMA DoneLaidOut ==
  ASSUME IInv, Done
  PROVE  table \in Seq([text : Int, start : Int, end : Int]) /\ LaidOut(table)
<1>0. TypeOK /\ weights \in Weights
  BY DEF IInv, TypeOK
<1>1. PICK n \in Nat \ {0} : /\ n = Len(weights) /\ Candidates = 1..n /\ counts \in [1..n -> Int]
                             /\ \A c \in 1..n : counts[c] \in Int /\ 0 <= counts[c]
  BY <1>0, WeightsType, CountsType
<1>2. /\ \A k \in 0..n : SumTo(counts, k) \in Int
      /\ \A k \in 1..n : SumTo(counts, k) = SumTo(counts, k - 1) + counts[k]
      /\ SumTo(counts, 0) = 0 /\ SumTo(counts, n) = Sum(counts)
  BY <1>1, SumToNext
<1>3. SumTo(counts, n) = Slots
  BY <1>2, <1>1 DEF Done, IInv, TypeOK, total
<1>4. PICK f \in [0..n -> Int] : f = [k \in 0..n |-> SumTo(counts, k)]
  BY <1>2
<1>5. f[0] = 0 /\ f[n] = Slots /\ \A k \in 1..n : f[k] = f[k - 1] + counts[k]
  <2>1. n \in 0..n /\ 0 \in 0..n /\ \A k \in 1..n : k \in 0..n /\ k - 1 \in 0..n
    OBVIOUS
  <2> QED BY <1>2, <1>3, <1>4, <2>1
<1>6. table = [c \in 1..n |-> [text |-> c, start |-> f[c - 1], end |-> f[c] - 1]]
  <2>1. table = [c \in 1..n |->
                   [text |-> c, start |-> SumTo(counts, c - 1), end |-> SumTo(counts, c) - 1]]
    BY <1>1 DEF IInv, LaidOutSoFar, Done
  <2>2. \A c \in 1..n : c \in 0..n /\ c - 1 \in 0..n
    OBVIOUS
  <2>3. \A c \in 1..n : f[c] = SumTo(counts, c) /\ f[c - 1] = SumTo(counts, c - 1)
    BY <1>4, <2>2
  <2> QED BY <2>1, <2>3
<1>7. Len(table) = n /\ DOMAIN table = 1..n
  BY <1>6
<1>8. ASSUME NEW c \in 1..n
      PROVE /\ f[c - 1] \in Int /\ f[c] \in Int /\ f[c - 1] <= f[c]
            /\ table[c] \in [text : Int, start : Int, end : Int]
            /\ table[c].text = c /\ table[c].start = f[c - 1] /\ table[c].end = f[c] - 1
  <2>1. c - 1 \in 0..n /\ c \in 0..n
    OBVIOUS
  <2>2. f[c - 1] \in Int /\ f[c] \in Int /\ f[c] = f[c - 1] + counts[c]
    BY <1>5, <2>1
  <2>3. PICK a \in Int, b \in Int : a = f[c - 1] /\ b = f[c] - 1
    BY <2>2
  <2>4. table[c] = [text |-> c, start |-> a, end |-> b]
    BY <1>6, <2>3
  <2>5. f[c - 1] <= f[c]
    BY <1>1, <2>2
  <2> QED BY <2>2, <2>3, <2>4, <2>5
<1>9. table \in Seq([text : Int, start : Int, end : Int])
  <2>1. \A c \in 1..n : table[c] \in [text : Int, start : Int, end : Int]
    BY <1>8
  <2> QED BY <1>6, <2>1
<1>10. LaidOut(table)
  <2>1. table # <<>> /\ table[1].start = 0
    <3>1. 1 \in 1..n /\ 1 - 1 = 0
      OBVIOUS
    <3>2. table[1].start = f[1 - 1]
      BY <1>8, <3>1
    <3> QED BY <1>5, <1>7, <3>1, <3>2
  <2>2. Last(table).end = PowerOfTwo(Beta) - 1
    <3>1. Last(table) = table[n]
      BY <1>7 DEF Last
    <3>2. n \in 1..n
      OBVIOUS
    <3> QED BY <1>5, <1>8, <3>1, <3>2 DEF Slots
  <2>3. \A c \in 1..n : table[c].start <= table[c].end + 1
    <3> SUFFICES ASSUME NEW c \in 1..n PROVE table[c].start <= table[c].end + 1
      OBVIOUS
    <3>1. table[c].start = f[c - 1] /\ table[c].end = f[c] - 1
      BY <1>8
    <3>2. f[c - 1] <= (f[c] - 1) + 1
      BY <1>8
    <3> QED BY <3>1, <3>2
  <2>4. \A c \in 2..n : table[c].start = table[c - 1].end + 1
    <3> SUFFICES ASSUME NEW c \in 2..n PROVE table[c].start = table[c - 1].end + 1
      OBVIOUS
    <3>1. c - 1 \in 1..n /\ c \in 1..n
      OBVIOUS
    <3>2. table[c].start = f[c - 1] /\ table[c - 1].end = f[c - 1] - 1 /\ f[c - 1] \in Int
      BY <1>8, <3>1
    <3>3. (f[c - 1] - 1) + 1 = f[c - 1]
      BY <3>2
    <3> QED BY <3>2, <3>3
  <2>5. \A c, d \in 1..n : table[c].text = table[d].text => c = d
    BY <1>8
  <2> QED BY <1>7, <2>1, <2>2, <2>3, <2>4, <2>5 DEF LaidOut
<1> QED BY <1>9, <1>10

(* The finished table is what one step of the code relies on: its ranges   *)
(* follow one another from the first word to the last.                     *)
THEOREM TablesLaidOut == Spec => [](Done => LaidOut(table))
<1>1. IInv => (Done => LaidOut(table))
  BY DoneLaidOut
<1> QED BY <1>1, Invariance, PTL

(* Whatever the message and the mask: from the candidate the encoder       *)
(* chooses in a table meteor_build_dist built, the decoder gets exactly    *)
(* the bits the encoder counts as sent, with more candidates than slots    *)
(* too.                                                                    *)
THEOREM EncodingInverts == Spec => []StepsInvert
<1>1. ASSUME IInv PROVE StepsInvert
  <2>0. Beta \in Nat
    BY BetaAssumption
  <2> SUFFICES ASSUME Done, NEW bits \in [1..Beta -> Bit], NEW mask \in [1..Beta -> Bit]
               PROVE LET sent == EncodeStep(table, bits, 0, mask)
                     IN DecodeStep(table, sent.chosen, mask) = SubSeq(bits, 1, sent.consumed)
    BY DEF StepsInvert
  <2>1. table \in Seq([text : Int, start : Int, end : Int]) /\ LaidOut(table)
    BY <1>1, DoneLaidOut
  <2>2. bits \in Seq(Bit) /\ Len(bits) = Beta /\ 0 \in Nat
    BY <2>0
  <2>3. PICK sent : sent = EncodeStep(table, bits, 0, mask)
    OBVIOUS
  <2>4. DecodeStep(table, sent.chosen, mask) = SubSeq(WindowAt(bits, 0), 1, sent.consumed)
    BY <2>1, <2>2, <2>3, StepInverts
  <2>5. WindowAt(bits, 0) = bits
    <3>1. \A k \in 1..Beta : 0 + k <= Len(bits) /\ bits[0 + k] = bits[k]
      BY <2>0, <2>2
    <3>2. bits = [k \in 1..Beta |-> bits[k]]
      OBVIOUS
    <3>3. WindowAt(bits, 0) = [k \in 1..Beta |-> bits[k]]
      BY <3>1 DEF WindowAt
    <3> QED BY <3>2, <3>3
  <2> QED BY <2>3, <2>4, <2>5
<1> QED BY <1>1, Invariance, PTL

(***************************************************************************)
(* The estimator: its mean over candidates is one over masks.              *)
(***************************************************************************)
LEMMA CardinalityIn ==
  ASSUME NEW S, IsFiniteSet(S)
  PROVE  Cardinality(S) \in Nat
BY FS_CardinalityType

(* A sum of values that depend on a class alone is one over the classes.   *)
LEMMA SumByClass ==
  ASSUME NEW n \in Nat, NEW m \in Nat, NEW class \in [1..n -> 1..m], NEW val \in [1..m -> Int]
  PROVE  Sum([r \in 1..n |-> val[class[r]]])
           = Sum([c \in 1..m |-> val[c] * Cardinality({r \in 1..n : class[r] = c})])
<1> DEFINE In(c, k) == {r \in 1..k : class[r] = c}
           Weighed(k) == [c \in 1..m |-> val[c] * Cardinality(In(c, k))]
<1>1. PICK s : s = [r \in 1..n |-> val[class[r]]]
  OBVIOUS
<1>2. s \in [1..n -> Int]
  BY <1>1
<1>3. PICK f \in [0..n -> Int] : /\ f[0] = 0 /\ \A j \in 1..n : f[j] = f[j - 1] + s[j]
                                 /\ Sum(s) = f[n]
  BY <1>2, SumRec
<1>4. ASSUME NEW k \in 0..n, NEW c \in 1..m
      PROVE  IsFiniteSet(In(c, k)) /\ Cardinality(In(c, k)) \in Nat
  <2>1. k \in Int /\ 1 \in Int
    OBVIOUS
  <2>2. IsFiniteSet(1..k)
    BY <2>1, FS_Interval
  <2>3. In(c, k) \in SUBSET (1..k)
    OBVIOUS
  <2> HIDE DEF In
  <2>4. IsFiniteSet(In(c, k))
    BY <2>2, <2>3, FS_Subset
  <2> QED BY <2>4, CardinalityIn
<1>5. ASSUME NEW k \in 0..n PROVE Weighed(k) \in [1..m -> Int]
  <2> HIDE DEF In
  <2>1. \A c \in 1..m : val[c] * Cardinality(In(c, k)) \in Int
    BY <1>4
  <2> QED BY <2>1
<1> DEFINE T == {j \in 0..n : f[j] = Sum(Weighed(j))}
<1>6. 0 \in T
  <2>1. \A c \in 1..m : In(c, 0) = {}
    OBVIOUS
  <2>2. PICK zero \in Int : zero = 0
    OBVIOUS
  <2>3. \A c \in 1..m : val[c] * Cardinality(In(c, 0)) = zero
    <3> SUFFICES ASSUME NEW c \in 1..m PROVE val[c] * Cardinality(In(c, 0)) = zero
      OBVIOUS
    <3>1. In(c, 0) = {}
      BY <2>1
    <3>2. Cardinality(In(c, 0)) = 0
      <4> HIDE DEF In
      <4> QED BY <3>1, FS_EmptySet
    <3>3. PICK x \in Int : x = val[c]
      OBVIOUS
    <3> HIDE DEF In
    <3> QED BY <2>2, <3>2, <3>3
  <2>4. Weighed(0) = [c \in 1..m |-> zero]
    BY <2>3
  <2>5. Sum([c \in 1..m |-> zero]) = zero * m
    BY SumConstant
  <2>6. f[0] = Sum(Weighed(0))
    <3> HIDE DEF Weighed
    <3> QED BY <1>3, <2>2, <2>4, <2>5
  <2> QED BY <2>6
<1>7. ASSUME NEW k \in 1..n, k - 1 \in T PROVE k \in T
  <2>1. PICK j \in 0..n : j = k - 1 /\ k = j + 1
    OBVIOUS
  <2>2. PICK d \in 1..m : d = class[k]
    OBVIOUS
  <2>3. PICK p \in Nat : p = Cardinality(In(d, j))
    <3> HIDE DEF In
    <3> QED BY <1>4
  <2>4. In(d, k) = In(d, j) \cup {k} /\ k \notin In(d, j)
    <3>1. 1..k = (1..j) \cup {k}
      BY <2>1
    <3>2. k \notin 1..j
      BY <2>1
    <3> QED BY <2>2, <3>1, <3>2
  <2>5. Cardinality(In(d, k)) = p + 1
    <3> HIDE DEF In
    <3>1. IsFiniteSet(In(d, j))
      BY <1>4
    <3> QED BY <2>3, <2>4, <3>1, FS_AddElement
  <2>6. \A c \in 1..m : c # d => In(c, k) = In(c, j)
    <3>1. 1..k = (1..j) \cup {k}
      BY <2>1
    <3> QED BY <2>2, <3>1
  <2>7. PICK w : w = Weighed(j)
    OBVIOUS
  <2>8. w \in [1..m -> Int] /\ f[j] = Sum(w)
    <3>1. f[j] = Sum(Weighed(j))
      BY <1>7, <2>1
    <3>2. Weighed(j) \in [1..m -> Int]
      BY <1>5
    <3> HIDE DEF Weighed
    <3> QED BY <2>7, <3>1, <3>2
  <2>9. PICK x \in Int : x = val[d]
    OBVIOUS
  <2>10. x * (p + 1) = x * p + x
    OBVIOUS
  <2>11. PICK v \in Int : v = x * (p + 1) /\ v = x * p + x
    BY <2>10
  <2>12. w[d] = x * p
    <3> HIDE DEF In
    <3> QED BY <2>3, <2>7, <2>9
  <2>13. Weighed(k) = [w EXCEPT ![d] = v]
    <3> HIDE DEF In
    <3>1. ASSUME NEW c \in 1..m PROVE Weighed(k)[c] = [w EXCEPT ![d] = v][c]
      <4>1. Weighed(k)[c] = val[c] * Cardinality(In(c, k)) /\ w[c] = val[c] * Cardinality(In(c, j))
        BY <2>7
      <4>2. [w EXCEPT ![d] = v][c] = IF c = d THEN v ELSE w[c]
        BY <2>8
      <4>3. CASE c = d
        BY <2>5, <2>9, <2>11, <4>1, <4>2, <4>3
      <4>4. CASE c # d
        BY <2>6, <4>1, <4>2, <4>4
      <4> QED BY <4>3, <4>4
    <3>2. DOMAIN [w EXCEPT ![d] = v] = 1..m /\ DOMAIN Weighed(k) = 1..m
      BY <2>8
    <3>3. Weighed(k) = [c \in 1..m |-> Weighed(k)[c]]
      OBVIOUS
    <3>4. [w EXCEPT ![d] = v] = [c \in 1..m |-> [w EXCEPT ![d] = v][c]]
      BY <2>8
    <3> HIDE DEF Weighed
    <3> QED BY <3>1, <3>3, <3>4
  <2>14. Sum([w EXCEPT ![d] = v]) = Sum(w) - w[d] + v
    <3>1. m \in Nat /\ w \in [1..m -> Int] /\ d \in 1..m /\ v \in Int
      BY <2>8
    <3> HIDE DEF T, Weighed, In
    <3> QED BY ONLY <3>1, SumUpdate
  <2>15. s[k] = x
    BY <1>1, <2>2, <2>9
  <2>16. f[k] = f[j] + x
    BY <1>3, <2>1, <2>15
  <2>17. f[k] = Sum(Weighed(k))
    <3>1. PICK a \in Int : a = f[j]
      BY <1>3
    <3>2. PICK y \in Int : y = x * p
      OBVIOUS
    <3>3. Sum([w EXCEPT ![d] = v]) = a - y + v /\ v = y + x
      BY <2>8, <2>11, <2>12, <2>14, <3>1, <3>2
    <3>4. Sum([w EXCEPT ![d] = v]) = a + x
      BY <3>3
    <3> HIDE DEF Weighed
    <3> QED BY <2>13, <2>16, <3>1, <3>4
  <2> QED BY <2>17
<1>8. f[n] = Sum(Weighed(n))
  <2>1. n \in T
    <3> HIDE DEF T
    <3>1. \A j \in 0..n : j \in T
      BY <1>6, <1>7, UpTo
    <3> QED BY <3>1
  <2> QED BY <2>1
<1>9. Sum(Weighed(n)) = Sum([c \in 1..m |-> val[c] * Cardinality({r \in 1..n : class[r] = c})])
  OBVIOUS
<1> HIDE DEF Weighed, T
<1> QED BY <1>1, <1>3, <1>8, <1>9

(* The estimator's copy of the common prefix' length.                      *)
LEMMA CopiesAgree ==
  ASSUME NEW v \in 0..(Slots - 1), NEW w \in 0..(Slots - 1)
  PROVE  slot_cp_len(v, w) = CommonPrefixLen(v, w)
<1>0. Beta \in Nat /\ Beta # 0 /\ Slots \in Int
  BY BetaAssumption, SlotsPositive
<1>1. CASE v = w
  BY <1>1 DEF slot_cp_len, CommonPrefixLen
<1>2. CASE v # w
  <2>1. PICK a : a = BitsOf(v, Beta)
    OBVIOUS
  <2>2. PICK b : b = BitsOf(w, Beta)
    OBVIOUS
  <2>3. v \in Int /\ 0 <= v /\ v < PowerOfTwo(Beta) /\ w \in Int /\ 0 <= w /\ w < PowerOfTwo(Beta)
    BY <1>0 DEF Slots
  <2>4. PICK k \in 0..Beta : k = CommonPrefixLen(v, w)
    BY <2>3, CommonPrefix
  <2>5. \A j \in 1..k : a[j] = b[j]
    BY <2>1, <2>2, <2>3, <2>4, CommonPrefix
  <2>6. k # Beta
    <3> SUFFICES ASSUME k = Beta PROVE FALSE
      OBVIOUS
    <3>1. Beta \in 0..Beta /\ Beta - Beta = 0
      BY <1>0
    <3>2. \A j \in 1..Beta : BitsOf(v, Beta)[j] = BitsOf(w, Beta)[j]
      BY <2>1, <2>2, <2>5
    <3>3. Shifted(v, Beta - Beta) = Shifted(w, Beta - Beta)
      BY <1>0, <2>3, <3>1, <3>2, PrefixShifted
    <3>4. Shifted(v, 0) = v /\ Shifted(w, 0) = w
      BY <2>3, ShiftedRec
    <3> QED BY <1>2, <3>1, <3>3, <3>4
  <2>7. k \in 0..(Beta - 1) /\ a[k + 1] # b[k + 1]
    <3>1. k \in 0..(Beta - 1)
      BY <1>0, <2>6
    <3> QED BY <2>1, <2>2, <2>3, <2>4, <3>1, CommonPrefix
  <2>8. ASSUME NEW j \in 1..Beta
        PROVE  BitAt(v, Beta - j) = a[j] /\ BitAt(w, Beta - j) = b[j]
    BY <1>0, <2>1, <2>2, <2>3, BitOf DEF BitAt
  <2> DEFINE Q(cp) == /\ BitAt(v, Beta - 1 - cp) # BitAt(w, Beta - 1 - cp)
                      /\ \A place \in (Beta - cp)..(Beta - 1) : BitAt(v, place) = BitAt(w, place)
  <2>9. ASSUME NEW cp \in 0..(Beta - 1)
        PROVE  Q(cp) <=> a[cp + 1] # b[cp + 1] /\ \A j \in 1..cp : a[j] = b[j]
    <3>1. cp + 1 \in 1..Beta /\ Beta - 1 - cp = Beta - (cp + 1)
      BY <1>0
    <3>2. BitAt(v, Beta - 1 - cp) = a[cp + 1] /\ BitAt(w, Beta - 1 - cp) = b[cp + 1]
      BY <2>8, <3>1
    <3>3. ASSUME NEW place \in (Beta - cp)..(Beta - 1)
          PROVE  \E j \in 1..cp : j \in 1..Beta /\ place = Beta - j
      <4>1. Beta - place \in 1..cp /\ Beta - place \in 1..Beta /\ place = Beta - (Beta - place)
        BY <1>0
      <4> QED BY <4>1
    <3>4. ASSUME NEW j \in 1..cp
          PROVE  j \in 1..Beta /\ Beta - j \in (Beta - cp)..(Beta - 1)
      BY <1>0
    <3>5. (\A place \in (Beta - cp)..(Beta - 1) : BitAt(v, place) = BitAt(w, place))
            <=> \A j \in 1..cp : a[j] = b[j]
      BY <2>8, <3>3, <3>4
    <3> QED BY <3>2, <3>5
  <2>10. Q(k)
    <3> HIDE DEF Q
    <3> QED BY <2>5, <2>7, <2>9
  <2>11. \A cp \in 0..(Beta - 1) : Q(cp) => cp = k
    <3> SUFFICES ASSUME NEW cp \in 0..(Beta - 1), Q(cp) PROVE cp = k
      OBVIOUS
    <3>1. a[cp + 1] # b[cp + 1] /\ \A j \in 1..cp : a[j] = b[j]
      <4> HIDE DEF Q
      <4> QED BY <2>9
    <3>2. ~(cp < k)
      <4>1. cp < k => cp + 1 \in 1..k
        BY <1>0
      <4> QED BY <2>5, <3>1, <4>1
    <3>3. ~(k < cp)
      <4>1. k < cp => k + 1 \in 1..cp
        BY <1>0
      <4> QED BY <2>7, <3>1, <4>1
    <3> QED BY <1>0, <3>2, <3>3
  <2>12. (CHOOSE cp \in 0..(Beta - 1) : Q(cp)) = k
    <3> HIDE DEF Q
    <3> QED BY <2>7, <2>10, <2>11
  <2>13. slot_cp_len(v, w) = CHOOSE cp \in 0..(Beta - 1) : Q(cp)
    BY <1>2 DEF slot_cp_len
  <2> QED BY <2>4, <2>12, <2>13
<1> QED BY <1>1, <1>2

(* Over all masks the word looked up takes every value once: masking is    *)
(* its own inverse.                                                        *)
LEMMA MaskedWords ==
  ASSUME NEW bits \in [1..Beta -> Bit]
  PROVE  \E word \in [0..(Slots - 1) -> 0..(Slots - 1)] :
           \A r \in 0..(Slots - 1) : /\ word[r] = ValueOf(Xor(bits, BitsOf(r, Beta)))
                                     /\ word[word[r]] = r
<1>0. Beta \in Nat /\ Slots \in Int /\ Slots = PowerOfTwo(Beta)
  BY BetaAssumption, SlotsPositive DEF Slots
<1>1. PICK word : word = [r \in 0..(Slots - 1) |-> ValueOf(Xor(bits, BitsOf(r, Beta)))]
  OBVIOUS
<1>2. ASSUME NEW r \in 0..(Slots - 1)
      PROVE  /\ word[r] \in 0..(Slots - 1) /\ word[r] = ValueOf(Xor(bits, BitsOf(r, Beta)))
             /\ BitsOf(word[r], Beta) = Xor(bits, BitsOf(r, Beta))
             /\ Xor(bits, Xor(bits, BitsOf(r, Beta))) = BitsOf(r, Beta)
             /\ ValueOf(BitsOf(r, Beta)) = r
  <2>1. r \in Int /\ 0 <= r /\ r < PowerOfTwo(Beta)
    BY <1>0
  <2>2. PICK m : m = BitsOf(r, Beta)
    OBVIOUS
  <2>3. m \in [1..Beta -> Bit] /\ ValueOf(m) = r
    BY <1>0, <2>1, <2>2, ValueOfBits
  <2>4. PICK x : x = Xor(bits, m)
    OBVIOUS
  <2>5. x = [k \in 1..Beta |-> (bits[k] + m[k]) % 2]
    BY <2>4 DEF Xor
  <2>6. ASSUME NEW k \in 1..Beta PROVE x[k] \in Bit /\ (bits[k] + x[k]) % 2 = m[k]
    <3>1. bits[k] \in Bit /\ m[k] \in Bit /\ x[k] = (bits[k] + m[k]) % 2
      BY <2>3, <2>5
    <3> QED BY <3>1 DEF Bit
  <2>7. x \in [1..Beta -> Bit]
    BY <2>5, <2>6
  <2>8. Xor(bits, x) = m
    <3>1. Xor(bits, x) = [k \in 1..Beta |-> (bits[k] + x[k]) % 2]
      BY DEF Xor
    <3>2. m = [k \in 1..Beta |-> m[k]]
      BY <2>3
    <3> QED BY <2>6, <3>1, <3>2
  <2>9. PICK y \in Int : y = ValueOf(x) /\ 0 <= y /\ y < PowerOfTwo(Beta) /\ BitsOf(y, Beta) = x
    BY <1>0, <2>7, BitsOfValue
  <2>10. word[r] = y
    BY <1>1, <2>2, <2>4, <2>9
  <2>11. y \in 0..(Slots - 1)
    BY <1>0, <2>9
  <2> QED BY <2>2, <2>3, <2>4, <2>8, <2>9, <2>10, <2>11
<1>3. word \in [0..(Slots - 1) -> 0..(Slots - 1)]
  BY <1>1, <1>2
<1>4. ASSUME NEW r \in 0..(Slots - 1) PROVE word[word[r]] = r
  <2>1. PICK s \in 0..(Slots - 1) : s = word[r]
    BY <1>2
  <2>2. word[s] = ValueOf(Xor(bits, BitsOf(s, Beta)))
    BY <1>2
  <2>3. Xor(bits, BitsOf(s, Beta)) = BitsOf(r, Beta) /\ ValueOf(BitsOf(r, Beta)) = r
    BY <1>2, <2>1
  <2> QED BY <2>1, <2>2, <2>3
<1> QED BY <1>2, <1>3, <1>4

(* The ranges of a finished table, none of them empty at the front.        *)
LEMMA RangesApart ==
  ASSUME IInv, Done, counts[1] > 0
  PROVE  \E n \in Nat \ {0} :
           /\ n = Len(table) /\ counts \in [1..n -> Int]
           /\ \A c \in 1..n :
                /\ table[c].start \in Int /\ table[c].end \in Int /\ 0 <= counts[c]
                /\ 0 <= table[c].start /\ 0 <= table[c].end /\ table[c].end < Slots
                /\ table[c].end = table[c].start + counts[c] - 1
           /\ \A c, d \in 1..n : c < d => table[c].end < table[d].start
<1>0. TypeOK /\ weights \in Weights
  BY DEF IInv, TypeOK
<1>1. PICK n \in Nat \ {0} : /\ n = Len(weights) /\ counts \in [1..n -> Int]
                             /\ \A c \in 1..n : counts[c] \in Int /\ 0 <= counts[c]
  BY <1>0, WeightsType, CountsType
<1>2. /\ \A k \in 0..n : SumTo(counts, k) \in Int
      /\ \A k \in 1..n : SumTo(counts, k) = SumTo(counts, k - 1) + counts[k]
      /\ SumTo(counts, 0) = 0 /\ SumTo(counts, n) = Sum(counts)
  BY <1>1, SumToNext
<1>3. SumTo(counts, n) = Slots
  BY <1>2, <1>1 DEF Done, IInv, TypeOK, total
<1>4. PICK f \in [0..n -> Int] : f = [k \in 0..n |-> SumTo(counts, k)]
  BY <1>2
<1>5. f[0] = 0 /\ f[n] = Slots /\ \A k \in 1..n : f[k] = f[k - 1] + counts[k]
  <2>1. n \in 0..n /\ 0 \in 0..n /\ \A k \in 1..n : k \in 0..n /\ k - 1 \in 0..n
    OBVIOUS
  <2> QED BY <1>2, <1>3, <1>4, <2>1
<1>6. /\ Len(table) = n
      /\ \A c \in 1..n : table[c].start = f[c - 1] /\ table[c].end = f[c] - 1
  <2>1. table = [c \in 1..n |->
                   [text |-> c, start |-> SumTo(counts, c - 1), end |-> SumTo(counts, c) - 1]]
    BY <1>1 DEF IInv, LaidOutSoFar, Done
  <2>2. \A c \in 1..n : c \in 0..n /\ c - 1 \in 0..n
    OBVIOUS
  <2> QED BY <1>4, <2>1, <2>2
<1>7. ASSUME NEW x \in 0..n, NEW y \in 0..n, x <= y PROVE f[x] <= f[y]
  <2>1. PICK m \in Nat : m = y - x /\ y = x + m
    <3>1. y - x \in Nat /\ y = x + (y - x)
      BY <1>7
    <3> QED BY <3>1
  <2> DEFINE T == {j \in 0..m : f[x] <= f[x + j]}
  <2>2. 0 \in T
    <3>1. x + 0 = x /\ f[x] \in Int
      OBVIOUS
    <3> QED BY <3>1
  <2>3. ASSUME NEW j \in 1..m, j - 1 \in T PROVE j \in T
    <3>1. PICK k \in 1..n : k = x + j /\ k - 1 = x + (j - 1)
      BY <2>1
    <3>2. f[k] = f[k - 1] + counts[k] /\ counts[k] \in Int /\ 0 <= counts[k]
      BY <1>1, <1>5
    <3>3. f[k - 1] \in Int /\ f[k] \in Int /\ f[x] \in Int /\ f[x] <= f[k - 1]
      <4>1. k - 1 \in 0..n /\ k \in 0..n
        OBVIOUS
      <4> QED BY <2>3, <3>1, <4>1
    <3>4. f[x] <= f[k]
      BY <3>2, <3>3
    <3> QED BY <3>1, <3>4
  <2>4. \A j \in 0..m : j \in T
    <3> HIDE DEF T
    <3> QED BY <2>2, <2>3, UpTo
  <2>5. m \in T
    <3> HIDE DEF T
    <3> QED BY <2>4
  <2> QED BY <2>1, <2>5
<1>8. 0 < f[1]
  <2>1. 1 \in 1..n /\ 1 - 1 = 0 /\ counts[1] \in Int
    BY <1>1
  <2>2. f[1] = f[1 - 1] + counts[1]
    BY <1>5, <2>1
  <2> QED BY <1>5, <2>1, <2>2
<1>9. ASSUME NEW c \in 1..n
      PROVE  /\ table[c].start \in Int /\ table[c].end \in Int /\ 0 <= counts[c]
             /\ 0 <= table[c].start /\ 0 <= table[c].end /\ table[c].end < Slots
             /\ table[c].end = table[c].start + counts[c] - 1
  <2>1. c \in 0..n /\ c - 1 \in 0..n /\ 0 \in 0..n /\ 1 \in 0..n /\ n \in 0..n
    OBVIOUS
  <2>2. f[0] <= f[c - 1] /\ f[1] <= f[c] /\ f[c] <= f[n]
    BY <1>7, <2>1
  <2>3. PICK p \in Int, q \in Int, o \in Int : p = f[c - 1] /\ q = f[c] /\ o = f[1]
    BY <2>1
  <2>4. q = p + counts[c] /\ counts[c] \in Int /\ 0 <= counts[c]
    BY <1>1, <1>5, <2>3
  <2>5. 0 <= p /\ 0 < q /\ q <= Slots /\ Slots \in Int
    BY <1>5, <1>8, <2>2, <2>3, SlotsPositive
  <2>6. table[c].start = p /\ table[c].end = q - 1
    BY <1>6, <2>3
  <2> QED BY <2>3, <2>4, <2>5, <2>6
<1>10. ASSUME NEW c \in 1..n, NEW d \in 1..n, c < d PROVE table[c].end < table[d].start
  <2>1. c \in 0..n /\ d - 1 \in 0..n /\ c <= d - 1
    BY <1>10
  <2>2. PICK p \in Int, q \in Int : p = f[c] /\ q = f[d - 1] /\ p <= q
    <3>1. f[c] \in Int /\ f[d - 1] \in Int /\ f[c] <= f[d - 1]
      BY <1>7, <2>1
    <3> QED BY <3>1
  <2>3. table[c].end = p - 1 /\ table[d].start = q
    BY <1>6, <2>2
  <2> QED BY <2>2, <2>3
<1> QED BY <1>1, <1>6, <1>9, <1>10

(* As many masks choose a candidate as it has slots.                       *)
LEMMA MasksOfCandidate ==
  ASSUME IInv, Done, counts[1] > 0, NEW c \in 1..Len(table),
         NEW word \in [0..(Slots - 1) -> 0..(Slots - 1)], \A r \in 0..(Slots - 1) : word[word[r]] = r
  PROVE  Cardinality({r \in 1..Slots : SlotOf(table, word[r - 1]) = c}) = counts[c]
<1>0. Slots \in Int /\ 0 < Slots /\ Slots = PowerOfTwo(Beta)
  BY SlotsPositive DEF Slots
<1>1. table \in Seq([text : Int, start : Int, end : Int]) /\ LaidOut(table)
  BY DoneLaidOut
<1>2. PICK n \in Nat \ {0} :
        /\ n = Len(table) /\ counts \in [1..n -> Int]
        /\ \A d \in 1..n :
             /\ table[d].start \in Int /\ table[d].end \in Int /\ 0 <= counts[d]
             /\ 0 <= table[d].start /\ 0 <= table[d].end /\ table[d].end < Slots
             /\ table[d].end = table[d].start + counts[d] - 1
        /\ \A d, e \in 1..n : d < e => table[d].end < table[e].start
  BY RangesApart
<1>3. PICK a \in Int, b \in Int : /\ a = table[c].start /\ b = table[c].end
                                  /\ 0 <= a /\ b < Slots /\ b = a + counts[c] - 1
  BY <1>2
<1>3a. 0 <= a /\ b < Slots /\ b = a + counts[c] - 1 /\ counts[c] \in Int /\ 0 <= counts[c]
  BY <1>2, <1>3
<1>4. ASSUME NEW w \in 0..(Slots - 1) PROVE SlotOf(table, w) = c <=> w \in a..b
  <2>1. w \in Int /\ 0 <= w /\ w < PowerOfTwo(Beta)
    BY <1>0
  <2>2. PICK s : s = SlotOf(table, w)
    OBVIOUS
  <2>3. s \in 1..n /\ InSlot(w, table[s])
    BY <1>1, <1>2, <2>1, <2>2, SlotOfHits
  <2>4. table[s].start <= w /\ w <= table[s].end
    BY <1>2, <2>1, <2>3 DEF InSlot
  <2>5. CASE s = c
    <3>1. a <= w /\ w <= b
      BY <1>3, <2>4, <2>5
    <3>2. w \in a..b
      BY <2>1, <3>1
    <3> QED BY <2>2, <2>5, <3>2
  <2>6. CASE s # c
    <3>1. table[s].end < a \/ b < table[s].start
      BY <1>2, <1>3, <2>3, <2>6
    <3>2. table[s].end \in Int /\ table[s].start \in Int
      BY <1>2, <2>3
    <3>3. w \notin a..b
      BY <2>1, <2>4, <3>1, <3>2
    <3> QED BY <2>2, <2>6, <3>3
  <2> QED BY <2>5, <2>6
<1>5. PICK C : C = {r \in 1..Slots : SlotOf(table, word[r - 1]) = c}
  OBVIOUS
<1>6. \A r \in 1..Slots : r \in C <=> word[r - 1] \in a..b
  <2>1. \A r \in 1..Slots : r - 1 \in 0..(Slots - 1)
    BY <1>0
  <2> QED BY <1>4, <1>5, <2>1
<1>7. PICK g : g = [w \in a..b |-> word[w] + 1]
  OBVIOUS
<1>8. ASSUME NEW w \in a..b
      PROVE  w \in 0..(Slots - 1) /\ word[w] \in 0..(Slots - 1) /\ g[w] \in C /\ g[w] = word[w] + 1
  <2>1. w \in 0..(Slots - 1)
    BY <1>0, <1>3a
  <2>2. PICK v \in 0..(Slots - 1) : v = word[w] /\ word[v] = w
    BY <2>1
  <2>3. g[w] = v + 1 /\ v + 1 \in 1..Slots /\ (v + 1) - 1 = v
    BY <1>0, <1>7, <2>2
  <2> QED BY <1>6, <2>1, <2>2, <2>3
<1>9. g \in [a..b -> C]
  BY <1>7, <1>8
<1>10. ASSUME NEW v \in a..b, NEW w \in a..b, g[v] = g[w] PROVE v = w
  <2>1. PICK x \in Int, y \in Int : x = word[v] /\ y = word[w] /\ g[v] = x + 1 /\ g[w] = y + 1
    <3>1. word[v] \in Int /\ word[w] \in Int /\ g[v] = word[v] + 1 /\ g[w] = word[w] + 1
      BY <1>0, <1>8
    <3> QED BY <3>1
  <2>2. word[v] = word[w]
    <3>1. x + 1 = y + 1
      BY <1>10, <2>1
    <3>2. x = y
      BY <3>1
    <3> QED BY <2>1, <3>2
  <2>3. v \in 0..(Slots - 1) /\ w \in 0..(Slots - 1)
    BY <1>8
  <2> QED BY <2>2, <2>3
<1>11. ASSUME NEW r \in C PROVE \E w \in a..b : g[w] = r
  <2>1. r \in 1..Slots /\ word[r - 1] \in a..b
    BY <1>5, <1>6
  <2>2. PICK q \in 0..(Slots - 1) : q = r - 1 /\ r = q + 1
    BY <1>0, <2>1
  <2>3. g[word[q]] = word[word[q]] + 1
    BY <1>8, <2>1, <2>2
  <2> QED BY <2>1, <2>2, <2>3
<1>12. ExistsBijection(a..b, C)
  <2>1. g \in Bijection(a..b, C)
    <3>1. g \in Surjection(a..b, C)
      BY <1>9, <1>11 DEF Surjection
    <3>2. IsInjective(g)
      BY <1>9, <1>10 DEF IsInjective
    <3> QED BY <1>9, <3>1, <3>2 DEF Bijection, Injection
  <2> QED BY <2>1 DEF ExistsBijection
<1>13. IsFiniteSet(a..b) /\ Cardinality(a..b) = IF a > b THEN 0 ELSE b - a + 1
  BY FS_Interval
<1>14. Cardinality(C) = Cardinality(a..b)
  BY <1>12, <1>13, FS_Bijection
<1>15. (IF a > b THEN 0 ELSE b - a + 1) = counts[c]
  BY <1>3a
<1> QED BY <1>5, <1>13, <1>14, <1>15

(* Whatever the message bits, the encoder's mean over all masks is what    *)
(* the estimator computes.                                                 *)
LEMMA MeanForAnyBits ==
  ASSUME IInv, Done, counts[1] > 0, NEW bits \in [1..Beta -> Bit]
  PROVE  expected_cp_len(table, counts)
           = Sum([r \in 1..Slots |-> EncodeStep(table, bits, 0, BitsOf(r - 1, Beta)).consumed])
<1>0. Slots \in Nat /\ Slots = PowerOfTwo(Beta) /\ Beta \in Nat
  BY BetaAssumption, SlotsPositive DEF Slots
<1>1. table \in Seq([text : Int, start : Int, end : Int]) /\ LaidOut(table)
  BY DoneLaidOut
<1>2. PICK n \in Nat \ {0} :
        /\ n = Len(table) /\ counts \in [1..n -> Int]
        /\ \A d \in 1..n :
             /\ table[d].start \in Int /\ table[d].end \in Int /\ 0 <= counts[d]
             /\ 0 <= table[d].start /\ 0 <= table[d].end /\ table[d].end < Slots
             /\ table[d].end = table[d].start + counts[d] - 1
  BY RangesApart
<1>3. PICK word \in [0..(Slots - 1) -> 0..(Slots - 1)] :
        \A r \in 0..(Slots - 1) : /\ word[r] = ValueOf(Xor(bits, BitsOf(r, Beta)))
                                  /\ word[word[r]] = r
  BY MaskedWords
<1>4. PICK class : class = [r \in 1..Slots |-> SlotOf(table, word[r - 1])]
  OBVIOUS
<1>5. class \in [1..Slots -> 1..n]
  <2>1. ASSUME NEW r \in 1..Slots PROVE SlotOf(table, word[r - 1]) \in 1..n
    <3>1. r - 1 \in 0..(Slots - 1)
      BY <1>0
    <3>2. PICK w : w = word[r - 1] /\ w \in 0..(Slots - 1)
      BY <3>1
    <3>3. w \in Int /\ 0 <= w /\ w < PowerOfTwo(Beta)
      BY <1>0, <3>2
    <3>4. SlotOf(table, w) \in 1..Len(table)
      BY <1>1, <3>3, SlotOfHits
    <3> QED BY <1>2, <3>2, <3>4
  <2> QED BY <1>4, <2>1
<1>6. PICK val : val = [c \in 1..n |-> CommonPrefixLen(table[c].start, table[c].end)]
  OBVIOUS
<1>7. val \in [1..n -> Int]
  <2>1. ASSUME NEW c \in 1..n PROVE CommonPrefixLen(table[c].start, table[c].end) \in Int
    <3>1. table[c].start \in Int /\ table[c].end \in Int
      BY <1>2
    <3>2. CommonPrefixLen(table[c].start, table[c].end) \in 0..Beta
      BY <3>1, CommonPrefix
    <3> QED BY <1>0, <3>2
  <2> QED BY <1>6, <2>1
<1>8. Sum([r \in 1..Slots |-> val[class[r]]])
        = Sum([c \in 1..n |-> val[c] * Cardinality({r \in 1..Slots : class[r] = c})])
  <2>1. PICK N \in Nat : N = Slots
    BY <1>0
  <2>2. n \in Nat /\ class \in [1..N -> 1..n] /\ val \in [1..n -> Int]
    BY <1>5, <1>7, <2>1
  <2>3. Sum([r \in 1..N |-> val[class[r]]])
          = Sum([c \in 1..n |-> val[c] * Cardinality({r \in 1..N : class[r] = c})])
    BY ONLY <2>2, N \in Nat, SumByClass
  <2> QED BY <2>1, <2>3
<1>9. ASSUME NEW r \in 1..Slots
      PROVE  EncodeStep(table, bits, 0, BitsOf(r - 1, Beta)).consumed = val[class[r]]
  <2>1. WindowAt(bits, 0) = bits
    <3>1. Len(bits) = Beta
      BY <1>0
    <3>2. \A k \in 1..Beta : 0 + k <= Len(bits) /\ bits[0 + k] = bits[k]
      BY <1>0, <3>1
    <3>3. bits = [k \in 1..Beta |-> bits[k]]
      OBVIOUS
    <3>4. WindowAt(bits, 0) = [k \in 1..Beta |-> bits[k]]
      BY <3>2 DEF WindowAt
    <3> QED BY <3>3, <3>4
  <2>2. PICK q \in 0..(Slots - 1) : q = r - 1
    BY <1>0
  <2>3. word[q] = ValueOf(Xor(bits, BitsOf(q, Beta))) /\ class[r] = SlotOf(table, word[q])
    BY <1>3, <1>4, <2>2
  <2>4. PICK s \in 1..n : s = class[r] /\ s = SlotOf(table, ValueOf(Xor(bits, BitsOf(q, Beta))))
    BY <1>5, <2>3
  <2>5. EncodeStep(table, bits, 0, BitsOf(q, Beta)).consumed
          = CommonPrefixLen(table[s].start, table[s].end)
    BY <2>1, <2>4 DEF EncodeStep
  <2> QED BY <1>6, <2>2, <2>4, <2>5
<1>10. ASSUME NEW c \in 1..n
       PROVE  val[c] * Cardinality({r \in 1..Slots : class[r] = c})
                = IF counts[c] = 0 THEN 0
                  ELSE counts[c] * slot_cp_len(table[c].start, table[c].end)
  <2>1. Cardinality({r \in 1..Slots : SlotOf(table, word[r - 1]) = c}) = counts[c]
    BY <1>2, <1>3, MasksOfCandidate
  <2>2. {r \in 1..Slots : class[r] = c} = {r \in 1..Slots : SlotOf(table, word[r - 1]) = c}
    BY <1>4
  <2>3. PICK x \in Int, y \in Int : x = val[c] /\ y = counts[c]
    BY <1>2, <1>7
  <2>4. x * y = y * x /\ x * 0 = 0
    OBVIOUS
  <2>5. CASE y = 0
    BY <2>1, <2>2, <2>3, <2>4, <2>5
  <2>6. CASE y # 0
    <3>1. /\ table[c].start \in Int /\ table[c].end \in Int /\ 0 <= counts[c]
          /\ 0 <= table[c].start /\ 0 <= table[c].end /\ table[c].end < Slots
          /\ table[c].end = table[c].start + counts[c] - 1
      BY <1>2
    <3>2. table[c].start \in 0..(Slots - 1) /\ table[c].end \in 0..(Slots - 1)
      BY <1>0, <2>3, <2>6, <3>1
    <3>3. slot_cp_len(table[c].start, table[c].end) = CommonPrefixLen(table[c].start, table[c].end)
      BY <3>2, CopiesAgree
    <3>4. slot_cp_len(table[c].start, table[c].end) = x
      BY <1>6, <2>3, <3>3
    <3> QED BY <2>1, <2>2, <2>3, <2>4, <2>6, <3>4
  <2> QED BY <2>5, <2>6
<1>11. [r \in 1..Slots |-> EncodeStep(table, bits, 0, BitsOf(r - 1, Beta)).consumed]
         = [r \in 1..Slots |-> val[class[r]]]
  BY <1>9
<1>12. expected_cp_len(table, counts)
         = Sum([c \in 1..n |-> val[c] * Cardinality({r \in 1..Slots : class[r] = c})])
  <2>1. [c \in 1..n |-> val[c] * Cardinality({r \in 1..Slots : class[r] = c})]
          = [c \in 1..n |-> IF counts[c] = 0 THEN 0
                            ELSE counts[c] * slot_cp_len(table[c].start, table[c].end)]
    BY <1>10
  <2> QED BY <1>2, <2>1 DEF expected_cp_len
<1> QED BY <1>8, <1>11, <1>12

(* The estimate of a step is the mean of what the encoder counts as sent   *)
(* (capacity.c against meteor_core.c), for any weights and any Beta.       *)
THEOREM EstimatesAreMeans == Spec => []EstimateIsMean
<1>1. ASSUME IInv PROVE EstimateIsMean
  <2> SUFFICES ASSUME Done, counts[1] > 0,
                      NEW bits \in {[k \in 1..Beta |-> 0], [k \in 1..Beta |-> k % 2]}
               PROVE  expected_cp_len(table, counts)
                        = Sum([r \in 1..Slots |-> EncodeStep(table, bits, 0, BitsOf(r - 1, Beta)).consumed])
    BY DEF EstimateIsMean
  <2>1. bits \in [1..Beta -> Bit]
    <3>1. \A k \in 1..Beta : 0 \in Bit /\ k % 2 \in Bit
      BY BetaAssumption DEF Bit
    <3> QED BY <3>1
  <2> QED BY <1>1, <2>1, MeanForAnyBits
<1> QED BY <1>1, Invariance, PTL
=============================================================================
