-------------------------- MODULE SlotCodingProofs --------------------------
(***************************************************************************)
(* The arithmetic of the slots, for any Beta.                              *)
(***************************************************************************)
EXTENDS SlotCoding, WellFoundedInduction, TLAPS

(***************************************************************************)
(* Induction, over sets of numbers.                                        *)
(***************************************************************************)
LEMMA LeastNatural ==
  ASSUME NEW T, T \subseteq Nat, T # {}
  PROVE  \E n \in T : \A m \in T : n <= m
<1> DEFINE R == {p \in Nat \X Nat : p[1] < p[2]}
<1>1. IsWellFoundedOn(R, Nat)
  BY NatLessThanWellFounded DEF OpToRel, IsWellFoundedOn
<1>2. PICK n \in T : \A m \in T : ~(<<m, n>> \in R)
  <2> HIDE DEF R
  <2> QED BY <1>1, WFMin
<1>3. ASSUME NEW m \in T PROVE n <= m
  <2>1. ~(<<m, n>> \in R) /\ m \in Nat /\ n \in Nat
    BY <1>2
  <2> QED BY <2>1
<1> QED BY <1>2, <1>3

LEMMA UpTo ==
  ASSUME NEW n \in Nat, NEW T, 0 \in T, \A j \in 1..n : j - 1 \in T => j \in T
  PROVE  \A j \in 0..n : j \in T
<1> DEFINE U == (0..n) \ T
<1>1. U = {}
  <2> SUFFICES ASSUME U # {} PROVE FALSE
    OBVIOUS
  <2>1. U \subseteq Nat
    OBVIOUS
  <2>2. PICK m \in U : \A k \in U : m <= k
    <3> HIDE DEF U
    <3> QED BY <2>1, LeastNatural
  <2>3. m \in 1..n /\ m \notin T /\ m - 1 \in 0..n
    OBVIOUS
  <2>4. m - 1 \notin U
    <3> HIDE DEF U
    <3> QED BY <2>2, <2>3
  <2> QED BY <2>3, <2>4
<1> QED BY <1>1

(* What is defined by recursion on 0..n exists.                            *)
Recursion(S, x, n, F) == \E g \in [0..n -> S] : g[0] = x /\ \A j \in 1..n : g[j] = F[j][g[j - 1]]

LEMMA RecursionIn ==
  ASSUME NEW S, NEW x \in S, NEW n \in Nat, NEW F \in [1..n -> [S -> S]]
  PROVE  Recursion(S, x, n, F)
<1> DEFINE Solves(g, m) == /\ g \in [0..m -> S] /\ g[0] = x
                           /\ \A j \in 1..m : g[j] = F[j][g[j - 1]]
           T == {m \in 0..n : \E g : Solves(g, m)}
<1>1. 0 \in T
  <2>1. Solves([j \in 0..0 |-> x], 0)
    OBVIOUS
  <2> HIDE DEF Solves
  <2> QED BY <2>1
<1>2. ASSUME NEW m \in 1..n, m - 1 \in T PROVE m \in T
  <2>1. PICK g : Solves(g, m - 1)
    BY <1>2
  <2>2. PICK next : next = F[m][g[m - 1]]
    OBVIOUS
  <2>3. next \in S
    BY <2>1, <2>2
  <2>4. PICK h : h = [j \in 0..m |-> IF j = m THEN next ELSE g[j]]
    OBVIOUS
  <2>5. ASSUME NEW j \in 0..m, j # m PROVE h[j] = g[j] /\ h[j] \in S
    <3>1. j \in 0..(m - 1)
      BY <2>5
    <3> QED BY <2>1, <2>4, <2>5, <3>1
  <2>6. h[m] = next
    BY <2>4
  <2>7. h \in [0..m -> S] /\ h[0] = x
    <3>1. \A j \in 0..m : h[j] \in S
      BY <2>3, <2>5, <2>6
    <3>2. 0 # m /\ h[0] = g[0]
      BY <2>5
    <3> QED BY <2>1, <2>4, <3>1, <3>2
  <2>8. ASSUME NEW j \in 1..m PROVE h[j] = F[j][h[j - 1]]
    <3>1. h[j - 1] = g[j - 1]
      BY <2>5
    <3>2. CASE j = m
      BY <2>2, <2>6, <3>1, <3>2
    <3>3. CASE j # m
      <4>1. j \in 1..(m - 1) /\ h[j] = g[j]
        BY <2>5, <3>3
      <4> QED BY <2>1, <3>1, <4>1
    <3> QED BY <3>2, <3>3
  <2>9. Solves(h, m)
    BY <2>7, <2>8
  <2> HIDE DEF Solves
  <2> QED BY <2>9
<1>3. n \in T
  <2> HIDE DEF T
  <2>1. \A j \in 0..n : j \in T
    BY <1>1, <1>2, UpTo
  <2> QED BY <2>1
<1> QED BY <1>3 DEF Recursion

LEMMA RecursionExists ==
  ASSUME NEW x \in Int, NEW n \in Nat, NEW F \in [1..n -> [Int -> Int]]
  PROVE  \E g \in [0..n -> Int] : g[0] = x /\ \A j \in 1..n : g[j] = F[j][g[j - 1]]
<1>1. Recursion(Int, x, n, F)
  BY RecursionIn
<1> QED BY <1>1 DEF Recursion

(***************************************************************************)
(* The recursive functions of SlotCoding, by their equations.              *)
(***************************************************************************)
LEMMA ShiftedRec ==
  ASSUME NEW v \in Int, NEW k \in Nat
  PROVE  /\ Shifted(v, 0) = v
         /\ Shifted(v, k) \in Int
         /\ Shifted(v, k + 1) = Shifted(v, k) \div 2
<1> DEFINE P(n, g) == g = [j \in 0..n |-> IF j = 0 THEN v ELSE g[j - 1] \div 2]
           H(n) == CHOOSE g : P(n, g)
<1>1. PICK N \in Nat : N = k + 1
  OBVIOUS
<1>2. PICK F : F = [j \in 1..N |-> [u \in Int |-> u \div 2]]
  OBVIOUS
<1>3. F \in [1..N -> [Int -> Int]] /\ \A j \in 1..N : \A u \in Int : F[j][u] = u \div 2
  BY <1>2
<1>4. PICK f \in [0..N -> Int] : f[0] = v /\ \A j \in 1..N : f[j] = F[j][f[j - 1]]
  BY <1>3, RecursionExists
<1>5. ASSUME NEW j \in 1..N PROVE f[j] = f[j - 1] \div 2
  <2>1. f[j - 1] \in Int /\ f[j] = F[j][f[j - 1]]
    BY <1>4
  <2> QED BY <1>3, <2>1
<1>6. ASSUME NEW n \in 0..N PROVE H(n)[n] = f[n]
  <2>1. P(n, [j \in 0..n |-> f[j]])
    BY <1>4, <1>5
  <2>2. P(n, H(n))
    <3> HIDE DEF P
    <3> QED BY <2>1
  <2>3. PICK h : h = H(n)
    OBVIOUS
  <2>4. h[0] = v /\ \A j \in 1..n : h[j] = h[j - 1] \div 2
    <3>1. P(n, h)
      BY <2>2, <2>3
    <3> QED BY <3>1
  <2> DEFINE T == {j \in 0..n : h[j] = f[j]}
  <2>5. 0 \in T /\ \A j \in 1..n : j - 1 \in T => j \in T
    BY <1>4, <1>5, <2>4
  <2>6. n \in T
    <3> HIDE DEF T
    <3>1. \A j \in 0..n : j \in T
      <4>1. n \in Nat
        OBVIOUS
      <4> QED BY <2>5, <4>1, UpTo
    <3> QED BY <3>1
  <2> HIDE DEF H
  <2> QED BY <2>3, <2>6
<1>7. \A n \in 0..N : Shifted(v, n) = H(n)[n]
  BY DEF Shifted
<1> HIDE DEF H
<1>8. Shifted(v, 0) = f[0] /\ Shifted(v, k) = f[k] /\ Shifted(v, k + 1) = f[k + 1]
  BY <1>1, <1>6, <1>7
<1> QED BY <1>1, <1>4, <1>5, <1>8

LEMMA PowerRec ==
  ASSUME NEW k \in Nat
  PROVE  /\ PowerOfTwo(0) = 1
         /\ PowerOfTwo(k) \in Int
         /\ PowerOfTwo(k + 1) = 2 * PowerOfTwo(k)
<1> DEFINE P(n, g) == g = [j \in 0..n |-> IF j = 0 THEN 1 ELSE 2 * g[j - 1]]
           H(n) == CHOOSE g : P(n, g)
<1>1. PICK N \in Nat : N = k + 1
  OBVIOUS
<1>2. PICK F : F = [j \in 1..N |-> [u \in Int |-> 2 * u]]
  OBVIOUS
<1>3. F \in [1..N -> [Int -> Int]] /\ \A j \in 1..N : \A u \in Int : F[j][u] = 2 * u
  BY <1>2
<1>4. PICK f \in [0..N -> Int] : f[0] = 1 /\ \A j \in 1..N : f[j] = F[j][f[j - 1]]
  <2>1. PICK one \in Int : one = 1
    OBVIOUS
  <2>2. \E f \in [0..N -> Int] : f[0] = one /\ \A j \in 1..N : f[j] = F[j][f[j - 1]]
    BY <1>3, RecursionExists
  <2> QED BY <2>1, <2>2
<1>5. ASSUME NEW j \in 1..N PROVE f[j] = 2 * f[j - 1]
  <2>1. f[j - 1] \in Int /\ f[j] = F[j][f[j - 1]]
    BY <1>4
  <2> QED BY <1>3, <2>1
<1>6. ASSUME NEW n \in 0..N PROVE H(n)[n] = f[n]
  <2>1. P(n, [j \in 0..n |-> f[j]])
    BY <1>4, <1>5
  <2>2. P(n, H(n))
    <3> HIDE DEF P
    <3> QED BY <2>1
  <2>3. PICK h : h = H(n)
    OBVIOUS
  <2>4. h[0] = 1 /\ \A j \in 1..n : h[j] = 2 * h[j - 1]
    <3>1. P(n, h)
      BY <2>2, <2>3
    <3> QED BY <3>1
  <2> DEFINE T == {j \in 0..n : h[j] = f[j]}
  <2>5. 0 \in T /\ \A j \in 1..n : j - 1 \in T => j \in T
    BY <1>4, <1>5, <2>4
  <2>6. n \in T
    <3> HIDE DEF T
    <3>1. \A j \in 0..n : j \in T
      <4>1. n \in Nat
        OBVIOUS
      <4> QED BY <2>5, <4>1, UpTo
    <3> QED BY <3>1
  <2> HIDE DEF H
  <2> QED BY <2>3, <2>6
<1>7. \A n \in 0..N : PowerOfTwo(n) = H(n)[n]
  BY DEF PowerOfTwo
<1> HIDE DEF H
<1>8. PowerOfTwo(0) = f[0] /\ PowerOfTwo(k) = f[k] /\ PowerOfTwo(k + 1) = f[k + 1]
  BY <1>1, <1>6, <1>7
<1> QED BY <1>1, <1>4, <1>5, <1>8

LEMMA ValueRec ==
  ASSUME NEW n \in Nat, NEW bits \in [1..n -> Bit]
  PROVE  \E f \in [0..n -> Int] : /\ f[0] = 0
                                  /\ \A j \in 1..n : f[j] = 2 * f[j - 1] + bits[j]
                                  /\ ValueOf(bits) = f[n]
<1> DEFINE P(g) == g = [j \in 0..n |-> IF j = 0 THEN 0 ELSE 2 * g[j - 1] + bits[j]]
           H == CHOOSE g : P(g)
<1>1. \A j \in 1..n : bits[j] \in Int
  BY DEF Bit
<1>2. PICK F : F = [j \in 1..n |-> [u \in Int |-> 2 * u + bits[j]]]
  OBVIOUS
<1>3. F \in [1..n -> [Int -> Int]] /\ \A j \in 1..n : \A u \in Int : F[j][u] = 2 * u + bits[j]
  BY <1>1, <1>2
<1>4. PICK f \in [0..n -> Int] : f[0] = 0 /\ \A j \in 1..n : f[j] = F[j][f[j - 1]]
  <2>1. PICK zero \in Int : zero = 0
    OBVIOUS
  <2>2. \E f \in [0..n -> Int] : f[0] = zero /\ \A j \in 1..n : f[j] = F[j][f[j - 1]]
    BY <1>3, RecursionExists
  <2> QED BY <2>1, <2>2
<1>5. ASSUME NEW j \in 1..n PROVE f[j] = 2 * f[j - 1] + bits[j]
  <2>1. f[j - 1] \in Int /\ f[j] = F[j][f[j - 1]]
    BY <1>4
  <2> QED BY <1>3, <2>1
<1>6. H[n] = f[n]
  <2>1. P(f)
    BY <1>4, <1>5
  <2>2. P(H)
    <3> HIDE DEF P
    <3> QED BY <2>1
  <2>3. PICK h : h = H
    OBVIOUS
  <2>4. h[0] = 0 /\ \A j \in 1..n : h[j] = 2 * h[j - 1] + bits[j]
    <3>1. P(h)
      BY <2>2, <2>3
    <3> QED BY <3>1
  <2> DEFINE T == {j \in 0..n : h[j] = f[j]}
  <2>5. 0 \in T /\ \A j \in 1..n : j - 1 \in T => j \in T
    BY <1>4, <1>5, <2>4
  <2>6. n \in T
    <3> HIDE DEF T
    <3>1. \A j \in 0..n : j \in T
      BY <2>5, UpTo
    <3> QED BY <3>1
  <2> HIDE DEF H
  <2> QED BY <2>3, <2>6
<1>7. ValueOf(bits) = H[n]
  <2>1. Len(bits) = n
    OBVIOUS
  <2> QED BY <2>1 DEF ValueOf
<1> HIDE DEF H
<1> QED BY <1>4, <1>5, <1>6, <1>7

(***************************************************************************)
(* Numbers and their bits.                                                 *)
(***************************************************************************)

(* Two numbers that agree after k shifts agree after more.                 *)
LEMMA ShiftedStaysEqual ==
  ASSUME NEW v \in Int, NEW w \in Int, NEW k \in Nat, Shifted(v, k) = Shifted(w, k),
         NEW m \in Nat
  PROVE  Shifted(v, k + m) = Shifted(w, k + m)
<1> DEFINE T == {j \in 0..m : Shifted(v, k + j) = Shifted(w, k + j)}
<1>1. 0 \in T
  OBVIOUS
<1>2. ASSUME NEW j \in 1..m, j - 1 \in T PROVE j \in T
  <2>1. k + (j - 1) \in Nat /\ (k + (j - 1)) + 1 = k + j
    OBVIOUS
  <2>2. Shifted(v, k + (j - 1)) = Shifted(w, k + (j - 1))
    BY <1>2
  <2>3. Shifted(v, k + j) = Shifted(w, k + j)
    BY <2>1, <2>2, ShiftedRec
  <2> QED BY <2>3
<1>3. m \in T
  <2> HIDE DEF T
  <2>1. \A j \in 0..m : j \in T
    BY <1>1, <1>2, UpTo
  <2> QED BY <2>1
<1> QED BY <1>3

LEMMA ShiftedMonotone ==
  ASSUME NEW v \in Int, NEW w \in Int, v <= w, NEW k \in Nat
  PROVE  Shifted(v, k) <= Shifted(w, k)
<1> DEFINE T == {j \in 0..k : Shifted(v, j) <= Shifted(w, j)}
<1>1. 0 \in T
  BY ShiftedRec
<1>2. ASSUME NEW j \in 1..k, j - 1 \in T PROVE j \in T
  <2>1. j - 1 \in Nat /\ (j - 1) + 1 = j
    OBVIOUS
  <2>2. /\ Shifted(v, j - 1) \in Int /\ Shifted(v, j) = Shifted(v, j - 1) \div 2
        /\ Shifted(w, j - 1) \in Int /\ Shifted(w, j) = Shifted(w, j - 1) \div 2
    BY <2>1, ShiftedRec
  <2>3. Shifted(v, j - 1) <= Shifted(w, j - 1)
    BY <1>2
  <2>4. Shifted(v, j) <= Shifted(w, j)
    BY <2>2, <2>3
  <2> QED BY <2>4
<1>3. k \in T
  <2> HIDE DEF T
  <2>1. \A j \in 0..k : j \in T
    BY <1>1, <1>2, UpTo
  <2> QED BY <2>1
<1> QED BY <1>3

(* A number of n bits is gone after n shifts.                              *)
LEMMA ShiftedOut ==
  ASSUME NEW n \in Nat, NEW v \in Int, 0 <= v, v < PowerOfTwo(n)
  PROVE  Shifted(v, n) = 0
<1> DEFINE T == {j \in 0..n : 0 <= Shifted(v, j) /\ Shifted(v, j) < PowerOfTwo(n - j)}
<1>1. 0 \in T
  BY ShiftedRec
<1>2. ASSUME NEW j \in 1..n, j - 1 \in T PROVE j \in T
  <2>1. n - j \in Nat /\ (n - j) + 1 = n - (j - 1)
    OBVIOUS
  <2>2. Shifted(v, j - 1) \in Int /\ Shifted(v, j) = Shifted(v, j - 1) \div 2
    <3>1. PICK k \in Nat : k = j - 1 /\ k + 1 = j
      OBVIOUS
    <3>2. Shifted(v, k) \in Int /\ Shifted(v, k + 1) = Shifted(v, k) \div 2
      BY ShiftedRec
    <3> QED BY <3>1, <3>2
  <2>3. PowerOfTwo(n - j) \in Int /\ PowerOfTwo(n - (j - 1)) = 2 * PowerOfTwo(n - j)
    BY <2>1, PowerRec
  <2>4. 0 <= Shifted(v, j - 1) /\ Shifted(v, j - 1) < PowerOfTwo(n - (j - 1))
    BY <1>2
  <2>5. 0 <= Shifted(v, j) /\ Shifted(v, j) < PowerOfTwo(n - j)
    BY <2>2, <2>3, <2>4
  <2> QED BY <2>5
<1>3. n \in T
  <2> HIDE DEF T
  <2>1. \A j \in 0..n : j \in T
    BY <1>1, <1>2, UpTo
  <2> QED BY <2>1
<1>4. n - n = 0
  OBVIOUS
<1> QED BY <1>3, <1>4, ShiftedRec, PowerRec

LEMMA BitOf ==
  ASSUME NEW v \in Int, NEW n \in Nat, NEW i \in 1..n
  PROVE  BitsOf(v, n)[i] = Shifted(v, n - i) % 2 /\ BitsOf(v, n)[i] \in Bit
<1>1. n - i \in Nat
  OBVIOUS
<1>2. Shifted(v, n - i) \in Int
  BY <1>1, ShiftedRec
<1> QED BY <1>2 DEF BitsOf, Bit

(* Numbers of n bits that share their first k bits are the same without    *)
(* the others, and the converse.                                           *)
LEMMA PrefixShifted ==
  ASSUME NEW n \in Nat, NEW v \in Int, 0 <= v, v < PowerOfTwo(n),
         NEW w \in Int, 0 <= w, w < PowerOfTwo(n), NEW k \in 0..n,
         \A i \in 1..k : BitsOf(v, n)[i] = BitsOf(w, n)[i]
  PROVE  Shifted(v, n - k) = Shifted(w, n - k)
<1> DEFINE T == {j \in 0..k : Shifted(v, n - j) = Shifted(w, n - j)}
<1>1. 0 \in T
  <2>1. n - 0 = n
    OBVIOUS
  <2> QED BY <2>1, ShiftedOut
<1>2. ASSUME NEW j \in 1..k, j - 1 \in T PROVE j \in T
  <2>1. n - j \in Nat /\ (n - j) + 1 = n - (j - 1) /\ j \in 1..n
    OBVIOUS
  <2>2. /\ Shifted(v, n - j) \in Int /\ Shifted(v, n - (j - 1)) = Shifted(v, n - j) \div 2
        /\ Shifted(w, n - j) \in Int /\ Shifted(w, n - (j - 1)) = Shifted(w, n - j) \div 2
    BY <2>1, ShiftedRec
  <2>3. Shifted(v, n - (j - 1)) = Shifted(w, n - (j - 1))
    BY <1>2
  <2>4. Shifted(v, n - j) % 2 = Shifted(w, n - j) % 2
    BY <2>1, BitOf
  <2>5. Shifted(v, n - j) = Shifted(w, n - j)
    BY <2>2, <2>3, <2>4
  <2> QED BY <2>5
<1>3. k \in T
  <2> HIDE DEF T
  <2>1. k \in Nat
    OBVIOUS
  <2>2. \A j \in 0..k : j \in T
    BY <1>1, <1>2, <2>1, UpTo
  <2> QED BY <2>1, <2>2
<1> QED BY <1>3

LEMMA ShiftedPrefix ==
  ASSUME NEW n \in Nat, NEW v \in Int, NEW w \in Int, NEW k \in 0..n,
         Shifted(v, n - k) = Shifted(w, n - k)
  PROVE  \A i \in 1..k : BitsOf(v, n)[i] = BitsOf(w, n)[i]
<1> SUFFICES ASSUME NEW i \in 1..k PROVE BitsOf(v, n)[i] = BitsOf(w, n)[i]
  OBVIOUS
<1>1. n - k \in Nat /\ k - i \in Nat /\ (n - k) + (k - i) = n - i /\ i \in 1..n
  OBVIOUS
<1>2. Shifted(v, (n - k) + (k - i)) = Shifted(w, (n - k) + (k - i))
  BY <1>1, ShiftedStaysEqual
<1> QED BY <1>1, <1>2, BitOf

(* A number of n bits and its bits determine each other.                   *)
LEMMA BitsOfValue ==
  ASSUME NEW n \in Nat, NEW bits \in [1..n -> Bit]
  PROVE  /\ ValueOf(bits) \in Int /\ 0 <= ValueOf(bits) /\ ValueOf(bits) < PowerOfTwo(n)
         /\ BitsOf(ValueOf(bits), n) = bits
<1>1. PICK f \in [0..n -> Int] : /\ f[0] = 0
                                 /\ \A j \in 1..n : f[j] = 2 * f[j - 1] + bits[j]
                                 /\ ValueOf(bits) = f[n]
  BY ValueRec
<1>2. \A j \in 1..n : bits[j] \in 0..1
  BY DEF Bit
<1>3. 0 <= f[n] /\ f[n] < PowerOfTwo(n)
  <2> DEFINE T == {j \in 0..n : 0 <= f[j] /\ f[j] < PowerOfTwo(j)}
  <2>1. 0 \in T
    <3>1. PowerOfTwo(0) = 1
      BY PowerRec
    <3> QED BY <1>1, <3>1
  <2>2. ASSUME NEW j \in 1..n, j - 1 \in T PROVE j \in T
    <3>1. j - 1 \in Nat /\ (j - 1) + 1 = j /\ j - 1 \in 0..n
      OBVIOUS
    <3>2. PowerOfTwo(j - 1) \in Int /\ PowerOfTwo(j) = 2 * PowerOfTwo(j - 1)
      BY <3>1, PowerRec
    <3>3. f[j - 1] \in Int /\ 0 <= f[j - 1] /\ f[j - 1] < PowerOfTwo(j - 1)
      BY <2>2, <3>1
    <3>4. f[j] = 2 * f[j - 1] + bits[j] /\ bits[j] \in 0..1
      BY <1>1, <1>2
    <3>5. 0 <= f[j] /\ f[j] < PowerOfTwo(j)
      BY <3>2, <3>3, <3>4
    <3> QED BY <3>5
  <2>3. n \in T
    <3> HIDE DEF T
    <3>1. \A j \in 0..n : j \in T
      BY <2>1, <2>2, UpTo
    <3> QED BY <3>1
  <2> QED BY <2>3
<1>4. ASSUME NEW k \in 0..n PROVE Shifted(f[n], k) = f[n - k]
  <2> DEFINE T == {j \in 0..n : Shifted(f[n], j) = f[n - j]}
  <2>1. 0 \in T
    <3>1. n - 0 = n /\ f[n] \in Int
      OBVIOUS
    <3> QED BY <3>1, ShiftedRec
  <2>2. ASSUME NEW j \in 1..n, j - 1 \in T PROVE j \in T
    <3>1. /\ j - 1 \in Nat /\ (j - 1) + 1 = j /\ n - (j - 1) \in 1..n
          /\ (n - (j - 1)) - 1 = n - j /\ f[n] \in Int /\ f[n - j] \in Int
      OBVIOUS
    <3>2. Shifted(f[n], j) = Shifted(f[n], j - 1) \div 2
      BY <3>1, ShiftedRec
    <3>3. Shifted(f[n], j - 1) = f[n - (j - 1)]
      BY <2>2
    <3>4. f[n - (j - 1)] = 2 * f[n - j] + bits[n - (j - 1)] /\ bits[n - (j - 1)] \in 0..1
      BY <1>1, <1>2, <3>1
    <3>5. (2 * f[n - j] + bits[n - (j - 1)]) \div 2 = f[n - j]
      <4>1. PICK a \in Int, b \in 0..1 : a = f[n - j] /\ b = bits[n - (j - 1)]
        BY <3>1, <3>4
      <4>2. (2 * a + b) \div 2 = a
        OBVIOUS
      <4> QED BY <4>1, <4>2
    <3>6. Shifted(f[n], j) = f[n - j]
      BY <3>2, <3>3, <3>4, <3>5
    <3> QED BY <3>6
  <2>3. k \in T
    <3> HIDE DEF T
    <3>1. \A j \in 0..n : j \in T
      BY <2>1, <2>2, UpTo
    <3> QED BY <3>1
  <2> QED BY <2>3
<1>5. ASSUME NEW i \in 1..n PROVE BitsOf(f[n], n)[i] = bits[i]
  <2>1. n - i \in 0..n /\ n - (n - i) = i /\ f[n] \in Int /\ f[i - 1] \in Int
    OBVIOUS
  <2>2. BitsOf(f[n], n)[i] = Shifted(f[n], n - i) % 2
    BY <2>1, BitOf
  <2>3. Shifted(f[n], n - i) = f[i]
    BY <1>4, <2>1
  <2>4. f[i] = 2 * f[i - 1] + bits[i] /\ bits[i] \in 0..1
    BY <1>1, <1>2
  <2> QED BY <2>1, <2>2, <2>3, <2>4
<1>6. BitsOf(f[n], n) = bits
  <2>1. BitsOf(f[n], n) = [i \in 1..n |-> BitsOf(f[n], n)[i]]
    BY DEF BitsOf
  <2> QED BY <1>5, <2>1
<1> QED BY <1>1, <1>3, <1>6

LEMMA ValueOfBits ==
  ASSUME NEW n \in Nat, NEW v \in Int, 0 <= v, v < PowerOfTwo(n)
  PROVE  BitsOf(v, n) \in [1..n -> Bit] /\ ValueOf(BitsOf(v, n)) = v
<1>1. BitsOf(v, n) \in [1..n -> Bit]
  <2>1. BitsOf(v, n) = [i \in 1..n |-> BitsOf(v, n)[i]]
    BY DEF BitsOf
  <2> QED BY <2>1, BitOf
<1>2. PICK w : w = ValueOf(BitsOf(v, n))
  OBVIOUS
<1>3. w \in Int /\ 0 <= w /\ w < PowerOfTwo(n) /\ BitsOf(w, n) = BitsOf(v, n)
  BY <1>1, <1>2, BitsOfValue
<1>4. Shifted(w, n - n) = Shifted(v, n - n)
  <2>1. n \in 0..n
    OBVIOUS
  <2> QED BY <1>3, <2>1, PrefixShifted
<1>5. n - n = 0
  OBVIOUS
<1> QED BY <1>1, <1>2, <1>3, <1>4, <1>5, ShiftedRec

(***************************************************************************)
(* One step of the code.                                                   *)
(***************************************************************************)
LEMMA CommonPrefix ==
  ASSUME NEW v \in Int, NEW w \in Int
  PROVE  /\ CommonPrefixLen(v, w) \in 0..Beta
         /\ \A i \in 1..CommonPrefixLen(v, w) : BitsOf(v, Beta)[i] = BitsOf(w, Beta)[i]
         /\ \A k \in 0..(Beta - 1) : k = CommonPrefixLen(v, w) =>
              BitsOf(v, Beta)[k + 1] # BitsOf(w, Beta)[k + 1]
<1>0. Beta \in Nat
  BY BetaAssumption
<1>1. CASE v = w
  BY <1>0, <1>1 DEF CommonPrefixLen
<1>2. CASE v # w
  <2>1. PICK a : a = BitsOf(v, Beta)
    OBVIOUS
  <2>2. PICK b : b = BitsOf(w, Beta)
    OBVIOUS
  <2>3. a \in [1..Beta -> Bit] /\ b \in [1..Beta -> Bit]
    <3>1. a = [i \in 1..Beta |-> a[i]] /\ b = [i \in 1..Beta |-> b[i]]
      BY <2>1, <2>2 DEF BitsOf
    <3>2. \A i \in 1..Beta : a[i] \in Bit /\ b[i] \in Bit
      BY <1>0, <2>1, <2>2, BitOf
    <3> QED BY <3>1, <3>2
  <2> DEFINE Q(k) == SubSeq(a, 1, k) = SubSeq(b, 1, k) /\ (k < Beta => a[k + 1] # b[k + 1])
  <2>4. \E k \in 0..Beta : Q(k)
    <3> DEFINE T == {i \in 1..Beta : a[i] # b[i]}
    <3>1. CASE T = {}
      <4>1. SubSeq(a, 1, Beta) = SubSeq(b, 1, Beta)
        BY <1>0, <2>3, <3>1
      <4> QED BY <1>0, <4>1
    <3>2. CASE T # {}
      <4>1. PICK i \in T : \A j \in T : i <= j
        <5>1. T \subseteq Nat
          OBVIOUS
        <5> HIDE DEF T
        <5> QED BY <3>2, <5>1, LeastNatural
      <4>2. i \in 1..Beta /\ a[i] # b[i]
        OBVIOUS
      <4>3. \A j \in 1..(i - 1) : a[j] = b[j]
        <5> SUFFICES ASSUME NEW j \in 1..(i - 1) PROVE j \notin T
          BY <1>0, <4>2
        <5> HIDE DEF T
        <5> QED BY <4>1, <4>2
      <4>4. PICK k \in 0..Beta : k = i - 1 /\ k + 1 = i
        BY <1>0, <4>2
      <4>5. SubSeq(a, 1, k) = SubSeq(b, 1, k)
        BY <1>0, <2>3, <4>3, <4>4
      <4> QED BY <4>2, <4>4, <4>5
    <3> QED BY <3>1, <3>2
  <2>5. PICK k : k = CHOOSE n \in 0..Beta : Q(n)
    OBVIOUS
  <2>6. k \in 0..Beta /\ Q(k)
    <3> HIDE DEF Q
    <3> QED BY <2>4, <2>5
  <2>7. CommonPrefixLen(v, w) = k
    BY <1>2, <2>1, <2>2, <2>5 DEF CommonPrefixLen
  <2>8. \A i \in 1..k : a[i] = b[i]
    <3> SUFFICES ASSUME NEW i \in 1..k PROVE a[i] = b[i]
      OBVIOUS
    <3>1. SubSeq(a, 1, k)[i] = a[i] /\ SubSeq(b, 1, k)[i] = b[i]
      BY <1>0, <2>3, <2>6
    <3> QED BY <2>6, <3>1
  <2>9. k < Beta => a[k + 1] # b[k + 1]
    BY <2>6
  <2>10. ASSUME NEW j \in 0..(Beta - 1), j = CommonPrefixLen(v, w)
         PROVE  BitsOf(v, Beta)[j + 1] # BitsOf(w, Beta)[j + 1]
    <3>1. j = k /\ k < Beta
      BY <1>0, <2>7, <2>10
    <3> QED BY <2>1, <2>2, <2>9, <3>1
  <2> QED BY <2>1, <2>2, <2>6, <2>7, <2>8, <2>10
<1> QED BY <1>1, <1>2

(* A word in a range starts with the bits its ends share.                  *)
LEMMA InRange ==
  ASSUME NEW start \in Int, 0 <= start, NEW end \in Int, end < PowerOfTwo(Beta),
         NEW r \in Int, start <= r, r <= end
  PROVE  \A i \in 1..CommonPrefixLen(start, end) : BitsOf(start, Beta)[i] = BitsOf(r, Beta)[i]
<1>0. Beta \in Nat
  BY BetaAssumption
<1>1. PICK k \in 0..Beta : /\ k = CommonPrefixLen(start, end)
                           /\ \A i \in 1..k : BitsOf(start, Beta)[i] = BitsOf(end, Beta)[i]
  BY CommonPrefix
<1>2. Beta - k \in Nat
  BY <1>0
<1>3. PowerOfTwo(Beta) \in Int
  BY <1>0, PowerRec
<1>4. Shifted(start, Beta - k) = Shifted(end, Beta - k)
  BY <1>0, <1>1, <1>3, PrefixShifted
<1>5. /\ Shifted(start, Beta - k) <= Shifted(r, Beta - k)
      /\ Shifted(r, Beta - k) <= Shifted(end, Beta - k)
  BY <1>2, ShiftedMonotone
<1>6. /\ Shifted(start, Beta - k) \in Int /\ Shifted(r, Beta - k) \in Int
      /\ Shifted(end, Beta - k) \in Int
  BY <1>2, ShiftedRec
<1>7. Shifted(start, Beta - k) = Shifted(r, Beta - k)
  BY <1>4, <1>5, <1>6
<1> QED BY <1>0, <1>1, <1>7, ShiftedPrefix

LEMMA LaidOutRanges ==
  ASSUME NEW Text, NEW table \in Seq([text : Text, start : Int, end : Int]), LaidOut(table)
  PROVE  /\ Len(table) \in Nat \ {0} /\ DOMAIN table = 1..Len(table)
         /\ \A i \in 1..Len(table) : /\ table[i].start \in Int /\ table[i].end \in Int
                                     /\ 0 <= table[i].start /\ table[i].end < PowerOfTwo(Beta)
<1>1. PICK n \in Nat : n = Len(table) /\ n # 0 /\ DOMAIN table = 1..n
  BY DEF LaidOut
<1>2. PICK a : a = [i \in 1..n |-> table[i].start]
  OBVIOUS
<1>3. PICK b : b = [i \in 1..n |-> table[i].end]
  OBVIOUS
<1>4. PICK P \in Int : P = PowerOfTwo(Beta)
  <2>1. Beta \in Nat
    BY BetaAssumption
  <2> QED BY <2>1, PowerRec
<1>5. /\ a \in [1..n -> Int] /\ b \in [1..n -> Int] /\ a[1] = 0 /\ b[n] = P - 1
      /\ \A i \in 1..n : a[i] <= b[i] + 1
      /\ \A i \in 2..n : a[i] = b[i - 1] + 1
  <2>1. \A i \in 1..n : table[i].start \in Int /\ table[i].end \in Int
    <3> SUFFICES ASSUME NEW i \in 1..n PROVE table[i].start \in Int /\ table[i].end \in Int
      OBVIOUS
    <3>1. PICK R : R = [text : Text, start : Int, end : Int]
      OBVIOUS
    <3>2. table \in Seq(R) /\ i \in 1..Len(table)
      BY <1>1, <3>1
    <3>3. table[i] \in R
      BY <3>2
    <3> QED BY <3>1, <3>3
  <2>2. a \in [1..n -> Int] /\ b \in [1..n -> Int]
    BY <1>2, <1>3, <2>1
  <2>3. a[1] = 0 /\ b[n] = P - 1
    BY <1>1, <1>2, <1>3, <1>4 DEF LaidOut, Last
  <2>4. \A i \in 1..n : a[i] <= b[i] + 1
    BY <1>1, <1>2, <1>3 DEF LaidOut
  <2>5. \A i \in 2..n : a[i] = b[i - 1] + 1
    <3> SUFFICES ASSUME NEW i \in 2..n PROVE a[i] = b[i - 1] + 1
      OBVIOUS
    <3>1. i \in 1..n /\ i - 1 \in 1..n /\ table[i].start = table[i - 1].end + 1
      BY <1>1 DEF LaidOut
    <3> QED BY <1>2, <1>3, <3>1
  <2> QED BY <2>2, <2>3, <2>4, <2>5
<1>6. \A i \in 1..n : 0 <= a[i]
  <2> DEFINE T == {j \in 0..(n - 1) : 0 <= a[j + 1]}
  <2>1. 0 \in T
    BY <1>1, <1>5
  <2>2. ASSUME NEW j \in 1..(n - 1), j - 1 \in T PROVE j \in T
    <3>1. j \in 1..n /\ j + 1 \in 2..n /\ (j + 1) - 1 = j /\ (j - 1) + 1 = j
      BY <1>1
    <3>2. 0 <= a[j] /\ a[j] <= b[j] + 1 /\ a[j + 1] = b[j] + 1
      BY <1>5, <2>2, <3>1
    <3>3. a[j] \in Int /\ b[j] \in Int
      BY <1>5, <3>1
    <3> QED BY <3>2, <3>3
  <2>3. \A j \in 0..(n - 1) : j \in T
    <3>1. n - 1 \in Nat
      BY <1>1
    <3> HIDE DEF T
    <3> QED BY <2>1, <2>2, <3>1, UpTo
  <2> SUFFICES ASSUME NEW i \in 1..n PROVE 0 <= a[i]
    OBVIOUS
  <2>4. i - 1 \in T /\ (i - 1) + 1 = i
    <3> HIDE DEF T
    <3> QED BY <1>1, <2>3
  <2> QED BY <2>4
<1>7. \A i \in 1..n : b[i] < P
  <2> DEFINE T == {j \in 0..(n - 1) : b[n - j] < P}
  <2>1. 0 \in T
    BY <1>1, <1>5
  <2>2. ASSUME NEW j \in 1..(n - 1), j - 1 \in T PROVE j \in T
    <3>1. PICK i \in 2..n : i = n - (j - 1) /\ i - 1 = n - j /\ i \in 1..n /\ i - 1 \in 1..n
      <4> HIDE DEF T
      <4>1. n - (j - 1) \in 2..n /\ (n - (j - 1)) - 1 = n - j
        OBVIOUS
      <4>2. \A i \in 2..n : i \in 1..n /\ i - 1 \in 1..n
        OBVIOUS
      <4> QED BY <4>1, <4>2
    <3>2. b[i] < P /\ a[i] <= b[i] + 1 /\ a[i] = b[i - 1] + 1
      BY <1>5, <2>2, <3>1
    <3>3. a[i] \in Int /\ b[i] \in Int /\ b[i - 1] \in Int
      BY <1>5, <3>1
    <3>4. b[i - 1] < P
      BY <3>2, <3>3
    <3> QED BY <3>1, <3>4
  <2>3. \A j \in 0..(n - 1) : j \in T
    <3>1. n - 1 \in Nat
      BY <1>1
    <3> HIDE DEF T
    <3> QED BY <2>1, <2>2, <3>1, UpTo
  <2> SUFFICES ASSUME NEW i \in 1..n PROVE b[i] < P
    OBVIOUS
  <2>4. n - i \in T /\ n - (n - i) = i
    <3> HIDE DEF T
    <3> QED BY <1>1, <2>3
  <2> QED BY <2>4
<1> QED BY <1>1, <1>2, <1>3, <1>4, <1>5, <1>6, <1>7

(* The lookup finds a range: the one the word lies in, or the one with the *)
(* end of -1 if the first is empty.                                        *)
LEMMA SlotOfHits ==
  ASSUME NEW Text, NEW table \in Seq([text : Text, start : Int, end : Int]), LaidOut(table),
         NEW r \in Int, 0 <= r, r < PowerOfTwo(Beta)
  PROVE  SlotOf(table, r) \in 1..Len(table) /\ InSlot(r, table[SlotOf(table, r)])
<1>1. PICK n \in Nat \ {0} : n = Len(table) /\ DOMAIN table = 1..n
  BY LaidOutRanges
<1>2. \A i \in 1..n : /\ table[i].start \in Int /\ table[i].end \in Int /\ 0 <= table[i].start
                      /\ table[i].end < PowerOfTwo(Beta)
  BY <1>1, LaidOutRanges
<1> DEFINE T == {i \in 1..n : r <= table[i].end}
           hits == {i \in DOMAIN table : InSlot(r, table[i])}
<1>3. n \in T
  <2>1. table[n].end = PowerOfTwo(Beta) - 1
    BY <1>1 DEF LaidOut, Last
  <2>2. Beta \in Nat
    BY BetaAssumption
  <2>3. PowerOfTwo(Beta) \in Int
    BY <2>2, PowerRec
  <2>4. r <= table[n].end
    BY <2>1, <2>3
  <2> QED BY <2>4
<1>4. PICK i \in T : \A j \in T : i <= j
  <2>1. T \subseteq Nat
    OBVIOUS
  <2> HIDE DEF T
  <2> QED BY <1>3, <2>1, LeastNatural
<1>5. i \in 1..n /\ r <= table[i].end
  OBVIOUS
<1>6. table[i].start <= r
  <2>1. CASE i = 1
    BY <2>1 DEF LaidOut
  <2>2. CASE i # 1
    <3>1. i \in 2..n /\ i - 1 \in 1..n /\ i - 1 < i
      BY <1>1, <1>5, <2>2
    <3>2. i - 1 \notin T
      <4> HIDE DEF T
      <4> QED BY <1>4, <1>5, <3>1
    <3>3. table[i].start = table[i - 1].end + 1
      BY <1>1, <3>1 DEF LaidOut
    <3>4. table[i - 1].end \in Int /\ ~(r <= table[i - 1].end)
      BY <1>2, <3>1, <3>2
    <3> QED BY <3>3, <3>4
  <2> QED BY <2>1, <2>2
<1>7. i \in hits
  BY <1>1, <1>2, <1>5, <1>6 DEF InSlot
<1>8. PICK s \in hits : \A j \in hits : s <= j
  <2>1. hits \subseteq Nat
    BY <1>1
  <2> HIDE DEF hits
  <2> QED BY <1>7, <2>1, LeastNatural
<1>9. PICK c : c = SlotOf(table, r)
  OBVIOUS
<1>10. c = CHOOSE x \in hits : \A j \in hits : x <= j
  BY <1>7, <1>9 DEF SlotOf
<1>11. c \in hits
  <2> HIDE DEF hits
  <2> QED BY <1>8, <1>10
<1> QED BY <1>1, <1>9, <1>11

(* An empty first range, 0..-1, has no prefix.                             *)
LEMMA ShiftedAway ==
  ASSUME NEW c \in {0, -1}, NEW k \in Nat
  PROVE  Shifted(c, k) = c
<1> DEFINE T == {j \in 0..k : Shifted(c, j) = c}
<1>0. c \in Int /\ c \div 2 = c
  OBVIOUS
<1>1. 0 \in T
  BY <1>0, ShiftedRec
<1>2. ASSUME NEW j \in 1..k, j - 1 \in T PROVE j \in T
  <2>1. PICK i \in Nat : i = j - 1 /\ i + 1 = j
    OBVIOUS
  <2>2. Shifted(c, i + 1) = Shifted(c, i) \div 2
    BY <1>0, ShiftedRec
  <2> QED BY <1>0, <1>2, <2>1, <2>2
<1>3. \A j \in 0..k : j \in T
  <2> HIDE DEF T
  <2> QED BY <1>1, <1>2, UpTo
<1> QED BY <1>3

LEMMA NoPrefix == CommonPrefixLen(0, -1) = 0
<1>0. Beta \in Nat /\ 1 \in 1..Beta /\ Beta - 1 \in Nat
  BY BetaAssumption
<1>1. Shifted(0, Beta - 1) = 0
  BY <1>0, ShiftedAway
<1>2. Shifted(-1, Beta - 1) = -1
  BY <1>0, ShiftedAway
<1>3. BitsOf(0, Beta)[1] = 0 /\ BitsOf(-1, Beta)[1] = 1
  BY <1>0, <1>1, <1>2, BitOf
<1>4. CommonPrefixLen(0, -1) \in 0..Beta
      /\ \A i \in 1..CommonPrefixLen(0, -1) : BitsOf(0, Beta)[i] = BitsOf(-1, Beta)[i]
  BY CommonPrefix
<1> QED BY <1>0, <1>3, <1>4

LEMMA WindowType ==
  ASSUME NEW bits \in Seq(Bit), NEW offset \in Nat
  PROVE  WindowAt(bits, offset) \in [1..Beta -> Bit]
<1>1. PICK n \in Nat : n = Len(bits) /\ bits \in [1..n -> Bit]
  OBVIOUS
<1>2. ASSUME NEW i \in 1..Beta PROVE (IF offset + i <= n THEN bits[offset + i] ELSE 0) \in Bit
  <2>1. Beta \in Nat
    BY BetaAssumption
  <2>2. CASE offset + i <= n
    <3>1. offset + i \in 1..n
      BY <2>1, <2>2
    <3> QED BY <1>1, <2>2, <3>1
  <2>3. CASE ~(offset + i <= n)
    BY <2>3 DEF Bit
  <2> QED BY <2>2, <2>3
<1> QED BY <1>1, <1>2 DEF WindowAt

LEMMA XorTwice ==
  ASSUME NEW a \in Bit, NEW b \in Bit
  PROVE  (a + b) % 2 \in Bit /\ (((a + b) % 2) + b) % 2 = a
BY DEF Bit

(* Whatever the message and the mask: the choice of a candidate reveals to *)
(* the decoder the bits the encoder counts as sent.                        *)
LEMMA StepInverts ==
  ASSUME NEW Text, NEW table \in Seq([text : Text, start : Int, end : Int]), LaidOut(table),
         NEW bits \in Seq(Bit), NEW offset \in Nat, NEW mask \in [1..Beta -> Bit]
  PROVE  LET step == EncodeStep(table, bits, offset, mask)
         IN /\ \E i \in 1..Len(table) : step.chosen = table[i].text
            /\ step.consumed \in 0..Beta
            /\ DecodeStep(table, step.chosen, mask)
                 = SubSeq(WindowAt(bits, offset), 1, step.consumed)
<1>0. Beta \in Nat
  BY BetaAssumption
<1>1. PICK w : w = WindowAt(bits, offset)
  OBVIOUS
<1>2. PICK x : x = Xor(w, mask)
  OBVIOUS
<1>3. w \in [1..Beta -> Bit]
  BY <1>1, WindowType
<1>4. x \in [1..Beta -> Bit] /\ \A i \in 1..Beta : (x[i] + mask[i]) % 2 = w[i]
  <2>1. x = [i \in 1..Beta |-> (w[i] + mask[i]) % 2]
    BY <1>2, <1>3 DEF Xor
  <2>2. ASSUME NEW i \in 1..Beta PROVE x[i] \in Bit /\ (x[i] + mask[i]) % 2 = w[i]
    <3>1. w[i] \in Bit /\ mask[i] \in Bit /\ x[i] = (w[i] + mask[i]) % 2
      BY <1>3, <2>1
    <3> QED BY <3>1, XorTwice
  <2> QED BY <2>1, <2>2
<1>5. PICK r \in Int : r = ValueOf(x) /\ 0 <= r /\ r < PowerOfTwo(Beta) /\ BitsOf(r, Beta) = x
  BY <1>0, <1>4, BitsOfValue
<1>6. PICK s \in 1..Len(table) : s = SlotOf(table, r) /\ InSlot(r, table[s])
  BY <1>5, SlotOfHits
<1>7. PICK start \in Int, end \in Int :
        /\ start = table[s].start /\ end = table[s].end
        /\ 0 <= start /\ end < PowerOfTwo(Beta) /\ start <= end + 1
  BY LaidOutRanges DEF LaidOut
<1>7a. 0 <= start /\ end < PowerOfTwo(Beta) /\ start <= end + 1
  BY <1>7
<1>8. PICK k \in 0..Beta : k = CommonPrefixLen(start, end)
  BY CommonPrefix
<1>9. \A i \in 1..k : BitsOf(start, Beta)[i] = x[i]
  <2>1. CASE end < 0
    <3>1. start = 0 /\ end = -1
      BY <1>7a, <2>1
    <3> QED BY <1>8, <3>1, NoPrefix
  <2>2. CASE ~(end < 0)
    <3>1. start <= r /\ r <= end
      BY <1>6, <1>7, <2>2 DEF InSlot
    <3> QED BY <1>5, <1>8, <1>7a, <3>1, InRange
  <2> QED BY <2>1, <2>2
<1>10. EncodeStep(table, bits, offset, mask) = [chosen |-> table[s].text, consumed |-> k]
  BY <1>1, <1>2, <1>5, <1>6, <1>7, <1>8 DEF EncodeStep
<1>11. DecodeStep(table, table[s].text, mask)
         = Xor(SubSeq(BitsOf(start, Beta), 1, k), SubSeq(mask, 1, k))
  <2> DEFINE hits == {i \in DOMAIN table : table[i].text = table[s].text}
  <2>1. hits = {s}
    <3>1. s \in DOMAIN table
      BY LaidOutRanges
    <3> QED BY <3>1 DEF LaidOut
  <2>2. (IF hits = {} THEN Len(table) ELSE CHOOSE i \in hits : \A j \in hits : i <= j) = s
    BY <2>1
  <2> QED BY <1>7, <1>8, <2>2 DEF DecodeStep
<1>12. Xor(SubSeq(BitsOf(start, Beta), 1, k), SubSeq(mask, 1, k)) = SubSeq(w, 1, k)
  <2>1. PICK b : b = BitsOf(start, Beta)
    OBVIOUS
  <2>2. b = [i \in 1..Beta |-> b[i]]
    BY <2>1 DEF BitsOf
  <2>3. SubSeq(b, 1, k) = [i \in 1..k |-> x[i]]
    <3>1. SubSeq(b, 1, k) = [i \in 1..k |-> b[i]]
      BY <1>0, <2>2
    <3> QED BY <1>9, <2>1, <3>1
  <2>4. SubSeq(mask, 1, k) = [i \in 1..k |-> mask[i]] /\ SubSeq(w, 1, k) = [i \in 1..k |-> w[i]]
    BY <1>0, <1>3
  <2>5. \A i \in 1..k : (x[i] + mask[i]) % 2 = w[i]
    BY <1>0, <1>4
  <2>6. Xor(SubSeq(b, 1, k), SubSeq(mask, 1, k)) = [i \in 1..k |-> (x[i] + mask[i]) % 2]
    BY <2>3, <2>4 DEF Xor
  <2>7. [i \in 1..k |-> (x[i] + mask[i]) % 2] = [i \in 1..k |-> w[i]]
    BY <2>5
  <2> QED BY <2>1, <2>4, <2>6, <2>7
<1> QED BY <1>1, <1>10, <1>11, <1>12
=============================================================================
