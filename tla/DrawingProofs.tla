---------------------------- MODULE DrawingProofs ----------------------------
(***************************************************************************)
(* Theorems about Curves and Drawing, for every grid of progress, every    *)
(* size, every number of strips and any frames left out.                   *)
(***************************************************************************)
EXTENDS Drawing, TLAPS

-----------------------------------------------------------------------------
(***************************************************************************)
(* A curve over the grid 0 / n .. n / n is given by the numerators F of    *)
(* its values and their common denominator d.                              *)
(***************************************************************************)
Shapely(F, d, n) ==
    /\ F \in [0..n -> Int] /\ d \in Nat \ {0} /\ F[0] = 0 /\ F[n] = d
    /\ \A i \in 0..(n - 1) : n * (F[i + 1] - F[i]) <= 6 * d /\ n * (F[i] - F[i + 1]) <= 6 * d
Within(F, d, n) == \A i \in 0..n : F[i] \in 0..d
Rising(F, n) == \A i, j \in 0..n : i <= j => F[i] <= F[j]

(* The curve seen from its end, and two curves of half the length.         *)
Turned(F, d, n) == [i \in 0..n |-> d - F[n - i]]
Halves(F, G, d, n) == [i \in 0..n |-> IF 2 * i < n THEN F[2 * i] ELSE d + G[2 * i - n]]

LEMMA TurnedShape ==
    ASSUME NEW n \in Nat \ {0}, NEW F, NEW d, Shapely(F, d, n)
    PROVE  /\ Shapely(Turned(F, d, n), d, n)
           /\ Within(F, d, n) => Within(Turned(F, d, n), d, n)
           /\ Rising(F, n) => Rising(Turned(F, d, n), n)
<1> DEFINE G == Turned(F, d, n)
<1>1. F \in [0..n -> Int] /\ d \in Nat \ {0} /\ F[0] = 0 /\ F[n] = d
    BY DEF Shapely
<1>2. \A i \in 0..n : n - i \in 0..n /\ G[i] = d - F[n - i] /\ F[n - i] \in Int
    BY <1>1 DEF Turned
<1>3. G \in [0..n -> Int] /\ G[0] = 0 /\ G[n] = d
    BY <1>1, <1>2 DEF Turned
<1>4. ASSUME NEW i \in 0..(n - 1)
      PROVE  n * (G[i + 1] - G[i]) <= 6 * d /\ n * (G[i] - G[i + 1]) <= 6 * d
    <2> DEFINE j == n - (i + 1)
    <2>1. j \in 0..(n - 1) /\ n - i = j + 1 /\ i \in 0..n /\ i + 1 \in 0..n
        OBVIOUS
    <2>2. G[i] = d - F[j + 1] /\ G[i + 1] = d - F[j] /\ F[j] \in Int /\ F[j + 1] \in Int
        BY <1>1, <1>2, <2>1
    <2>3. n * (F[j + 1] - F[j]) <= 6 * d /\ n * (F[j] - F[j + 1]) <= 6 * d
        BY <2>1 DEF Shapely
    <2>4. G[i + 1] - G[i] = F[j + 1] - F[j] /\ G[i] - G[i + 1] = F[j] - F[j + 1]
        BY <1>1, <2>2
    <2> QED
        BY <2>3, <2>4
<1>5. ASSUME Within(F, d, n)
      PROVE  Within(G, d, n)
    <2>1. \A i \in 0..n : F[n - i] \in 0..d
        BY <1>2, <1>5 DEF Within
    <2>2. \A i \in 0..n : d - F[n - i] \in 0..d
        BY <1>1, <2>1
    <2> QED
        BY <1>2, <2>2 DEF Within
<1>6. ASSUME Rising(F, n)
      PROVE  Rising(G, n)
    <2>1. ASSUME NEW i \in 0..n, NEW j \in 0..n, i <= j
          PROVE  G[i] <= G[j]
        <3>1. n - i \in 0..n /\ n - j \in 0..n /\ n - j <= n - i
            BY <2>1
        <3>2. F[n - j] <= F[n - i]
            BY <1>6, <3>1 DEF Rising
        <3>3. G[i] = d - F[n - i] /\ G[j] = d - F[n - j] /\ F[n - i] \in Int /\ F[n - j] \in Int
            BY <1>2
        <3> QED
            BY <1>1, <3>2, <3>3
    <2> QED
        BY <2>1 DEF Rising
<1> QED
    BY <1>1, <1>3, <1>4, <1>5, <1>6 DEF Shapely

(* The steps of the halves are two steps of the whole curves.              *)
LEMMA HalvesShape ==
    ASSUME NEW n \in Nat \ {0}, NEW F, NEW G, NEW d, Shapely(F, d, n), Shapely(G, d, n)
    PROVE  /\ Shapely(Halves(F, G, d, n), 2 * d, n)
           /\ Within(F, d, n) /\ Within(G, d, n) => Within(Halves(F, G, d, n), 2 * d, n)
           /\ Rising(F, n) /\ Rising(G, n) => Rising(Halves(F, G, d, n), n)
<1> DEFINE L == Halves(F, G, d, n)
<1>1. /\ F \in [0..n -> Int] /\ F[0] = 0 /\ F[n] = d
      /\ G \in [0..n -> Int] /\ G[0] = 0 /\ G[n] = d
      /\ d \in Nat \ {0} /\ 2 * d \in Nat \ {0}
    <2>1. F \in [0..n -> Int] /\ d \in Nat \ {0} /\ F[0] = 0 /\ F[n] = d
        BY Zenon DEF Shapely
    <2>2. G \in [0..n -> Int] /\ G[0] = 0 /\ G[n] = d
        BY Zenon DEF Shapely
    <2>3. 2 * d \in Nat \ {0}
        BY <2>1
    <2> QED
        BY <2>1, <2>2, <2>3
<1>2. ASSUME NEW i \in 0..n
      PROVE  /\ 2 * i < n => 2 * i \in 0..n /\ L[i] = F[2 * i] /\ F[2 * i] \in Int
             /\ ~(2 * i < n) => 2 * i - n \in 0..n /\ L[i] = d + G[2 * i - n] /\ G[2 * i - n] \in Int
    <2>1. L[i] = IF 2 * i < n THEN F[2 * i] ELSE d + G[2 * i - n]
        BY DEF Halves
    <2>2. (2 * i < n => 2 * i \in 0..n) /\ (~(2 * i < n) => 2 * i - n \in 0..n)
        OBVIOUS
    <2> HIDE DEF L
    <2> QED
        BY <1>1, <2>1, <2>2
<1>3. L \in [0..n -> Int]
    <2>1. \A i \in 0..n : L[i] \in Int
        BY <1>1, <1>2
    <2> QED
        BY <2>1 DEF Halves
<1>4. L[0] = 0 /\ L[n] = 2 * d
    <2>1. 2 * 0 < n /\ ~(2 * n < n) /\ 2 * n - n = n /\ 2 * 0 = 0 /\ 0 \in 0..n /\ n \in 0..n
        OBVIOUS
    <2> QED
        BY <1>1, <1>2, <2>1
<1>5. ASSUME NEW i \in 0..(n - 1)
      PROVE  n * (L[i + 1] - L[i]) <= 6 * (2 * d) /\ n * (L[i] - L[i + 1]) <= 6 * (2 * d)
    <2>0. i \in 0..n /\ i + 1 \in 0..n /\ 2 * (i + 1) = 2 * i + 2
        OBVIOUS
    <2>1. ASSUME NEW a \in Int, NEW b \in Int, NEW c \in Int,
                 n * (b - a) <= 6 * d, n * (a - b) <= 6 * d, n * (c - b) <= 6 * d, n * (b - c) <= 6 * d
          PROVE  n * (c - a) <= 6 * (2 * d) /\ n * (a - c) <= 6 * (2 * d)
        <3>1. n * (c - a) = n * (c - b) + n * (b - a) /\ n * (a - c) = n * (a - b) + n * (b - c)
            OBVIOUS
        <3> QED
            BY <2>1, <3>1, <1>1
    <2>2. CASE 2 * i + 2 < n
        <3>1. 2 * i \in 0..(n - 1) /\ 2 * i + 1 \in 0..(n - 1) /\ 2 * i + 1 + 1 = 2 * i + 2
            BY <2>2
        <3>2. L[i] = F[2 * i] /\ L[i + 1] = F[2 * i + 2]
            BY <1>2, <2>0, <2>2
        <3>3. F[2 * i] \in Int /\ F[2 * i + 1] \in Int /\ F[2 * i + 2] \in Int
            BY <1>1, <2>2
        <3>4. /\ n * (F[2 * i + 1] - F[2 * i]) <= 6 * d /\ n * (F[2 * i] - F[2 * i + 1]) <= 6 * d
              /\ n * (F[2 * i + 2] - F[2 * i + 1]) <= 6 * d
              /\ n * (F[2 * i + 1] - F[2 * i + 2]) <= 6 * d
            BY <3>1 DEF Shapely
        <3> QED
            BY <2>1, <3>2, <3>3, <3>4
    <2>3. CASE 2 * i + 2 = n
        <3>1. 2 * i \in 0..(n - 1) /\ 2 * i + 1 \in 0..(n - 1) /\ 2 * i + 1 + 1 = n
            BY <2>3
        <3>2. L[i] = F[2 * i] /\ L[i + 1] = F[n]
            <4>1. L[i + 1] = d + G[0]
                BY <1>2, <2>0, <2>3
            <4> QED
                BY <1>1, <1>2, <2>0, <2>3, <4>1
        <3>3. F[2 * i] \in Int /\ F[2 * i + 1] \in Int /\ F[n] \in Int
            BY <1>1, <2>3
        <3>4. /\ n * (F[2 * i + 1] - F[2 * i]) <= 6 * d /\ n * (F[2 * i] - F[2 * i + 1]) <= 6 * d
              /\ n * (F[n] - F[2 * i + 1]) <= 6 * d /\ n * (F[2 * i + 1] - F[n]) <= 6 * d
            BY <3>1 DEF Shapely
        <3> QED
            BY <2>1, <3>2, <3>3, <3>4
    <2>4. CASE 2 * i + 1 = n
        <3>1. 2 * i \in 0..(n - 1) /\ 0 \in 0..(n - 1) /\ 0 + 1 = 1 /\ 1 \in 0..n
            BY <2>4
        <3>2. L[i] = F[2 * i] /\ L[i + 1] = d + G[1]
            BY <1>2, <2>0, <2>4
        <3>3. F[2 * i] \in Int /\ G[1] \in Int /\ F[2 * i + 1] = d
            BY <1>1, <2>4
        <3>4. /\ n * (d - F[2 * i]) <= 6 * d /\ n * (F[2 * i] - d) <= 6 * d
              /\ n * (G[1] - 0) <= 6 * d /\ n * (0 - G[1]) <= 6 * d
            BY <1>1, <3>1, <3>3 DEF Shapely
        <3> DEFINE g == d + G[1]
        <3>5. g - d = G[1] - 0 /\ d - g = 0 - G[1] /\ g \in Int /\ d \in Int
            BY <1>1, <3>3
        <3>6. n * (g - d) <= 6 * d /\ n * (d - g) <= 6 * d /\ L[i + 1] = g
            BY <3>2, <3>4, <3>5
        <3> HIDE DEF g
        <3> QED
            BY <2>1, <3>2, <3>3, <3>4, <3>5, <3>6
    <2>5. CASE 2 * i >= n
        <3> DEFINE j == 2 * i - n
        <3>1. j \in 0..(n - 1) /\ j + 1 \in 0..(n - 1) /\ j + 1 + 1 = 2 * (i + 1) - n /\ j + 1 + 1 \in 0..n
            BY <2>5
        <3>2. L[i] = d + G[j] /\ L[i + 1] = d + G[j + 1 + 1]
            BY <1>2, <2>0, <2>5, <3>1
        <3>3. G[j] \in Int /\ G[j + 1] \in Int /\ G[j + 1 + 1] \in Int
            BY <1>1, <3>1
        <3>4. /\ n * (G[j + 1] - G[j]) <= 6 * d /\ n * (G[j] - G[j + 1]) <= 6 * d
              /\ n * (G[j + 1 + 1] - G[j + 1]) <= 6 * d /\ n * (G[j + 1] - G[j + 1 + 1]) <= 6 * d
            BY <3>1 DEF Shapely
        <3> HIDE DEF j
        <3>5. n * (G[j + 1 + 1] - G[j]) <= 6 * (2 * d) /\ n * (G[j] - G[j + 1 + 1]) <= 6 * (2 * d)
            BY <2>1, <3>3, <3>4
        <3>6. \A x, y \in Int : (d + y) - (d + x) = y - x
            BY <1>1
        <3>7. L[i + 1] - L[i] = G[j + 1 + 1] - G[j] /\ L[i] - L[i + 1] = G[j] - G[j + 1 + 1]
            BY <3>2, <3>3, <3>6
        <3> QED
            BY <3>5, <3>7
    <2> QED
        BY <2>2, <2>3, <2>4, <2>5
<1>6. ASSUME Within(F, d, n), Within(G, d, n)
      PROVE  Within(L, 2 * d, n)
    <2>1. \A i \in 0..n : F[i] \in 0..d /\ G[i] \in 0..d
        BY <1>6 DEF Within
    <2>2. ASSUME NEW i \in 0..n
          PROVE  L[i] \in 0..(2 * d)
        <3>1. CASE 2 * i < n
            <4>1. 2 * i \in 0..n /\ L[i] = F[2 * i]
                BY <1>2, <3>1
            <4>2. F[2 * i] \in 0..d
                BY <2>1, <4>1
            <4> QED
                BY <1>1, <4>1, <4>2
        <3>2. CASE ~(2 * i < n)
            <4>1. 2 * i - n \in 0..n /\ L[i] = d + G[2 * i - n]
                BY <1>2, <3>2
            <4>2. G[2 * i - n] \in 0..d
                BY <2>1, <4>1
            <4> QED
                BY <1>1, <4>1, <4>2
        <3> QED
            BY <3>1, <3>2
    <2> QED
        BY <2>2 DEF Within
<1>7. ASSUME Rising(F, n), Rising(G, n)
      PROVE  Rising(L, n)
    <2>1. \A i, j \in 0..n : i <= j => F[i] <= F[j] /\ G[i] <= G[j]
        BY <1>7 DEF Rising
    <2>2. \A i \in 0..n : F[i] <= d /\ 0 <= G[i]
        <3>1. \A i \in 0..n : 0 <= i /\ i <= n /\ 0 \in 0..n /\ n \in 0..n
            OBVIOUS
        <3> QED
            BY <1>1, <2>1, <3>1
    <2>3. ASSUME NEW i \in 0..n, NEW j \in 0..n, i <= j
          PROVE  L[i] <= L[j]
        <3>1. CASE 2 * j < n
            BY <1>2, <2>1, <2>3, <3>1
        <3>2. CASE 2 * i < n /\ ~(2 * j < n)
            <4>1. 2 * i \in 0..n /\ 2 * j - n \in 0..n /\ L[i] = F[2 * i] /\ L[j] = d + G[2 * j - n]
                BY <1>2, <3>2
            <4>2. F[2 * i] <= d /\ 0 <= G[2 * j - n] /\ F[2 * i] \in Int /\ G[2 * j - n] \in Int
                BY <1>1, <2>2, <4>1
            <4> QED
                BY <1>1, <4>1, <4>2
        <3>3. CASE ~(2 * i < n)
            <4>1. ~(2 * j < n) /\ 2 * i - n \in 0..n /\ 2 * j - n \in 0..n /\ 2 * i - n <= 2 * j - n
                BY <2>3, <3>3
            <4>2. L[i] = d + G[2 * i - n] /\ L[j] = d + G[2 * j - n]
                BY <1>2, <3>3, <4>1
            <4>3. G[2 * i - n] <= G[2 * j - n] /\ G[2 * i - n] \in Int /\ G[2 * j - n] \in Int
                BY <1>1, <2>1, <4>1
            <4> QED
                BY <1>1, <4>2, <4>3
        <3> QED
            BY <3>1, <3>2, <3>3
    <2> QED
        BY <2>3 DEF Rising
<1> QED
    BY <1>1, <1>3, <1>4, <1>5, <1>6, <1>7 DEF Shapely

-----------------------------------------------------------------------------
(***************************************************************************)
(* Powers.                                                                 *)
(***************************************************************************)
LEMMA Times ==
    ASSUME NEW a \in Nat, NEW b \in Nat, NEW c \in Nat, a <= b
    PROVE  a * c \in Nat /\ b * c \in Nat /\ a * c <= b * c /\ c * a <= c * b
<1>1. PICK e \in Nat : b = a + e
    <2>1. b - a \in Nat /\ b = a + (b - a)
        OBVIOUS
    <2> QED
        BY <2>1
<1>2. (a + e) * c = a * c + e * c /\ e * c \in Nat /\ a * c \in Nat /\ c * a = a * c
    OBVIOUS
<1>3. c * (a + e) = (a + e) * c
    OBVIOUS
<1> QED
    BY <1>1, <1>2, <1>3

LEMMA PowerCases ==
    ASSUME NEW x \in Int
    PROVE  /\ Power(x, 2) = x * x /\ Power(x, 3) = x * x * x
           /\ Power(x, 4) = x * x * x * x /\ Power(x, 5) = x * x * x * x * x
BY DEF Power

LEMMA PowerNat ==
    ASSUME NEW x \in Nat, NEW k \in 2..5
    PROVE  Power(x, k) \in Nat /\ (x # 0 => Power(x, k) # 0) /\ Power(0, k) = 0
<1>1. x * x \in Nat /\ x * x * x \in Nat /\ x * x * x * x \in Nat /\ x * x * x * x * x \in Nat
    OBVIOUS
<1>2. ASSUME x # 0
      PROVE  x * x # 0 /\ x * x * x # 0 /\ x * x * x * x # 0 /\ x * x * x * x * x # 0
    <2>1. \A y \in Nat : y # 0 => y * x # 0
        BY <1>2
    <2> QED
        BY <1>1, <1>2, <2>1
<1>3. k = 2 \/ k = 3 \/ k = 4 \/ k = 5
    OBVIOUS
<1> QED
    BY <1>1, <1>2, <1>3 DEF Power

(* x^k grows with x. *)
LEMMA PowerGrows ==
    ASSUME NEW a \in Nat, NEW b \in Nat, a <= b, NEW k \in 2..5
    PROVE  Power(a, k) <= Power(b, k)
<1>1. \A x, y \in Nat : x <= y => x * a \in Nat /\ y * b \in Nat /\ x * a <= y * b
    <2> SUFFICES ASSUME NEW x \in Nat, NEW y \in Nat, x <= y
                 PROVE  x * a \in Nat /\ y * b \in Nat /\ x * a <= y * b
        OBVIOUS
    <2>1. x * a <= y * a /\ x * a \in Nat /\ y * a \in Nat
        BY Times
    <2>2. y * a <= y * b /\ y * b \in Nat
        BY Times
    <2> QED
        BY <2>1, <2>2
<1>2. a * a \in Nat /\ b * b \in Nat /\ a * a <= b * b
    BY <1>1
<1>3. a * a * a \in Nat /\ b * b * b \in Nat /\ a * a * a <= b * b * b
    BY <1>1, <1>2
<1>4. a * a * a * a \in Nat /\ b * b * b * b \in Nat /\ a * a * a * a <= b * b * b * b
    BY <1>1, <1>3
<1>5. a * a * a * a * a <= b * b * b * b * b
    BY <1>1, <1>4
<1> QED
    BY <1>2, <1>3, <1>4, <1>5 DEF Power

(* A power of the opposite. *)
LEMMA PowerSign ==
    ASSUME NEW x \in Int, NEW k \in 2..5
    PROVE  Sign(k) * Power(-x, k) = -Power(x, k) /\ Power(x, k) \in Int
<1>1. Sign(2) = -1 /\ Sign(3) = 1 /\ Sign(4) = -1 /\ Sign(5) = 1
    BY DEF Sign
<1>2. /\ (-x) * (-x) = x * x
      /\ (-x) * (-x) * (-x) = -(x * x * x)
      /\ (-x) * (-x) * (-x) * (-x) = x * x * x * x
      /\ (-x) * (-x) * (-x) * (-x) * (-x) = -(x * x * x * x * x)
    OBVIOUS
<1>3. x * x \in Int /\ x * x * x \in Int /\ x * x * x * x \in Int /\ x * x * x * x * x \in Int
    OBVIOUS
<1>4. k = 2 \/ k = 3 \/ k = 4 \/ k = 5
    OBVIOUS
<1> QED
    BY <1>1, <1>2, <1>3, <1>4 DEF Power

(* No step of a power is steeper than 5. *)
LEMMA PowerStep ==
    ASSUME NEW n \in Nat \ {0}, NEW i \in 0..(n - 1), NEW k \in 2..5
    PROVE  n * (Power(i + 1, k) - Power(i, k)) <= 6 * Power(n, k)
<1> DEFINE a == i + 1
<1>1. a \in Nat /\ i \in Nat /\ a <= n /\ i <= a /\ a = i + 1 /\ n \in Nat
    OBVIOUS
<1> HIDE DEF a
<1> DEFINE Ok(p, q, r, c) == p \in Nat /\ q \in Nat /\ r \in Nat /\ p - q <= c * r /\ q <= p /\ p = r * a
<1>2. Ok(a * a, i * i, a, 2)
    <2>1. a * a - i * i = a + i
        BY <1>1
    <2> QED
        BY <1>1, <2>1
<1>3. ASSUME NEW p, NEW q, NEW r, NEW c \in 2..4, Ok(p, q, r, c)
      PROVE  Ok(p * a, q * i, p, c + 1)
    <2>1. p * a \in Nat /\ q * i \in Nat /\ r * a \in Nat /\ c * r \in Nat
        BY <1>1, <1>3
    <2>2. p * a - q * i = (p - q) * a + q
        <3>1. p * a - q * i = (p - q) * a + q * (a - i)
            BY <1>1, <1>3
        <3>2. a - i = 1 /\ q * 1 = q
            BY <1>1, <1>3
        <3> QED
            BY <3>1, <3>2
    <2>3. (p - q) * a <= (c * r) * a
        BY Times, <1>1, <1>3, <2>1
    <2>4. (c * r) * a = c * p
        BY <1>1, <1>3
    <2>5. (p - q) * a \in Nat /\ (c + 1) * p = c * p + p /\ c * p \in Nat
        BY <1>1, <1>3
    <2>6. q * i <= p * a
        <3>1. q * i <= p * i /\ p * i \in Nat
            BY Times, <1>1, <1>3
        <3>2. p * i <= p * a
            BY Times, <1>1, <1>3
        <3> QED
            BY <2>1, <3>1, <3>2
    <2> QED
        BY <1>3, <2>1, <2>2, <2>3, <2>4, <2>5, <2>6
<1>7. ASSUME NEW p, NEW q, NEW r, NEW c \in 2..5, NEW s \in Nat, Ok(p, q, r, c), r <= s
      PROVE  n * (p - q) <= 6 * (s * n)
    <2>1. n * (p - q) <= n * (c * r)
        BY Times, <1>1, <1>7
    <2>2. n * (c * r) = c * (r * n) /\ r * n \in Nat /\ s * n \in Nat
        BY <1>1, <1>7
    <2>3. r * n <= s * n
        BY Times, <1>1, <1>7
    <2>4. c * (r * n) <= 6 * (s * n)
        <3>1. c * (r * n) <= 6 * (r * n)
            BY Times, <2>2
        <3> QED
            BY <2>2, <2>3, <3>1
    <2>5. n * (p - q) \in Int /\ n * (c * r) \in Int
        BY <1>1, <1>7
    <2> QED
        BY <2>1, <2>2, <2>4, <2>5
<1> HIDE DEF Ok
<1>4. Ok(a * a * a, i * i * i, a * a, 3)
    BY <1>2, <1>3, 2 + 1 = 3
<1>5. Ok(a * a * a * a, i * i * i * i, a * a * a, 4)
    BY <1>3, <1>4, 3 + 1 = 4
<1>6. Ok(a * a * a * a * a, i * i * i * i * i, a * a * a * a, 5)
    BY <1>3, <1>5, 4 + 1 = 5
<1>8. /\ a <= n /\ n \in Nat
      /\ a * a <= n * n /\ n * n \in Nat
      /\ a * a * a <= n * n * n /\ n * n * n \in Nat
      /\ a * a * a * a <= n * n * n * n /\ n * n * n * n \in Nat
    <2>1. /\ Power(a, 2) <= Power(n, 2) /\ Power(a, 3) <= Power(n, 3) /\ Power(a, 4) <= Power(n, 4)
          /\ Power(n, 2) \in Nat /\ Power(n, 3) \in Nat /\ Power(n, 4) \in Nat
        BY PowerGrows, PowerNat, <1>1
    <2> QED
        BY PowerCases, <1>1, <2>1
<1>9. /\ n * (a * a - i * i) <= 6 * (n * n)
      /\ n * (a * a * a - i * i * i) <= 6 * (n * n * n)
      /\ n * (a * a * a * a - i * i * i * i) <= 6 * (n * n * n * n)
      /\ n * (a * a * a * a * a - i * i * i * i * i) <= 6 * (n * n * n * n * n)
    BY <1>2, <1>4, <1>5, <1>6, <1>7, <1>8
<1>10. k = 2 \/ k = 3 \/ k = 4 \/ k = 5
    OBVIOUS
<1>11. /\ Power(a, 2) = a * a /\ Power(a, 3) = a * a * a
       /\ Power(a, 4) = a * a * a * a /\ Power(a, 5) = a * a * a * a * a
    BY PowerCases, <1>1
<1>12. /\ Power(i, 2) = i * i /\ Power(i, 3) = i * i * i
       /\ Power(i, 4) = i * i * i * i /\ Power(i, 5) = i * i * i * i * i
    BY PowerCases, <1>1
<1>13. /\ Power(n, 2) = n * n /\ Power(n, 3) = n * n * n
       /\ Power(n, 4) = n * n * n * n /\ Power(n, 5) = n * n * n * n * n
    BY PowerCases, <1>1
<1>14. n * (Power(a, k) - Power(i, k)) <= 6 * Power(n, k)
    BY <1>9, <1>10, <1>11, <1>12, <1>13
<1> QED
    BY <1>1, <1>14

-----------------------------------------------------------------------------
(***************************************************************************)
(* The shapes curves are put together from: the line, the powers, Back and *)
(* Bounce.                                                                 *)
(***************************************************************************)
LEMMA LineShape ==
    ASSUME NEW n \in Nat \ {0}
    PROVE  LET F == [i \in 0..n |-> i] IN Shapely(F, n, n) /\ Within(F, n, n) /\ Rising(F, n)
<1> DEFINE F == [i \in 0..n |-> i]
<1>1. \A i \in 0..n : F[i] = i
    OBVIOUS
<1>2. F \in [0..n -> Int] /\ F[0] = 0 /\ F[n] = n
    OBVIOUS
<1> HIDE DEF F
<1>3. ASSUME NEW i \in 0..(n - 1)
      PROVE  n * (F[i + 1] - F[i]) <= 6 * n /\ n * (F[i] - F[i + 1]) <= 6 * n
    <2>1. i \in 0..n /\ i + 1 \in 0..n
        OBVIOUS
    <2>2. F[i + 1] - F[i] = 1 /\ F[i] - F[i + 1] = -1
        BY <1>1, <2>1
    <2> QED
        BY <2>2
<1>4. Shapely(F, n, n)
    BY <1>2, <1>3 DEF Shapely
<1>5. Within(F, n, n) /\ Rising(F, n)
    BY <1>1 DEF Within, Rising
<1> QED
    BY <1>4, <1>5 DEF F

LEMMA PowerShape ==
    ASSUME NEW n \in Nat \ {0}, NEW k \in 2..5
    PROVE  LET F == [i \in 0..n |-> Power(i, k)]
           IN  Shapely(F, Power(n, k), n) /\ Within(F, Power(n, k), n) /\ Rising(F, n)
<1> DEFINE F == [i \in 0..n |-> Power(i, k)]
           d == Power(n, k)
<1>1. \A i \in 0..n : F[i] = Power(i, k) /\ F[i] \in Nat
    BY PowerNat
<1>2. F \in [0..n -> Int] /\ F[0] = 0 /\ F[n] = d /\ d \in Nat \ {0}
    BY PowerNat
<1>3. Rising(F, n)
    BY PowerGrows, <1>1 DEF Rising
<1>4. Within(F, d, n)
    <2>1. \A i \in 0..n : i <= n /\ n \in 0..n
        OBVIOUS
    <2> QED
        BY <1>1, <1>2, <1>3, <2>1 DEF Within, Rising
<1> HIDE DEF d, F
<1>5. ASSUME NEW i \in 0..(n - 1)
      PROVE  n * (F[i + 1] - F[i]) <= 6 * d /\ n * (F[i] - F[i + 1]) <= 6 * d
    <2>1. i \in 0..n /\ i + 1 \in 0..n /\ i <= i + 1 /\ F[i] \in Nat /\ F[i + 1] \in Nat
        BY <1>1
    <2>2. n * (F[i + 1] - F[i]) <= 6 * d
        BY PowerStep, <1>1, <2>1 DEF d
    <2>3. F[i] <= F[i + 1]
        BY <1>3, <2>1 DEF Rising
    <2>4. n * (F[i] - F[i + 1]) <= 0
        BY <2>1, <2>3
    <2> QED
        BY <1>2, <2>2, <2>4
<1> QED
    BY <1>2, <1>3, <1>4, <1>5 DEF Shapely, F, d

LEMMA TimesInt ==
    ASSUME NEW a \in Int, NEW b \in Int, NEW c \in Nat, a <= b
    PROVE  c * a <= c * b /\ a * c <= b * c
<1>1. b - a \in Nat /\ c * (b - a) \in Nat
    OBVIOUS
<1>2. c * (b - a) = c * b - c * a /\ c * a \in Int /\ c * b \in Int /\ a * c = c * a /\ b * c = c * b
    OBVIOUS
<1> QED
    BY <1>1, <1>2

(* Back is a * i^3 - b * n * i^2 over (a - b) * n^3.                       *)
BackF(a, b, n) == [i \in 0..n |-> i * i * (a * i - b * n)]
BackD(a, b, n) == (a - b) * n * n * n

LEMMA BackShape ==
    ASSUME NEW n \in Nat \ {0}, NEW a \in Nat, NEW b \in Nat, (a = 27 /\ b = 17) \/ (a = 1437 /\ b = 1037)
    PROVE  Shapely(BackF(a, b, n), BackD(a, b, n), n)
<1> DEFINE F == [i \in 0..n |-> i * i * (a * i - b * n)]
           d == (a - b) * n * n * n
<1>0. n \in Nat /\ n > 0 /\ a - b \in Nat \ {0}
    OBVIOUS
<1>1. \A i \in 0..n : F[i] = i * i * (a * i - b * n) /\ F[i] \in Int
    OBVIOUS
<1>2. F[0] = 0 /\ F[n] = d
    <2>1. n * n * (a * n - b * n) = (a - b) * n * n * n /\ 0 * 0 * (a * 0 - b * n) = 0
        OBVIOUS
    <2> QED
        BY <1>1, <2>1
<1>3. d \in Nat \ {0}
    <2>1. \A x, y \in Nat \ {0} : x * y \in Nat \ {0}
        OBVIOUS
    <2> QED
        BY <1>0, <2>1
<1>4. F \in [0..n -> Int]
    OBVIOUS
<1> HIDE DEF F
<1>5. ASSUME NEW i \in 0..(n - 1)
      PROVE  n * (F[i + 1] - F[i]) <= 6 * d /\ n * (F[i] - F[i + 1]) <= 6 * d
    <2> DEFINE e == F[i + 1] - F[i]
               ii == i * i
               ni == n * i
               nn == n * n
    <2>1. i \in 0..n /\ i + 1 \in 0..n /\ i \in Nat
        OBVIOUS
    <2>2. e = 3 * a * ii + 3 * a * i + a - 2 * b * ni - b * n
        <3>1. /\ (i + 1) * (i + 1) * (a * (i + 1) - b * n) - i * i * (a * i - b * n)
                  = 3 * a * (i * i) + 3 * a * i + a - 2 * b * (n * i) - b * n
            BY <1>0, <2>1
        <3> QED
            BY <1>1, <2>1, <3>1
    <2>3. ii \in Nat /\ ni \in Nat /\ nn \in Nat /\ ii + i <= ni /\ ni <= nn - n /\ n <= nn
        <3>1. i * (i + 1) <= i * n /\ n * i <= n * (n - 1) /\ n * 1 <= n * n
            BY TimesInt, <1>0, <2>1
        <3> QED
            BY <1>0, <2>1, <3>1
    <2>4. e \in Int
        BY <1>1, <2>1
    <2> HIDE DEF e, ii, ni, nn
    <2>5. e <= 6 * (a - b) * nn /\ -e <= 6 * (a - b) * nn
        <3>1. CASE a = 27 /\ b = 17
            BY <1>0, <2>1, <2>2, <2>3, <3>1
        <3>2. CASE a = 1437 /\ b = 1037
            BY <1>0, <2>1, <2>2, <2>3, <3>2
        <3> QED
            BY <3>1, <3>2
    <2> DEFINE m == 6 * (a - b) * nn
    <2>6. m \in Int /\ n * m = 6 * d
        <3>1. n * (6 * (a - b) * (n * n)) = 6 * ((a - b) * n * n * n)
            BY <1>0
        <3> QED
            BY <1>0, <3>1 DEF nn
    <2> HIDE DEF m
    <2>7. n * e <= n * m /\ n * (-e) <= n * m
        BY TimesInt, <1>0, <2>4, <2>5, <2>6 DEF m
    <2>8. F[i] - F[i + 1] = -e /\ F[i + 1] - F[i] = e
        BY <1>1, <2>1 DEF e
    <2> QED
        BY <2>6, <2>7, <2>8
<1> HIDE DEF d
<1>6. Shapely(F, d, n)
    BY <1>2, <1>3, <1>4, <1>5 DEF Shapely
<1> QED
    BY <1>6 DEF F, d, BackF, BackD

(* Bounce, over y = 11 * i: four parabolas.                                *)
Fall(y) == 4 * y * y
Hop(y, m, r) == 4 * (y - m) * (y - m) + r
Settle(y, n) == (2 * y - 21 * n) * (2 * y - 21 * n) + 63 * n * n
Hops(y, n) ==
    IF y < 8 * n THEN Hop(y, 6 * n, 48 * n * n)
    ELSE IF y < 10 * n THEN Hop(y, 9 * n, 60 * n * n) ELSE Settle(y, n)

(* How far a parabola rises or falls between two points.                   *)
LEMMA Slope ==
    ASSUME NEW n \in Nat, NEW x \in Int, NEW y \in Int, NEW m \in Int, NEW k \in Nat, x <= y,
           x + y - 2 * m <= k * n, 2 * m - x - y <= k * n
    PROVE  /\ (y - m) * (y - m) - (x - m) * (x - m) <= k * (n * y - n * x)
           /\ (x - m) * (x - m) - (y - m) * (y - m) <= k * (n * y - n * x)
<1> DEFINE e == y - x
           s == x + y - 2 * m
           t == k * n
<1>1. (y - m) * (y - m) - (x - m) * (x - m) = e * s
    OBVIOUS
<1>2. k * (n * y - n * x) = e * t
    OBVIOUS
<1>3. e \in Nat /\ s \in Int /\ t \in Int /\ s <= t /\ -s <= t
    OBVIOUS
<1>4. (x - m) * (x - m) - (y - m) * (y - m) = e * (-s)
    OBVIOUS
<1> HIDE DEF e, s, t
<1>5. e * s <= e * t /\ e * (-s) <= e * t
    BY TimesInt, <1>3
<1> QED
    BY <1>1, <1>2, <1>4, <1>5

(* No piece is steeper than 32 n, and those that hop not steeper than 16 n.*)
LEMMA PieceSlopes ==
    ASSUME NEW n \in Nat, NEW x \in Nat, NEW y \in Nat, x <= y
    PROVE  /\ y <= 4 * n => /\ Fall(y) - Fall(x) <= 32 * (n * y - n * x)
                            /\ Fall(x) - Fall(y) <= 32 * (n * y - n * x)
           /\ 4 * n <= x /\ y <= 8 * n =>
                LET f(z) == Hop(z, 6 * n, 48 * n * n)
                IN  f(y) - f(x) <= 16 * (n * y - n * x) /\ f(x) - f(y) <= 16 * (n * y - n * x)
           /\ 8 * n <= x /\ y <= 10 * n =>
                LET f(z) == Hop(z, 9 * n, 60 * n * n)
                IN  f(y) - f(x) <= 16 * (n * y - n * x) /\ f(x) - f(y) <= 16 * (n * y - n * x)
           /\ 10 * n <= x /\ y <= 11 * n => /\ Settle(y, n) - Settle(x, n) <= 16 * (n * y - n * x)
                                            /\ Settle(x, n) - Settle(y, n) <= 16 * (n * y - n * x)
<1> DEFINE g == n * y - n * x
<1>0. g \in Nat
    <2>1. n * x <= n * y /\ n * x \in Nat /\ n * y \in Nat
        BY TimesInt
    <2> QED
        BY <2>1
<1>1. ASSUME y <= 4 * n
      PROVE  Fall(y) - Fall(x) <= 32 * g /\ Fall(x) - Fall(y) <= 32 * g
    <2>1. /\ (y - 0) * (y - 0) - (x - 0) * (x - 0) <= 8 * (n * y - n * x)
          /\ (x - 0) * (x - 0) - (y - 0) * (y - 0) <= 8 * (n * y - n * x)
        BY Slope, <1>1
    <2>2. y * y - x * x <= 8 * g /\ x * x - y * y <= 8 * g
        BY <2>1
    <2>3. Fall(y) = 4 * (y * y) /\ Fall(x) = 4 * (x * x) /\ y * y \in Int /\ x * x \in Int
        BY DEF Fall
    <2> HIDE DEF g
    <2> QED
        BY <1>0, <2>2, <2>3
<1>2. ASSUME NEW m \in Int, NEW r \in Int, x + y - 2 * m <= 4 * n, 2 * m - x - y <= 4 * n
      PROVE  Hop(y, m, r) - Hop(x, m, r) <= 16 * g /\ Hop(x, m, r) - Hop(y, m, r) <= 16 * g
    <2>1. /\ (y - m) * (y - m) - (x - m) * (x - m) <= 4 * g
          /\ (x - m) * (x - m) - (y - m) * (y - m) <= 4 * g
        BY Slope, <1>2
    <2>2. /\ Hop(y, m, r) = 4 * ((y - m) * (y - m)) + r /\ Hop(x, m, r) = 4 * ((x - m) * (x - m)) + r
          /\ (y - m) * (y - m) \in Int /\ (x - m) * (x - m) \in Int
        BY DEF Hop
    <2> HIDE DEF g
    <2> QED
        BY <1>0, <1>2, <2>1, <2>2
<1>3. ASSUME 10 * n <= x, y <= 11 * n
      PROVE  Settle(y, n) - Settle(x, n) <= 16 * g /\ Settle(x, n) - Settle(y, n) <= 16 * g
    <2> DEFINE u == 2 * x
               v == 2 * y
               m == 21 * n
    <2>1. /\ (v - m) * (v - m) - (u - m) * (u - m) <= 2 * (n * v - n * u)
          /\ (u - m) * (u - m) - (v - m) * (v - m) <= 2 * (n * v - n * u)
        <3>1. /\ u \in Int /\ v \in Int /\ m \in Int /\ u <= v
              /\ u + v - 2 * m <= 2 * n /\ 2 * m - u - v <= 2 * n
            BY <1>3
        <3> HIDE DEF u, v, m
        <3> QED
            BY Slope, <3>1
    <2>2. 2 * (n * v - n * u) = 4 * g
        OBVIOUS
    <2>3. /\ Settle(y, n) = (v - m) * (v - m) + 63 * n * n /\ Settle(x, n) = (u - m) * (u - m) + 63 * n * n
          /\ (v - m) * (v - m) \in Int /\ (u - m) * (u - m) \in Int /\ 63 * n * n \in Int
        BY DEF Settle
    <2> HIDE DEF g, u, v, m
    <2> QED
        BY <1>0, <2>1, <2>2, <2>3
<1> HIDE DEF g
<1>4. 48 * n * n \in Int /\ 60 * n * n \in Int /\ 6 * n \in Int /\ 9 * n \in Int
    OBVIOUS
<1>5. ASSUME 4 * n <= x, y <= 8 * n
      PROVE  /\ Hop(y, 6 * n, 48 * n * n) - Hop(x, 6 * n, 48 * n * n) <= 16 * g
             /\ Hop(x, 6 * n, 48 * n * n) - Hop(y, 6 * n, 48 * n * n) <= 16 * g
    <2>1. x + y - 2 * (6 * n) <= 4 * n /\ 2 * (6 * n) - x - y <= 4 * n
        BY <1>5
    <2> QED
        BY <1>2, <1>4, <2>1
<1>6. ASSUME 8 * n <= x, y <= 10 * n
      PROVE  /\ Hop(y, 9 * n, 60 * n * n) - Hop(x, 9 * n, 60 * n * n) <= 16 * g
             /\ Hop(x, 9 * n, 60 * n * n) - Hop(y, 9 * n, 60 * n * n) <= 16 * g
    <2>1. x + y - 2 * (9 * n) <= 4 * n /\ 2 * (9 * n) - x - y <= 4 * n
        BY <1>6
    <2> QED
        BY <1>2, <1>4, <2>1
<1> QED
    BY <1>1, <1>3, <1>5, <1>6 DEF g

(* The pieces meet, so that the whole of them is not steeper either.       *)
LEMMA HopsSlope ==
    ASSUME NEW n \in Nat, NEW x \in Nat, NEW y \in Nat, x <= y, 4 * n <= x, y <= 11 * n
    PROVE  /\ Hops(y, n) - Hops(x, n) <= 16 * (n * y - n * x)
           /\ Hops(x, n) - Hops(y, n) <= 16 * (n * y - n * x)
           /\ Hops(x, n) \in 48 * n * n .. 64 * n * n
           /\ Hops(4 * n, n) = 64 * n * n /\ Hops(11 * n, n) = 64 * n * n
<1> DEFINE A(z) == Hop(z, 6 * n, 48 * n * n)
           B(z) == Hop(z, 9 * n, 60 * n * n)
           C(z) == Settle(z, n)
           q == n * n
<1>1. /\ A(4 * n) = 64 * q /\ A(8 * n) = 64 * q /\ B(8 * n) = 64 * q /\ B(10 * n) = 64 * q
      /\ C(10 * n) = 64 * q /\ C(11 * n) = 64 * q
    BY DEF Hop, Settle
<1>2. \A z \in Int : A(z) \in Int /\ B(z) \in Int /\ C(z) \in Int
    BY DEF Hop, Settle
<1>3. \A z \in Int : Hops(z, n) = IF z < 8 * n THEN A(z) ELSE IF z < 10 * n THEN B(z) ELSE C(z)
    BY DEF Hops
<1>4. q \in Nat /\ n * (8 * n) = 8 * q /\ n * (10 * n) = 10 * q /\ n * x \in Nat /\ n * y \in Nat
    OBVIOUS
<1>5. \A v, w \in Nat : v <= w =>
         /\ 4 * n <= v /\ w <= 8 * n => A(w) - A(v) <= 16 * (n * w - n * v) /\ A(v) - A(w) <= 16 * (n * w - n * v)
         /\ 8 * n <= v /\ w <= 10 * n => B(w) - B(v) <= 16 * (n * w - n * v) /\ B(v) - B(w) <= 16 * (n * w - n * v)
         /\ 10 * n <= v /\ w <= 11 * n => C(w) - C(v) <= 16 * (n * w - n * v) /\ C(v) - C(w) <= 16 * (n * w - n * v)
    BY PieceSlopes
<1>6. A(x) >= 48 * q /\ B(x) >= 60 * q /\ C(x) >= 63 * q
    <2>1. \A z \in Int : z * z >= 0
        OBVIOUS
    <2>2. (x - 6 * n) * (x - 6 * n) >= 0 /\ (x - 9 * n) * (x - 9 * n) >= 0
          /\ (2 * x - 21 * n) * (2 * x - 21 * n) >= 0
        BY <2>1
    <2> QED
        BY <2>2 DEF Hop, Settle
<1>7. A(x) <= 64 * q \/ ~(x < 8 * n)
    <2>1. ASSUME x < 8 * n
          PROVE  (x - 6 * n) * (x - 6 * n) <= 4 * q
        <3>1. (x - 4 * n) * (8 * n - x) >= 0
            BY <2>1
        <3> QED
            BY <3>1
    <2> QED
        BY <2>1 DEF Hop
<1>8. B(x) <= 64 * q \/ ~(x < 10 * n /\ 8 * n <= x)
    <2>1. ASSUME x < 10 * n, 8 * n <= x
          PROVE  (x - 9 * n) * (x - 9 * n) <= q
        <3>1. (x - 8 * n) * (10 * n - x) >= 0
            BY <2>1
        <3> QED
            BY <3>1
    <2> QED
        BY <2>1 DEF Hop
<1>9. C(x) <= 64 * q \/ ~(10 * n <= x)
    <2>1. ASSUME 10 * n <= x
          PROVE  (2 * x - 21 * n) * (2 * x - 21 * n) <= q
        <3>1. (2 * x - 20 * n) * (22 * n - 2 * x) >= 0
            BY <2>1
        <3> QED
            BY <3>1
    <2> QED
        BY <2>1 DEF Settle
<1> HIDE DEF A, B, C, q
<1>10. Hops(x, n) \in 48 * q .. 64 * q
    BY <1>2, <1>3, <1>4, <1>6, <1>7, <1>8, <1>9
<1>11. Hops(4 * n, n) = 64 * q /\ Hops(11 * n, n) = 64 * q
    <2>1. n = 0 \/ (4 * n < 8 * n /\ ~(11 * n < 8 * n) /\ ~(11 * n < 10 * n))
        OBVIOUS
    <2>2. n = 0 => 4 * n = 11 * n /\ ~(11 * n < 8 * n) /\ ~(11 * n < 10 * n)
        OBVIOUS
    <2> QED
        BY <1>1, <1>3, <2>1, <2>2
<1> DEFINE P(v, w, a, b) == b - a <= 16 * (n * w - n * v) /\ a - b <= 16 * (n * w - n * v)
<1>12. P(x, y, Hops(x, n), Hops(y, n))
    <2>0. 8 * n \in Nat /\ 10 * n \in Nat /\ 8 * n <= 10 * n /\ 4 * n <= 8 * n /\ 10 * n <= 11 * n
        OBVIOUS
    <2>1. CASE y < 8 * n
        BY <1>3, <1>5, <2>1
    <2>2. CASE x < 8 * n /\ 8 * n <= y /\ y < 10 * n
        <3>1. P(x, 8 * n, A(x), A(8 * n)) /\ P(8 * n, y, B(8 * n), B(y))
            BY <1>5, <2>0, <2>2
        <3> QED
            BY <1>1, <1>2, <1>3, <1>4, <2>2, <3>1
    <2>3. CASE x < 8 * n /\ 10 * n <= y
        <3>1. P(x, 8 * n, A(x), A(8 * n)) /\ P(8 * n, 10 * n, B(8 * n), B(10 * n)) /\ P(10 * n, y, C(10 * n), C(y))
            BY <1>5, <2>0, <2>3
        <3> QED
            BY <1>1, <1>2, <1>3, <1>4, <2>0, <2>3, <3>1
    <2>4. CASE 8 * n <= x /\ y < 10 * n
        BY <1>3, <1>5, <2>4
    <2>5. CASE 8 * n <= x /\ x < 10 * n /\ 10 * n <= y
        <3>1. P(x, 10 * n, B(x), B(10 * n)) /\ P(10 * n, y, C(10 * n), C(y))
            BY <1>5, <2>0, <2>5
        <3> QED
            BY <1>1, <1>2, <1>3, <1>4, <2>5, <3>1
    <2>6. CASE 10 * n <= x
        BY <1>3, <1>5, <2>0, <2>6
    <2> QED
        BY <2>1, <2>2, <2>3, <2>4, <2>5, <2>6
<1>13. 48 * n * n = 48 * q /\ 64 * n * n = 64 * q
    BY DEF q
<1> QED
    BY <1>10, <1>11, <1>12, <1>13

BounceAt(i, n, c) ==
    IF 11 * i < 4 * n THEN Fall(11 * i) ELSE c * Hops(11 * i, n) - (c - 1) * 64 * n * n

LEMMA BounceShape ==
    ASSUME NEW n \in Nat \ {0}, NEW c \in {1, 2}
    PROVE  LET F == [i \in 0..n |-> BounceAt(i, n, c)]
           IN  Shapely(F, 64 * n * n, n) /\ Within(F, 64 * n * n, n)
<1> DEFINE F == [i \in 0..n |-> BounceAt(i, n, c)]
           q == n * n
           d == 64 * n * n
           G(y) == IF y < 4 * n THEN Fall(y) ELSE c * Hops(y, n) - (c - 1) * 64 * n * n
<1>1. \A i \in 0..n : 11 * i \in Nat /\ 11 * i <= 11 * n /\ F[i] = G(11 * i)
    BY DEF BounceAt
<1>2. d = 64 * q /\ q \in Nat \ {0} /\ d \in Nat \ {0} /\ n \in Nat /\ 64 * n * n = 64 * q
    <2>1. \A x \in Nat \ {0} : x * n \in Nat \ {0}
        OBVIOUS
    <2> QED
        BY <2>1
<1>3. ASSUME NEW y \in Nat, 4 * n <= y, y <= 11 * n
      PROVE  Hops(y, n) \in 48 * q .. 64 * q /\ Hops(11 * n, n) = 64 * q /\ Hops(4 * n, n) = 64 * q
    <2>1. 48 * n * n = 48 * q /\ 64 * n * n = 64 * q
        OBVIOUS
    <2>2. Hops(y, n) \in 48 * n * n .. 64 * n * n /\ Hops(4 * n, n) = 64 * n * n /\ Hops(11 * n, n) = 64 * n * n
        <3>1. n \in Nat /\ y <= y
            OBVIOUS
        <3> QED
            BY HopsSlope, <1>3, <3>1
    <2> QED
        BY <2>1, <2>2
<1>4. ASSUME NEW y \in Nat, y <= 4 * n
      PROVE  Fall(y) \in 0..(64 * q) /\ Fall(4 * n) = 64 * q /\ Fall(0) = 0
    <2>1. y * y <= y * (4 * n) /\ y * (4 * n) <= (4 * n) * (4 * n) /\ y * y \in Nat
        BY TimesInt, <1>2, <1>4
    <2>2. (4 * n) * (4 * n) = 16 * q /\ Fall(y) = 4 * (y * y)
        BY DEF Fall
    <2> QED
        BY <2>1, <2>2 DEF Fall
<1>5. ASSUME NEW y \in Nat, 4 * n <= y
      PROVE  \/ c = 1 /\ G(y) = Hops(y, n)
             \/ c = 2 /\ G(y) = 2 * Hops(y, n) - 64 * q
    <2>1. CASE c = 1
        <3>1. (1 - 1) * 64 * n * n = 0
            OBVIOUS
        <3>2. Hops(y, n) \in Int
            BY DEF Hops, Hop, Settle
        <3>3. G(y) = 1 * Hops(y, n) - (1 - 1) * 64 * n * n
            BY <1>5, <2>1
        <3> HIDE DEF G
        <3> QED
            BY <2>1, <3>1, <3>2, <3>3
    <2>2. CASE c = 2
        <3>1. (2 - 1) * 64 * n * n = 64 * q
            OBVIOUS
        <3> QED
            BY <1>2, <1>5, <2>2, <3>1
    <2> QED
        BY <2>1, <2>2
<1>6. \A y \in Nat : y < 4 * n => G(y) = Fall(y)
    OBVIOUS
<1> HIDE DEF G, q, F
<1>7. ASSUME NEW y \in Nat, y <= 11 * n
      PROVE  G(y) \in 0..(64 * q)
    <2>1. CASE y < 4 * n
        BY <1>2, <1>4, <1>6, <2>1
    <2>2. CASE 4 * n <= y
        BY <1>2, <1>3, <1>5, <1>7, <2>2
    <2> QED
        BY <1>2, <2>1, <2>2
<1>8. G(0) = 0 /\ G(11 * n) = 64 * q
    <2>1. 0 < 4 * n /\ 0 <= 4 * n /\ 4 * n <= 11 * n /\ 11 * n \in Nat
        BY <1>2
    <2> QED
        BY <1>2, <1>3, <1>4, <1>5, <1>6, <2>1
<1>9. F[0] = 0 /\ F[n] = d
    <2>1. 0 \in 0..n /\ n \in 0..n /\ 11 * 0 = 0
        OBVIOUS
    <2> QED
        BY <1>1, <1>2, <1>8, <2>1
<1>10. Within(F, d, n)
    BY <1>1, <1>2, <1>7 DEF Within
<1>11. F \in [0..n -> Int]
    <2>1. \A i \in 0..n : F[i] \in Int
        BY <1>10, <1>2 DEF Within
    <2> QED
        BY <2>1 DEF F
<1>12. ASSUME NEW x \in Nat, NEW y \in Nat, x <= y, y <= 11 * n
       PROVE  /\ G(y) - G(x) <= 32 * (n * y - n * x)
              /\ G(x) - G(y) <= 32 * (n * y - n * x)
    <2> DEFINE P(v, w, a, b) == b - a <= 32 * (n * w - n * v) /\ a - b <= 32 * (n * w - n * v)
    <2>0. n * x \in Nat /\ n * y \in Nat /\ n * x <= n * y /\ n * (4 * n) = 4 * q /\ 4 * n \in Nat
        BY TimesInt, <1>2, <1>12 DEF q
    <2>1. ASSUME NEW v \in Nat, NEW w \in Nat, v <= w, w <= 4 * n
          PROVE  P(v, w, Fall(v), Fall(w))
        BY PieceSlopes, <1>2, <2>1
    <2>2. ASSUME NEW v \in Nat, NEW w \in Nat, v <= w, 4 * n <= v, w <= 11 * n
          PROVE  P(v, w, G(v), G(w))
        <3>1. /\ Hops(w, n) - Hops(v, n) <= 16 * (n * w - n * v)
              /\ Hops(v, n) - Hops(w, n) <= 16 * (n * w - n * v)
            BY HopsSlope, <1>2, <2>2
        <3>2. n * v <= n * w /\ n * v \in Nat /\ n * w \in Nat
            BY TimesInt, <1>2, <2>2
        <3>3. Hops(v, n) \in Int /\ Hops(w, n) \in Int
            BY <1>2, <1>3, <2>2
        <3>4. CASE c = 1
            <4>1. G(v) = Hops(v, n) /\ G(w) = Hops(w, n)
                BY <1>2, <1>5, <2>2, <3>4
            <4> QED
                BY <3>1, <3>2, <3>3, <4>1
        <3>5. CASE c = 2
            <4>1. G(v) = 2 * Hops(v, n) - 64 * q /\ G(w) = 2 * Hops(w, n) - 64 * q
                BY <1>2, <1>5, <2>2, <3>5
            <4> QED
                BY <1>2, <3>1, <3>2, <3>3, <4>1
        <3> QED
            BY <3>4, <3>5
    <2>3. CASE y < 4 * n
        <3>1. P(x, y, Fall(x), Fall(y))
            BY <1>2, <1>12, <2>1, <2>3
        <3>2. G(x) = Fall(x) /\ G(y) = Fall(y)
            BY <1>2, <1>6, <1>12, <2>3
        <3> QED
            BY <3>1, <3>2
    <2>4. CASE x < 4 * n /\ 4 * n <= y
        <3>1. P(x, 4 * n, Fall(x), Fall(4 * n))
            BY <1>2, <2>0, <2>1, <2>4
        <3>2. P(4 * n, y, G(4 * n), G(y))
            BY <1>2, <1>12, <2>0, <2>2, <2>4
        <3>3. G(x) = Fall(x) /\ Fall(4 * n) = 64 * q
            BY <1>2, <1>4, <1>6, <2>0, <2>4
        <3>4. G(4 * n) = 64 * q
            BY <1>2, <1>3, <1>5, <2>0, <2>4
        <3>5. G(x) \in Int /\ G(y) \in Int
            BY <1>2, <1>7, <1>12
        <3> QED
            BY <1>2, <2>0, <3>1, <3>2, <3>3, <3>4, <3>5
    <2>5. CASE 4 * n <= x
        BY <1>12, <2>2, <2>5
    <2> QED
        BY <1>2, <2>3, <2>4, <2>5
<1>13. ASSUME NEW i \in 0..(n - 1)
       PROVE  n * (F[i + 1] - F[i]) <= 6 * d /\ n * (F[i] - F[i + 1]) <= 6 * d
    <2> DEFINE x == 11 * i
               y == 11 * (i + 1)
    <2>1. i \in 0..n /\ i + 1 \in 0..n /\ x \in Nat /\ y \in Nat /\ x <= y /\ y <= 11 * n
        BY <1>2
    <2>2. n * y - n * x = 11 * n
        BY <1>2
    <2>3. F[i] = G(x) /\ F[i + 1] = G(y) /\ G(x) \in Int /\ G(y) \in Int
        BY <1>1, <1>2, <1>7, <2>1
    <2> HIDE DEF x, y
    <2>4. G(y) - G(x) <= 352 * n /\ G(x) - G(y) <= 352 * n
        <3>1. G(y) - G(x) <= 32 * (n * y - n * x) /\ G(x) - G(y) <= 32 * (n * y - n * x)
            BY <1>12, <2>1
        <3> QED
            BY <1>2, <2>2, <2>3, <3>1
    <2>5. n * (G(y) - G(x)) <= n * (352 * n) /\ n * (G(x) - G(y)) <= n * (352 * n)
        BY TimesInt, <1>2, <2>3, <2>4
    <2>6. n * (352 * n) = 352 * q
        BY <1>2 DEF q
    <2>7. n * (G(y) - G(x)) <= 6 * (64 * q) /\ n * (G(x) - G(y)) <= 6 * (64 * q)
        BY <1>2, <2>3, <2>5, <2>6
    <2> QED
        BY <1>2, <2>3, <2>7
<1> QED
    BY <1>2, <1>9, <1>10, <1>11, <1>13 DEF Shapely, F

-----------------------------------------------------------------------------
(***************************************************************************)
(* The curves, put together.                                               *)
(***************************************************************************)
LEMMA TurnedTwice ==
    ASSUME NEW n \in Nat \ {0}, NEW d \in Int, NEW F \in [0..n -> Int]
    PROVE  Turned(Turned(F, d, n), d, n) = F
<1>1. \A i \in 0..n : n - i \in 0..n /\ n - (n - i) = i /\ F[i] \in Int /\ d - (d - F[i]) = F[i]
    OBVIOUS
<1>2. \A i \in 0..n : Turned(Turned(F, d, n), d, n)[i] = F[i]
    BY <1>1 DEF Turned
<1>3. F = [i \in 0..n |-> F[i]] /\ DOMAIN Turned(Turned(F, d, n), d, n) = 0..n
    BY DEF Turned
<1>4. Turned(Turned(F, d, n), d, n) = [i \in 0..n |-> Turned(Turned(F, d, n), d, n)[i]]
    BY DEF Turned
<1> QED
    BY <1>2, <1>3, <1>4

LEMMA TurnedHalves ==
    ASSUME NEW n \in Nat \ {0}, NEW d \in Int, NEW F \in [0..n -> Int], NEW G \in [0..n -> Int],
           F[n] = d, G[0] = 0
    PROVE  Turned(Halves(F, G, d, n), 2 * d, n) = Halves(Turned(G, d, n), Turned(F, d, n), d, n)
<1> DEFINE L == Turned(Halves(F, G, d, n), 2 * d, n)
           R == Halves(Turned(G, d, n), Turned(F, d, n), d, n)
<1>1. L = [i \in 0..n |-> L[i]] /\ R = [i \in 0..n |-> R[i]]
    BY DEF Turned, Halves
<1>2. ASSUME NEW i \in 0..n
      PROVE  L[i] = R[i]
    <2>1. L[i] = 2 * d - Halves(F, G, d, n)[n - i] /\ n - i \in 0..n
        BY DEF Turned
    <2>2. CASE 2 * i < n
        <3>1. 2 * (n - i) - n = n - 2 * i /\ n - 2 * i \in 0..n /\ ~(2 * (n - i) < n) /\ 2 * i \in 0..n
            BY <2>2
        <3>2. Halves(F, G, d, n)[n - i] = d + G[n - 2 * i]
            BY <2>1, <3>1 DEF Halves
        <3>3. R[i] = d - G[n - 2 * i]
            BY <2>2, <3>1 DEF Halves, Turned
        <3> QED
            BY <2>1, <3>1, <3>2, <3>3
    <2>3. CASE 2 * i = n
        <3>1. ~(2 * (n - i) < n) /\ 2 * (n - i) - n = 0 /\ ~(2 * i < n) /\ 2 * i - n = 0
              /\ 0 \in 0..n /\ n - 0 = n
            BY <2>3
        <3>2. Halves(F, G, d, n)[n - i] = d + G[0]
            BY <2>1, <3>1 DEF Halves
        <3>3. R[i] = d + (d - F[n])
            BY <3>1 DEF Halves, Turned
        <3> QED
            BY <2>1, <3>2, <3>3
    <2>4. CASE 2 * i > n
        <3>1. 2 * (n - i) < n /\ 2 * (n - i) \in 0..n /\ ~(2 * i < n) /\ 2 * i - n \in 0..n
              /\ n - (2 * i - n) = 2 * (n - i)
            BY <2>4
        <3>2. Halves(F, G, d, n)[n - i] = F[2 * (n - i)]
            BY <2>1, <3>1 DEF Halves
        <3>3. R[i] = d + (d - F[2 * (n - i)])
            BY <3>1 DEF Halves, Turned
        <3> QED
            BY <2>1, <3>1, <3>2, <3>3
    <2> QED
        BY <2>2, <2>3, <2>4
<1> QED
    BY <1>1, <1>2

LineF(n) == [i \in 0..n |-> i]
PowerF(k, n) == [i \in 0..n |-> Power(i, k)]
BounceF(c, n) == [i \in 0..n |-> BounceAt(i, n, c)]

LEMMA PowerValues ==
    ASSUME NEW n \in Nat \ {0}, NEW k \in 2..5, NEW i \in 0..n
    PROVE  LET F == PowerF(k, n)
               d == Power(n, k)
               T == Turned(F, d, n)
           IN  /\ PowerIn(k, i, n) = <<F[i], d>> /\ PowerOut(k, i, n) = <<T[i], d>>
               /\ PowerInOut(k, i, n) = <<Halves(F, T, d, n)[i], 2 * d>>
<1> DEFINE F == PowerF(k, n)
           d == Power(n, k)
           T == Turned(F, d, n)
<1>1. \A j \in 0..n : n - j \in 0..n /\ F[j] = Power(j, k) /\ T[j] = d - Power(n - j, k)
    <2>1. \A j \in 0..n : n - j \in 0..n
        OBVIOUS
    <2>2. \A j \in 0..n : F[j] = Power(j, k)
        BY DEF PowerF
    <2> HIDE DEF F, d
    <2>3. \A j \in 0..n : T[j] = d - F[n - j]
        BY DEF Turned
    <2> QED
        BY <2>1, <2>2, <2>3
<1>2. d \in Int /\ \A x \in Int : Power(x, k) \in Int
    <2>1. \A x \in Int : Power(x, k) \in Int
        BY PowerSign
    <2> QED
        BY <2>1
<1>3. PowerOut(k, i, n) = <<T[i], d>>
    <2>1. i - n = -(n - i) /\ n - i \in Int
        OBVIOUS
    <2>2. Sign(k) * Power(i - n, k) = -Power(n - i, k)
        BY PowerSign, <2>1
    <2>3. -Power(n - i, k) + d = d - Power(n - i, k)
        BY <1>2, <2>1
    <2> QED
        BY <1>1, <2>2, <2>3 DEF PowerOut
<1>4. PowerInOut(k, i, n) = <<Halves(F, T, d, n)[i], 2 * d>>
    <2>1. CASE 2 * i < n
        <3>1. 2 * i \in 0..n /\ Halves(F, T, d, n)[i] = F[2 * i]
            BY <2>1 DEF Halves
        <3> QED
            BY <1>1, <2>1, <3>1 DEF PowerInOut
    <2>2. CASE ~(2 * i < n)
        <3>1. 2 * i - n \in 0..n /\ Halves(F, T, d, n)[i] = d + T[2 * i - n]
            BY <2>2 DEF Halves
        <3>2. 2 * i - 2 * n = -(2 * n - 2 * i) /\ 2 * n - 2 * i \in Int /\ n - (2 * i - n) = 2 * n - 2 * i
            OBVIOUS
        <3>3. Sign(k) * Power(2 * i - 2 * n, k) = -Power(2 * n - 2 * i, k)
            BY PowerSign, <3>2
        <3>4. T[2 * i - n] = d - Power(2 * n - 2 * i, k)
            BY <1>1, <3>1, <3>2
        <3>5. d + (d - Power(2 * n - 2 * i, k)) = -Power(2 * n - 2 * i, k) + 2 * d
            BY <1>2, <3>2
        <3> QED
            BY <2>2, <3>1, <3>3, <3>4, <3>5 DEF PowerInOut
    <2> QED
        BY <2>1, <2>2
<1> QED
    BY <1>1, <1>3, <1>4 DEF PowerIn

LEMMA BackValues ==
    ASSUME NEW n \in Nat \ {0}, NEW i \in 0..n
    PROVE  /\ LET F == BackF(27, 17, n)
                  d == BackD(27, 17, n)
              IN  BackIn(i, n) = <<F[i], d>> /\ BackOut(i, n) = <<Turned(F, d, n)[i], d>>
           /\ LET F == BackF(1437, 1037, n)
                  d == BackD(1437, 1037, n)
              IN  BackInOut(i, n) = <<Halves(F, Turned(F, d, n), d, n)[i], 2 * d>>
<1>1. LET F == BackF(27, 17, n)
          d == BackD(27, 17, n)
      IN  BackIn(i, n) = <<F[i], d>> /\ BackOut(i, n) = <<Turned(F, d, n)[i], d>>
    <2> DEFINE F == BackF(27, 17, n)
               d == BackD(27, 17, n)
               u == n - i
               t == i - n
    <2>1. u \in 0..n /\ Turned(F, d, n)[i] = d - u * u * (27 * u - 17 * n)
        BY DEF Turned, BackF
    <2>2. F[i] = i * i * (27 * i - 17 * n) /\ d = 10 * n * n * n
        BY DEF BackF, BackD
    <2>3. t = -u /\ u \in Int
        OBVIOUS
    <2> HIDE DEF u, t
    <2>4. t * t * (27 * t + 17 * n) = -(u * u * (27 * u - 17 * n))
        BY <2>3
    <2>5. t * t * (27 * t + 17 * n) + 10 * n * n * n = d - u * u * (27 * u - 17 * n)
        <3>1. u * u * (27 * u - 17 * n) \in Int /\ 10 * n * n * n \in Int
            BY <2>3
        <3> QED
            BY <2>2, <2>4, <3>1
    <2>6. BackOut(i, n) = <<t * t * (27 * t + 17 * n) + 10 * n * n * n, 10 * n * n * n>>
        BY DEF BackOut, t
    <2>7. BackIn(i, n) = <<F[i], d>>
        BY <2>2 DEF BackIn
    <2> QED
        BY <2>1, <2>2, <2>5, <2>6, <2>7
<1>2. LET F == BackF(1437, 1037, n)
          d == BackD(1437, 1037, n)
      IN  BackInOut(i, n) = <<Halves(F, Turned(F, d, n), d, n)[i], 2 * d>>
    <2> DEFINE F == BackF(1437, 1037, n)
               d == BackD(1437, 1037, n)
               L == Halves(F, Turned(F, d, n), d, n)
    <2>1. 2 * d = 2 * 400 * n * n * n /\ d = 400 * n * n * n /\ d \in Int
        BY DEF BackD
    <2>2. CASE 2 * i < n
        <3> DEFINE t == 2 * i
        <3>1. t \in 0..n /\ L[i] = F[t]
            BY <2>2 DEF Halves
        <3>2. F[t] = t * t * (1437 * t - 1037 * n)
            BY <3>1 DEF BackF
        <3>3. BackInOut(i, n) = <<t * t * ((1037 + 400) * t - 1037 * n), 2 * 400 * n * n * n>>
            BY <2>2 DEF BackInOut
        <3>4. 1037 + 400 = 1437
            OBVIOUS
        <3> QED
            BY <2>1, <3>1, <3>2, <3>3, <3>4
    <2>3. CASE ~(2 * i < n)
        <3> DEFINE t == 2 * i - 2 * n
                   u == 2 * n - 2 * i
        <3>1. 2 * i - n \in 0..n /\ L[i] = d + Turned(F, d, n)[2 * i - n]
            BY <2>3 DEF Halves
        <3>2. u \in 0..n /\ n - (2 * i - n) = u
            BY <3>1
        <3>3. Turned(F, d, n)[2 * i - n] = d - F[u]
            BY <3>1, <3>2 DEF Turned
        <3>4. F[u] = u * u * (1437 * u - 1037 * n)
            BY <3>2 DEF BackF
        <3>5. BackInOut(i, n) = <<t * t * ((1037 + 400) * t + 1037 * n) + 2 * 400 * n * n * n,
                                  2 * 400 * n * n * n>>
            BY <2>3 DEF BackInOut
        <3>6. t = -u /\ u \in Int /\ 1037 + 400 = 1437
            BY <3>2
        <3> HIDE DEF t, u
        <3>7. t * t * (1437 * t + 1037 * n) = -(u * u * (1437 * u - 1037 * n))
            BY <3>6
        <3>8. u * u * (1437 * u - 1037 * n) \in Int
            BY <3>6
        <3>9. t * t * (1437 * t + 1037 * n) + 2 * d = d + (d - F[u])
            BY <2>1, <3>4, <3>7, <3>8
        <3> QED
            BY <2>1, <3>1, <3>3, <3>5, <3>6, <3>9
    <2> QED
        BY <2>2, <2>3
<1> QED
    BY <1>1, <1>2

LEMMA BounceValues ==
    ASSUME NEW n \in Nat \ {0}, NEW c \in {1, 2}, NEW i \in 0..n
    PROVE  Bounce(i, n, c) = <<BounceF(c, n)[i], c * (64 * n * n)>>
<1> DEFINE q == n * n
           y == 11 * i
           v == c * Hops(y, n) - (c - 1) * 64 * n * n
<1>1. BounceF(c, n)[i] = IF y < 4 * n THEN Fall(y) ELSE v
    BY DEF BounceF, BounceAt
<1>2. c * (64 * n * n) = 64 * n * n * c
    OBVIOUS
<1>3. Hops(y, n) \in Int /\ y \in Int /\ n \in Int /\ c \in Int
    BY DEF Hops, Hop, Settle
<1>4. v = (1 - c) * 64 * n * n + c * Hops(y, n)
    <2>1. CASE c = 1
        <3>1. (1 - 1) * 64 * n * n = 0
            OBVIOUS
        <3> QED
            BY <1>3, <2>1, <3>1
    <2>2. CASE c = 2
        <3>1. (2 - 1) * 64 * n * n = 64 * q /\ (1 - 2) * 64 * n * n = -(64 * q) /\ q \in Int
            OBVIOUS
        <3> HIDE DEF q
        <3> QED
            BY <1>3, <2>2, <3>1
    <2> QED
        BY <2>1, <2>2
<1>5. CASE i = n
    <2>1. y = 11 * n /\ 4 * n <= y /\ ~(y < 4 * n) /\ Hops(11 * n, n) = 64 * n * n
        <3>1. 4 * n <= 11 * n /\ 11 * n <= 11 * n /\ 11 * n \in Nat
            OBVIOUS
        <3> QED
            BY HopsSlope, <1>5, <3>1
    <2>2. v = 64 * n * n
        <3>1. CASE c = 1
            <4>1. (1 - 1) * 64 * n * n = 0 /\ 64 * n * n \in Int
                OBVIOUS
            <4> QED
                BY <2>1, <3>1, <4>1
        <3>2. CASE c = 2
            <4>1. (2 - 1) * 64 * n * n = 64 * n * n /\ 64 * n * n \in Int
                OBVIOUS
            <4> QED
                BY <2>1, <3>2, <4>1
        <3> QED
            BY <3>1, <3>2
    <2>3. Bounce(i, n, c) = <<64 * n * n, 64 * n * n * c>>
        BY <1>5 DEF Bounce
    <2> QED
        BY <1>1, <1>2, <2>1, <2>2, <2>3
<1>6. CASE i # n
    <2> DEFINE of(x) == <<(1 - c) * 64 * n * n + c * x, 64 * n * n * c>>
    <2>1. CASE y < 4 * n
        <3>1. Bounce(i, n, c) = <<4 * (11 * i) * (11 * i), 64 * n * n * c>>
            BY <1>6, <2>1 DEF Bounce
        <3> QED
            BY <1>1, <1>2, <2>1, <3>1 DEF Fall
    <2>2. CASE 4 * n <= y /\ y < 8 * n
        <3>1. 11 * i \in 4 * n .. 8 * n - 1 /\ ~(11 * i < 4 * n)
            BY <2>2
        <3>2. Bounce(i, n, c) = of(4 * (11 * i - 6 * n) * (11 * i - 6 * n) + 48 * n * n)
            BY <1>6, <3>1 DEF Bounce
        <3>3. Hops(y, n) = 4 * (11 * i - 6 * n) * (11 * i - 6 * n) + 48 * n * n
            BY <2>2 DEF Hops, Hop
        <3> QED
            BY <1>1, <1>2, <1>4, <2>2, <3>1, <3>2, <3>3
    <2>3. CASE 8 * n <= y /\ y < 10 * n
        <3>1. /\ 11 * i \in 8 * n .. 10 * n - 1 /\ ~(11 * i \in 4 * n .. 8 * n - 1)
              /\ ~(11 * i < 4 * n) /\ ~(y < 8 * n)
            BY <2>3
        <3>2. Bounce(i, n, c) = of(4 * (11 * i - 9 * n) * (11 * i - 9 * n) + 60 * n * n)
            BY <1>6, <3>1 DEF Bounce
        <3>3. Hops(y, n) = 4 * (11 * i - 9 * n) * (11 * i - 9 * n) + 60 * n * n
            BY <2>3, <3>1 DEF Hops, Hop
        <3> QED
            BY <1>1, <1>2, <1>4, <3>1, <3>2, <3>3
    <2>4. CASE 10 * n <= y
        <3>1. /\ ~(11 * i \in 4 * n .. 8 * n - 1) /\ ~(11 * i \in 8 * n .. 10 * n - 1)
              /\ ~(11 * i < 4 * n) /\ ~(y < 8 * n) /\ ~(y < 10 * n)
            BY <2>4
        <3>2. Bounce(i, n, c) = of((22 * i - 21 * n) * (22 * i - 21 * n) + 63 * n * n)
            BY <1>6, <3>1 DEF Bounce
        <3>3. Hops(y, n) = (22 * i - 21 * n) * (22 * i - 21 * n) + 63 * n * n
            <4>1. 2 * y = 22 * i
                OBVIOUS
            <4> QED
                BY <2>4, <3>1, <4>1 DEF Hops, Settle
        <3> QED
            BY <1>1, <1>2, <1>4, <3>1, <3>2, <3>3
    <2> QED
        BY <2>1, <2>2, <2>3, <2>4
<1> QED
    BY <1>5, <1>6

Formed(c, F, d, n) ==
    /\ Shapely(F, d, n)
    /\ ~Overshoots(c) => Within(F, d, n)
    /\ Monotone(c) => Rising(F, n)
    /\ \A i \in 0..n : CurveValue(c, i, n) = <<F[i], d>>
Curve(way, shape) == [way |-> way, shape |-> shape]
Shapes == {"Quad", "Cubic", "Quart", "Quint", "Back", "Bounce"}

LEMMA ValueIs ==
    ASSUME NEW shape \in Shapes, NEW i, NEW n
    PROVE  /\ CurveValue(Curve("In", shape), i, n) = In(shape, i, n)
           /\ CurveValue(Curve("Out", shape), i, n) = Out(shape, i, n)
           /\ CurveValue(Curve("InOut", shape), i, n) = InOut(shape, i, n)
           /\ CurveValue(Curve("OutIn", shape), i, n) = OutIn(shape, i, n)
<1>1. \A way : Curve(way, shape).way = way /\ Curve(way, shape).shape = shape
    BY DEF Curve
<1>2. shape # "Linear" /\ Linear.shape = "Linear"
    BY DEF Shapes, Linear
<1>3. \A way : Curve(way, shape) # Linear
    BY <1>1, <1>2
<1> QED
    BY <1>1, <1>3 DEF CurveValue

(* A curve and its opposite.                                               *)
LEMMA PairFormed ==
    ASSUME NEW n \in Nat \ {0}, NEW F, NEW d, NEW c, NEW o,
           Shapely(F, d, n), c.shape = o.shape,
           c.shape # "Back" => Within(F, d, n),
           c.shape \notin {"Back", "Bounce"} => Rising(F, n),
           \A i \in 0..n : CurveValue(c, i, n) = <<F[i], d>>,
           \A i \in 0..n : CurveValue(o, i, n) = <<Turned(F, d, n)[i], d>>
    PROVE  Formed(c, F, d, n) /\ Formed(o, Turned(F, d, n), d, n)
BY TurnedShape DEF Formed, Overshoots, Monotone

LEMMA LinearFormed ==
    ASSUME NEW n \in Nat \ {0}
    PROVE  Formed(Linear, LineF(n), n, n) /\ Formed(Linear, Turned(LineF(n), n, n), n, n)
<1>1. Shapely(LineF(n), n, n) /\ Within(LineF(n), n, n) /\ Rising(LineF(n), n)
    BY LineShape DEF LineF
<1>2. \A i \in 0..n : CurveValue(Linear, i, n) = <<i, n>>
    BY DEF CurveValue
<1>3. \A i \in 0..n : LineF(n)[i] = i /\ Turned(LineF(n), n, n)[i] = i
    BY DEF LineF, Turned
<1> QED
    BY <1>1, <1>2, <1>3, PairFormed

LEMMA PowerFormed ==
    ASSUME NEW n \in Nat \ {0}, NEW shape \in {"Quad", "Cubic", "Quart", "Quint"}
    PROVE  LET k == Degree[shape]
               F == PowerF(k, n)
               d == Power(n, k)
               T == Turned(F, d, n)
           IN  /\ Formed(Curve("In", shape), F, d, n)
               /\ Formed(Curve("Out", shape), T, d, n)
               /\ Formed(Curve("InOut", shape), Halves(F, T, d, n), 2 * d, n)
               /\ Formed(Curve("OutIn", shape), Halves(T, F, d, n), 2 * d, n)
<1> DEFINE k == Degree[shape]
           F == PowerF(k, n)
           d == Power(n, k)
           T == Turned(F, d, n)
<1>1. k \in 2..5
    BY DEF Degree
<1>2. Shapely(F, d, n) /\ Within(F, d, n) /\ Rising(F, n)
    BY <1>1, PowerShape DEF PowerF
<1>3. Shapely(T, d, n) /\ Within(T, d, n) /\ Rising(T, n)
    BY <1>2, TurnedShape
<1>4. /\ Shapely(Halves(F, T, d, n), 2 * d, n) /\ Within(Halves(F, T, d, n), 2 * d, n)
      /\ Rising(Halves(F, T, d, n), n)
      /\ Shapely(Halves(T, F, d, n), 2 * d, n) /\ Within(Halves(T, F, d, n), 2 * d, n)
      /\ Rising(Halves(T, F, d, n), n)
    BY <1>2, <1>3, HalvesShape
<1>5. \A i \in 0..n : /\ In(shape, i, n) = PowerIn(k, i, n) /\ Out(shape, i, n) = PowerOut(k, i, n)
                      /\ InOut(shape, i, n) = PowerInOut(k, i, n)
    BY DEF In, Out, InOut
<1>6. \A i \in 0..n : /\ In(shape, i, n) = <<F[i], d>> /\ Out(shape, i, n) = <<T[i], d>>
                      /\ InOut(shape, i, n) = <<Halves(F, T, d, n)[i], 2 * d>>
    BY <1>1, <1>5, PowerValues
<1>7. d \in Int /\ \A i \in 0..n : F[i] \in Int
    BY <1>2 DEF Shapely
<1> HIDE DEF F, d, T, k
<1>8. ASSUME NEW i \in 0..n
      PROVE  OutIn(shape, i, n) = <<Halves(T, F, d, n)[i], 2 * d>>
    <2>1. CASE 2 * i < n
        <3>1. OutIn(shape, i, n) = Lower(Out(shape, 2 * i, n))
            BY <2>1 DEF OutIn
        <3>2. 2 * i \in 0..n /\ Lower(<<T[2 * i], d>>) = <<Halves(T, F, d, n)[i], 2 * d>>
            BY <1>7, <2>1 DEF Lower, Halves
        <3> QED
            BY <1>6, <3>1, <3>2
    <2>2. CASE ~(2 * i < n)
        <3>1. OutIn(shape, i, n) = Upper(In(shape, 2 * i - n, n))
            BY <2>2 DEF OutIn
        <3>2. 2 * i - n \in 0..n
            BY <2>2
        <3>3. Upper(<<F[2 * i - n], d>>) = <<Halves(T, F, d, n)[i], 2 * d>>
            BY <1>7, <2>2, <3>2 DEF Upper, Halves
        <3> QED
            BY <1>6, <3>1, <3>2, <3>3
    <2> QED
        BY <2>1, <2>2
<1>9. \A way : Curve(way, shape).shape = shape /\ shape \notin {"Back", "Bounce"}
    BY DEF Curve
<1>10. shape \in Shapes
    BY DEF Shapes
<1>11. Formed(Curve("In", shape), F, d, n) /\ Formed(Curve("Out", shape), T, d, n)
    BY <1>2, <1>3, <1>6, <1>9, <1>10, ValueIs DEF Formed
<1>12. /\ Formed(Curve("InOut", shape), Halves(F, T, d, n), 2 * d, n)
       /\ Formed(Curve("OutIn", shape), Halves(T, F, d, n), 2 * d, n)
    BY <1>4, <1>6, <1>8, <1>9, <1>10, ValueIs DEF Formed
<1> QED
    BY <1>11, <1>12 DEF k, F, d, T

LEMMA BackFormed ==
    ASSUME NEW n \in Nat \ {0}
    PROVE  LET F == BackF(27, 17, n)
               d == BackD(27, 17, n)
               T == Turned(F, d, n)
               P == BackF(1437, 1037, n)
               e == BackD(1437, 1037, n)
           IN  /\ Formed(Curve("In", "Back"), F, d, n)
               /\ Formed(Curve("Out", "Back"), T, d, n)
               /\ Formed(Curve("InOut", "Back"), Halves(P, Turned(P, e, n), e, n), 2 * e, n)
               /\ Formed(Curve("OutIn", "Back"), Halves(T, F, d, n), 2 * d, n)
<1> DEFINE F == BackF(27, 17, n)
           d == BackD(27, 17, n)
           T == Turned(F, d, n)
           P == BackF(1437, 1037, n)
           e == BackD(1437, 1037, n)
           Q == Turned(P, e, n)
<1>1. Shapely(F, d, n) /\ Shapely(P, e, n)
    BY BackShape
<1>2. Shapely(T, d, n) /\ Shapely(Q, e, n)
    BY <1>1, TurnedShape
<1>3. Shapely(Halves(P, Q, e, n), 2 * e, n) /\ Shapely(Halves(T, F, d, n), 2 * d, n)
    BY <1>1, <1>2, HalvesShape
<1>4. \A i \in 0..n : /\ In("Back", i, n) = BackIn(i, n) /\ Out("Back", i, n) = BackOut(i, n)
                      /\ InOut("Back", i, n) = BackInOut(i, n)
    BY DEF In, Out, InOut
<1>5. \A i \in 0..n : /\ In("Back", i, n) = <<F[i], d>> /\ Out("Back", i, n) = <<T[i], d>>
                      /\ InOut("Back", i, n) = <<Halves(P, Q, e, n)[i], 2 * e>>
    <2> SUFFICES ASSUME NEW i \in 0..n
                 PROVE  /\ In("Back", i, n) = <<F[i], d>> /\ Out("Back", i, n) = <<T[i], d>>
                        /\ InOut("Back", i, n) = <<Halves(P, Q, e, n)[i], 2 * e>>
        OBVIOUS
    <2>1. /\ BackIn(i, n) = <<F[i], d>> /\ BackOut(i, n) = <<T[i], d>>
          /\ BackInOut(i, n) = <<Halves(P, Q, e, n)[i], 2 * e>>
        BY BackValues
    <2> HIDE DEF F, d, T, P, Q, e
    <2> QED
        BY <1>4, <2>1
<1>6. d \in Int /\ \A i \in 0..n : F[i] \in Int
    BY <1>1 DEF Shapely
<1> HIDE DEF F, d, T, P, Q, e
<1>7. ASSUME NEW i \in 0..n
      PROVE  OutIn("Back", i, n) = <<Halves(T, F, d, n)[i], 2 * d>>
    <2>1. CASE 2 * i < n
        <3>1. OutIn("Back", i, n) = Lower(Out("Back", 2 * i, n))
            BY <2>1 DEF OutIn
        <3>2. 2 * i \in 0..n /\ Lower(<<T[2 * i], d>>) = <<Halves(T, F, d, n)[i], 2 * d>>
            BY <1>6, <2>1 DEF Lower, Halves
        <3> QED
            BY <1>5, <3>1, <3>2
    <2>2. CASE ~(2 * i < n)
        <3>1. OutIn("Back", i, n) = Upper(In("Back", 2 * i - n, n))
            BY <2>2 DEF OutIn
        <3>2. 2 * i - n \in 0..n
            BY <2>2
        <3>3. Upper(<<F[2 * i - n], d>>) = <<Halves(T, F, d, n)[i], 2 * d>>
            BY <1>6, <2>2, <3>2 DEF Upper, Halves
        <3> QED
            BY <1>5, <3>1, <3>2, <3>3
    <2> QED
        BY <2>1, <2>2
<1>8. \A way : Overshoots(Curve(way, "Back")) /\ ~Monotone(Curve(way, "Back"))
    BY DEF Curve, Overshoots, Monotone
<1>9. "Back" \in Shapes
    BY DEF Shapes
<1>10. Formed(Curve("In", "Back"), F, d, n) /\ Formed(Curve("Out", "Back"), T, d, n)
    BY <1>1, <1>2, <1>5, <1>8, <1>9, ValueIs DEF Formed
<1>11. /\ Formed(Curve("InOut", "Back"), Halves(P, Q, e, n), 2 * e, n)
       /\ Formed(Curve("OutIn", "Back"), Halves(T, F, d, n), 2 * d, n)
    BY <1>3, <1>5, <1>7, <1>8, <1>9, ValueIs DEF Formed
<1> QED
    BY <1>10, <1>11 DEF F, d, T, P, Q, e

LEMMA BounceFormed ==
    ASSUME NEW n \in Nat \ {0}
    PROVE  LET d == 64 * n * n
               B == BounceF(1, n)
               T == Turned(B, d, n)
               P == BounceF(2, n)
               Q == Turned(P, d, n)
           IN  /\ Formed(Curve("In", "Bounce"), T, d, n)
               /\ Formed(Curve("Out", "Bounce"), B, d, n)
               /\ Formed(Curve("InOut", "Bounce"), Halves(T, B, d, n), 2 * d, n)
               /\ Formed(Curve("OutIn", "Bounce"), Halves(P, Q, d, n), 2 * d, n)
<1> DEFINE d == 64 * n * n
           B == BounceF(1, n)
           T == Turned(B, d, n)
           P == BounceF(2, n)
           Q == Turned(P, d, n)
<1>1. Shapely(B, d, n) /\ Within(B, d, n) /\ Shapely(P, d, n) /\ Within(P, d, n)
    BY BounceShape DEF BounceF
<1>2. Shapely(T, d, n) /\ Within(T, d, n) /\ Shapely(Q, d, n) /\ Within(Q, d, n)
    BY <1>1, TurnedShape
<1>3. /\ Shapely(Halves(T, B, d, n), 2 * d, n) /\ Within(Halves(T, B, d, n), 2 * d, n)
      /\ Shapely(Halves(P, Q, d, n), 2 * d, n) /\ Within(Halves(P, Q, d, n), 2 * d, n)
    BY <1>1, <1>2, HalvesShape
<1>4. \A i \in 0..n : Bounce(i, n, 1) = <<B[i], 1 * d>> /\ Bounce(i, n, 2) = <<P[i], 2 * d>>
    BY BounceValues
<1>5. d \in Int /\ 1 * d = d /\ \A i \in 0..n : B[i] \in Int /\ P[i] \in Int
    BY <1>1 DEF Shapely
<1> HIDE DEF d, B, P
<1>6. \A i \in 0..n : n - i \in 0..n /\ T[i] = d - B[n - i] /\ Q[i] = d - P[n - i]
    BY DEF Turned
<1>7. \A i \in 0..n : Out("Bounce", i, n) = <<B[i], d>> /\ In("Bounce", i, n) = <<T[i], d>>
    BY <1>4, <1>5, <1>6 DEF Out, In, FromOne
<1> HIDE DEF T
<1>8. ASSUME NEW i \in 0..n
      PROVE  InOut("Bounce", i, n) = <<Halves(T, B, d, n)[i], 2 * d>>
    <2>1. CASE 2 * i < n
        <3>1. InOut("Bounce", i, n) = Lower(In("Bounce", 2 * i, n))
            BY <2>1 DEF InOut
        <3>2. 2 * i \in 0..n /\ Lower(<<T[2 * i], d>>) = <<Halves(T, B, d, n)[i], 2 * d>>
            BY <1>5, <2>1 DEF Lower, Halves
        <3> QED
            BY <1>7, <3>1, <3>2
    <2>2. CASE ~(2 * i < n)
        <3>1. InOut("Bounce", i, n) = Upper(Out("Bounce", 2 * i - n, n))
            BY <2>2 DEF InOut
        <3>2. 2 * i - n \in 0..n
            BY <2>2
        <3>3. Upper(<<B[2 * i - n], d>>) = <<Halves(T, B, d, n)[i], 2 * d>>
            BY <1>5, <2>2, <3>2 DEF Upper, Halves
        <3> QED
            BY <1>7, <3>1, <3>2, <3>3
    <2> QED
        BY <2>1, <2>2
<1>9. ASSUME NEW i \in 0..n
      PROVE  OutIn("Bounce", i, n) = <<Halves(P, Q, d, n)[i], 2 * d>>
    <2>1. CASE 2 * i < n
        <3>1. OutIn("Bounce", i, n) = Bounce(2 * i, n, 2)
            BY <2>1 DEF OutIn
        <3>2. 2 * i \in 0..n /\ Halves(P, Q, d, n)[i] = P[2 * i]
            BY <2>1 DEF Halves
        <3> QED
            BY <1>4, <3>1, <3>2
    <2>2. CASE ~(2 * i < n)
        <3>1. OutIn("Bounce", i, n) = FromOne(Bounce(2 * n - 2 * i, n, 2))
            BY <2>2 DEF OutIn
        <3>2. /\ 2 * i - n \in 0..n /\ 2 * n - 2 * i \in 0..n /\ n - (2 * i - n) = 2 * n - 2 * i
              /\ Halves(P, Q, d, n)[i] = d + Q[2 * i - n]
            BY <2>2 DEF Halves
        <3>3. Bounce(2 * n - 2 * i, n, 2) = <<P[2 * n - 2 * i], 2 * d>> /\ P[2 * n - 2 * i] \in Int
            BY <1>4, <1>5, <3>2
        <3>4. Q[2 * i - n] = d - P[2 * n - 2 * i]
            BY <1>6, <3>2
        <3>5. d + (d - P[2 * n - 2 * i]) = 2 * d - P[2 * n - 2 * i]
            BY <1>5, <3>3
        <3> QED
            BY <3>1, <3>2, <3>3, <3>4, <3>5 DEF FromOne
    <2> QED
        BY <2>1, <2>2
<1>10. \A way : ~Monotone(Curve(way, "Bounce"))
    BY DEF Curve, Monotone
<1>11. "Bounce" \in Shapes
    BY DEF Shapes
<1>12. Formed(Curve("In", "Bounce"), T, d, n) /\ Formed(Curve("Out", "Bounce"), B, d, n)
    BY <1>1, <1>2, <1>7, <1>10, <1>11, ValueIs DEF Formed
<1>13. /\ Formed(Curve("InOut", "Bounce"), Halves(T, B, d, n), 2 * d, n)
       /\ Formed(Curve("OutIn", "Bounce"), Halves(P, Q, d, n), 2 * d, n)
    BY <1>3, <1>8, <1>9, <1>10, <1>11, ValueIs DEF Formed
<1> QED
    BY <1>12, <1>13 DEF d, B, T, P, Q

(* A curve and the one that mirrors it have turned values.                 *)
Mirror(c) == [c EXCEPT !.way = IF c = Linear THEN "In" ELSE Opposite(@)]
Paired(c, n) == \E F, d : Formed(c, F, d, n) /\ Formed(Mirror(c), Turned(F, d, n), d, n)

LEMMA TurnedBack ==
    ASSUME NEW n \in Nat \ {0}, NEW F, NEW d, Shapely(F, d, n)
    PROVE  Shapely(Turned(F, d, n), d, n) /\ Turned(Turned(F, d, n), d, n) = F
<1>1. d \in Int /\ F \in [0..n -> Int]
    BY DEF Shapely
<1> QED
    BY <1>1, TurnedShape, TurnedTwice

LEMMA SelfMirrored ==
    ASSUME NEW n \in Nat \ {0}, NEW d, NEW F, Shapely(F, d, n)
    PROVE  LET B == Halves(F, Turned(F, d, n), d, n) IN Turned(B, 2 * d, n) = B
<1> DEFINE T == Turned(F, d, n)
<1>1. F \in [0..n -> Int] /\ d \in Int /\ F[n] = d
    BY DEF Shapely
<1>2. T \in [0..n -> Int] /\ T[0] = 0
    BY TurnedShape DEF Shapely
<1>3. Turned(T, d, n) = F
    BY <1>1, TurnedTwice
<1>4. Turned(Halves(F, T, d, n), 2 * d, n) = Halves(Turned(T, d, n), Turned(F, d, n), d, n)
    BY <1>1, <1>2, TurnedHalves
<1> QED
    BY <1>3, <1>4

Family(shape, n, F, d, P, e, R, g) ==
    /\ Formed(Curve("In", shape), F, d, n) /\ Formed(Curve("Out", shape), Turned(F, d, n), d, n)
    /\ Shapely(P, e, n) /\ Formed(Curve("InOut", shape), Halves(P, Turned(P, e, n), e, n), 2 * e, n)
    /\ Shapely(R, g, n) /\ Formed(Curve("OutIn", shape), Halves(R, Turned(R, g, n), g, n), 2 * g, n)

LEMMA WaysPaired ==
    ASSUME NEW n \in Nat \ {0}, NEW shape \in Shapes,
           NEW F, NEW d, NEW P, NEW e, NEW R, NEW g, Family(shape, n, F, d, P, e, R, g)
    PROVE  \A way \in Ways : Paired(Curve(way, shape), n)
<1>1. shape # "Linear" /\ Linear.shape = "Linear"
    BY DEF Shapes, Linear
<1>2. \A way \in Ways : Mirror(Curve(way, shape)) = Curve(Opposite(way), shape)
    <2> SUFFICES ASSUME NEW way \in Ways
                 PROVE  Mirror(Curve(way, shape)) = Curve(Opposite(way), shape)
        OBVIOUS
    <2>1. Curve(way, shape) # Linear
        BY <1>1 DEF Curve
    <2> QED
        BY <2>1 DEF Mirror, Curve
<1>3. /\ Opposite("In") = "Out" /\ Opposite("Out") = "In"
      /\ Opposite("InOut") = "InOut" /\ Opposite("OutIn") = "OutIn"
    BY DEF Opposite
<1>4. Paired(Curve("In", shape), n)
    BY <1>2, <1>3 DEF Family, Paired, Ways
<1>5. Paired(Curve("Out", shape), n)
    <2>1. Turned(Turned(F, d, n), d, n) = F
        BY TurnedBack DEF Family, Formed
    <2>2. /\ Formed(Curve("Out", shape), Turned(F, d, n), d, n)
          /\ Formed(Mirror(Curve("Out", shape)), Turned(Turned(F, d, n), d, n), d, n)
        BY <1>2, <1>3, <2>1 DEF Family, Ways
    <2> QED
        BY <2>2, Zenon DEF Paired
<1>6. Paired(Curve("InOut", shape), n)
    BY <1>2, <1>3, SelfMirrored DEF Family, Paired, Ways
<1>7. Paired(Curve("OutIn", shape), n)
    BY <1>2, <1>3, SelfMirrored DEF Family, Paired, Ways
<1> QED
    BY <1>4, <1>5, <1>6, <1>7 DEF Ways

(* Every curve of the program is paired with its mirror image.             *)
LEMMA AllPaired ==
    ASSUME NEW n \in Nat \ {0}, NEW c \in AllCurves
    PROVE  Paired(c, n)
<1>1. CASE c = Linear
    <2>1. Mirror(c) = Linear
        BY <1>1 DEF Mirror, Linear
    <2> QED
        BY <1>1, <2>1, LinearFormed DEF Paired
<1>2. ASSUME c # Linear
      PROVE  \E way \in Ways, shape \in Shapes : c = Curve(way, shape)
    <2>1. c \in [way : Ways, shape : Shapes]
        BY <1>2 DEF AllCurves, Degree, Shapes
    <2> QED
        BY <2>1 DEF Curve
<1>3. ASSUME NEW shape \in {"Quad", "Cubic", "Quart", "Quint"}
      PROVE  \A way \in Ways : Paired(Curve(way, shape), n)
    <2> DEFINE k == Degree[shape]
               F == PowerF(k, n)
               d == Power(n, k)
               T == Turned(F, d, n)
    <2>1. k \in 2..5 /\ shape \in Shapes
        BY DEF Degree, Shapes
    <2>2. Shapely(F, d, n)
        BY <2>1, PowerShape DEF PowerF
    <2>3. Shapely(T, d, n) /\ Turned(T, d, n) = F
        BY <2>2, TurnedBack
    <2>4. /\ Formed(Curve("In", shape), F, d, n) /\ Formed(Curve("Out", shape), T, d, n)
          /\ Formed(Curve("InOut", shape), Halves(F, T, d, n), 2 * d, n)
          /\ Formed(Curve("OutIn", shape), Halves(T, F, d, n), 2 * d, n)
        BY PowerFormed
    <2> HIDE DEF k, F, d, T
    <2>5. Formed(Curve("OutIn", shape), Halves(T, Turned(T, d, n), d, n), 2 * d, n)
        BY <2>3, <2>4
    <2>6. Family(shape, n, F, d, F, d, T, d)
        BY <2>2, <2>3, <2>4, <2>5 DEF Family, T
    <2> QED
        BY <2>1, <2>6, WaysPaired, Zenon
<1>4. \A way \in Ways : Paired(Curve(way, "Back"), n)
    <2> DEFINE F == BackF(27, 17, n)
               d == BackD(27, 17, n)
               T == Turned(F, d, n)
               P == BackF(1437, 1037, n)
               e == BackD(1437, 1037, n)
    <2>1. Shapely(F, d, n) /\ Shapely(P, e, n) /\ "Back" \in Shapes
        BY BackShape DEF Shapes
    <2>2. Shapely(T, d, n) /\ Turned(T, d, n) = F
        BY <2>1, TurnedBack
    <2>3. /\ Formed(Curve("In", "Back"), F, d, n) /\ Formed(Curve("Out", "Back"), T, d, n)
          /\ Formed(Curve("InOut", "Back"), Halves(P, Turned(P, e, n), e, n), 2 * e, n)
          /\ Formed(Curve("OutIn", "Back"), Halves(T, F, d, n), 2 * d, n)
        BY BackFormed
    <2> HIDE DEF F, d, T, P, e
    <2>4. Formed(Curve("OutIn", "Back"), Halves(T, Turned(T, d, n), d, n), 2 * d, n)
        BY <2>2, <2>3
    <2>5. Family("Back", n, F, d, P, e, T, d)
        BY <2>1, <2>2, <2>3, <2>4 DEF Family, T
    <2> QED
        BY <2>1, <2>5, WaysPaired, Zenon
<1>5. \A way \in Ways : Paired(Curve(way, "Bounce"), n)
    <2> DEFINE d == 64 * n * n
               B == BounceF(1, n)
               T == Turned(B, d, n)
               P == BounceF(2, n)
    <2>1. Shapely(B, d, n) /\ Shapely(P, d, n) /\ "Bounce" \in Shapes
        BY BounceShape DEF BounceF, Shapes
    <2>2. Shapely(T, d, n) /\ Turned(T, d, n) = B
        BY <2>1, TurnedBack
    <2>3. /\ Formed(Curve("In", "Bounce"), T, d, n) /\ Formed(Curve("Out", "Bounce"), B, d, n)
          /\ Formed(Curve("InOut", "Bounce"), Halves(T, B, d, n), 2 * d, n)
          /\ Formed(Curve("OutIn", "Bounce"), Halves(P, Turned(P, d, n), d, n), 2 * d, n)
        BY BounceFormed
    <2> HIDE DEF B, d, T, P
    <2>4. /\ Formed(Curve("Out", "Bounce"), Turned(T, d, n), d, n)
          /\ Formed(Curve("InOut", "Bounce"), Halves(T, Turned(T, d, n), d, n), 2 * d, n)
        BY <2>2, <2>3
    <2>5. Family("Bounce", n, T, d, T, d, P, d)
        BY <2>1, <2>2, <2>3, <2>4 DEF Family
    <2> QED
        BY <2>1, <2>5, WaysPaired, Zenon
<1> QED
    BY <1>1, <1>2, <1>3, <1>4, <1>5 DEF Shapes

(* What a paired curve is known for.                                       *)
LEMMA PairedShape ==
    ASSUME NEW n \in Nat \ {0}, NEW c, Paired(c, n)
    PROVE  StartsAndEnds(c, n) /\ Mirrors(c, n) /\ StaysInside(c, n) /\ Smooth(c, n)
<1>1. PICK F, d : Formed(c, F, d, n) /\ Formed(Mirror(c), Turned(F, d, n), d, n)
    BY DEF Paired
<1> DEFINE T == Turned(F, d, n)
<1>2. /\ F \in [0..n -> Int] /\ d \in Nat \ {0} /\ F[0] = 0 /\ F[n] = d
      /\ \A i \in 0..n : CurveValue(c, i, n) = <<F[i], d>> /\ F[i] \in Int
      /\ \A i \in 0..n : CurveValue(Mirror(c), i, n) = <<T[i], d>>
    BY <1>1 DEF Formed, Shapely
<1>3. StartsAndEnds(c, n)
    BY <1>2 DEF StartsAndEnds
<1>4. Mirrors(c, n)
    <2>1. \A i \in 0..n : n - i \in 0..n /\ T[n - i] = d - F[i]
        <3>1. \A i \in 0..n : n - i \in 0..n /\ n - (n - i) = i
            OBVIOUS
        <3> QED
            BY <3>1 DEF Turned
    <2>2. \A i \in 0..n : CurveValue(Mirror(c), n - i, n) = <<d - F[i], d>>
        BY <1>2, <2>1
    <2>3. \A i \in 0..n : F[i] + (d - F[i]) = d
        BY <1>2
    <2>4. \A i \in 0..n : LET f == CurveValue(c, i, n)
                              g == CurveValue(Mirror(c), n - i, n)
                          IN  f[2] = g[2] /\ f[1] + g[1] = f[2]
        <3> SUFFICES ASSUME NEW i \in 0..n
                     PROVE  LET f == CurveValue(c, i, n)
                                g == CurveValue(Mirror(c), n - i, n)
                            IN  f[2] = g[2] /\ f[1] + g[1] = f[2]
            OBVIOUS
        <3>1. CurveValue(c, i, n) = <<F[i], d>> /\ CurveValue(Mirror(c), n - i, n) = <<d - F[i], d>>
            BY <1>2, <2>2
        <3> QED
            BY <2>3, <3>1
    <2> QED
        BY <2>4, Zenon DEF Mirrors, Mirror
<1>5. StaysInside(c, n)
    BY <1>1, <1>2 DEF StaysInside, Formed, Within
<1>6. Smooth(c, n)
    <2> SUFFICES ASSUME NEW i \in 0..(n - 1)
                 PROVE  LET f == CurveValue(c, i, n)
                            g == CurveValue(c, i + 1, n)
                            e == g[1] - f[1]
                        IN  /\ f[2] = g[2] /\ n * e <= 6 * f[2] /\ n * (-e) <= 6 * f[2]
                            /\ Monotone(c) => e >= 0
        BY DEF Smooth
    <2>1. i \in 0..n /\ i + 1 \in 0..n /\ i <= i + 1
        OBVIOUS
    <2>2. CurveValue(c, i, n) = <<F[i], d>> /\ CurveValue(c, i + 1, n) = <<F[i + 1], d>>
        BY <1>2, <2>1
    <2>3. n * (F[i + 1] - F[i]) <= 6 * d /\ n * (F[i] - F[i + 1]) <= 6 * d
        BY <1>1 DEF Formed, Shapely
    <2>4. -(F[i + 1] - F[i]) = F[i] - F[i + 1]
        BY <1>2, <2>1
    <2>5. Monotone(c) => F[i + 1] - F[i] >= 0
        BY <1>1, <1>2, <2>1 DEF Formed, Rising
    <2> QED
        BY <2>2, <2>3, <2>4, <2>5
<1> QED
    BY <1>3, <1>4, <1>5, <1>6

-----------------------------------------------------------------------------
(***************************************************************************)
(* Values and pictures.                                                    *)
(***************************************************************************)
Rects == [left : Int, top : Int, right : Int, bottom : Int]
Points == Int \X Int
Pictures == [Pixels -> (0..2) \X Pixels]
Fractions == Int \X (Nat \ {0})
Sized == W \in Nat \ {0} /\ H \in Nat \ {0}

LEMMA SizedAlways == ASSUME size \in Sizes PROVE Sized
BY SizesAssumption DEF Sized, W, H

(* The values of a curve at i and j of n.                                  *)
LEMMA Values ==
    ASSUME NEW n \in Nat \ {0}, NEW c \in AllCurves, NEW i \in 0..n, NEW j \in 0..n
    PROVE  LET f == CurveValue(c, i, n)
               g == CurveValue(c, j, n)
           IN  /\ f \in Fractions /\ f[2] = g[2]
               /\ i = 0 => f[1] = 0
               /\ i = n => f[1] = f[2]
               /\ ~Overshoots(c) => f[1] \in 0..f[2]
               /\ Monotone(c) /\ i <= j => f[1] <= g[1]
<1>1. PICK F, d : Formed(c, F, d, n)
    BY AllPaired DEF Paired
<1>2. /\ F[i] \in Int /\ F[j] \in Int /\ d \in Nat \ {0} /\ F[0] = 0 /\ F[n] = d
      /\ CurveValue(c, i, n) = <<F[i], d>> /\ CurveValue(c, j, n) = <<F[j], d>>
    BY <1>1 DEF Formed, Shapely
<1>3. ~Overshoots(c) => F[i] \in 0..d
    BY <1>1 DEF Formed, Within
<1>4. Monotone(c) /\ i <= j => F[i] <= F[j]
    BY <1>1 DEF Formed, Rising
<1> QED
    BY <1>2, <1>3, <1>4 DEF Fractions

LEMMA TruncInt ==
    ASSUME NEW a \in Int, NEW b \in Nat \ {0}
    PROVE  Trunc(a, b) \in Int
BY DEF Trunc

LEMMA BetweenInt ==
    ASSUME NEW s \in Int, NEW e \in Int, NEW f \in Fractions
    PROVE  Between(s, e, f) \in Int
<1>1. s * f[2] + (e - s) * f[1] \in Int /\ f[2] \in Nat \ {0}
    BY DEF Fractions
<1> QED
    BY <1>1, TruncInt DEF Between

LEMMA RectBetweenRect ==
    ASSUME NEW s \in Rects, NEW e \in Rects, NEW f \in Fractions
    PROVE  /\ RectBetween(s, e, f) \in Rects
           /\ RectBetween(s, e, f).left = Between(s.left, e.left, f)
           /\ RectBetween(s, e, f).top = Between(s.top, e.top, f)
           /\ RectBetween(s, e, f).right = Between(s.right, e.right, f)
           /\ RectBetween(s, e, f).bottom = Between(s.bottom, e.bottom, f)
<1>1. DOMAIN s = {"left", "top", "right", "bottom"}
    BY DEF Rects
<1>2. \A c \in DOMAIN s : Between(s[c], e[c], f) \in Int
    BY <1>1, BetweenInt DEF Rects
<1> QED
    BY <1>1, <1>2 DEF RectBetween, Rects

(* x * c / b of a pixel x of b is one of c.                                *)
LEMMA ScaleBound ==
    ASSUME NEW b \in Nat \ {0}, NEW c \in Nat \ {0}, NEW x \in 0..(b - 1)
    PROVE  (x * c) \div b \in 0..(c - 1)
<1>1. x * c \in Nat /\ b * c \in Nat /\ x * c <= (b - 1) * c /\ (b - 1) * c = b * c - c
    BY TimesInt
<1>2. x * c < b * c
    BY <1>1
<1>3. (x * c) \div b >= 0
    BY <1>1
<1>4. (x * c) \div b < c
    BY <1>1, <1>2
<1> QED
    BY <1>3, <1>4

LEMMA PlainPictures ==
    ASSUME Sized
    PROVE  /\ \A s \in 0..2 : Picture(s) \in Pictures
           /\ Blank \in Pictures
BY DEF Picture, Pictures, Blank

LEMMA BitBltPicture ==
    ASSUME NEW pic \in Pictures, NEW s \in 0..2, NEW from, NEW wide, NEW high, NEW d
    PROVE  BitBlt(pic, s, from, wide, high, d) \in Pictures
<1>1. \A p \in Pixels : Covers(from, wide, high, d, p) => Reads(from, d, p) \in Pixels
    BY DEF Covers
<1>2. Blank \in Pictures
    BY DEF Blank, Pictures
<1> QED
    BY <1>1, <1>2 DEF BitBlt, Pictures

LEMMA BlitsPicture ==
    ASSUME NEW pic \in Pictures, NEW list, \A n \in DOMAIN list : list[n][1] \in 0..2
    PROVE  Blits(pic, list) \in Pictures
<1>1. ASSUME NEW p \in Pixels, Last(list, p) # {}
      PROVE  LET b == list[CHOOSE n \in Last(list, p) : TRUE]
             IN  b[1] \in 0..2 /\ Reads(b[2], b[5], p) \in Pixels
    <2> DEFINE m == CHOOSE n \in Last(list, p) : TRUE
    <2>1. m \in Last(list, p)
        BY <1>1
    <2>2. m \in DOMAIN list /\ Covers(list[m][2], list[m][3], list[m][4], list[m][5], p)
        BY <2>1 DEF Last
    <2> QED
        BY <2>2 DEF Covers
<1>2. Blank \in Pictures
    BY DEF Blank, Pictures
<1> QED
    BY <1>1, <1>2 DEF Blits, Pictures

LEMMA StretchBltPicture ==
    ASSUME Sized, NEW pic \in Pictures, NEW s \in 0..2, NEW r \in Rects
    PROVE  StretchBlt(pic, s, r) \in Pictures
<1>1. ASSUME NEW p \in Pixels, InRect(p, r)
      PROVE  <<((p[1] - r.left) * W) \div (r.right - r.left),
               ((p[2] - r.top) * H) \div (r.bottom - r.top)>> \in Pixels
    <2>1. /\ p[1] - r.left \in 0..((r.right - r.left) - 1) /\ r.right - r.left \in Nat \ {0}
          /\ p[2] - r.top \in 0..((r.bottom - r.top) - 1) /\ r.bottom - r.top \in Nat \ {0}
        BY <1>1 DEF InRect, Rects, Pixels, Sized
    <2>2. /\ ((p[1] - r.left) * W) \div (r.right - r.left) \in 0..W - 1
          /\ ((p[2] - r.top) * H) \div (r.bottom - r.top) \in 0..H - 1
        BY <2>1, ScaleBound DEF Sized
    <2> QED
        BY <2>2 DEF Pixels
<1>2. Blank \in Pictures
    BY DEF Blank, Pictures
<1> QED
    BY <1>1, <1>2 DEF StretchBlt, Pictures

-----------------------------------------------------------------------------
(***************************************************************************)
(* Types.                                                                  *)
(***************************************************************************)
Effs == [class : Classes, direction : 0..4, out : BOOLEAN, rows : Nat \ {0}, vertical : BOOLEAN,
         point : Points, rect : Rects, zoomed_out : BOOLEAN]
RunTyped ==
    /\ run = [state |-> run.state, at |-> run.at, frames |-> run.frames, curve |-> run.curve,
              from |-> run.from, to |-> run.to, out |-> run.out]
    /\ run.state \in {"new", "drawing", "done", "stopped"} /\ run.at \in 0..Steps /\ run.frames \in 0..1
    /\ run.curve \in CurveSet \cup {Linear} /\ run.out \in BOOLEAN
EndsTyped ==
    run.state # "new" =>
        /\ eff.class \in {"push", "zoom"} => run.from \in Rects /\ run.to \in Rects
        /\ eff.class = "clear" => run.from \in Points /\ run.to \in Points
Typed == size \in Sizes /\ eff \in Effs /\ RunTyped /\ EndsTyped /\ sink \in Pictures

ValueTyped(e, v) ==
    /\ e.class \in {"push", "zoom"} => v \in Rects
    /\ e.class = "clear" => v \in Points
    /\ e.class \in {"zip", "centersplit", "leafwindow"} => v \in Fractions

LEMMA PartInt ==
    ASSUME NEW n \in Nat, NEW f \in Fractions
    PROVE  Part(n, f) \in Int /\ Trunc(n * f[1], 2 * f[2]) \in Int
<1>1. n * f[1] \in Int /\ f[2] \in Nat \ {0} /\ 2 * f[2] \in Nat \ {0}
    BY DEF Fractions
<1> QED
    BY <1>1, TruncInt DEF Part

LEMMA RectIsRect ==
    ASSUME NEW l \in Int, NEW t \in Int, NEW r \in Int, NEW b \in Int
    PROVE  Rect(l, t, r, b) \in Rects
BY DEF Rect, Rects

LEMMA BegunTyped ==
    ASSUME Sized, NEW e \in Effs, e.class \in {"push", "clear", "zoom"}
    PROVE  ValueTyped(e, Begun(e)[1]) /\ ValueTyped(e, Begun(e)[2])
<1>1. Whole \in Rects /\ -W \in Int /\ -H \in Int /\ 2 * W \in Int /\ 2 * H \in Int /\ W \in Int /\ H \in Int
      /\ W \div 2 \in Int /\ H \div 2 \in Int
    BY DEF Sized, Whole, Rects
<1>2. CASE e.class = "push"
    <2>1. PushStart(e.direction) \in Rects
        <3>1. /\ Rect(-W, 0, 0, 0) \in Rects /\ Rect(W, 0, 2 * W, 0) \in Rects
              /\ Rect(0, -H, 0, 0) \in Rects /\ Rect(0, H, 0, 2 * H) \in Rects
            BY <1>1 DEF Rect, Rects
        <3> QED
            BY <3>1 DEF PushStart
    <2>2. Begun(e) = <<PushStart(e.direction), Whole>>
        BY <1>2 DEF Begun
    <2> QED
        BY <1>1, <1>2, <2>1, <2>2 DEF ValueTyped
<1>3. CASE e.class = "clear"
    <2>1. ClearStart(e.direction) \in Points /\ <<0, 0>> \in Points
        BY <1>1 DEF ClearStart, Points
    <2>2. Begun(e) = <<ClearStart(e.direction), <<0, 0>>>>
        BY <1>3 DEF Begun
    <2> QED
        BY <1>1, <1>3, <2>1, <2>2 DEF ValueTyped
<1>4. CASE e.class = "zoom"
    <2>1. ZoomStart(e.direction) \in Rects
        <3> DEFINE d == e.direction
                   x == CASE d = 0 -> W \div 2 [] d \in {3, 4} -> W [] OTHER -> 0
                   y == CASE d = 0 -> H \div 2 [] d \in {2, 3} -> H [] OTHER -> 0
        <3>1. ZoomStart(d) = Rect(x, y, x, y)
            BY DEF ZoomStart
        <3>2. x \in Int /\ y \in Int
            BY <1>1
        <3> HIDE DEF x, y
        <3> QED
            BY <3>1, <3>2, RectIsRect
    <2>2. Begun(e) \in {<<ZoomStart(e.direction), Whole>>, <<Whole, ZoomStart(e.direction)>>}
        BY <1>4 DEF Begun
    <2> QED
        BY <1>1, <1>4, <2>1, <2>2 DEF ValueTyped
<1> QED
    BY <1>2, <1>3, <1>4

LEMMA ValueAtTyped ==
    ASSUME Typed, run.state # "new", NEW j \in 0..Steps
    PROVE  ValueTyped(eff, ValueAt(eff, run, j))
<1> DEFINE f == CurveValue(run.curve, j, Steps)
<1>1. run.curve \in AllCurves
    BY CurvesAssumption DEF Typed, RunTyped, AllCurves
<1>2. f \in Fractions
    BY <1>1, Values, StepsAssumption
<1> HIDE DEF f
<1>3. CASE eff.class \in {"push", "zoom"}
    <2>1. ValueAt(eff, run, j) = RectBetween(run.from, run.to, f)
        BY <1>3 DEF ValueAt, f
    <2> QED
        BY <1>2, <1>3, <2>1, RectBetweenRect DEF Typed, EndsTyped, ValueTyped
<1>4. CASE eff.class = "clear"
    <2>1. ValueAt(eff, run, j) = <<Between(run.from[1], run.to[1], f), Between(run.from[2], run.to[2], f)>>
        BY <1>4 DEF ValueAt, f
    <2>2. run.from[1] \in Int /\ run.from[2] \in Int /\ run.to[1] \in Int /\ run.to[2] \in Int
        BY <1>4 DEF Typed, EndsTyped, Points
    <2> QED
        BY <1>2, <1>4, <2>1, <2>2, BetweenInt DEF ValueTyped, Points
<1>5. CASE eff.class \notin {"push", "zoom", "clear"}
    <2>1. ValueAt(eff, run, j) = f
        BY <1>5 DEF ValueAt, f
    <2> QED
        BY <1>2, <1>5, <2>1 DEF ValueTyped
<1> QED
    BY <1>3, <1>4, <1>5

LEMMA OnDrawPicture ==
    ASSUME Sized, NEW pic \in Pictures, NEW e \in Effs, NEW v, ValueTyped(e, v), NEW first
    PROVE  OnDraw(pic, e, v, first) \in Pictures
<1>1. Picture(1) \in Pictures /\ Picture(2) \in Pictures
    BY PlainPictures
<1>2. CASE e.class = "push"
    BY <1>2, BitBltPicture DEF OnDraw, PushDrawn
<1>3. CASE e.class = "clear"
    BY <1>3, BitBltPicture DEF OnDraw, ClearDrawn
<1>4. CASE e.class = "zoom"
    <2>1. v \in Rects /\ Front(e) \in 0..2 /\ Behind(e) \in 0..2
        BY <1>4 DEF ValueTyped, Front, Behind
    <2> QED
        BY <1>4, <2>1, BitBltPicture, StretchBltPicture DEF OnDraw, ZoomDrawn
<1>5. CASE e.class = "zip"
    <2> DEFINE w == Part(W, v)
               h == Part(H, v)
    <2>1. w \in Int /\ h \in Int
        BY <1>5, PartInt DEF ValueTyped, Sized
    <2> HIDE DEF w, h
    <2>2. W \in Int /\ H \in Int /\ W - w \in Int /\ H - h \in Int
        BY <2>1 DEF Sized
    <2>3. ZipDrawn(pic, e, v) =
            LET new == CASE e.direction = 0 -> Rect(0, 0, w, H) [] e.direction = 1 -> Rect(W - w, 0, W, H)
                         [] e.direction = 2 -> Rect(0, 0, W, h) [] OTHER -> Rect(0, H - h, W, H)
                old == CASE e.direction = 0 -> Rect(w, 0, W, H) [] e.direction = 1 -> Rect(0, 0, W - w, H)
                         [] e.direction = 2 -> Rect(0, h, W, H) [] OTHER -> Rect(0, 0, W, H - h)
            IN  StretchBlt(StretchBlt(pic, 2, new), 1, old)
        BY DEF ZipDrawn, w, h
    <2>4. \A new, old \in Rects : StretchBlt(StretchBlt(pic, 2, new), 1, old) \in Pictures
        BY StretchBltPicture
    <2> QED
        <3>1. /\ Rect(0, 0, w, H) \in Rects /\ Rect(W - w, 0, W, H) \in Rects
              /\ Rect(0, 0, W, h) \in Rects /\ Rect(0, H - h, W, H) \in Rects
              /\ Rect(w, 0, W, H) \in Rects /\ Rect(0, 0, W - w, H) \in Rects
              /\ Rect(0, h, W, H) \in Rects /\ Rect(0, 0, W, H - h) \in Rects
            BY <2>1, <2>2 DEF Rect, Rects
        <3>2. ZipDrawn(pic, e, v) \in Pictures
            BY <2>3, <2>4, <3>1
        <3> QED
            BY <1>5, <3>2 DEF OnDraw
<1>6. CASE e.class = "leafwindow"
    <2>1. LeafDrawn(pic, e, v) \in Pictures
        <3> DEFINE each == Leaves(e) \div e.rows
                   over == Leaves(e) % e.rows
                   u(n) == Part(IF n < e.rows THEN each ELSE over, v)
                   at(n) == IF e.direction = 1 THEN each * (1 + n) - u(n) ELSE each * n
                   across(n) == IF e.vertical THEN <<2, <<0, each * n>>, W, u(n), <<0, at(n)>>>>
                                              ELSE <<2, <<each * n, 0>>, u(n), H, <<at(n), 0>>>>
                   last == IF over > 0 /\ u(e.rows) # 0 THEN 1 ELSE 0
                   list == [n \in 1..(e.rows + last) |-> across(n - 1)]
        <3>1. LeafDrawn(pic, e, v) = IF u(0) = 0 THEN pic ELSE Blits(pic, list)
            BY DEF LeafDrawn
        <3>2. \A n \in DOMAIN list : list[n][1] = 2
            <4>1. \A n \in DOMAIN list : list[n] = across(n - 1)
                OBVIOUS
            <4>2. \A n : across(n)[1] = 2
                OBVIOUS
            <4> HIDE DEF list, across
            <4> QED
                BY <4>1, <4>2
        <3> HIDE DEF list, u
        <3> QED
            BY <3>1, <3>2, BlitsPicture
    <2> QED
        BY <1>6, <2>1 DEF OnDraw
<1>7. CASE e.class \notin {"push", "clear", "zoom", "zip", "leafwindow"}
    <2> DEFINE cw == Trunc(W * v[1], 2 * v[2])
               ch == Trunc(H * v[1], 2 * v[2])
    <2>1. ToOutside(pic, e, v) \in Pictures
        <3> DEFINE cropw == IF e.direction = 0 THEN W \div 2 - cw ELSE W
                   croph == H \div 2 - ch
                   new == IF cw = 0 /\ ch = 0 THEN pic ELSE Picture(2)
                   low == H \div 2 + ch
                   four == <<<<1, <<cw, ch>>,           cropw, croph, <<0, 0>>>>,
                             <<1, <<W \div 2, ch>>,     cropw, croph, <<W - (W \div 2 - cw), 0>>>>,
                             <<1, <<cw, H \div 2>>,     cropw, croph, <<0, low>>>>,
                             <<1, <<W \div 2, H \div 2>>, cropw, croph, <<W \div 2 + cw, low>>>>>>
                   two == <<<<1, <<0, ch>>,      cropw, croph, <<0, 0>>>>,
                            <<1, <<0, H \div 2>>, cropw, croph, <<0, low>>>>>>
        <3>1. ToOutside(pic, e, v) = IF cw = 0 \/ ch = 0 \/ cropw = 0 \/ croph = 0 THEN new
                                     ELSE Blits(new, IF e.direction = 0 THEN four ELSE two)
            BY Zenon DEF ToOutside
        <3>2. \A n \in DOMAIN four : four[n][1] = 1
            OBVIOUS
        <3>3. \A n \in DOMAIN two : two[n][1] = 1
            OBVIOUS
        <3>4. new \in Pictures
            BY <1>1
        <3> HIDE DEF four, two, new, cropw, croph
        <3> QED
            BY <3>1, <3>2, <3>3, <3>4, BlitsPicture
    <2>2. ToCenter(pic, e, v, first) \in Pictures
        <3> DEFINE mw == W \div 2
                   mh == H \div 2
                   old == IF first THEN Picture(1) ELSE pic
                   four == <<<<2, <<mw - cw, mw - ch>>, cw, ch, <<0, 0>>>>,
                             <<2, <<mw, mh - ch>>,      cw, ch, <<W - cw, 0>>>>,
                             <<2, <<mw - cw, mh>>,      cw, ch, <<0, H - ch>>>>,
                             <<2, <<mw, mh>>,           cw, ch, <<W - cw, H - ch>>>>>>
                   two == <<<<2, <<0, mh - ch>>, W, ch, <<0, 0>>>>,
                            <<2, <<0, mh>>,      W, ch, <<0, H - ch>>>>>>
        <3>1. ToCenter(pic, e, v, first) = IF cw = 0 \/ ch = 0 THEN old
                                           ELSE Blits(old, IF e.direction = 1 THEN four ELSE two)
            BY Zenon DEF ToCenter
        <3>2. \A n \in DOMAIN four : four[n][1] = 2
            OBVIOUS
        <3>3. \A n \in DOMAIN two : two[n][1] = 2
            OBVIOUS
        <3>4. old \in Pictures
            BY <1>1
        <3> HIDE DEF four, two, old
        <3> QED
            BY <3>1, <3>2, <3>3, <3>4, BlitsPicture
    <2> QED
        BY <1>7, <2>1, <2>2 DEF OnDraw
<1> QED
    BY <1>2, <1>3, <1>4, <1>5, <1>6, <1>7

LEMMA TypedFromInit == Init => Typed
<1> SUFFICES ASSUME Init PROVE Typed
    OBVIOUS
<1>1. Sized
    BY SizedAlways DEF Init
<1>2. eff \in Effs
    <2>1. Rect(0, 0, 0, 0) \in Rects /\ <<0, 0>> \in Points /\ 5 \in Nat \ {0} /\ 0 \in 0..4
        BY RectIsRect DEF Points
    <2> QED
        BY <2>1 DEF Init, Effs
<1>3. RunTyped /\ EndsTyped
    BY StepsAssumption DEF Init, NotRun, RunTyped, EndsTyped
<1> QED
    BY <1>1, <1>2, <1>3, PlainPictures DEF Init, Typed

LEMMA TypedStep == Typed /\ [Next]_vars => Typed'
<1> SUFFICES ASSUME Typed, [Next]_vars PROVE Typed'
    OBVIOUS
<1>1. Sized /\ size \in Sizes /\ eff \in Effs /\ RunTyped /\ EndsTyped /\ sink \in Pictures
    BY SizedAlways DEF Typed
<1>2. ASSUME size' = size
      PROVE  Pixels' = Pixels /\ Pictures' = Pictures
    BY <1>2 DEF Pixels, Pictures, W, H
<1>3. ASSUME NEW d \in 0..4, SetDirection(d)
      PROVE  Typed'
    <2>1. eff' \in Effs /\ eff'.class = eff.class
        BY <1>1, <1>3 DEF SetDirection, Effs
    <2> QED
        BY <1>1, <1>2, <1>3, <2>1 DEF SetDirection, Typed, RunTyped, EndsTyped
<1>4. ASSUME NEW n \in Rows, NEW v \in BOOLEAN, SetRows(n, v)
      PROVE  Typed'
    <2>1. (IF n = 0 THEN 5 ELSE n) \in Nat \ {0}
        BY StepsAssumption
    <2>2. eff' \in Effs /\ eff'.class = eff.class
        BY <1>1, <1>4, <2>1 DEF SetRows, Effs
    <2> QED
        BY <1>1, <1>2, <1>4, <2>2 DEF SetRows, Typed, RunTyped, EndsTyped
<1>5. ASSUME NEW out \in BOOLEAN, SetZoom(out)
      PROVE  Typed'
    <2>1. eff' \in Effs /\ eff'.class = eff.class
        BY <1>1, <1>5 DEF SetZoom, Effs
    <2> QED
        BY <1>1, <1>2, <1>5, <2>1 DEF SetZoom, Typed, RunTyped, EndsTyped
<1>6. ASSUME NEW pic \in Pictures, NewSink(pic)
      PROVE  Typed'
    <2>1. RunTyped' /\ EndsTyped'
        BY <1>6, StepsAssumption DEF NewSink, NotRun, RunTyped, EndsTyped
    <2> QED
        BY <1>1, <1>2, <1>6, <2>1 DEF NewSink, Typed
<1>7. ASSUME NEW c \in CurveSet, Begin(c)
      PROVE  Typed'
    <2>1. eff' \in Effs /\ eff'.class = eff.class
        BY <1>1, <1>7 DEF Begin, Effs
    <2>2. RunTyped'
        BY <1>1, <1>7, StepsAssumption DEF Begin, RunTyped, Effs
    <2>3. EndsTyped'
        <3>1. eff.class \in {"push", "clear", "zoom"} =>
                ValueTyped(eff, Begun(eff)[1]) /\ ValueTyped(eff, Begun(eff)[2])
            BY <1>1, BegunTyped
        <3> QED
            BY <1>7, <2>1, <3>1 DEF Begin, EndsTyped, ValueTyped
    <2> QED
        BY <1>1, <1>2, <1>7, <2>1, <2>2, <2>3 DEF Begin, Typed
<1>8. ASSUME NEW j \in 0..Steps, Frame(j)
      PROVE  Typed'
    <2> DEFINE v == ValueAt(eff, run, j)
    <2>1. ValueTyped(eff, v)
        BY <1>8, ValueAtTyped DEF Frame
    <2>2. sink' \in Pictures
        BY <1>1, <1>8, <2>1, OnDrawPicture DEF Frame
    <2>3. eff' = CASE eff.class = "clear" -> [eff EXCEPT !.point = v]
                   [] eff.class = "zoom"  -> [eff EXCEPT !.rect = v]
                   [] OTHER               -> eff
        BY <1>8 DEF Frame
    <2> HIDE DEF v
    <2>4. eff' \in Effs /\ eff'.class = eff.class
        BY <1>1, <2>1, <2>3 DEF ValueTyped, Effs
    <2>5. /\ RunTyped' /\ run'.from = run.from /\ run'.to = run.to /\ run.state = "drawing"
        <3> DEFINE a == IF j = Steps THEN "done" ELSE run.state
        <3>1. a \in {"new", "drawing", "done", "stopped"}
            BY <1>1 DEF RunTyped
        <3>2. run' = [run EXCEPT !.at = j, !.frames = 1, !.state = a] /\ run.state = "drawing"
            BY <1>8 DEF Frame
        <3> HIDE DEF a
        <3>3. run' = [state |-> a, at |-> j, frames |-> 1, curve |-> run.curve,
                      from |-> run.from, to |-> run.to, out |-> run.out]
            BY <1>1, <3>2 DEF RunTyped
        <3>4. /\ run'.state = a /\ run'.at = j /\ run'.frames = 1 /\ run'.curve = run.curve
              /\ run'.from = run.from /\ run'.to = run.to /\ run'.out = run.out
            BY <3>3
        <3>5. run' = [state |-> run'.state, at |-> run'.at, frames |-> run'.frames, curve |-> run'.curve,
                      from |-> run'.from, to |-> run'.to, out |-> run'.out]
            BY <3>3, <3>4, Zenon
        <3> QED
            BY <1>1, <3>1, <3>2, <3>4, <3>5 DEF RunTyped
    <2>6. EndsTyped'
        BY <1>1, <2>4, <2>5 DEF EndsTyped
    <2> QED
        BY <1>1, <1>2, <1>8, <2>2, <2>4, <2>5, <2>6 DEF Frame, Typed
<1>9. CASE Stop
    <2>1. /\ RunTyped' /\ run'.from = run.from /\ run'.to = run.to /\ run.state = "drawing"
        BY <1>1, <1>9 DEF Stop, RunTyped
    <2>2. EndsTyped'
        BY <1>1, <1>9, <2>1 DEF EndsTyped, Stop
    <2> QED
        BY <1>1, <1>2, <1>9, <2>1, <2>2 DEF Stop, Typed
<1>10. CASE UNCHANGED vars
    BY <1>1, <1>2, <1>10 DEF vars, Typed, RunTyped, EndsTyped
<1> QED
    BY <1>1, <1>3, <1>4, <1>5, <1>6, <1>7, <1>8, <1>9, <1>10, PlainPictures DEF Next

THEOREM TypedAlways == Spec => []Typed
BY TypedFromInit, TypedStep, PTL DEF Spec

(***************************************************************************)
(* Types: in every run of every effector, whatever rules the application   *)
(* follows, the sink has a pixel of a source, or of nothing, everywhere,   *)
(* and no blit reads outside a source.                                     *)
(***************************************************************************)
THEOREM TypesHold == Spec => []TypeOK
<1>1. Typed => TypeOK
    BY DEF Typed, TypeOK, Effs, RunTyped, Pictures
<1> QED
    BY <1>1, TypedAlways, PTL

(***************************************************************************)
(* The curve of a run, at any fineness of progress, starts at 0 and ends   *)
(* at 1, is mirrored by its opposite, stays inside unless it is Back, has  *)
(* no jump where its pieces meet, and if it is a power never goes back.    *)
(***************************************************************************)
THEOREM CurvesHold == Spec => []CurvesKeepShape
<1>1. Typed => CurvesKeepShape
    <2> SUFFICES ASSUME Typed PROVE CurvesKeepShape
        OBVIOUS
    <2>1. run.curve \in AllCurves /\ Grid \in Nat \ {0}
        BY CurvesAssumption, StepsAssumption DEF Typed, RunTyped, AllCurves
    <2> QED
        BY <2>1, AllPaired, PairedShape DEF CurvesKeepShape
<1> QED
    BY <1>1, TypedAlways, PTL

-----------------------------------------------------------------------------
(***************************************************************************)
(* Rounding.                                                               *)
(***************************************************************************)
LEMMA TruncExact ==
    ASSUME NEW a \in Int, NEW d \in Nat \ {0}
    PROVE  Trunc(a * d, d) = a
<1>1. a * d \in Int /\ (a * d) \div d = a
    OBVIOUS
<1>2. (-(a * d)) \div d = -a
    <2>1. -(a * d) = (-a) * d
        OBVIOUS
    <2>2. ((-a) * d) \div d = -a
        OBVIOUS
    <2> QED
        BY <2>1, <2>2
<1> QED
    BY <1>1, <1>2 DEF Trunc

LEMMA DivBetween ==
    ASSUME NEW a \in Int, NEW d \in Nat \ {0}
    PROVE  a \div d \in Int /\ d * (a \div d) <= a /\ a < d * (a \div d) + d
OBVIOUS

LEMMA DivGrows ==
    ASSUME NEW a \in Int, NEW b \in Int, NEW d \in Nat \ {0}, a <= b
    PROVE  a \div d <= b \div d
<1> DEFINE p == a \div d
           q == b \div d
<1>1. p \in Int /\ q \in Int /\ d * p <= a /\ b < d * q + d
    BY DivBetween
<1> HIDE DEF p, q
<1>2. ASSUME p > q
      PROVE  FALSE
    <2>1. d * (q + 1) <= d * p
        BY <1>1, <1>2, TimesInt
    <2>2. d * (q + 1) = d * q + d
        BY <1>1
    <2> QED
        BY <1>1, <2>1, <2>2
<1> QED
    BY <1>1, <1>2 DEF p, q

LEMMA TruncGrows ==
    ASSUME NEW a \in Int, NEW b \in Int, NEW d \in Nat \ {0}, a <= b
    PROVE  Trunc(a, d) <= Trunc(b, d)
<1>1. CASE a >= 0
    <2>1. b >= 0
        BY <1>1
    <2> QED
        BY <1>1, <2>1, DivGrows DEF Trunc
<1>2. CASE a < 0 /\ b >= 0
    <2>1. (-a) \div d >= 0 /\ b \div d >= 0 /\ (-a) \div d \in Int /\ b \div d \in Int
        BY <1>2
    <2> QED
        BY <1>2, <2>1 DEF Trunc
<1>3. CASE a < 0 /\ b < 0
    <2>1. (-b) \div d <= (-a) \div d /\ (-a) \div d \in Int /\ (-b) \div d \in Int
        <3>1. -b <= -a /\ -b \in Int /\ -a \in Int
            OBVIOUS
        <3> QED
            BY <3>1, DivGrows, DivBetween
    <2> QED
        BY <1>3, <2>1 DEF Trunc
<1> QED
    BY <1>1, <1>2, <1>3

(* A part of n, and of half of it, is no more than the whole.              *)
LEMMA PartBound ==
    ASSUME NEW n \in Nat, NEW f \in Fractions, f[1] \in 0..f[2]
    PROVE  /\ Part(n, f) \in 0..n
           /\ Trunc(n * f[1], 2 * f[2]) \in 0..(n \div 2)
           /\ f[1] = f[2] => Part(n, f) = n /\ Trunc(n * f[1], 2 * f[2]) = n \div 2
           /\ f[1] = 0 => Part(n, f) = 0 /\ Trunc(n * f[1], 2 * f[2]) = 0
<1> DEFINE x == f[1]
           d == f[2]
<1>1. x \in Nat /\ d \in Nat \ {0} /\ x <= d
    BY DEF Fractions
<1> HIDE DEF x, d
<1>2. n * x \in Nat /\ n * x <= n * d /\ n * d \in Nat /\ 2 * d \in Nat \ {0}
    BY <1>1, TimesInt
<1>3. Trunc(n * d, d) = n /\ Trunc(0, d) = 0 /\ Trunc(0, 2 * d) = 0
    BY <1>1, TruncExact DEF Trunc
<1>4. Trunc(n * d, 2 * d) = n \div 2
    <2> DEFINE h == n \div 2
    <2>1. h \in Nat /\ (n = 2 * h \/ n = 2 * h + 1)
        OBVIOUS
    <2> HIDE DEF h
    <2>2. h * (2 * d) \in Nat /\ (h * (2 * d)) \div (2 * d) = h
        BY <1>1, <2>1
    <2>3. n * d = h * (2 * d) \/ n * d = h * (2 * d) + d
        BY <1>1, <2>1
    <2>4. (h * (2 * d) + d) \div (2 * d) = h
        <3> DEFINE q == (h * (2 * d) + d) \div (2 * d)
        <3>1. q \in Int /\ (2 * d) * q <= h * (2 * d) + d /\ h * (2 * d) + d < (2 * d) * q + 2 * d
            BY <1>1, <2>2, DivBetween
        <3> HIDE DEF q
        <3>2. ASSUME q >= h + 1 PROVE FALSE
            <4>1. (2 * d) * (h + 1) <= (2 * d) * q
                BY <1>1, <2>1, <3>1, <3>2, TimesInt
            <4>2. (2 * d) * (h + 1) = h * (2 * d) + 2 * d
                BY <1>1, <2>1
            <4> QED
                BY <1>1, <2>2, <3>1, <4>1, <4>2
        <3>3. ASSUME q <= h - 1 PROVE FALSE
            <4>1. (2 * d) * q <= (2 * d) * (h - 1)
                BY <1>1, <2>1, <3>1, <3>3, TimesInt
            <4>2. (2 * d) * (h - 1) = h * (2 * d) - 2 * d
                BY <1>1, <2>1
            <4> QED
                BY <1>1, <2>2, <3>1, <4>1, <4>2
        <3> QED
            BY <2>1, <3>1, <3>2, <3>3 DEF q
    <2>5. Trunc(n * d, 2 * d) = (n * d) \div (2 * d)
        BY <1>2 DEF Trunc
    <2> QED
        BY <2>2, <2>3, <2>4, <2>5 DEF h
<1> DEFINE y == n * x
           z == n * d
           dd == 2 * d
<1>8. /\ y \in Nat /\ z \in Nat /\ y <= z /\ dd \in Nat \ {0}
      /\ Trunc(z, d) = n /\ Trunc(0, d) = 0 /\ Trunc(0, dd) = 0 /\ Trunc(z, dd) = n \div 2
    BY <1>2, <1>3, <1>4
<1> HIDE DEF y, z, dd
<1>11. 0 \in Int /\ y \in Int /\ z \in Int /\ 0 <= y /\ y <= z
    BY <1>8
<1>9. Trunc(0, d) <= Trunc(y, d) /\ Trunc(y, d) <= Trunc(z, d) /\ Trunc(y, d) \in Int
    BY <1>1, <1>11, TruncGrows, TruncInt
<1>10. Trunc(0, dd) <= Trunc(y, dd) /\ Trunc(y, dd) <= Trunc(z, dd) /\ Trunc(y, dd) \in Int
    BY <1>8, <1>11, TruncGrows, TruncInt
<1>5. 0 <= Trunc(n * x, d) /\ Trunc(n * x, d) <= n /\ Trunc(n * x, d) \in Int
    BY <1>8, <1>9 DEF y
<1>6. 0 <= Trunc(n * x, 2 * d) /\ Trunc(n * x, 2 * d) <= n \div 2 /\ Trunc(n * x, 2 * d) \in Int
    BY <1>8, <1>10 DEF y, dd
<1>7. n * 0 = 0
    OBVIOUS
<1> QED
    BY <1>3, <1>4, <1>5, <1>6, <1>7 DEF Part, x, d

(* A value begins and ends where begindraw says.                           *)
LEMMA BetweenEnds ==
    ASSUME NEW s \in Int, NEW e \in Int, NEW f \in Fractions
    PROVE  /\ f[1] = 0 => Between(s, e, f) = s
           /\ f[1] = f[2] => Between(s, e, f) = e
<1> DEFINE d == f[2]
<1>1. d \in Nat \ {0}
    BY DEF Fractions
<1> HIDE DEF d
<1>2. s * d + (e - s) * 0 = s * d /\ s * d + (e - s) * d = e * d
    BY <1>1
<1>3. Trunc(s * d, d) = s /\ Trunc(e * d, d) = e
    BY <1>1, TruncExact
<1> QED
    BY <1>2, <1>3 DEF Between, d

LEMMA RectBetweenEnds ==
    ASSUME NEW s \in Rects, NEW e \in Rects, NEW f \in Fractions
    PROVE  /\ f[1] = 0 => RectBetween(s, e, f) = s
           /\ f[1] = f[2] => RectBetween(s, e, f) = e
<1>1. DOMAIN s = {"left", "top", "right", "bottom"} /\ DOMAIN e = DOMAIN s
    BY DEF Rects
<1>2. \A c \in DOMAIN s : s[c] \in Int /\ e[c] \in Int
    BY <1>1 DEF Rects
<1>3. s = [c \in DOMAIN s |-> s[c]] /\ e = [c \in DOMAIN s |-> e[c]]
    BY <1>1 DEF Rects
<1>4. f[1] = 0 => \A c \in DOMAIN s : Between(s[c], e[c], f) = s[c]
    BY <1>2, BetweenEnds
<1>5. f[1] = f[2] => \A c \in DOMAIN s : Between(s[c], e[c], f) = e[c]
    BY <1>2, BetweenEnds
<1>6. f[1] = 0 => RectBetween(s, e, f) = [c \in DOMAIN s |-> s[c]]
    BY <1>4, Zenon DEF RectBetween
<1>7. f[1] = f[2] => RectBetween(s, e, f) = [c \in DOMAIN s |-> e[c]]
    BY <1>5, Zenon DEF RectBetween
<1> QED
    BY <1>3, <1>6, <1>7

LEMMA ValueEnds ==
    ASSUME Typed, run.state # "new", eff.class \in {"push", "clear", "zoom"}
    PROVE  ValueAt(eff, run, 0) = run.from /\ ValueAt(eff, run, Steps) = run.to
<1> DEFINE f == CurveValue(run.curve, 0, Steps)
           g == CurveValue(run.curve, Steps, Steps)
<1>1. run.curve \in AllCurves /\ Steps \in Nat \ {0} /\ 0 \in 0..Steps /\ Steps \in 0..Steps
    BY CurvesAssumption, StepsAssumption DEF Typed, RunTyped, AllCurves
<1>2. f \in Fractions /\ g \in Fractions /\ f[1] = 0 /\ g[1] = g[2]
    BY <1>1, Values
<1> HIDE DEF f, g
<1>3. CASE eff.class \in {"push", "zoom"}
    <2>1. /\ ValueAt(eff, run, 0) = RectBetween(run.from, run.to, f)
          /\ ValueAt(eff, run, Steps) = RectBetween(run.from, run.to, g)
        BY <1>3 DEF ValueAt, f, g
    <2> QED
        BY <1>2, <1>3, <2>1, RectBetweenEnds DEF Typed, EndsTyped
<1>4. CASE eff.class = "clear"
    <2>1. /\ ValueAt(eff, run, 0) = <<Between(run.from[1], run.to[1], f), Between(run.from[2], run.to[2], f)>>
          /\ ValueAt(eff, run, Steps) = <<Between(run.from[1], run.to[1], g), Between(run.from[2], run.to[2], g)>>
        BY <1>4 DEF ValueAt, f, g
    <2>2. run.from[1] \in Int /\ run.from[2] \in Int /\ run.to[1] \in Int /\ run.to[2] \in Int
          /\ run.from = <<run.from[1], run.from[2]>> /\ run.to = <<run.to[1], run.to[2]>>
        BY <1>4 DEF Typed, EndsTyped, Points
    <2> QED
        BY <1>2, <2>1, <2>2, BetweenEnds
<1> QED
    BY <1>3, <1>4

-----------------------------------------------------------------------------
(***************************************************************************)
(* What the blits show.                                                    *)
(***************************************************************************)
Full(pic) == \A p \in Pixels : pic[p][1] \in {1, 2}
Proper(r) == r.left <= r.right /\ r.top <= r.bottom

LEMMA PixelIs ==
    ASSUME Sized, NEW p \in Pixels
    PROVE  p = <<p[1], p[2]>> /\ p[1] \in 0..W - 1 /\ p[2] \in 0..H - 1 /\ p[1] \in Int /\ p[2] \in Int
BY DEF Sized, Pixels

LEMMA ReadsInPlace ==
    ASSUME Sized, NEW p \in Pixels, NEW d \in Points
    PROVE  Reads(d, d, p) = p
<1>1. p[1] - d[1] + d[1] = p[1] /\ p[2] - d[2] + d[2] = p[2]
    BY PixelIs DEF Points
<1> QED
    BY <1>1, PixelIs DEF Reads, Plus, Minus

LEMMA SamePicture ==
    ASSUME NEW f \in Pictures, NEW g \in Pictures, \A p \in Pixels : f[p] = g[p]
    PROVE  f = g
BY DEF Pictures

LEMMA BitBltAt ==
    ASSUME NEW pic, NEW s, NEW from, NEW wide \in Nat, NEW high \in Nat, NEW d, NEW p \in Pixels
    PROVE  /\ Covers(from, wide, high, d, p) =>
                BitBlt(pic, s, from, wide, high, d)[p] = <<s, Reads(from, d, p)>>
           /\ ~Covers(from, wide, high, d, p) => BitBlt(pic, s, from, wide, high, d)[p] = pic[p]
<1>1. ~(wide < 0 \/ high < 0)
    OBVIOUS
<1> QED
    BY <1>1 DEF BitBlt

LEMMA StretchBltAt ==
    ASSUME NEW pic, NEW s, NEW r \in Rects, Proper(r), NEW p \in Pixels
    PROVE  /\ InRect(p, r) => StretchBlt(pic, s, r)[p] =
                <<s, <<((p[1] - r.left) * W) \div (r.right - r.left),
                       ((p[2] - r.top) * H) \div (r.bottom - r.top)>>>>
           /\ ~InRect(p, r) => StretchBlt(pic, s, r)[p] = pic[p]
<1>1. ~(r.right < r.left \/ r.bottom < r.top)
    BY DEF Proper, Rects
<1> QED
    BY <1>1 DEF StretchBlt

LEMMA BitBltFull ==
    ASSUME NEW pic, Full(pic), NEW s \in {1, 2}, NEW from, NEW wide \in Nat, NEW high \in Nat, NEW d
    PROVE  Full(BitBlt(pic, s, from, wide, high, d))
<1> SUFFICES ASSUME NEW p \in Pixels
             PROVE  BitBlt(pic, s, from, wide, high, d)[p][1] \in {1, 2}
    BY DEF Full
<1>1. CASE Covers(from, wide, high, d, p)
    BY <1>1, BitBltAt
<1>2. CASE ~Covers(from, wide, high, d, p)
    BY <1>2, BitBltAt DEF Full
<1> QED
    BY <1>1, <1>2

LEMMA StretchBltFull ==
    ASSUME NEW pic, Full(pic), NEW s \in {1, 2}, NEW r \in Rects, Proper(r)
    PROVE  Full(StretchBlt(pic, s, r))
BY StretchBltAt DEF Full

LEMMA BlitsAt ==
    ASSUME NEW pic, NEW list, \A n \in DOMAIN list : list[n][3] \in Nat /\ list[n][4] \in Nat,
           NEW p \in Pixels
    PROVE  /\ Last(list, p) = {} => Blits(pic, list)[p] = pic[p]
           /\ Last(list, p) # {} => \E n \in Last(list, p) :
                Blits(pic, list)[p] = <<list[n][1], Reads(list[n][2], list[n][5], p)>>
<1>1. ~\E n \in DOMAIN list : list[n][3] < 0 \/ list[n][4] < 0
    OBVIOUS
<1> DEFINE m == CHOOSE n \in Last(list, p) : TRUE
<1>2. Blits(pic, list)[p] = IF Last(list, p) = {} THEN pic[p]
                            ELSE <<list[m][1], Reads(list[m][2], list[m][5], p)>>
    BY <1>1 DEF Blits
<1>3. Last(list, p) # {} => m \in Last(list, p)
    OBVIOUS
<1> HIDE DEF m
<1> QED
    BY <1>2, <1>3

LEMMA BlitsFull ==
    ASSUME NEW pic, Full(pic), NEW list,
           \A n \in DOMAIN list : list[n][1] \in {1, 2} /\ list[n][3] \in Nat /\ list[n][4] \in Nat
    PROVE  Full(Blits(pic, list))
<1> SUFFICES ASSUME NEW p \in Pixels
             PROVE  Blits(pic, list)[p][1] \in {1, 2}
    BY DEF Full
<1>1. CASE Last(list, p) = {}
    BY <1>1, BlitsAt DEF Full
<1>2. CASE Last(list, p) # {}
    <2>1. PICK n \in Last(list, p) : Blits(pic, list)[p] = <<list[n][1], Reads(list[n][2], list[n][5], p)>>
        BY <1>2, BlitsAt
    <2> QED
        BY <2>1 DEF Last
<1> QED
    BY <1>1, <1>2

(* Blits from the second source leave what shows it.                       *)
Keeps(s) == \A p \in Pixels : sink[p][1] = s => sink'[p][1] = s

LEMMA BlitsKeep ==
    ASSUME NEW pic, NEW list,
           \A n \in DOMAIN list : list[n][1] = 2 /\ list[n][3] \in Nat /\ list[n][4] \in Nat,
           NEW p \in Pixels, pic[p][1] = 2
    PROVE  Blits(pic, list)[p][1] = 2
<1>1. CASE Last(list, p) = {}
    <2>1. Blits(pic, list)[p] = pic[p]
        BY <1>1, BlitsAt
    <2> QED
        BY <2>1
<1>2. CASE Last(list, p) # {}
    <2>1. PICK n \in Last(list, p) :
            Blits(pic, list)[p] = <<list[n][1], Reads(list[n][2], list[n][5], p)>>
        BY <1>2, BlitsAt
    <2>2. list[n][1] = 2
        BY DEF Last
    <2> QED
        BY <2>1, <2>2
<1> QED
    BY <1>1, <1>2

LEMMA PlainFull == Full(Picture(1)) /\ Full(Picture(2))
BY DEF Full, Picture

(* A copy of the whole, in its place or just beside it.                    *)
LEMMA CopiedWhole ==
    ASSUME Sized, NEW pic, NEW s \in {1, 2}, NEW wide \in {0, W}, NEW high \in {0, H}
    PROVE  BitBlt(pic, s, <<0, 0>>, wide, high, <<0, 0>>) = Picture(s)
<1>1. wide \in Nat /\ high \in Nat /\ <<0, 0>> \in Points
    BY DEF Sized, Points
<1>2. ASSUME NEW p \in Pixels
      PROVE  BitBlt(pic, s, <<0, 0>>, wide, high, <<0, 0>>)[p] = <<s, p>>
    <2>1. Reads(<<0, 0>>, <<0, 0>>, p) = p
        BY <1>1, ReadsInPlace
    <2>2. Covers(<<0, 0>>, wide, high, <<0, 0>>, p)
        BY <2>1, PixelIs DEF Covers, InRect, Rect, Sized
    <2> QED
        BY <1>1, <2>1, <2>2, BitBltAt
<1>3. ~(wide < 0 \/ high < 0)
    BY <1>1
<1>4. BitBlt(pic, s, <<0, 0>>, wide, high, <<0, 0>>) =
        [p \in Pixels |-> BitBlt(pic, s, <<0, 0>>, wide, high, <<0, 0>>)[p]]
    BY <1>3 DEF BitBlt
<1> QED
    BY <1>2, <1>4 DEF Picture

LEMMA CopiedBeside ==
    ASSUME Sized, NEW pic \in Pictures, NEW s \in {1, 2},
           NEW d \in {<<W, 0>>, <<-W, 0>>, <<0, H>>, <<0, -H>>}
    PROVE  BitBlt(pic, s, <<0, 0>>, 0, 0, d) = pic
<1>1. ASSUME NEW p \in Pixels
      PROVE  BitBlt(pic, s, <<0, 0>>, 0, 0, d)[p] = pic[p]
    <2>1. ~InRect(p, Rect(d[1], d[2], d[1] + W, d[2] + H))
        BY PixelIs DEF InRect, Rect, Sized
    <2>2. ~Covers(<<0, 0>>, 0, 0, d, p)
        BY <2>1 DEF Covers
    <2> QED
        BY <2>2 DEF BitBlt
<1>2. BitBlt(pic, s, <<0, 0>>, 0, 0, d) \in Pictures
    BY BitBltPicture
<1> QED
    BY <1>1, <1>2, SamePicture

(* A blit in its place gives back what a picture drawn over covers.        *)
LEMMA ClearRestores ==
    ASSUME Sized, NEW pic \in Pictures, NEW d \in Points,
           \/ d = <<0, 0>>
           \/ pic = BitBlt(Picture(2), 1, <<0, 0>>, W, H, d)
    PROVE  BitBlt(pic, 2, d, W, H, d) = Picture(2)
<1>1. W \in Nat /\ H \in Nat /\ W # 0 /\ H # 0
    BY DEF Sized
<1>2. ASSUME NEW p \in Pixels
      PROVE  BitBlt(pic, 2, d, W, H, d)[p] = Picture(2)[p]
    <2>1. Reads(d, d, p) = p /\ Picture(2)[p] = <<2, p>>
        BY ReadsInPlace DEF Picture
    <2>2. CASE InRect(p, Rect(d[1], d[2], d[1] + W, d[2] + H))
        <3>1. Covers(d, W, H, d, p)
            BY <1>1, <2>1, <2>2 DEF Covers
        <3> QED
            BY <1>1, <2>1, <3>1 DEF BitBlt
    <2>3. CASE ~InRect(p, Rect(d[1], d[2], d[1] + W, d[2] + H))
        <3>1. ~Covers(d, W, H, d, p) /\ ~Covers(<<0, 0>>, W, H, d, p)
            BY <1>1, <2>3 DEF Covers
        <3>2. d # <<0, 0>>
            <4>1. InRect(p, Rect(0, 0, 0 + W, 0 + H))
                BY <1>1, PixelIs DEF InRect, Rect
            <4> QED
                BY <2>3, <4>1
        <3>3. pic[p] = Picture(2)[p]
            BY <1>1, <3>1, <3>2 DEF BitBlt
        <3> QED
            BY <1>1, <3>1, <3>3 DEF BitBlt
    <2> QED
        BY <2>2, <2>3
<1>3. BitBlt(pic, 2, d, W, H, d) \in Pictures /\ Picture(2) \in Pictures
    BY BitBltPicture, PlainPictures
<1> QED
    BY <1>2, <1>3, SamePicture

LEMMA ZoomRestores ==
    ASSUME Sized, NEW pic \in Pictures, NEW b \in {1, 2}, NEW f \in {1, 2}, NEW r \in Rects,
           \/ r \in {Rect(0, 0, 0, 0), Whole}
           \/ Proper(r) /\ pic = StretchBlt(Picture(b), f, r)
    PROVE  BitBlt(pic, b, <<r.left, r.top>>, r.right - r.left, r.bottom - r.top, <<r.left, r.top>>) = Picture(b)
<1> DEFINE d == <<r.left, r.top>>
           w == r.right - r.left
           h == r.bottom - r.top
<1>1. /\ w \in Nat /\ h \in Nat /\ d \in Points /\ d[1] = r.left /\ d[2] = r.top
      /\ r.left + w = r.right /\ r.top + h = r.bottom
    BY DEF Proper, Rects, Rect, Whole, Sized, Points
<1> HIDE DEF d, w, h
<1>2. ASSUME NEW p \in Pixels
      PROVE  BitBlt(pic, b, d, w, h, d)[p] = Picture(b)[p]
    <2>1. Reads(d, d, p) = p /\ Picture(b)[p] = <<b, p>>
        BY <1>1, ReadsInPlace DEF Picture
    <2>2. CASE Covers(d, w, h, d, p)
        <3>1. ~(w < 0 \/ h < 0)
            BY <1>1
        <3> QED
            BY <2>1, <2>2, <3>1 DEF BitBlt
    <2>3. CASE ~Covers(d, w, h, d, p)
        <3>1. ~InRect(p, r)
            <4>1. InRect(p, r) => w # 0 /\ h # 0
                BY <1>1 DEF InRect, Rects
            <4>2. InRect(p, r) => InRect(p, Rect(r.left, r.top, r.right, r.bottom))
                BY DEF InRect, Rect
            <4> QED
                <5>1. ~InRect(p, Rect(d[1], d[2], d[1] + w, d[2] + h)) \/ w = 0 \/ h = 0
                    BY <2>1, <2>3 DEF Covers
                <5> QED
                    BY <1>1, <4>1, <4>2, <5>1
        <3>2. r # Whole
            BY <3>1, PixelIs DEF InRect, Whole, Sized
        <3>3. r # Rect(0, 0, 0, 0)
            <4>1. r = Rect(0, 0, 0, 0) => w = 0 /\ h = 0 /\ d = <<0, 0>>
                BY DEF w, h, d, Rect
            <4>2. InRect(p, Rect(0, 0, 0 + W, 0 + H))
                BY PixelIs DEF InRect, Rect, Sized
            <4> QED
                BY <2>1, <2>3, <4>1, <4>2 DEF Covers
        <3>4. pic[p] = Picture(b)[p]
            BY <3>1, <3>2, <3>3, StretchBltAt
        <3> QED
            BY <1>1, <2>3, <3>4 DEF BitBlt
    <2> QED
        BY <2>2, <2>3
<1>3. BitBlt(pic, b, d, w, h, d) \in Pictures /\ Picture(b) \in Pictures
    BY BitBltPicture, PlainPictures
<1>4. BitBlt(pic, b, d, w, h, d) = Picture(b)
    BY <1>2, <1>3, SamePicture
<1> QED
    BY <1>4 DEF d, w, h

(* A picture stretched over the whole, or over nothing.                    *)
LEMMA StretchedWhole ==
    ASSUME Sized, NEW pic, NEW s \in {1, 2}
    PROVE  StretchBlt(pic, s, Whole) = Picture(s)
<1>1. ASSUME NEW p \in Pixels
      PROVE  StretchBlt(pic, s, Whole)[p] = <<s, p>>
    <2>1. InRect(p, Whole) /\ Proper(Whole) /\ Whole \in Rects
        BY PixelIs DEF InRect, Whole, Proper, Rects, Sized
    <2>2. StretchBlt(pic, s, Whole)[p] = <<s, <<((p[1] - 0) * W) \div (W - 0), ((p[2] - 0) * H) \div (H - 0)>>>>
        BY <2>1, StretchBltAt DEF Whole
    <2> DEFINE x == p[1]
               y == p[2]
               w == W
               h == H
    <2>3. x \in Int /\ y \in Int /\ w \in Nat \ {0} /\ h \in Nat \ {0} /\ p = <<x, y>>
        BY PixelIs DEF Sized
    <2> HIDE DEF x, y, w, h
    <2>4. ((x - 0) * w) \div (w - 0) = x /\ ((y - 0) * h) \div (h - 0) = y
        <3>1. x - 0 = x /\ w - 0 = w /\ y - 0 = y /\ h - 0 = h
            BY <2>3
        <3>2. (x * w) \div w = x /\ (y * h) \div h = y
            BY <2>3
        <3> QED
            BY <3>1, <3>2
    <2> QED
        BY <2>2, <2>3, <2>4 DEF x, y, w, h
<1>2. ~(Whole.right < Whole.left \/ Whole.bottom < Whole.top)
    BY DEF Whole, Sized
<1>3. StretchBlt(pic, s, Whole) = [p \in Pixels |-> StretchBlt(pic, s, Whole)[p]]
    BY <1>2 DEF StretchBlt
<1> QED
    BY <1>1, <1>3 DEF Picture

LEMMA StretchedNowhere ==
    ASSUME Sized, NEW pic \in Pictures, NEW s \in {1, 2}, NEW r \in Rects, Proper(r),
           \A p \in Pixels : ~InRect(p, r)
    PROVE  StretchBlt(pic, s, r) = pic
<1>1. \A p \in Pixels : StretchBlt(pic, s, r)[p] = pic[p]
    BY StretchBltAt
<1>2. StretchBlt(pic, s, r) \in Pictures
    BY StretchBltPicture
<1> QED
    BY <1>1, <1>2, SamePicture

(* Values keep the order of what they lie between, and go one way.         *)
LEMMA BetweenOrder ==
    ASSUME NEW s \in Int, NEW e \in Int, NEW t \in Int, NEW u \in Int, s <= t, e <= u,
           NEW f \in Fractions, f[1] \in 0..f[2]
    PROVE  Between(s, e, f) <= Between(t, u, f)
<1> DEFINE x == f[1]
           d == f[2]
           y == d - x
<1>1. x \in Nat /\ d \in Nat \ {0} /\ y \in Nat
    BY DEF Fractions
<1> HIDE DEF x, d
<1>2. s * d + (e - s) * x = y * s + x * e /\ t * d + (u - t) * x = y * t + x * u
    BY <1>1
<1> HIDE DEF y
<1>3. y * s <= y * t /\ x * e <= x * u
    BY <1>1, TimesInt
<1> DEFINE a == y * s + x * e
           b == y * t + x * u
<1>4. a \in Int /\ b \in Int /\ a <= b
    BY <1>1, <1>3
<1> HIDE DEF a, b
<1>5. Trunc(a, d) <= Trunc(b, d)
    BY <1>1, <1>4, TruncGrows
<1> QED
    BY <1>2, <1>5 DEF Between, x, d, a, b

LEMMA BetweenGoes ==
    ASSUME NEW s \in Int, NEW e \in Int, NEW f \in Fractions, NEW g \in Fractions,
           f[2] = g[2], f[1] <= g[1]
    PROVE  /\ s <= e => Between(s, e, f) <= Between(s, e, g)
           /\ e <= s => Between(s, e, g) <= Between(s, e, f)
<1> DEFINE x == f[1]
           y == g[1]
           d == f[2]
           a == s * d + (e - s) * x
           b == s * d + (e - s) * y
<1>1. x \in Int /\ y \in Int /\ d \in Nat \ {0} /\ x <= y
    BY DEF Fractions
<1> HIDE DEF x, y, d
<1>2. a \in Int /\ b \in Int
    BY <1>1
<1>3. ASSUME s <= e PROVE a <= b
    <2>1. (e - s) * x <= (e - s) * y
        BY <1>1, <1>3, TimesInt
    <2> QED
        BY <1>1, <2>1
<1>4. ASSUME e <= s PROVE b <= a
    <2>1. (s - e) * x <= (s - e) * y
        BY <1>1, <1>4, TimesInt
    <2>2. (s - e) * x = -((e - s) * x) /\ (s - e) * y = -((e - s) * y)
        BY <1>1
    <2> QED
        BY <1>1, <2>1, <2>2
<1> HIDE DEF a, b
<1>5. (a <= b => Trunc(a, d) <= Trunc(b, d)) /\ (b <= a => Trunc(b, d) <= Trunc(a, d))
    BY <1>1, <1>2, TruncGrows
<1>6. Between(s, e, f) = Trunc(a, d) /\ Between(s, e, g) = Trunc(b, d)
    BY DEF Between, a, b, x, y, d
<1> QED
    BY <1>3, <1>4, <1>5, <1>6

-----------------------------------------------------------------------------
(***************************************************************************)
(* Clear and zoom, which draw again only what the last frame covered.      *)
(***************************************************************************)
AllRules == Careful = Rules
ClearPic(d) == BitBlt(Picture(2), 1, <<0, 0>>, W, H, d)
ZoomPic(b, f, r) == StretchBlt(Picture(b), f, r)

(* What a run under way has of the effector.                               *)
Begins ==
    run.state = "drawing" =>
        /\ run.from = Begun(eff)[1] /\ run.to = Begun(eff)[2] /\ run.out = eff.out
        /\ Overshoots(run.curve) => eff.class \in {"push", "clear"}
        /\ Fits(eff)
Directed == eff.class \in {"push", "zip", "centersplit"} => eff.direction \in 0..3
Fresh == run.state = "new" => run.frames = 0

ClearOK ==
    eff.class = "clear" =>
        /\ eff.point = <<0, 0>> \/ sink = ClearPic(eff.point)
        /\ run.state \in {"new", "done"} => eff.point = <<0, 0>>
        /\ run.frames > 0 => eff.point = ValueAt(eff, run, run.at) /\ sink = ClearPic(eff.point)
ZoomOK ==
    eff.class = "zoom" =>
        /\ ~eff.zoomed_out =>
            \/ eff.rect \in {Rect(0, 0, 0, 0), Whole}
            \/ Proper(eff.rect) /\ sink = ZoomPic(1, 2, eff.rect)
        /\ ~eff.zoomed_out /\ run.state \in {"new", "done"} => eff.rect \in {Rect(0, 0, 0, 0), Whole}
        /\ run.frames > 0 =>
            /\ eff.rect = ValueAt(eff, run, run.at) /\ Proper(eff.rect)
            /\ sink = ZoomPic(Behind(run), Front(run), eff.rect)
        /\ (eff.zoomed_out => eff.out) /\ (run.out => eff.zoomed_out)

LEMMA SameSize ==
    ASSUME size' = size
    PROVE  /\ W' = W /\ H' = H /\ Pixels' = Pixels /\ Pictures' = Pictures /\ Whole' = Whole
           /\ \A d : ClearPic(d)' = ClearPic(d)
           /\ \A b, f, r : ZoomPic(b, f, r)' = ZoomPic(b, f, r)
           /\ \A s : Picture(s)' = Picture(s)
           /\ \A pic : Full(pic)' <=> Full(pic)
           /\ \A e : Fits(e)' <=> Fits(e)
           /\ \A e : Begun(e)' = Begun(e)
<1>1. W' = W /\ H' = H
    BY DEF W, H
<1>2. Pixels' = Pixels /\ Pictures' = Pictures /\ Whole' = Whole
    BY <1>1 DEF Pixels, Pictures, Whole
<1>3. \A s : Picture(s)' = Picture(s)
    BY <1>2 DEF Picture
<1>4. Blank' = Blank
    BY <1>2 DEF Blank
<1>5. \A from, wide, high, d, p : Covers(from, wide, high, d, p)' <=> Covers(from, wide, high, d, p)
    BY <1>1, <1>2 DEF Covers
<1>6. \A d : ClearPic(d)' = ClearPic(d)
    BY <1>1, <1>2, <1>3, <1>4, <1>5 DEF ClearPic, BitBlt
<1>7. \A b, f, r : ZoomPic(b, f, r)' = ZoomPic(b, f, r)
    BY <1>1, <1>2, <1>3, <1>4 DEF ZoomPic, StretchBlt
<1>8. \A pic : Full(pic)' <=> Full(pic)
    BY <1>2 DEF Full
<1>9. \A e : Fits(e)' <=> Fits(e)
    BY <1>1 DEF Fits, Leaves
<1>10. \A e : Begun(e)' = Begun(e)
    BY <1>1, <1>2 DEF Begun, PushStart, ClearStart, ZoomStart
<1> QED
    BY <1>1, <1>2, <1>3, <1>6, <1>7, <1>8, <1>9, <1>10

(* The same for what is primed with the state.                             *)
LEMMA SamePics ==
    ASSUME size' = size
    PROVE  /\ \A d : eff'.point = d => ClearPic(eff.point)' = ClearPic(d)
           /\ \A r : eff'.rect = r => ZoomPic(1, 2, eff.rect)' = ZoomPic(1, 2, r)
           /\ \A b, f, r : Behind(run)' = b /\ Front(run)' = f /\ eff'.rect = r =>
                ZoomPic(Behind(run), Front(run), eff.rect)' = ZoomPic(b, f, r)
           /\ \A s : Final(eff)' = s => Picture(Final(eff))' = Picture(s)
<1>1. W' = W /\ H' = H /\ Pixels' = Pixels /\ \A s : Picture(s)' = Picture(s)
    BY SameSize
<1>2. Blank' = Blank
    BY <1>1 DEF Blank
<1>3. \A from, wide, high, d, p : Covers(from, wide, high, d, p)' <=> Covers(from, wide, high, d, p)
    BY <1>1 DEF Covers
<1>4. \A d : eff'.point = d => ClearPic(eff.point)' = ClearPic(d)
    BY <1>1, <1>2, <1>3 DEF ClearPic, BitBlt
<1>5. \A r : eff'.rect = r => ZoomPic(1, 2, eff.rect)' = ZoomPic(1, 2, r)
    BY <1>1, <1>2 DEF ZoomPic, StretchBlt
<1>6. \A b, f, r : Behind(run)' = b /\ Front(run)' = f /\ eff'.rect = r =>
        ZoomPic(Behind(run), Front(run), eff.rect)' = ZoomPic(b, f, r)
    BY <1>1, <1>2 DEF ZoomPic, StretchBlt
<1>7. \A s : Final(eff)' = s => Picture(Final(eff))' = Picture(s)
    BY <1>1 DEF Picture
<1> QED
    BY <1>4, <1>5, <1>6, <1>7

(* What a frame does to the run and the effector.                          *)
LEMMA FrameDoes ==
    ASSUME Typed, NEW j \in 0..Steps, Frame(j)
    PROVE  LET v == ValueAt(eff, run, j)
           IN  /\ run.state = "drawing" /\ size' = size /\ ValueTyped(eff, v)
               /\ sink' = OnDraw(sink, eff, v, run.frames = 0)
               /\ run.frames = 0 => j = 0
               /\ run.frames # 0 => j > run.at
               /\ run'.from = run.from /\ run'.to = run.to /\ run'.curve = run.curve /\ run'.out = run.out
               /\ run'.at = j /\ run'.frames = 1 /\ run'.state = IF j = Steps THEN "done" ELSE "drawing"
               /\ eff'.class = eff.class /\ eff'.direction = eff.direction /\ eff'.out = eff.out
               /\ eff'.rows = eff.rows /\ eff'.vertical = eff.vertical /\ eff'.zoomed_out = eff.zoomed_out
               /\ eff.class = "clear" => eff'.point = v
               /\ eff.class = "zoom" => eff'.rect = v
               /\ ValueAt(eff, run, j)' = v
<1> DEFINE v == ValueAt(eff, run, j)
           a == IF j = Steps THEN "done" ELSE run.state
<1>1. /\ run.state = "drawing" /\ size' = size /\ sink' = OnDraw(sink, eff, v, run.frames = 0)
      /\ run.frames = 0 => j = 0
      /\ run.frames # 0 => j > run.at
      /\ run' = [run EXCEPT !.at = j, !.frames = 1, !.state = a]
      /\ eff' = CASE eff.class = "clear" -> [eff EXCEPT !.point = v]
                  [] eff.class = "zoom"  -> [eff EXCEPT !.rect = v]
                  [] OTHER               -> eff
    BY DEF Frame
<1>2. ValueTyped(eff, v)
    BY <1>1, ValueAtTyped
<1>3. a = IF j = Steps THEN "done" ELSE "drawing"
    BY <1>1
<1> HIDE DEF a, v
<1>4. run' = [state |-> a, at |-> j, frames |-> 1, curve |-> run.curve,
              from |-> run.from, to |-> run.to, out |-> run.out]
    BY <1>1 DEF Typed, RunTyped
<1>5. /\ run'.from = run.from /\ run'.to = run.to /\ run'.curve = run.curve /\ run'.out = run.out
      /\ run'.at = j /\ run'.frames = 1 /\ run'.state = a
    BY <1>4
<1>6. /\ eff'.class = eff.class /\ eff'.direction = eff.direction /\ eff'.out = eff.out
      /\ eff'.rows = eff.rows /\ eff'.vertical = eff.vertical /\ eff'.zoomed_out = eff.zoomed_out
      /\ eff.class = "clear" => eff'.point = v
      /\ eff.class = "zoom" => eff'.rect = v
    BY <1>1 DEF Typed, Effs
<1>7. ValueAt(eff', run', j) = ValueAt(eff, run, j)
    BY <1>5, <1>6 DEF ValueAt
<1> QED
    BY <1>1, <1>2, <1>3, <1>5, <1>6, <1>7 DEF v

LEMMA ClearFrame ==
    ASSUME Typed, Begins, ClearOK, eff.class = "clear", NEW j \in 0..Steps, Frame(j)
    PROVE  ClearOK' /\ Full(sink') /\ (j = Steps => sink' = Picture(1))
<1> DEFINE v == ValueAt(eff, run, j)
<1>1. /\ run.state = "drawing" /\ size' = size /\ v \in Points /\ sink' = OnDraw(sink, eff, v, run.frames = 0)
      /\ run'.at = j /\ run'.frames = 1 /\ run'.state = IF j = Steps THEN "done" ELSE "drawing"
      /\ eff'.class = "clear" /\ eff'.point = v /\ ValueAt(eff', run', run'.at) = v
    BY FrameDoes DEF ValueTyped
<1>2. Sized /\ sink \in Pictures /\ eff.point \in Points
    BY SizedAlways DEF Typed, Effs
<1>3. j = Steps => v = <<0, 0>>
    <2>1. run.to = <<0, 0>>
        BY <1>1 DEF Begins, Begun
    <2> QED
        BY <1>1, <2>1, ValueEnds
<1> HIDE DEF v
<1>4. BitBlt(sink, 2, eff.point, W, H, eff.point) = Picture(2)
    BY <1>2, ClearRestores DEF ClearOK, ClearPic
<1>5. sink' = ClearPic(v)
    <2>1. sink' = BitBlt(BitBlt(sink, 2, eff.point, W, H, eff.point), 1, <<0, 0>>, W, H, v)
        BY <1>1 DEF OnDraw, ClearDrawn
    <2> QED
        BY <1>4, <2>1 DEF ClearPic
<1>6. ClearPic(eff.point)' = ClearPic(v)
    BY <1>1, SamePics
<1>7. ClearOK'
    BY <1>1, <1>3, <1>5, <1>6 DEF ClearOK
<1>8. Full(sink')
    <2>1. W \in Nat /\ H \in Nat /\ 1 \in {1, 2}
        BY <1>2 DEF Sized
    <2> QED
        BY <1>5, <2>1, BitBltFull, PlainFull DEF ClearPic
<1>9. j = Steps => sink' = Picture(1)
    BY <1>2, <1>3, <1>5, CopiedWhole DEF ClearPic
<1> QED
    BY <1>7, <1>8, <1>9

LEMMA ZoomEnds ==
    ASSUME Sized, NEW e \in Effs, e.class = "zoom"
    PROVE  LET s == Begun(e)[1]
               t == Begun(e)[2]
               z == ZoomStart(e.direction)
           IN  /\ z \in Rects /\ Proper(z) /\ z.left = z.right /\ z.top = z.bottom
               /\ z.left \in 0..W /\ z.top \in 0..H
               /\ Whole \in Rects /\ Proper(Whole)
               /\ e.out => s = Whole /\ t = z
               /\ ~e.out => s = z /\ t = Whole
<1> DEFINE d == e.direction
           z == ZoomStart(d)
           x == CASE d = 0 -> W \div 2 [] d \in {3, 4} -> W [] OTHER -> 0
           y == CASE d = 0 -> H \div 2 [] d \in {2, 3} -> H [] OTHER -> 0
<1>1. z = Rect(x, y, x, y)
    BY DEF ZoomStart
<1>2. x \in 0..W /\ y \in 0..H
    BY DEF Sized
<1> HIDE DEF x, y
<1>3. z \in Rects /\ Proper(z) /\ z.left = z.right /\ z.top = z.bottom /\ z.left \in 0..W /\ z.top \in 0..H
    BY <1>1, <1>2 DEF Rect, Rects, Proper, Sized
<1>4. Whole \in Rects /\ Proper(Whole)
    BY DEF Whole, Rects, Proper, Sized
<1> HIDE DEF z
<1>5. Begun(e) = IF e.out THEN <<Whole, z>> ELSE <<z, Whole>>
    BY DEF Begun, z
<1> QED
    BY <1>3, <1>4, <1>5 DEF z

(* No frame of a zoom turns the rectangle inside out.                      *)
LEMMA ZoomProper ==
    ASSUME Typed, Begins, eff.class = "zoom", run.state = "drawing", NEW j \in 0..Steps
    PROVE  Proper(ValueAt(eff, run, j))
<1> DEFINE f == CurveValue(run.curve, j, Steps)
           s == run.from
           t == run.to
<1>1. run.curve \in AllCurves /\ Steps \in Nat \ {0}
    BY CurvesAssumption, StepsAssumption DEF Typed, RunTyped, AllCurves
<1>2. ~Overshoots(run.curve)
    BY DEF Begins
<1>3. f \in Fractions /\ f[1] \in 0..f[2]
    BY <1>1, <1>2, Values
<1>4. s \in Rects /\ t \in Rects /\ Proper(s) /\ Proper(t)
    BY SizedAlways, ZoomEnds DEF Begins, Typed
<1>5. ValueAt(eff, run, j) = RectBetween(s, t, f)
    BY DEF ValueAt
<1> HIDE DEF s, t, f
<1>6. /\ s.left \in Int /\ s.right \in Int /\ s.top \in Int /\ s.bottom \in Int
      /\ t.left \in Int /\ t.right \in Int /\ t.top \in Int /\ t.bottom \in Int
      /\ s.left <= s.right /\ s.top <= s.bottom /\ t.left <= t.right /\ t.top <= t.bottom
    BY <1>4 DEF Rects, Proper
<1>7. /\ Between(s.left, t.left, f) <= Between(s.right, t.right, f)
      /\ Between(s.top, t.top, f) <= Between(s.bottom, t.bottom, f)
    BY <1>3, <1>6, BetweenOrder
<1> QED
    BY <1>3, <1>4, <1>5, <1>7, RectBetweenRect DEF Proper

LEMMA ZoomFrame ==
    ASSUME Typed, Begins, ZoomOK, eff.class = "zoom", NEW j \in 0..Steps, Frame(j)
    PROVE  ZoomOK' /\ Full(sink') /\ (j = Steps => sink' = Picture(2))
<1> DEFINE v == ValueAt(eff, run, j)
           b == Behind(run)
           f == Front(run)
           r == eff.rect
           z == ZoomStart(eff.direction)
<1>1. /\ run.state = "drawing" /\ size' = size /\ v \in Rects /\ sink' = OnDraw(sink, eff, v, run.frames = 0)
      /\ run'.at = j /\ run'.frames = 1 /\ run'.state = IF j = Steps THEN "done" ELSE "drawing"
      /\ run'.out = run.out /\ eff'.class = "zoom" /\ eff'.rect = v /\ ValueAt(eff', run', run'.at) = v
      /\ eff'.out = eff.out /\ eff'.zoomed_out = eff.zoomed_out /\ (run.frames = 0 => j = 0)
    BY FrameDoes DEF ValueTyped
<1>2. Sized /\ sink \in Pictures /\ eff \in Effs /\ r \in Rects /\ run.out \in BOOLEAN /\ run.frames \in 0..1
    BY SizedAlways DEF Typed, Effs, RunTyped
<1>3. /\ z \in Rects /\ Proper(z) /\ z.left = z.right /\ z.top = z.bottom /\ Whole \in Rects /\ Proper(Whole)
      /\ run.out => run.from = Whole /\ run.to = z
      /\ ~run.out => run.from = z /\ run.to = Whole
    BY <1>1, <1>2, ZoomEnds DEF Begins
<1>4. (j = 0 => v = run.from) /\ (j = Steps => v = run.to)
    BY <1>1, ValueEnds
<1>5. Proper(v)
    BY <1>1, ZoomProper
<1>6. run.out = eff.out /\ b \in {1, 2} /\ f \in {1, 2} /\ b = Behind(eff) /\ f = Front(eff)
    BY <1>1 DEF Begins, Behind, Front
<1> HIDE DEF v, b, f, z
<1> DEFINE pic == BitBlt(sink, b, <<r.left, r.top>>, r.right - r.left, r.bottom - r.top, <<r.left, r.top>>)
<1>7. sink' = StretchBlt(pic, f, v)
    BY <1>1, <1>6 DEF OnDraw, ZoomDrawn
<1>8. sink' = ZoomPic(b, f, v)
    <2>1. CASE ~run.out
        <3>1. ~eff.zoomed_out /\ b = 1 /\ f = 2
            BY <1>6, <2>1 DEF ZoomOK, b, f, Behind, Front
        <3>2. pic = Picture(b)
            BY <1>2, <1>6, <3>1, ZoomRestores DEF ZoomOK, ZoomPic
        <3> QED
            BY <1>7, <3>2 DEF ZoomPic
    <2>2. CASE run.out /\ run.frames = 0
        <3>1. v = Whole
            BY <1>1, <1>3, <1>4, <2>2
        <3> QED
            BY <1>2, <1>6, <1>7, <3>1, StretchedWhole DEF ZoomPic
    <2>3. CASE run.out /\ run.frames # 0
        <3>1. sink = ZoomPic(b, f, r) /\ Proper(r)
            BY <1>2, <2>3 DEF ZoomOK, b, f
        <3>2. pic = Picture(b)
            BY <1>2, <1>6, <3>1, ZoomRestores DEF ZoomPic
        <3> QED
            BY <1>7, <3>2 DEF ZoomPic
    <2> QED
        BY <1>2, <2>1, <2>2, <2>3
<1>10. Behind(run)' = b /\ Front(run)' = f
    BY <1>1 DEF Behind, Front, b, f
<1>9. /\ ZoomPic(1, 2, eff.rect)' = ZoomPic(1, 2, v) /\ Whole' = Whole
      /\ ZoomPic(Behind(run), Front(run), eff.rect)' = ZoomPic(b, f, v)
    BY <1>1, <1>10, SamePics, SameSize
<1>11. ~run.out => b = 1 /\ f = 2
    BY DEF b, f, Behind, Front
<1>12. (eff.zoomed_out => eff.out) /\ (run.out => eff.zoomed_out)
    BY DEF ZoomOK
<1>13. ZoomOK'
    BY <1>1, <1>3, <1>4, <1>5, <1>6, <1>8, <1>9, <1>10, <1>11, <1>12 DEF ZoomOK, Proper
<1>14. Full(sink')
    BY <1>1, <1>5, <1>6, <1>8, StretchBltFull, PlainFull DEF ZoomPic
<1>15. j = Steps => sink' = Picture(2)
    <2> SUFFICES ASSUME j = Steps PROVE sink' = Picture(2)
        OBVIOUS
    <2>1. CASE ~run.out
        BY <1>2, <1>3, <1>4, <1>8, <1>11, <2>1, StretchedWhole DEF ZoomPic
    <2>2. CASE run.out
        <3>1. b = 2 /\ f = 1 /\ v = z
            BY <1>3, <1>4, <2>2 DEF b, f, Behind, Front
        <3>2. \A p \in Pixels : ~InRect(p, z)
            BY <1>3 DEF InRect, Rects
        <3>3. Picture(2) \in Pictures /\ 1 \in {1, 2}
            BY <1>2, PlainPictures
        <3>4. StretchBlt(Picture(2), 1, z) = Picture(2)
            BY <1>2, <1>3, <3>2, <3>3, StretchedNowhere
        <3> QED
            BY <1>8, <3>1, <3>4 DEF ZoomPic
    <2> QED
        BY <1>2, <2>1, <2>2
<1> QED
    BY <1>13, <1>14, <1>15

-----------------------------------------------------------------------------
(***************************************************************************)
(* The other classes: what a frame leaves in the sink.                     *)
(***************************************************************************)
LEMMA PushFrame ==
    ASSUME Typed, Begins, eff.class = "push", NEW j \in 0..Steps, Frame(j)
    PROVE  /\ run.frames = 0 \/ Full(sink) => Full(sink')
           /\ j = Steps => sink' = Picture(2)
<1> DEFINE v == ValueAt(eff, run, j)
           w == v.right - v.left
           h == v.bottom - v.top
           d == eff.direction
           two == BitBlt(sink, 2, <<0, 0>>, 0, 0, <<v.left, v.top>>)
           old == CASE d = 0 -> <<v.left + w, v.top>>
                    [] d = 1 -> <<v.left - w, v.top>>
                    [] d = 2 -> <<v.left, v.top + h>>
                    [] OTHER -> <<v.left, v.top - h>>
<1>1. /\ run.state = "drawing" /\ v \in Rects /\ sink' = OnDraw(sink, eff, v, run.frames = 0)
      /\ (run.frames = 0 => j = 0)
    BY FrameDoes DEF ValueTyped
<1>2. Sized /\ sink \in Pictures
    BY SizedAlways DEF Typed
<1>3. (j = 0 => v = PushStart(d)) /\ (j = Steps => v = Whole)
    BY <1>1, ValueEnds DEF Begins, Begun
<1>4. sink' = BitBlt(two, 1, <<0, 0>>, 0, 0, old)
    BY <1>1 DEF OnDraw, PushDrawn
<1> HIDE DEF v, d
<1>5. ASSUME j = 0
      PROVE  sink' = Picture(1)
    <2>1. old = <<0, 0>>
        BY <1>2, <1>3, <1>5 DEF PushStart, Rect, Sized
    <2> HIDE DEF two, old
    <2> QED
        BY <1>2, <1>4, <2>1, CopiedWhole
<1>6. ASSUME Full(sink)
      PROVE  Full(sink')
    <2> DEFINE z == 0
               o == <<0, 0>>
    <2>1. z \in Nat /\ 1 \in {1, 2} /\ 2 \in {1, 2} /\ two = BitBlt(sink, 2, o, z, z, <<v.left, v.top>>)
          /\ sink' = BitBlt(two, 1, o, z, z, old)
        BY <1>4
    <2> HIDE DEF two, old, z, o
    <2>2. Full(two)
        BY <1>6, <2>1, BitBltFull
    <2> QED
        BY <2>1, <2>2, BitBltFull
<1>7. ASSUME j = Steps
      PROVE  sink' = Picture(2)
    <2>1. w = W /\ h = H /\ v.left = 0 /\ v.top = 0
        BY <1>2, <1>3, <1>7 DEF Whole, Sized
    <2>2. old \in {<<W, 0>>, <<-W, 0>>, <<0, H>>, <<0, -H>>}
        <3>1. 0 + W = W /\ 0 - W = -W /\ 0 + H = H /\ 0 - H = -H
            BY <1>2 DEF Sized
        <3> QED
            BY <2>1, <3>1
    <2>3. two = Picture(2)
        BY <1>2, <2>1, CopiedWhole
    <2>4. Picture(2) \in Pictures
        BY <1>2, PlainPictures
    <2> HIDE DEF two, old
    <2> QED
        BY <1>2, <1>4, <2>2, <2>3, <2>4, CopiedBeside
<1> QED
    BY <1>1, <1>5, <1>6, <1>7, PlainFull

(* The progress these classes draw at.                                     *)
LEMMA FractionAt ==
    ASSUME Typed, Begins, run.state = "drawing", NEW j \in 0..Steps,
           eff.class \in {"zip", "centersplit", "leafwindow"}
    PROVE  LET f == ValueAt(eff, run, j)
           IN  /\ f \in Fractions /\ f[1] \in 0..f[2] /\ f = CurveValue(run.curve, j, Steps)
               /\ j = Steps => f[1] = f[2]
<1>1. run.curve \in AllCurves /\ Steps \in Nat \ {0} /\ Steps \in 0..Steps
    BY CurvesAssumption, StepsAssumption DEF Typed, RunTyped, AllCurves
<1>2. ~Overshoots(run.curve)
    BY DEF Begins
<1>3. ValueAt(eff, run, j) = CurveValue(run.curve, j, Steps)
    BY DEF ValueAt
<1> QED
    BY <1>1, <1>2, <1>3, Values

(* The two rectangles of zip lie side by side and cover the sink.          *)
ZipNew(d, w, h) ==
    CASE d = 0 -> Rect(0, 0, w, H) [] d = 1 -> Rect(W - w, 0, W, H)
      [] d = 2 -> Rect(0, 0, W, h) [] OTHER -> Rect(0, H - h, W, H)
ZipOld(d, w, h) ==
    CASE d = 0 -> Rect(w, 0, W, H) [] d = 1 -> Rect(0, 0, W - w, H)
      [] d = 2 -> Rect(0, h, W, H) [] OTHER -> Rect(0, 0, W, H - h)

LEMMA ZipSides ==
    ASSUME Sized, NEW d, NEW w \in 0..W, NEW h \in 0..H
    PROVE  LET new == ZipNew(d, w, h)
               old == ZipOld(d, w, h)
           IN  /\ new \in Rects /\ old \in Rects /\ Proper(new) /\ Proper(old)
               /\ \A p \in Pixels : InRect(p, new) <=> ~InRect(p, old)
               /\ w = W /\ h = H => new = Whole /\ \A p \in Pixels : ~InRect(p, old)
<1>1. W \in Nat /\ H \in Nat /\ w \in Int /\ h \in Int /\ 0 <= w /\ w <= W /\ 0 <= h /\ h <= H
    BY DEF Sized
<1>2. \A p \in Pixels : p[1] \in Int /\ p[2] \in Int /\ 0 <= p[1] /\ p[1] < W /\ 0 <= p[2] /\ p[2] < H
    BY <1>1 DEF Pixels
<1>3. W - W = 0 /\ H - H = 0
    BY <1>1
<1>4. CASE d = 0
    BY <1>1, <1>2, <1>4 DEF ZipNew, ZipOld, Rect, Rects, Proper, InRect, Whole
<1>5. CASE d = 1
    BY <1>1, <1>2, <1>3, <1>5 DEF ZipNew, ZipOld, Rect, Rects, Proper, InRect, Whole
<1>6. CASE d = 2
    BY <1>1, <1>2, <1>6 DEF ZipNew, ZipOld, Rect, Rects, Proper, InRect, Whole
<1>7. CASE d \notin {0, 1, 2}
    BY <1>1, <1>2, <1>3, <1>7 DEF ZipNew, ZipOld, Rect, Rects, Proper, InRect, Whole
<1> QED
    BY <1>4, <1>5, <1>6, <1>7

LEMMA ZipFrame ==
    ASSUME Typed, Begins, eff.class = "zip", NEW j \in 0..Steps, Frame(j)
    PROVE  /\ Full(sink') /\ (j = Steps => sink' = Picture(2))
           /\ \A p \in Pixels : sink'[p][1] = 2 <=>
                InRect(p, ZipNew(eff.direction, Part(W, ValueAt(eff, run, j)), Part(H, ValueAt(eff, run, j))))
<1> DEFINE f == ValueAt(eff, run, j)
           w == Part(W, f)
           h == Part(H, f)
           new == ZipNew(eff.direction, w, h)
           old == ZipOld(eff.direction, w, h)
           two == StretchBlt(sink, 2, new)
<1>1. /\ run.state = "drawing" /\ sink' = OnDraw(sink, eff, f, run.frames = 0)
    BY FrameDoes
<1>2. Sized /\ sink \in Pictures
    BY SizedAlways DEF Typed
<1>3. f \in Fractions /\ f[1] \in 0..f[2] /\ (j = Steps => f[1] = f[2])
    BY <1>1, FractionAt
<1>4. sink' = StretchBlt(two, 1, old)
    BY <1>1 DEF OnDraw, ZipDrawn, ZipNew, ZipOld
<1> HIDE DEF f
<1>5. w \in 0..W /\ h \in 0..H /\ (j = Steps => w = W /\ h = H)
    BY <1>2, <1>3, PartBound DEF Sized
<1> HIDE DEF w, h
<1>6. /\ new \in Rects /\ old \in Rects /\ Proper(new) /\ Proper(old)
      /\ \A p \in Pixels : InRect(p, new) <=> ~InRect(p, old)
      /\ j = Steps => new = Whole /\ \A p \in Pixels : ~InRect(p, old)
    BY <1>2, <1>5, ZipSides
<1> HIDE DEF new, old
<1>7. ASSUME NEW p \in Pixels
      PROVE  /\ InRect(p, new) => sink'[p][1] = 2
             /\ ~InRect(p, new) => sink'[p][1] = 1
    <2>1. CASE InRect(p, new)
        <3>1. two[p][1] = 2 /\ sink'[p] = two[p]
            BY <1>4, <1>6, <2>1, StretchBltAt
        <3> QED
            BY <2>1, <3>1
    <2>2. CASE ~InRect(p, new)
        BY <1>4, <1>6, <2>2, StretchBltAt
    <2> QED
        BY <2>1, <2>2
<1>8. Full(sink')
    BY <1>7 DEF Full
<1>9. ASSUME j = Steps
      PROVE  sink' = Picture(2)
    <2>1. two = Picture(2) /\ Picture(2) \in Pictures
        BY <1>2, <1>6, <1>9, StretchedWhole, PlainPictures
    <2> HIDE DEF two
    <2> QED
        BY <1>2, <1>4, <1>6, <1>9, <2>1, StretchedNowhere
<1> QED
    BY <1>7, <1>8, <1>9 DEF new, w, h, f

(* Blits in place that cover every pixel bring the whole picture in.       *)
InPlace(b) == b[1] = 2 /\ b[2] \in Points /\ b[5] = b[2] /\ b[3] \in Nat \ {0} /\ b[4] \in Nat \ {0}
Strip(b) == Rect(b[2][1], b[2][2], b[2][1] + b[3], b[2][2] + b[4])

LEMMA CoversInPlace ==
    ASSUME Sized, NEW b, InPlace(b), NEW p \in Pixels
    PROVE  (Covers(b[2], b[3], b[4], b[5], p) <=> InRect(p, Strip(b))) /\ Reads(b[2], b[5], p) = p
<1>1. Reads(b[2], b[2], p) = p /\ ~(b[3] = 0 \/ b[4] = 0)
    BY ReadsInPlace DEF InPlace
<1> QED
    BY <1>1 DEF Covers, Strip, InPlace

LEMMA BlitsInPlace ==
    ASSUME Sized, NEW pic \in Pictures, NEW list, \A n \in DOMAIN list : InPlace(list[n]),
           \A p \in Pixels : \E n \in DOMAIN list :
               InRect(p, Strip(list[n])) /\ \A m \in DOMAIN list : m > n => ~InRect(p, Strip(list[m]))
    PROVE  Blits(pic, list) = Picture(2)
<1>1. ASSUME NEW p \in Pixels
      PROVE  Blits(pic, list)[p] = Picture(2)[p]
    <2>1. Last(list, p) # {}
        <3>1. PICK n \in DOMAIN list :
                InRect(p, Strip(list[n])) /\ \A m \in DOMAIN list : m > n => ~InRect(p, Strip(list[m]))
            OBVIOUS
        <3>2. n \in Last(list, p)
            BY <3>1, CoversInPlace DEF Last
        <3> QED
            BY <3>2
    <2>2. \A n \in DOMAIN list : list[n][3] \in Nat /\ list[n][4] \in Nat
        BY DEF InPlace
    <2>3. PICK n \in Last(list, p) : Blits(pic, list)[p] = <<list[n][1], Reads(list[n][2], list[n][5], p)>>
        BY <2>1, <2>2, BlitsAt
    <2>4. n \in DOMAIN list
        BY DEF Last
    <2>5. list[n][1] = 2 /\ Reads(list[n][2], list[n][5], p) = p
        BY <2>4, CoversInPlace DEF InPlace
    <2> QED
        BY <2>3, <2>5 DEF Picture
<1>2. Blits(pic, list) \in Pictures
    <2>1. \A n \in DOMAIN list : list[n][1] \in 0..2
        BY DEF InPlace
    <2> QED
        BY <2>1, BlitsPicture
<1>3. Picture(2) \in Pictures
    BY PlainPictures
<1> QED
    BY <1>1, <1>2, <1>3, SamePicture

Quarters(m) == <<<<2, <<0, 0>>, m, m, <<0, 0>>>>, <<2, <<m, 0>>, m, m, <<m, 0>>>>,
                 <<2, <<0, m>>, m, m, <<0, m>>>>, <<2, <<m, m>>, m, m, <<m, m>>>>>>
HalvesOf(m) == <<<<2, <<0, 0>>, W, m, <<0, 0>>>>, <<2, <<0, m>>, W, m, <<0, m>>>>>>

LEMMA QuartersWhole ==
    ASSUME Sized, NEW pic \in Pictures, NEW m \in Nat \ {0}, W = 2 * m, H = 2 * m
    PROVE  Blits(pic, Quarters(m)) = Picture(2)
<1>0. \A p \in Pixels : /\ p[1] \in Int /\ p[2] \in Int /\ 0 <= p[1] /\ p[1] < 2 * m
                        /\ 0 <= p[2] /\ p[2] < 2 * m
    BY PixelIs DEF Sized
<1> DEFINE l == Quarters(m)
<1>1. /\ DOMAIN l = 1..4
      /\ l[1] = <<2, <<0, 0>>, m, m, <<0, 0>>>> /\ l[2] = <<2, <<m, 0>>, m, m, <<m, 0>>>>
      /\ l[3] = <<2, <<0, m>>, m, m, <<0, m>>>> /\ l[4] = <<2, <<m, m>>, m, m, <<m, m>>>>
    BY DEF Quarters
<1> HIDE DEF l
<1>2. \A n \in DOMAIN l : n = 1 \/ n = 2 \/ n = 3 \/ n = 4
    BY <1>1
<1>3. InPlace(l[1]) /\ InPlace(l[2]) /\ InPlace(l[3]) /\ InPlace(l[4])
    BY <1>1 DEF InPlace, Points
<1>4. /\ Strip(l[1]) = Rect(0, 0, 0 + m, 0 + m) /\ Strip(l[2]) = Rect(m, 0, m + m, 0 + m)
      /\ Strip(l[3]) = Rect(0, m, 0 + m, m + m) /\ Strip(l[4]) = Rect(m, m, m + m, m + m)
    BY <1>1 DEF Strip
<1>5. ASSUME NEW p \in Pixels
      PROVE  /\ InRect(p, Strip(l[1])) <=> p[1] < m /\ p[2] < m
             /\ InRect(p, Strip(l[2])) <=> p[1] >= m /\ p[2] < m
             /\ InRect(p, Strip(l[3])) <=> p[1] < m /\ p[2] >= m
             /\ InRect(p, Strip(l[4])) <=> p[1] >= m /\ p[2] >= m
    BY <1>0, <1>4 DEF InRect, Rect
<1>6. ASSUME NEW p \in Pixels
      PROVE  \E n \in DOMAIN l :
                InRect(p, Strip(l[n])) /\ \A k \in DOMAIN l : k > n => ~InRect(p, Strip(l[k]))
    <2>1. p[1] \in Int /\ p[2] \in Int /\ 1 \in DOMAIN l /\ 2 \in DOMAIN l /\ 3 \in DOMAIN l /\ 4 \in DOMAIN l
        BY <1>0, <1>1
    <2>2. CASE p[1] < m /\ p[2] < m
        BY <1>2, <1>5, <2>1, <2>2
    <2>3. CASE p[1] >= m /\ p[2] < m
        BY <1>2, <1>5, <2>1, <2>3
    <2>4. CASE p[1] < m /\ p[2] >= m
        BY <1>2, <1>5, <2>1, <2>4
    <2>5. CASE p[1] >= m /\ p[2] >= m
        BY <1>2, <1>5, <2>1, <2>5
    <2> QED
        BY <2>1, <2>2, <2>3, <2>4, <2>5
<1>7. \A n \in DOMAIN l : InPlace(l[n])
    BY <1>2, <1>3
<1>8. Blits(pic, l) = Picture(2)
    BY <1>6, <1>7, BlitsInPlace
<1> QED
    BY <1>8 DEF l

LEMMA HalvesWhole ==
    ASSUME Sized, NEW pic \in Pictures, NEW m \in Nat \ {0}, H = 2 * m
    PROVE  Blits(pic, HalvesOf(m)) = Picture(2)
<1>0. \A p \in Pixels : /\ p[1] \in Int /\ p[2] \in Int /\ 0 <= p[1] /\ p[1] < W
                        /\ 0 <= p[2] /\ p[2] < 2 * m
    BY PixelIs DEF Sized
<1>9. W \in Nat \ {0}
    BY DEF Sized
<1> DEFINE l == HalvesOf(m)
<1>1. /\ DOMAIN l = 1..2
      /\ l[1] = <<2, <<0, 0>>, W, m, <<0, 0>>>> /\ l[2] = <<2, <<0, m>>, W, m, <<0, m>>>>
    BY DEF HalvesOf
<1> HIDE DEF l
<1>2. \A n \in DOMAIN l : n = 1 \/ n = 2
    BY <1>1
<1>3. InPlace(l[1]) /\ InPlace(l[2])
    BY <1>1, <1>9 DEF InPlace, Points
<1>4. Strip(l[1]) = Rect(0, 0, 0 + W, 0 + m) /\ Strip(l[2]) = Rect(0, m, 0 + W, m + m)
    BY <1>1 DEF Strip
<1>5. ASSUME NEW p \in Pixels
      PROVE  /\ InRect(p, Strip(l[1])) <=> p[2] < m
             /\ InRect(p, Strip(l[2])) <=> p[2] >= m
    BY <1>0, <1>4, <1>9 DEF InRect, Rect
<1>6. ASSUME NEW p \in Pixels
      PROVE  \E n \in DOMAIN l :
                InRect(p, Strip(l[n])) /\ \A k \in DOMAIN l : k > n => ~InRect(p, Strip(l[k]))
    <2>1. p[2] \in Int /\ 1 \in DOMAIN l /\ 2 \in DOMAIN l
        BY <1>0, <1>1
    <2>2. CASE p[2] < m
        BY <1>2, <1>5, <2>1, <2>2
    <2>3. CASE p[2] >= m
        BY <1>2, <1>5, <2>1, <2>3
    <2> QED
        BY <2>1, <2>2, <2>3
<1>7. \A n \in DOMAIN l : InPlace(l[n])
    BY <1>2, <1>3
<1>8. Blits(pic, l) = Picture(2)
    BY <1>6, <1>7, BlitsInPlace
<1> QED
    BY <1>8 DEF l

(* What centersplit copies, with quarters of cw by ch.                     *)
OutList(d, cw, ch) ==
    LET cropw == IF d = 0 THEN W \div 2 - cw ELSE W
        croph == H \div 2 - ch
        low == H \div 2 + ch
    IN  IF d = 0
        THEN <<<<1, <<cw, ch>>,           cropw, croph, <<0, 0>>>>,
               <<1, <<W \div 2, ch>>,     cropw, croph, <<W - (W \div 2 - cw), 0>>>>,
               <<1, <<cw, H \div 2>>,     cropw, croph, <<0, low>>>>,
               <<1, <<W \div 2, H \div 2>>, cropw, croph, <<W \div 2 + cw, low>>>>>>
        ELSE <<<<1, <<0, ch>>,      cropw, croph, <<0, 0>>>>,
               <<1, <<0, H \div 2>>, cropw, croph, <<0, low>>>>>>
CenterList(d, cw, ch) ==
    LET mw == W \div 2
        mh == H \div 2
    IN  IF d = 1
        THEN <<<<2, <<mw - cw, mw - ch>>, cw, ch, <<0, 0>>>>,
               <<2, <<mw, mh - ch>>,      cw, ch, <<W - cw, 0>>>>,
               <<2, <<mw - cw, mh>>,      cw, ch, <<0, H - ch>>>>,
               <<2, <<mw, mh>>,           cw, ch, <<W - cw, H - ch>>>>>>
        ELSE <<<<2, <<0, mh - ch>>, W, ch, <<0, 0>>>>,
               <<2, <<0, mh>>,      W, ch, <<0, H - ch>>>>>>

(* What it draws: over which picture, and the blits if there are any.      *)
OutDrawn(pic, d, cw, ch) ==
    IF cw = 0 /\ ch = 0 THEN pic
    ELSE IF cw = 0 \/ ch = 0 \/ (d = 0 /\ W \div 2 - cw = 0) \/ H \div 2 - ch = 0 THEN Picture(2)
    ELSE Blits(Picture(2), OutList(d, cw, ch))
CenterDrawn(old, d, cw, ch) ==
    IF cw = 0 \/ ch = 0 THEN old ELSE Blits(old, CenterList(d, cw, ch))

LEMMA SplitDrawn ==
    ASSUME Sized, NEW pic, NEW e, NEW f, NEW first, e.class = "centersplit",
           NEW x \in Int, NEW y \in Int, x = Trunc(W * f[1], 2 * f[2]), y = Trunc(H * f[1], 2 * f[2])
    PROVE  /\ e.direction \in {0, 2} => OnDraw(pic, e, f, first) = OutDrawn(pic, e.direction, x, y)
           /\ e.direction \notin {0, 2} => OnDraw(pic, e, f, first) =
                CenterDrawn(IF first THEN Picture(1) ELSE pic, e.direction, x, y)
<1> DEFINE cw == Trunc(W * f[1], 2 * f[2])
           ch == Trunc(H * f[1], 2 * f[2])
           d == e.direction
<1>1. cw = x /\ ch = y
    OBVIOUS
<1>2. ASSUME d \in {0, 2}
      PROVE  OnDraw(pic, e, f, first) = OutDrawn(pic, d, x, y)
    <2> DEFINE crop == IF d = 0 THEN W \div 2 - cw ELSE W
               two == Picture(2)
               new == IF cw = 0 /\ ch = 0 THEN pic ELSE two
               list == OutList(d, cw, ch)
    <2>1. OnDraw(pic, e, f, first) = ToOutside(pic, e, f)
        BY <1>2 DEF OnDraw
    <2>2. ToOutside(pic, e, f) =
            IF cw = 0 \/ ch = 0 \/ crop = 0 \/ H \div 2 - ch = 0 THEN new ELSE Blits(new, list)
        BY Zenon DEF ToOutside, OutList
    <2>3. crop = 0 <=> d = 0 /\ W \div 2 - x = 0
        BY <1>1 DEF Sized
    <2>4. OutDrawn(pic, d, x, y) =
            IF x = 0 /\ y = 0 THEN pic
            ELSE IF x = 0 \/ y = 0 \/ (d = 0 /\ W \div 2 - x = 0) \/ H \div 2 - y = 0 THEN two
            ELSE Blits(two, OutList(d, x, y))
        BY DEF OutDrawn
    <2>5. OutList(d, x, y) = list
        BY <1>1
    <2>6. new = IF x = 0 /\ y = 0 THEN pic ELSE two
        BY <1>1
    <2> HIDE DEF crop, new, list, cw, ch, d, two
    <2> QED
        BY <1>1, <2>1, <2>2, <2>3, <2>4, <2>5, <2>6
<1>3. ASSUME d \notin {0, 2}
      PROVE  OnDraw(pic, e, f, first) = CenterDrawn(IF first THEN Picture(1) ELSE pic, d, x, y)
    <2> DEFINE old == IF first THEN Picture(1) ELSE pic
    <2>1. OnDraw(pic, e, f, first) = ToCenter(pic, e, f, first)
        BY <1>3 DEF OnDraw
    <2>2. ToCenter(pic, e, f, first) = IF cw = 0 \/ ch = 0 THEN old ELSE Blits(old, CenterList(d, cw, ch))
        BY Zenon DEF ToCenter, CenterList
    <2> HIDE DEF old, cw, ch, d
    <2>3. OnDraw(pic, e, f, first) = CenterDrawn(old, d, x, y)
        BY <1>1, <2>1, <2>2 DEF CenterDrawn
    <2> QED
        BY <2>3 DEF old
<1> QED
    BY <1>2, <1>3

LEMMA SplitLists ==
    ASSUME Sized, NEW x \in 1..W \div 2, NEW y \in 1..H \div 2, NEW d
    PROVE  /\ \A n \in DOMAIN OutList(d, x, y) :
                LET b == OutList(d, x, y)[n] IN b[1] = 1 /\ b[3] \in Nat /\ b[4] \in Nat
           /\ \A n \in DOMAIN CenterList(d, x, y) :
                LET b == CenterList(d, x, y)[n] IN b[1] = 2 /\ b[3] \in Nat /\ b[4] \in Nat
<1> DEFINE mw == W \div 2
           mh == H \div 2
           kw == mw - x
           kh == mh - y
<1>1. /\ mw \in Nat /\ mh \in Nat /\ kw \in Nat /\ kh \in Nat /\ x \in Nat /\ y \in Nat
      /\ W \in Nat /\ H \in Nat
    BY DEF Sized
<1>2. \A n \in DOMAIN OutList(d, x, y) :
        LET b == OutList(d, x, y)[n] IN b[1] = 1 /\ b[3] \in Nat /\ b[4] \in Nat
    <2>1. CASE d = 0
        <3> DEFINE l == <<<<1, <<x, y>>, kw, kh, <<0, 0>>>>,
                          <<1, <<mw, y>>, kw, kh, <<W - kw, 0>>>>,
                          <<1, <<x, mh>>, kw, kh, <<0, mh + y>>>>,
                          <<1, <<mw, mh>>, kw, kh, <<mw + x, mh + y>>>>>>
        <3>1. OutList(d, x, y) = l
            BY <2>1 DEF OutList
        <3> HIDE DEF mw, mh, kw, kh
        <3>2. \A n \in DOMAIN l : l[n][1] = 1 /\ l[n][3] \in Nat /\ l[n][4] \in Nat
            BY <1>1
        <3> HIDE DEF l
        <3> QED
            BY <3>1, <3>2
    <2>2. CASE d # 0
        <3> DEFINE l == <<<<1, <<0, y>>, W, kh, <<0, 0>>>>, <<1, <<0, mh>>, W, kh, <<0, mh + y>>>>>>
        <3>1. OutList(d, x, y) = l
            BY <2>2 DEF OutList
        <3> HIDE DEF mw, mh, kw, kh
        <3>2. \A n \in DOMAIN l : l[n][1] = 1 /\ l[n][3] \in Nat /\ l[n][4] \in Nat
            BY <1>1
        <3> HIDE DEF l
        <3> QED
            BY <3>1, <3>2
    <2> QED
        BY <2>1, <2>2
<1>3. \A n \in DOMAIN CenterList(d, x, y) :
        LET b == CenterList(d, x, y)[n] IN b[1] = 2 /\ b[3] \in Nat /\ b[4] \in Nat
    <2>1. CASE d = 1
        <3> DEFINE l == <<<<2, <<mw - x, mw - y>>, x, y, <<0, 0>>>>,
                          <<2, <<mw, mh - y>>, x, y, <<W - x, 0>>>>,
                          <<2, <<mw - x, mh>>, x, y, <<0, H - y>>>>,
                          <<2, <<mw, mh>>, x, y, <<W - x, H - y>>>>>>
        <3>1. CenterList(d, x, y) = l
            BY <2>1 DEF CenterList
        <3> HIDE DEF mw, mh
        <3>2. \A n \in DOMAIN l : l[n][1] = 2 /\ l[n][3] \in Nat /\ l[n][4] \in Nat
            BY <1>1
        <3> HIDE DEF l
        <3> QED
            BY <3>1, <3>2
    <2>2. CASE d # 1
        <3> DEFINE l == <<<<2, <<0, mh - y>>, W, y, <<0, 0>>>>, <<2, <<0, mh>>, W, y, <<0, H - y>>>>>>
        <3>1. CenterList(d, x, y) = l
            BY <2>2 DEF CenterList
        <3> HIDE DEF mw, mh
        <3>2. \A n \in DOMAIN l : l[n][1] = 2 /\ l[n][3] \in Nat /\ l[n][4] \in Nat
            BY <1>1
        <3> HIDE DEF l
        <3> QED
            BY <3>1, <3>2
    <2> QED
        BY <2>1, <2>2
<1> QED
    BY <1>2, <1>3

LEMMA SplitStep ==
    ASSUME Typed, Begins, Directed, eff.class = "centersplit", NEW j \in 0..Steps, Frame(j)
    PROVE  LET f == ValueAt(eff, run, j)
               x == Trunc(W * f[1], 2 * f[2])
               y == Trunc(H * f[1], 2 * f[2])
               d == eff.direction
               old == IF run.frames = 0 THEN Picture(1) ELSE sink
           IN  /\ d \in 0..3 /\ (W > 1 \/ H > 1)
               /\ d = 1 => W = H /\ W % 2 = 0
               /\ d = 3 => H % 2 = 0 /\ W > 1
               /\ W \div 2 \in Nat /\ H \div 2 \in Nat
               /\ x \in 0..W \div 2 /\ y \in 0..H \div 2
               /\ j = Steps => x = W \div 2 /\ y = H \div 2
               /\ d \in {0, 2} => sink' = OutDrawn(sink, d, x, y)
               /\ d \notin {0, 2} => sink' = CenterDrawn(old, d, x, y)
<1> DEFINE f == ValueAt(eff, run, j)
           x == Trunc(W * f[1], 2 * f[2])
           y == Trunc(H * f[1], 2 * f[2])
           d == eff.direction
           old == IF run.frames = 0 THEN Picture(1) ELSE sink
<1>1. /\ run.state = "drawing" /\ sink' = OnDraw(sink, eff, f, run.frames = 0)
    BY FrameDoes
<1>2. Sized /\ sink \in Pictures /\ d \in 0..3
    BY SizedAlways DEF Typed, Directed
<1>3. (W > 1 \/ H > 1) /\ (d = 1 => W = H /\ W % 2 = 0) /\ (d = 3 => H % 2 = 0 /\ W > 1)
    BY <1>1 DEF Begins, Fits
<1>4. f \in Fractions /\ f[1] \in 0..f[2] /\ (j = Steps => f[1] = f[2])
    BY <1>1, FractionAt
<1> HIDE DEF f
<1>5. /\ W \div 2 \in Nat /\ H \div 2 \in Nat
      /\ x \in 0..W \div 2 /\ y \in 0..H \div 2
      /\ j = Steps => x = W \div 2 /\ y = H \div 2
    BY <1>2, <1>4, PartBound DEF Sized
<1>6. /\ d \in {0, 2} => sink' = OutDrawn(sink, d, x, y)
      /\ d \notin {0, 2} => sink' = CenterDrawn(old, d, x, y)
    <2> DEFINE first == run.frames = 0
    <2>1. /\ x \in Int /\ x = Trunc(W * f[1], 2 * f[2]) /\ y \in Int /\ y = Trunc(H * f[1], 2 * f[2])
          /\ sink' = OnDraw(sink, eff, f, first)
        BY <1>1, <1>5
    <2>2. old = IF first THEN Picture(1) ELSE sink
        OBVIOUS
    <2> HIDE DEF x, y, first, old
    <2>3. /\ d \in {0, 2} => OnDraw(sink, eff, f, first) = OutDrawn(sink, d, x, y)
          /\ d \notin {0, 2} => OnDraw(sink, eff, f, first) =
                CenterDrawn(IF first THEN Picture(1) ELSE sink, d, x, y)
        BY <1>2, <2>1, SplitDrawn
    <2> QED
        BY <2>1, <2>2, <2>3
<1> QED
    BY <1>2, <1>3, <1>5, <1>6 DEF f

LEMMA SplitFrame ==
    ASSUME Typed, Begins, Directed, eff.class = "centersplit", NEW j \in 0..Steps, Frame(j), Full(sink)
    PROVE  Full(sink') /\ (j = Steps => sink' = Picture(2))
<1> DEFINE f == ValueAt(eff, run, j)
           x == Trunc(W * f[1], 2 * f[2])
           y == Trunc(H * f[1], 2 * f[2])
           d == eff.direction
           mw == W \div 2
           mh == H \div 2
           old == IF run.frames = 0 THEN Picture(1) ELSE sink
           two == Picture(2)
<1>1. /\ d \in 0..3 /\ (W > 1 \/ H > 1)
      /\ d = 1 => W = H /\ W % 2 = 0
      /\ d = 3 => H % 2 = 0 /\ W > 1
      /\ mw \in Nat /\ mh \in Nat /\ x \in 0..mw /\ y \in 0..mh
      /\ j = Steps => x = mw /\ y = mh
      /\ d \in {0, 2} => sink' = OutDrawn(sink, d, x, y)
      /\ d \notin {0, 2} => sink' = CenterDrawn(old, d, x, y)
    BY SplitStep
<1>2. Sized /\ sink \in Pictures
    BY SizedAlways DEF Typed
<1>3. Full(old) /\ old \in Pictures /\ Full(two)
    BY <1>2, PlainFull, PlainPictures
<1>4. W \in Nat \ {0} /\ H \in Nat \ {0}
    BY <1>2 DEF Sized
<1> HIDE DEF old, x, y, d, two
<1>5. x # 0 /\ y # 0 => Full(Blits(two, OutList(d, x, y))) /\ Full(Blits(old, CenterList(d, x, y)))
    <2> SUFFICES ASSUME x # 0, y # 0
                 PROVE  Full(Blits(two, OutList(d, x, y))) /\ Full(Blits(old, CenterList(d, x, y)))
        OBVIOUS
    <2>1. x \in 1..W \div 2 /\ y \in 1..H \div 2
        BY <1>1
    <2> QED
        BY <1>2, <1>3, <2>1, SplitLists, BlitsFull
<1>6. Full(sink')
    <2>1. CASE d \in {0, 2}
        BY <1>1, <1>3, <1>5, <2>1 DEF OutDrawn, two
    <2>2. CASE d \notin {0, 2}
        BY <1>1, <1>3, <1>5, <2>2 DEF CenterDrawn
    <2> QED
        BY <2>1, <2>2
<1>7. ASSUME j = Steps
      PROVE  sink' = Picture(2)
    <2>1. x = mw /\ y = mh /\ mw - x = 0 /\ mh - y = 0
        BY <1>1, <1>7
    <2>2. CASE d \in {0, 2}
        <3>1. ~(x = 0 /\ y = 0)
            BY <1>1, <1>4, <2>1
        <3> QED
            BY <1>1, <2>1, <2>2, <3>1 DEF OutDrawn
    <2>3. CASE d = 1
        <3>1. W = 2 * mw /\ H = 2 * mw /\ mh = mw /\ mw \in Nat \ {0}
            BY <1>1, <1>4, <2>3
        <3> HIDE DEF mw, mh
        <3>2. sink' = Blits(old, CenterList(d, mw, mw))
            BY <1>1, <2>1, <2>3, <3>1 DEF CenterDrawn
        <3>3. CenterList(d, mw, mw) = Quarters(mw)
            <4>1. W \div 2 = mw /\ H \div 2 = mw /\ mw - mw = 0 /\ W - mw = mw /\ H - mw = mw
                BY <3>1 DEF mw, mh
            <4> QED
                BY <2>3, <4>1 DEF CenterList, Quarters
        <3> QED
            BY <1>2, <1>3, <3>1, <3>2, <3>3, QuartersWhole
    <2>4. CASE d = 3
        <3>1. H = 2 * mh /\ mh \in Nat \ {0} /\ mw # 0
            BY <1>1, <1>4, <2>4
        <3> HIDE DEF mw, mh
        <3>2. sink' = Blits(old, CenterList(d, mw, mh))
            BY <1>1, <2>1, <2>4, <3>1 DEF CenterDrawn
        <3>3. CenterList(d, mw, mh) = HalvesOf(mh)
            <4>1. H \div 2 = mh /\ mh - mh = 0 /\ H - mh = mh
                BY <3>1 DEF mh
            <4> QED
                BY <2>4, <4>1 DEF CenterList, HalvesOf
        <3> QED
            BY <1>2, <1>3, <3>1, <3>2, <3>3, HalvesWhole
    <2> QED
        BY <1>1, <2>2, <2>3, <2>4
<1> QED
    BY <1>6, <1>7

(* The strips of leafwindow: a pixel of the length is in just one.         *)
LEMMA Divided ==
    ASSUME NEW l \in Nat, NEW rows \in Nat \ {0}, rows <= l
    PROVE  LET each == l \div rows
               over == l % rows
           IN  /\ each \in Nat \ {0} /\ over \in Nat /\ rows * each \in Nat
               /\ l = rows * each + over /\ over < rows
<1> DEFINE each == l \div rows
           over == l % rows
<1>1. each \in Int /\ rows * each <= l /\ l < rows * each + rows
    BY DivBetween
<1>2. over \in Nat /\ over < rows /\ l = rows * each + over
    OBVIOUS
<1>3. each >= 1
    <2>1. ASSUME each <= 0 PROVE FALSE
        <3> HIDE DEF each
        <3>1. rows * each <= rows * 0
            BY <1>1, <2>1, TimesInt
        <3> QED
            BY <1>1, <3>1
    <2> QED
        BY <1>1, <2>1
<1> HIDE DEF each, over
<1>4. rows * each \in Nat
    BY <1>1, <1>3
<1> QED
    BY <1>1, <1>2, <1>3, <1>4 DEF each, over

OnlyStrip(rows, last, each, over, y) ==
    \E n \in 0..(rows + last - 1) :
        /\ each * n <= y /\ y < each * n + (IF n < rows THEN each ELSE over)
        /\ \A m \in 0..(rows + last - 1) : m > n => y < each * m

LEMMA StripOf ==
    ASSUME NEW l \in Nat, NEW rows \in Nat \ {0}, NEW each \in Nat \ {0}, NEW over \in Nat,
           l = rows * each + over, NEW last \in 0..1, last = (IF over > 0 THEN 1 ELSE 0), NEW y \in 0..(l - 1)
    PROVE  OnlyStrip(rows, last, each, over, y)
<1>1. CASE y < rows * each
    <2> DEFINE q == y \div each
    <2>1. q \in Int /\ each * q <= y /\ y < each * q + each
        BY DivBetween
    <2> HIDE DEF q
    <2>2. q >= 0
        <3>1. ASSUME q <= -1 PROVE FALSE
            <4>1. each * q <= each * (-1) /\ each * (-1) = -each
                BY <2>1, <3>1, TimesInt
            <4> QED
                BY <2>1, <4>1
        <3> QED
            BY <2>1, <3>1
    <2>3. q < rows
        <3>1. ASSUME q >= rows PROVE FALSE
            <4>1. each * rows <= each * q /\ each * rows = rows * each
                BY <2>1, <3>1, TimesInt
            <4> QED
                BY <1>1, <2>1, <4>1
        <3> QED
            BY <2>1, <3>1
    <2>4. ASSUME NEW m \in Int, m > q
          PROVE  y < each * m
        <3>1. each * (q + 1) <= each * m /\ each * (q + 1) = each * q + each
            BY <2>1, <2>4, TimesInt
        <3> QED
            BY <2>1, <3>1
    <2>5. last \in 0..1 /\ q \in 0..(rows + last - 1)
        BY <2>1, <2>2, <2>3
    <2> QED
        BY <2>1, <2>3, <2>4, <2>5 DEF OnlyStrip
<1>2. CASE y >= rows * each
    <2>1. over > 0 /\ last = 1 /\ rows \in 0..(rows + last - 1) /\ each * rows = rows * each
        BY <1>2
    <2>2. each * rows <= y /\ y < each * rows + over
        BY <1>2, <2>1
    <2>3. \A m \in 0..(rows + last - 1) : ~(m > rows)
        BY <2>1
    <2> QED
        BY <2>1, <2>2, <2>3 DEF OnlyStrip
<1> QED
    BY <1>1, <1>2

LEMMA LeafFrame ==
    ASSUME Typed, Begins, eff.class = "leafwindow", NEW j \in 0..Steps, Frame(j), Full(sink)
    PROVE  Full(sink') /\ (j = Steps => sink' = Picture(2)) /\ Keeps(2)
<1> DEFINE f == ValueAt(eff, run, j)
           rows == eff.rows
           len == Leaves(eff)
           each == len \div rows
           over == len % rows
           v(n) == Part(IF n < rows THEN each ELSE over, f)
           at(n) == IF eff.direction = 1 THEN each * (1 + n) - v(n) ELSE each * n
           across(n) == IF eff.vertical THEN <<2, <<0, each * n>>, W, v(n), <<0, at(n)>>>>
                                        ELSE <<2, <<each * n, 0>>, v(n), H, <<at(n), 0>>>>
           last == IF over > 0 /\ v(rows) # 0 THEN 1 ELSE 0
           list == [n \in 1..(rows + last) |-> across(n - 1)]
<1>1. /\ run.state = "drawing" /\ sink' = OnDraw(sink, eff, f, run.frames = 0)
    BY FrameDoes
<1>2. Sized /\ sink \in Pictures /\ rows \in Nat \ {0} /\ W \in Nat \ {0} /\ H \in Nat \ {0}
    BY SizedAlways DEF Typed, Effs, Sized
<1>3. rows <= len /\ (eff.direction = 1 => over = 0) /\ len = IF eff.vertical THEN H ELSE W
    BY <1>1 DEF Begins, Fits, Leaves
<1>4. f \in Fractions /\ f[1] \in 0..f[2] /\ (j = Steps => f[1] = f[2])
    BY <1>1, FractionAt
<1>5. sink' = IF v(0) = 0 THEN sink ELSE Blits(sink, list)
    BY <1>1 DEF OnDraw, LeafDrawn
<1>6. len \in Nat /\ each \in Nat \ {0} /\ over \in Nat /\ len = rows * each + over
    BY <1>2, <1>3, Divided
<1> HIDE DEF f, each, over, len, rows
<1>7. \A n \in Nat : v(n) \in Nat /\ (j = Steps => v(n) = IF n < rows THEN each ELSE over)
    <2> SUFFICES ASSUME NEW n \in Nat
                 PROVE  v(n) \in Nat /\ (j = Steps => v(n) = IF n < rows THEN each ELSE over)
        OBVIOUS
    <2> DEFINE x == IF n < rows THEN each ELSE over
    <2>1. x \in Nat
        BY <1>6
    <2> HIDE DEF x
    <2>2. Part(x, f) \in 0..x /\ (j = Steps => Part(x, f) = x)
        BY <1>4, <2>1, PartBound
    <2> QED
        BY <2>1, <2>2 DEF x
<1> HIDE DEF v
<1>8. last \in 0..1 /\ rows + last \in Nat
    BY <1>2
<1>9. DOMAIN list = 1..(rows + last) /\ \A n \in 1..(rows + last) : list[n] = across(n - 1) /\ n - 1 \in Nat
    BY <1>8
<1> HIDE DEF last, list
<1>10. \A n \in DOMAIN list : list[n][1] = 2 /\ list[n][3] \in Nat /\ list[n][4] \in Nat
    <2> SUFFICES ASSUME NEW n \in DOMAIN list
                 PROVE  list[n][1] = 2 /\ list[n][3] \in Nat /\ list[n][4] \in Nat
        OBVIOUS
    <2>1. list[n] = across(n - 1) /\ v(n - 1) \in Nat
        BY <1>7, <1>9
    <2> QED
        BY <1>2, <2>1
<1>11. Full(sink')
    BY <1>5, <1>10, BlitsFull
<1>13. Keeps(2)
    <2>1. CASE v(0) = 0
        BY <1>5, <2>1 DEF Keeps
    <2>2. CASE v(0) # 0
        <3>1. sink' = Blits(sink, list)
            BY <1>5, <2>2
        <3> QED
            BY <1>10, <3>1, BlitsKeep DEF Keeps
    <2> QED
        BY <2>1, <2>2
<1>12. ASSUME j = Steps
       PROVE  sink' = Picture(2)
    <2>1. \A n \in Nat : v(n) = IF n < rows THEN each ELSE over
        BY <1>7, <1>12
    <2>2. v(0) # 0 /\ last = IF over > 0 THEN 1 ELSE 0
        BY <1>2, <1>6, <2>1 DEF last
    <2>3. ASSUME NEW n \in 0..(rows + last - 1)
          PROVE  at(n) = each * n /\ v(n) \in Nat \ {0}
        <3>1. n \in Nat /\ n <= rows /\ (n = rows => over > 0)
            BY <1>2, <2>2, <2>3
        <3>2. v(n) \in Nat \ {0}
            BY <1>2, <1>6, <2>1, <3>1
        <3>3. eff.direction = 1 => v(n) = each
            BY <1>2, <1>3, <2>1, <3>1
        <3>4. each * (1 + n) - each = each * n
            BY <1>6, <3>1
        <3> QED
            BY <3>2, <3>3, <3>4
    <2>4. ASSUME NEW n \in 0..(rows + last - 1)
          PROVE  /\ n + 1 \in DOMAIN list /\ InPlace(list[n + 1])
                 /\ \A p \in Pixels : InRect(p, Strip(list[n + 1])) <=>
                        LET y == IF eff.vertical THEN p[2] ELSE p[1]
                        IN  each * n <= y /\ y < each * n + v(n)
        <3> DEFINE k == each * n
                   u == v(n)
        <3>0. n \in Int /\ 0 <= n /\ n <= rows + last - 1
            BY <1>2, <1>8
        <3>1. n + 1 \in DOMAIN list /\ list[n + 1] = across(n)
            <4> HIDE DEF across
            <4>1. n + 1 \in 1..(rows + last) /\ (n + 1) - 1 = n
                BY <1>2, <1>8, <3>0
            <4> QED
                BY <1>9, <4>1
        <3>2. k \in Nat /\ u \in Nat \ {0} /\ at(n) = k
            BY <1>6, <2>3
        <3> HIDE DEF k, u, at
        <3>3. list[n + 1] = IF eff.vertical THEN <<2, <<0, k>>, W, u, <<0, k>>>>
                                            ELSE <<2, <<k, 0>>, u, H, <<k, 0>>>>
            BY <3>1, <3>2 DEF k, u
        <3>4. InPlace(list[n + 1])
            BY <1>2, <3>2, <3>3 DEF InPlace, Points
        <3>5. ASSUME NEW p \in Pixels
              PROVE  InRect(p, Strip(list[n + 1])) <=>
                        LET y == IF eff.vertical THEN p[2] ELSE p[1]
                        IN  k <= y /\ y < k + u
            <4>1. p[1] \in Int /\ p[2] \in Int /\ 0 <= p[1] /\ p[1] < W /\ 0 <= p[2] /\ p[2] < H
                BY <1>2, PixelIs
            <4>2. CASE eff.vertical
                <5>1. Strip(list[n + 1]) = Rect(0, k, 0 + W, k + u)
                    BY <3>3, <4>2 DEF Strip
                <5> QED
                    BY <1>2, <3>2, <4>1, <4>2, <5>1 DEF InRect, Rect
            <4>3. CASE ~eff.vertical
                <5>1. Strip(list[n + 1]) = Rect(k, 0, k + u, 0 + H)
                    BY <3>3, <4>3 DEF Strip
                <5> QED
                    BY <1>2, <3>2, <4>1, <4>3, <5>1 DEF InRect, Rect
            <4> QED
                BY <4>2, <4>3
        <3> QED
            BY <3>1, <3>4, <3>5 DEF k, u
    <2> HIDE DEF across, at
    <2>5. \A m \in DOMAIN list : m - 1 \in 0..(rows + last - 1) /\ m = (m - 1) + 1
        BY <1>2, <1>8, <1>9
    <2>6. \A m \in DOMAIN list : InPlace(list[m])
        BY <2>4, <2>5
    <2>7. ASSUME NEW p \in Pixels
          PROVE  \E m \in DOMAIN list :
                    InRect(p, Strip(list[m])) /\ \A k \in DOMAIN list : k > m => ~InRect(p, Strip(list[k]))
        <3> DEFINE y == IF eff.vertical THEN p[2] ELSE p[1]
        <3>1. y \in 0..(len - 1)
            BY <1>2, <1>3, PixelIs
        <3> HIDE DEF y
        <3>2. PICK n \in 0..(rows + last - 1) :
                /\ each * n <= y /\ y < each * n + (IF n < rows THEN each ELSE over)
                /\ \A m \in 0..(rows + last - 1) : m > n => y < each * m
            <4>1. last = (IF over > 0 THEN 1 ELSE 0)
                BY <2>2
            <4>2. rows \in Nat \ {0} /\ each \in Nat \ {0} /\ over \in Nat /\ len \in Nat
                  /\ len = rows * each + over /\ last \in 0..1
                BY <1>2, <1>6, <1>8
            <4>3. OnlyStrip(rows, last, each, over, y)
                BY <3>1, <4>1, <4>2, StripOf
            <4> QED
                BY <4>3 DEF OnlyStrip
        <3>3. v(n) = IF n < rows THEN each ELSE over
            BY <2>1
        <3>4. n + 1 \in DOMAIN list /\ InRect(p, Strip(list[n + 1]))
            BY <2>4, <3>2, <3>3 DEF y
        <3>5. ASSUME NEW k \in DOMAIN list, k > n + 1
              PROVE  ~InRect(p, Strip(list[k]))
            <4> DEFINE m == k - 1
            <4>1. m \in 0..(rows + last - 1) /\ k = m + 1 /\ m > n
                BY <2>5, <3>5
            <4>2. y < each * m /\ y \in Int /\ each * m \in Int
                BY <1>6, <3>1, <3>2, <4>1
            <4> HIDE DEF m
            <4>3. InRect(p, Strip(list[m + 1])) => each * m <= y
                BY <2>4, <4>1 DEF y
            <4> QED
                BY <4>1, <4>2, <4>3
        <3> QED
            BY <3>4, <3>5
    <2>8. Blits(sink, list) = Picture(2)
        BY <1>2, <2>6, <2>7, BlitsInPlace
    <2> QED
        BY <1>5, <2>2, <2>8
<1> QED
    BY <1>11, <1>12, <1>13

-----------------------------------------------------------------------------
(***************************************************************************)
(* The inductive invariant.                                                *)
(***************************************************************************)
CoveredOK ==
    \/ run.frames > 0
    \/ run.state = "drawing" /\ eff.class \in {"centersplit", "leafwindow"}
    => Full(sink)
DInv == Typed /\ Begins /\ Directed /\ Fresh /\ ClearOK /\ ZoomOK /\ CoveredOK /\ Settled

(* What a step that draws nothing keeps of what clear and zoom remember.   *)
LEMMA QuietStep ==
    ASSUME Typed, ClearOK, ZoomOK, size' = size, sink' = sink,
           eff'.class = eff.class, eff'.point = eff.point, eff'.rect = eff.rect,
           eff'.zoomed_out = eff.zoomed_out, eff.class = "zoom" /\ eff.zoomed_out => eff'.out,
           run'.frames = run.frames, run'.at = run.at, run'.curve = run.curve,
           run'.from = run.from, run'.to = run.to, run'.out = run.out,
           run'.state \in {run.state, "stopped"}
    PROVE  ClearOK' /\ ZoomOK' /\ Picture(Final(eff))' = Picture(Final(eff))
<1>1. ClearPic(eff.point)' = ClearPic(eff.point)
    BY SamePics
<1>2. ValueAt(eff, run, run.at)' = ValueAt(eff, run, run.at)
    BY DEF ValueAt
<1>3. ZoomPic(1, 2, eff.rect)' = ZoomPic(1, 2, eff.rect)
    BY SamePics
<1>4. Behind(run)' = Behind(run) /\ Front(run)' = Front(run)
    BY DEF Behind, Front
<1>5. ZoomPic(Behind(run), Front(run), eff.rect)' = ZoomPic(Behind(run), Front(run), eff.rect)
    BY <1>4, SamePics
<1>6. Proper(eff.rect)' <=> Proper(eff.rect)
    BY DEF Proper
<1>7. Whole' = Whole /\ Rect(0, 0, 0, 0)' = Rect(0, 0, 0, 0)
    BY SameSize DEF Rect
<1>8. ClearOK'
    BY <1>1, <1>2 DEF ClearOK
<1>9. ZoomOK'
    BY <1>2, <1>3, <1>4, <1>5, <1>6, <1>7 DEF ZoomOK
<1>10. Final(eff)' = Final(eff)
    BY DEF Final
<1>11. Picture(Final(eff))' = Picture(Final(eff))
    BY <1>10, SamePics
<1> QED
    BY <1>8, <1>9, <1>11

(* ... and of the rest of the invariant, outside a run.                    *)
LEMMA QuietInv ==
    ASSUME DInv, Typed', size' = size, sink' = sink,
           eff'.class = eff.class, eff'.point = eff.point, eff'.rect = eff.rect,
           eff'.zoomed_out = eff.zoomed_out, eff.class = "zoom" /\ eff.zoomed_out => eff'.out,
           run'.frames = run.frames, run'.at = run.at, run'.curve = run.curve,
           run'.from = run.from, run'.to = run.to, run'.out = run.out,
           run'.state # "drawing", run'.state \in {run.state, "stopped"}, Directed'
    PROVE  DInv'
<1>1. ClearOK' /\ ZoomOK' /\ Picture(Final(eff))' = Picture(Final(eff))
    BY QuietStep DEF DInv
<1>2. Full(sink)' <=> Full(sink)
    BY SameSize DEF Full
<1>3. CoveredOK'
    BY <1>2 DEF DInv, CoveredOK
<1>4. Settled'
    BY <1>1 DEF DInv, Settled
<1>5. Begins' /\ Fresh'
    BY DEF DInv, Begins, Fresh
<1> QED
    BY <1>1, <1>3, <1>4, <1>5 DEF DInv

LEMMA SetDirectionInv ==
    ASSUME AllRules, DInv, Typed', NEW d \in 0..4, SetDirection(d)
    PROVE  DInv'
<1>1. run.state # "drawing" /\ eff' = [eff EXCEPT !.direction = d] /\ size' = size /\ run' = run /\ sink' = sink
    BY DEF SetDirection, MaySet, AllRules, Rules
<1>2. /\ eff'.class = eff.class /\ eff'.point = eff.point /\ eff'.rect = eff.rect
      /\ eff'.zoomed_out = eff.zoomed_out /\ eff'.out = eff.out /\ eff'.direction = d
    BY <1>1 DEF DInv, Typed, Effs
<1>3. Directed'
    BY <1>2 DEF SetDirection, Directed
<1>4. eff.class = "zoom" /\ eff.zoomed_out => eff'.out
    BY <1>2 DEF DInv, ZoomOK
<1> QED
    BY <1>1, <1>2, <1>3, <1>4, QuietInv

LEMMA SetRowsInv ==
    ASSUME AllRules, DInv, Typed', NEW n \in Rows, NEW v \in BOOLEAN, SetRows(n, v)
    PROVE  DInv'
<1> DEFINE m == IF n = 0 THEN 5 ELSE n
<1>1. /\ run.state # "drawing" /\ eff' = [eff EXCEPT !.rows = m, !.vertical = v] /\ eff.class = "leafwindow"
      /\ size' = size /\ run' = run /\ sink' = sink
    BY DEF SetRows, MaySet, AllRules, Rules
<1> HIDE DEF m
<1>2. /\ eff'.class = eff.class /\ eff'.point = eff.point /\ eff'.rect = eff.rect
      /\ eff'.zoomed_out = eff.zoomed_out /\ eff'.out = eff.out /\ eff'.direction = eff.direction
    BY <1>1 DEF DInv, Typed, Effs
<1>3. Directed'
    BY <1>2 DEF DInv, Directed
<1> QED
    BY <1>1, <1>2, <1>3, QuietInv

LEMMA SetZoomInv ==
    ASSUME AllRules, DInv, Typed', NEW out \in BOOLEAN, SetZoom(out)
    PROVE  DInv'
<1>1. /\ run.state # "drawing" /\ eff' = [eff EXCEPT !.out = out] /\ (eff.zoomed_out => out)
      /\ size' = size /\ run' = run /\ sink' = sink
    BY DEF SetZoom, MaySet, AllRules, Rules
<1>2. /\ eff'.class = eff.class /\ eff'.point = eff.point /\ eff'.rect = eff.rect
      /\ eff'.zoomed_out = eff.zoomed_out /\ eff'.out = out /\ eff'.direction = eff.direction
    BY <1>1 DEF DInv, Typed, Effs
<1>3. Directed'
    BY <1>2 DEF DInv, Directed
<1> QED
    BY <1>1, <1>2, <1>3, QuietInv

LEMMA StopInv ==
    ASSUME DInv, Typed', Stop
    PROVE  DInv'
<1>1. /\ run' = [run EXCEPT !.state = "stopped"] /\ eff' = eff /\ size' = size /\ sink' = sink
    BY DEF Stop
<1>2. /\ run'.frames = run.frames /\ run'.at = run.at /\ run'.curve = run.curve
      /\ run'.from = run.from /\ run'.to = run.to /\ run'.out = run.out /\ run'.state = "stopped"
    BY <1>1 DEF DInv, Typed, RunTyped
<1>3. Directed'
    BY <1>1 DEF DInv, Directed
<1>4. eff.class = "zoom" /\ eff.zoomed_out => eff'.out
    BY <1>1 DEF DInv, ZoomOK
<1> QED
    BY <1>1, <1>2, <1>3, <1>4, QuietInv

(* What begindraw sets and whether the size fits hang on the properties.   *)
LEMMA SameBegun ==
    ASSUME size' = size, eff'.class = eff.class, eff'.direction = eff.direction, eff'.out = eff.out,
           eff'.rows = eff.rows, eff'.vertical = eff.vertical
    PROVE  Begun(eff)' = Begun(eff) /\ (Fits(eff)' <=> Fits(eff))
<1>1. W' = W /\ H' = H /\ Whole' = Whole
    BY SameSize
<1>2. Begun(eff)' = Begun(eff)
    BY <1>1 DEF Begun, PushStart, ClearStart, ZoomStart
<1>3. Fits(eff)' <=> Fits(eff)
    BY <1>1 DEF Fits, Leaves
<1> QED
    BY <1>2, <1>3

LEMMA StutterInv ==
    ASSUME DInv, Typed', UNCHANGED vars
    PROVE  DInv'
<1>1. size' = size /\ eff' = eff /\ run' = run /\ sink' = sink
    BY DEF vars
<1>2. eff.class = "zoom" /\ eff.zoomed_out => eff'.out
    BY <1>1 DEF DInv, ZoomOK
<1>3. ClearOK' /\ ZoomOK' /\ Picture(Final(eff))' = Picture(Final(eff))
    BY <1>1, <1>2, QuietStep DEF DInv
<1>4. Begun(eff)' = Begun(eff) /\ (Fits(eff)' <=> Fits(eff))
    BY <1>1, SameBegun
<1>5. Begins' /\ Directed' /\ Fresh'
    BY <1>1, <1>4 DEF DInv, Begins, Directed, Fresh
<1>6. Full(sink)' <=> Full(sink)
    BY <1>1, SameSize DEF Full
<1>7. CoveredOK'
    BY <1>1, <1>6 DEF DInv, CoveredOK
<1>8. Settled'
    BY <1>1, <1>3 DEF DInv, Settled
<1> QED
    BY <1>3, <1>5, <1>7, <1>8 DEF DInv

LEMMA NewSinkInv ==
    ASSUME AllRules, DInv, Typed', NEW pic, NewSink(pic)
    PROVE  DInv'
<1>1. /\ run.state # "drawing" /\ (eff.class \in {"clear", "zoom"} => run.state \in {"new", "done"})
      /\ eff' = eff /\ size' = size
    BY DEF NewSink, AllRules, Rules, DInv, Typed, RunTyped
<1>2. run'.state = "new" /\ run'.frames = 0 /\ run'.out = FALSE
    BY DEF NewSink, NotRun
<1>3. Whole' = Whole /\ Rect(0, 0, 0, 0)' = Rect(0, 0, 0, 0)
    BY <1>1, SameSize DEF Rect
<1>4. ClearOK'
    BY <1>1, <1>2 DEF DInv, ClearOK
<1>5. ZoomOK'
    BY <1>1, <1>2, <1>3 DEF DInv, ZoomOK
<1>6. Begins' /\ Directed' /\ Fresh' /\ CoveredOK' /\ Settled'
    BY <1>1, <1>2 DEF DInv, Begins, Directed, Fresh, CoveredOK, Settled
<1> QED
    BY <1>4, <1>5, <1>6 DEF DInv

LEMMA BeginInv ==
    ASSUME AllRules, DInv, Typed', NEW c \in CurveSet, Begin(c)
    PROVE  DInv'
<1> DEFINE z == eff.zoomed_out \/ (eff.class = "zoom" /\ eff.out)
<1>1. /\ size' = size /\ sink' = sink /\ eff' = [eff EXCEPT !.zoomed_out = z]
      /\ run' = [state |-> "drawing", at |-> 0, frames |-> 0, curve |-> c,
                 from |-> Begun(eff)[1], to |-> Begun(eff)[2], out |-> eff.out]
    BY DEF Begin
<1>2. /\ Overshoots(c) => eff.class \in {"push", "clear"}
      /\ eff.class \in {"centersplit", "leafwindow"} => sink = Picture(1)
      /\ Fits(eff)
    BY DEF Begin, MayBegin, AllRules, Rules
<1> HIDE DEF z
<1>3. /\ eff'.class = eff.class /\ eff'.point = eff.point /\ eff'.rect = eff.rect
      /\ eff'.zoomed_out = z /\ eff'.out = eff.out /\ eff'.direction = eff.direction
      /\ eff'.rows = eff.rows /\ eff'.vertical = eff.vertical
    BY <1>1 DEF DInv, Typed, Effs
<1>4. /\ run'.state = "drawing" /\ run'.frames = 0 /\ run'.curve = c
      /\ run'.from = Begun(eff)[1] /\ run'.to = Begun(eff)[2] /\ run'.out = eff.out
    BY <1>1
<1>5. Begun(eff)' = Begun(eff) /\ (Fits(eff)' <=> Fits(eff))
    BY <1>1, <1>3, SameBegun
<1>6. Begins'
    BY <1>2, <1>3, <1>4, <1>5 DEF Begins
<1>7. Directed' /\ Fresh' /\ Settled'
    BY <1>3, <1>4 DEF DInv, Directed, Fresh, Settled
<1>8. ClearOK'
    <2>1. ClearPic(eff.point)' = ClearPic(eff.point)
        BY <1>1, <1>3, SamePics
    <2> QED
        BY <1>1, <1>3, <1>4, <2>1 DEF DInv, ClearOK
<1>9. ZoomOK'
    <2>1. ZoomPic(1, 2, eff.rect)' = ZoomPic(1, 2, eff.rect)
        BY <1>1, <1>3, SamePics
    <2>2. Proper(eff.rect)' <=> Proper(eff.rect)
        BY <1>3 DEF Proper
    <2>3. Whole' = Whole /\ Rect(0, 0, 0, 0)' = Rect(0, 0, 0, 0)
        BY <1>1, SameSize DEF Rect
    <2>4. eff.class = "zoom" =>
            /\ ~eff'.zoomed_out => ~eff.zoomed_out
            /\ eff'.zoomed_out => eff'.out
            /\ run'.out => eff'.zoomed_out
        <3>1. eff.class = "zoom" => (eff.zoomed_out => eff.out)
            BY DEF DInv, ZoomOK
        <3> QED
            BY <1>3, <1>4, <3>1 DEF z
    <2> QED
        BY <1>1, <1>3, <1>4, <2>1, <2>2, <2>3, <2>4 DEF DInv, ZoomOK
<1>10. CoveredOK'
    <2>1. Full(sink)' <=> Full(sink)
        BY <1>1, SameSize DEF Full
    <2> QED
        BY <1>2, <1>3, <1>4, <2>1, PlainFull DEF CoveredOK
<1> QED
    BY <1>6, <1>7, <1>8, <1>9, <1>10 DEF DInv

LEMMA FrameInv ==
    ASSUME DInv, Typed', NEW j \in 0..Steps, Frame(j)
    PROVE  DInv'
<1>1. /\ run.state = "drawing" /\ size' = size
      /\ run.frames = 0 => j = 0
      /\ run'.from = run.from /\ run'.to = run.to /\ run'.curve = run.curve /\ run'.out = run.out
      /\ run'.at = j /\ run'.frames = 1 /\ run'.state = IF j = Steps THEN "done" ELSE "drawing"
      /\ eff'.class = eff.class /\ eff'.direction = eff.direction /\ eff'.out = eff.out
      /\ eff'.rows = eff.rows /\ eff'.vertical = eff.vertical
    BY FrameDoes DEF DInv
<1>2. Begun(eff)' = Begun(eff) /\ (Fits(eff)' <=> Fits(eff))
    BY <1>1, SameBegun
<1>3. Begins' /\ Directed' /\ Fresh'
    BY <1>1, <1>2 DEF DInv, Begins, Directed, Fresh
<1>4. eff.class \in {"push", "clear", "zip", "zoom", "centersplit", "leafwindow"}
    BY ClassesDrawn DEF DInv, Typed, Effs
<1>5. run.frames = 0 \/ Full(sink)
    BY DEF DInv, CoveredOK, Typed, RunTyped
<1>6. eff.class \in {"centersplit", "leafwindow"} => Full(sink)
    BY <1>1 DEF DInv, CoveredOK
<1>7. Full(sink') /\ (j = Steps => sink' = Picture(Final(eff))) /\ ClearOK' /\ ZoomOK'
    <2>1. CASE eff.class = "clear"
        BY <1>1, <2>1, ClearFrame DEF DInv, Final, ZoomOK
    <2>2. CASE eff.class = "zoom"
        BY <1>1, <2>2, ZoomFrame DEF DInv, Final, ClearOK
    <2>3. eff.class \notin {"clear", "zoom"} => ClearOK' /\ ZoomOK'
        BY <1>1 DEF ClearOK, ZoomOK
    <2>4. CASE eff.class = "push"
        BY <1>5, <2>3, <2>4, PushFrame DEF DInv, Final
    <2>5. CASE eff.class = "zip"
        BY <2>3, <2>5, ZipFrame DEF DInv, Final
    <2>6. CASE eff.class = "centersplit"
        BY <1>6, <2>3, <2>6, SplitFrame DEF DInv, Final
    <2>7. CASE eff.class = "leafwindow"
        BY <1>6, <2>3, <2>7, LeafFrame DEF DInv, Final
    <2> QED
        BY <1>4, <2>1, <2>2, <2>4, <2>5, <2>6, <2>7
<1>8. CoveredOK'
    <2>1. Full(sink)' <=> Full(sink')
        BY <1>1, SameSize DEF Full
    <2> QED
        BY <1>7, <2>1 DEF CoveredOK
<1>9. Settled'
    <2>1. Final(eff)' = Final(eff)
        BY <1>1 DEF Final
    <2>2. Picture(Final(eff))' = Picture(Final(eff))
        BY <1>1, <2>1, SamePics
    <2> QED
        BY <1>1, <1>7, <2>2 DEF Settled
<1> QED
    BY <1>3, <1>7, <1>8, <1>9 DEF DInv

LEMMA DInvFromInit == Init => DInv
<1> SUFFICES ASSUME Init PROVE DInv
    OBVIOUS
<1>1. run.state = "new" /\ run.frames = 0 /\ run.out = FALSE
    BY DEF Init, NotRun
<1>2. eff.direction = 0 /\ eff.point = <<0, 0>> /\ eff.rect = Rect(0, 0, 0, 0) /\ eff.zoomed_out = FALSE
    BY DEF Init
<1>3. Begins /\ Directed /\ Fresh /\ CoveredOK /\ Settled
    BY <1>1, <1>2 DEF Begins, Directed, Fresh, CoveredOK, Settled
<1>4. ClearOK
    BY <1>1, <1>2 DEF ClearOK
<1>5. ZoomOK
    BY <1>1, <1>2 DEF ZoomOK
<1> QED
    BY <1>3, <1>4, <1>5, TypedFromInit DEF DInv

LEMMA DInvStep == AllRules /\ DInv /\ [Next]_vars => DInv'
<1> SUFFICES ASSUME AllRules, DInv, [Next]_vars PROVE DInv'
    OBVIOUS
<1>1. Typed'
    BY TypedStep DEF DInv
<1> QED
    BY <1>1, SetDirectionInv, SetRowsInv, SetZoomInv, NewSinkInv, BeginInv, FrameInv, StopInv, StutterInv
    DEF Next

LEMMA DInvAlways == ASSUME AllRules PROVE Spec => []DInv
BY DInvFromInit, DInvStep, PTL DEF Spec

(***************************************************************************)
(* An application that keeps the rules sees, when a run has reached its    *)
(* end, the whole final picture in the sink, every pixel in its place, for *)
(* every curve, number of steps and strips, whatever frames were skipped   *)
(* and wherever earlier runs stopped.  Push, clear, zip and zoom do so for *)
(* every size, centersplit and leafwindow for the sizes that Fits admits.  *)
(***************************************************************************)
THEOREM SettledAlways == ASSUME AllRules PROVE Spec => []Settled
<1>1. DInv => Settled
    BY DEF DInv
<1> QED
    BY <1>1, DInvAlways, PTL

(***************************************************************************)
(* ... and from the first frame on no pixel shows neither source: rounding *)
(* leaves no gap between the pictures.                                     *)
(***************************************************************************)
THEOREM CoveredAlways == ASSUME AllRules PROVE Spec => []Covered
<1>1. DInv => Covered
    BY DEF DInv, CoveredOK, Covered, Full
<1> QED
    BY <1>1, DInvAlways, PTL

(***************************************************************************)
(* ... and clear and zoom, which repaint only what their last frame drew   *)
(* over, show what a repaint of everything would.                          *)
(***************************************************************************)
THEOREM AsRedrawnAlways == ASSUME AllRules PROVE Spec => []AsRedrawn
<1>1. DInv => AsRedrawn
    BY DEF DInv, ClearOK, ZoomOK, ClearPic, ZoomPic, AsRedrawn
<1> QED
    BY <1>1, DInvAlways, PTL

-----------------------------------------------------------------------------
(***************************************************************************)
(* No flicker: with a curve that never goes back, what shows the final     *)
(* picture goes on showing it.                                             *)
(***************************************************************************)
NeverBack(f, g) ==
    f \in Fractions /\ g \in Fractions /\ f[2] = g[2] /\ f[1] \in 0..f[2] /\ g[1] \in 0..g[2] /\ f[1] <= g[1]

LEMMA Later ==
    ASSUME Typed, run.frames > 0, Monotone(run.curve), NEW j \in 0..Steps, Frame(j)
    PROVE  NeverBack(CurveValue(run.curve, run.at, Steps), CurveValue(run.curve, j, Steps))
<1>1. run.curve \in AllCurves /\ Steps \in Nat \ {0} /\ run.at \in 0..Steps
    BY CurvesAssumption, StepsAssumption DEF Typed, RunTyped, AllCurves
<1>2. ~Overshoots(run.curve)
    BY DEF Monotone, Overshoots
<1>3. run.at <= j
    BY <1>1, FrameDoes
<1> DEFINE a == run.at
           c == run.curve
<1> HIDE DEF a, c
<1>4. CurveValue(c, a, Steps)[1] <= CurveValue(c, j, Steps)[1] /\ CurveValue(c, a, Steps)[2] = CurveValue(c, j, Steps)[2]
      /\ CurveValue(c, a, Steps) \in Fractions /\ CurveValue(c, a, Steps)[1] \in 0..CurveValue(c, a, Steps)[2]
    BY <1>1, <1>2, <1>3, Values DEF a, c
<1>5. CurveValue(c, j, Steps) \in Fractions /\ CurveValue(c, j, Steps)[1] \in 0..CurveValue(c, j, Steps)[2]
    BY <1>1, <1>2, Values DEF c
<1> QED
    BY <1>4, <1>5 DEF NeverBack, a, c

(* A value on its way to 0, or between two bounds.                         *)
LEMMA ToZero ==
    ASSUME NEW s \in Int, NEW f, NEW g, NeverBack(f, g)
    PROVE  LET x == Between(s, 0, f)
               y == Between(s, 0, g)
           IN  /\ x \in Int /\ y \in Int
               /\ s >= 0 => 0 <= y /\ y <= x
               /\ s <= 0 => x <= y /\ y <= 0
<1> DEFINE z == 0
           h == <<g[2], g[2]>>
<1>1. z \in Int /\ f \in Fractions /\ g \in Fractions /\ h \in Fractions /\ f[2] = g[2] /\ f[1] <= g[1]
      /\ g[1] <= h[1] /\ g[2] = h[2] /\ h[1] = h[2]
    BY DEF NeverBack, Fractions
<1> HIDE DEF z, h
<1>2. Between(s, z, f) \in Int /\ Between(s, z, g) \in Int
    BY <1>1, BetweenInt
<1>3. Between(s, z, h) = z
    BY <1>1, BetweenEnds
<1>4. /\ s <= z => Between(s, z, f) <= Between(s, z, g)
      /\ z <= s => Between(s, z, g) <= Between(s, z, f)
    BY <1>1, BetweenGoes
<1>5. /\ s <= z => Between(s, z, g) <= Between(s, z, h)
      /\ z <= s => Between(s, z, h) <= Between(s, z, g)
    BY <1>1, BetweenGoes
<1> QED
    BY <1>2, <1>3, <1>4, <1>5 DEF z

(* Where a copy of the whole covers a pixel.                               *)
LEMMA WholeCovers ==
    ASSUME Sized, NEW wide \in {0, W}, NEW high \in {0, H}, NEW r \in Points, NEW p \in Pixels
    PROVE  Covers(<<0, 0>>, wide, high, r, p) <=>
                r[1] <= p[1] /\ p[1] < r[1] + W /\ r[2] <= p[2] /\ p[2] < r[2] + H
<1>1. /\ W \in Nat \ {0} /\ H \in Nat \ {0} /\ r[1] \in Int /\ r[2] \in Int
      /\ p[1] \in Int /\ p[2] \in Int /\ 0 <= p[1] /\ p[1] < W /\ 0 <= p[2] /\ p[2] < H
    BY PixelIs DEF Sized, Points
<1>2. Reads(<<0, 0>>, r, p) = <<p[1] - r[1], p[2] - r[2]>>
    BY <1>1 DEF Reads, Plus, Minus
<1>3. Reads(<<0, 0>>, r, p) \in Pixels <=>
        0 <= p[1] - r[1] /\ p[1] - r[1] < W /\ 0 <= p[2] - r[2] /\ p[2] - r[2] < H
    BY <1>1, <1>2 DEF Pixels
<1>4. InRect(p, Rect(r[1], r[2], r[1] + W, r[2] + H)) <=>
        r[1] <= p[1] /\ p[1] < r[1] + W /\ r[2] <= p[2] /\ p[2] < r[2] + H
    BY <1>1 DEF InRect, Rect
<1>5. Covers(<<0, 0>>, wide, high, r, p) <=>
        InRect(p, Rect(r[1], r[2], r[1] + W, r[2] + H)) /\ Reads(<<0, 0>>, r, p) \in Pixels
    <2>1. CASE wide = 0 \/ high = 0
        BY <2>1 DEF Covers
    <2>2. CASE ~(wide = 0 \/ high = 0)
        <3>1. wide = W /\ high = H
            BY <2>2
        <3> QED
            BY <1>1, <3>1 DEF Covers
    <2> QED
        BY <2>1, <2>2
<1> QED
    BY <1>1, <1>3, <1>4, <1>5

(* Clear: the first picture comes in from a side, in its place at last.    *)
LEMMA ComesIn ==
    ASSUME Sized, NEW f, NEW g, NeverBack(f, g), NEW s, s \in {<<-W, 0>>, <<W, 0>>, <<0, -H>>, <<0, H>>, <<0, 0>>},
           NEW v, v = <<Between(s[1], 0, f), Between(s[2], 0, f)>>,
           NEW u, u = <<Between(s[1], 0, g), Between(s[2], 0, g)>>,
           NEW p \in Pixels, Covers(<<0, 0>>, W, H, v, p)
    PROVE  Covers(<<0, 0>>, W, H, u, p)
<1>1. /\ W \in Nat \ {0} /\ H \in Nat \ {0} /\ s[1] \in Int /\ s[2] \in Int
      /\ p[1] \in Int /\ p[2] \in Int /\ 0 <= p[1] /\ p[1] < W /\ 0 <= p[2] /\ p[2] < H
    BY PixelIs DEF Sized
<1>2. \A r \in Points : Covers(<<0, 0>>, W, H, r, p) <=>
        r[1] <= p[1] /\ p[1] < r[1] + W /\ r[2] <= p[2] /\ p[2] < r[2] + H
    BY WholeCovers
<1> DEFINE x == Between(s[1], 0, f)
           y == Between(s[2], 0, f)
           a == Between(s[1], 0, g)
           b == Between(s[2], 0, g)
<1>3. /\ x \in Int /\ a \in Int /\ (s[1] >= 0 => 0 <= a /\ a <= x) /\ (s[1] <= 0 => x <= a /\ a <= 0)
      /\ y \in Int /\ b \in Int /\ (s[2] >= 0 => 0 <= b /\ b <= y) /\ (s[2] <= 0 => y <= b /\ b <= 0)
    BY <1>1, ToZero
<1> HIDE DEF x, y, a, b
<1>4. v \in Points /\ u \in Points /\ v[1] = x /\ v[2] = y /\ u[1] = a /\ u[2] = b
    BY <1>3 DEF Points, x, y, a, b
<1>5. x <= p[1] /\ p[1] < x + W /\ y <= p[2] /\ p[2] < y + H
    BY <1>2, <1>4
<1>6. a <= p[1] /\ p[1] < a + W /\ b <= p[2] /\ p[2] < b + H
    BY <1>1, <1>3, <1>5
<1> QED
    BY <1>2, <1>4, <1>6

LEMMA ClearKeeps ==
    ASSUME Typed, Begins, ClearOK, eff.class = "clear", run.frames > 0, Monotone(run.curve),
           NEW j \in 0..Steps, Frame(j)
    PROVE  Keeps(1)
<1> DEFINE f == CurveValue(run.curve, run.at, Steps)
           g == CurveValue(run.curve, j, Steps)
           s == run.from
           v == ValueAt(eff, run, run.at)
           u == ValueAt(eff, run, j)
<1>1. /\ run.state = "drawing" /\ size' = size /\ eff'.class = "clear" /\ eff'.point = u /\ run'.frames = 1
      /\ v \in Points /\ u \in Points
    BY FrameDoes, ValueAtTyped DEF ValueTyped, Typed, RunTyped
<1>2. Sized
    BY SizedAlways DEF Typed
<1>3. s \in {<<-W, 0>>, <<W, 0>>, <<0, -H>>, <<0, H>>, <<0, 0>>} /\ run.to = <<0, 0>>
    BY <1>1 DEF Begins, Begun, ClearStart
<1>4. NeverBack(f, g)
    BY Later
<1>5. v = <<Between(s[1], 0, f), Between(s[2], 0, f)>> /\ u = <<Between(s[1], 0, g), Between(s[2], 0, g)>>
    BY <1>3 DEF ValueAt
<1> HIDE DEF f, g, s, v, u
<1>6. sink = ClearPic(v)
    BY DEF ClearOK, v
<1>7. sink' = ClearPic(u)
    <2>1. sink' = ClearPic(eff.point)'
        BY <1>1, ClearFrame DEF ClearOK
    <2> QED
        BY <1>1, <2>1, SamePics
<1>8. ASSUME NEW p \in Pixels
      PROVE  /\ ClearPic(v)[p][1] = 1 => Covers(<<0, 0>>, W, H, v, p)
             /\ Covers(<<0, 0>>, W, H, u, p) => ClearPic(u)[p][1] = 1
    <2>1. Picture(2)[p] = <<2, p>> /\ ~(W < 0 \/ H < 0)
        BY <1>2 DEF Picture, Sized
    <2> QED
        BY <2>1 DEF ClearPic, BitBlt
<1>9. ASSUME NEW p \in Pixels, Covers(<<0, 0>>, W, H, v, p)
      PROVE  Covers(<<0, 0>>, W, H, u, p)
    BY <1>2, <1>3, <1>4, <1>5, <1>9, ComesIn
<1> QED
    BY <1>6, <1>7, <1>8, <1>9 DEF Keeps

(* Zoom: the rectangle only grows, or only shrinks.                        *)
LEMMA RectGoes ==
    ASSUME NEW s \in Rects, NEW t \in Rects, NEW f, NEW g, NeverBack(f, g),
           t.left <= s.left, t.top <= s.top, s.right <= t.right, s.bottom <= t.bottom, NEW p \in Int \X Int
    PROVE  /\ InRect(p, RectBetween(s, t, f)) => InRect(p, RectBetween(s, t, g))
           /\ InRect(p, RectBetween(t, s, g)) => InRect(p, RectBetween(t, s, f))
<1>1. /\ s.left \in Int /\ s.top \in Int /\ s.right \in Int /\ s.bottom \in Int
      /\ t.left \in Int /\ t.top \in Int /\ t.right \in Int /\ t.bottom \in Int
      /\ DOMAIN s = {"left", "top", "right", "bottom"} /\ DOMAIN t = {"left", "top", "right", "bottom"}
    BY DEF Rects
<1>2. f \in Fractions /\ g \in Fractions /\ f[2] = g[2] /\ f[1] <= g[1]
    BY DEF NeverBack
<1>3. /\ Between(t.left, s.left, f) <= Between(t.left, s.left, g)
      /\ Between(t.top, s.top, f) <= Between(t.top, s.top, g)
      /\ Between(t.right, s.right, g) <= Between(t.right, s.right, f)
      /\ Between(t.bottom, s.bottom, g) <= Between(t.bottom, s.bottom, f)
    BY <1>1, <1>2, BetweenGoes
<1>4. /\ Between(s.left, t.left, g) <= Between(s.left, t.left, f)
      /\ Between(s.top, t.top, g) <= Between(s.top, t.top, f)
      /\ Between(s.right, t.right, f) <= Between(s.right, t.right, g)
      /\ Between(s.bottom, t.bottom, f) <= Between(s.bottom, t.bottom, g)
    BY <1>1, <1>2, BetweenGoes
<1>5. ASSUME NEW a \in Rects, NEW b \in Rects,
             b.left <= a.left, b.top <= a.top, a.right <= b.right, a.bottom <= b.bottom, InRect(p, a)
      PROVE  InRect(p, b)
    <2>1. /\ a.left \in Int /\ a.top \in Int /\ a.right \in Int /\ a.bottom \in Int
          /\ b.left \in Int /\ b.top \in Int /\ b.right \in Int /\ b.bottom \in Int
        BY DEF Rects
    <2> QED
        BY <1>5, <2>1 DEF InRect
<1> DEFINE a == RectBetween(s, t, f)
           b == RectBetween(s, t, g)
           c == RectBetween(t, s, f)
           d == RectBetween(t, s, g)
<1>6. a \in Rects /\ b \in Rects /\ c \in Rects /\ d \in Rects
    BY <1>2, RectBetweenRect
<1>7. /\ b.left <= a.left /\ b.top <= a.top /\ a.right <= b.right /\ a.bottom <= b.bottom
    BY <1>1, <1>4 DEF RectBetween
<1>8. /\ c.left <= d.left /\ c.top <= d.top /\ d.right <= c.right /\ d.bottom <= c.bottom
    BY <1>1, <1>3 DEF RectBetween
<1> HIDE DEF a, b, c, d
<1>9. (InRect(p, a) => InRect(p, b)) /\ (InRect(p, d) => InRect(p, c))
    BY <1>5, <1>6, <1>7, <1>8
<1> QED
    BY <1>9 DEF a, b, c, d

LEMMA ZoomKeeps ==
    ASSUME Typed, Begins, ZoomOK, eff.class = "zoom", run.frames > 0, Monotone(run.curve),
           NEW j \in 0..Steps, Frame(j)
    PROVE  Keeps(2)
<1> DEFINE f == CurveValue(run.curve, run.at, Steps)
           g == CurveValue(run.curve, j, Steps)
           v == ValueAt(eff, run, run.at)
           u == ValueAt(eff, run, j)
           z == ZoomStart(eff.direction)
           b == Behind(run)
           t == Front(run)
<1>1. /\ run.state = "drawing" /\ size' = size /\ eff'.class = "zoom" /\ eff'.rect = u /\ run'.frames = 1
      /\ run'.out = run.out /\ v \in Rects /\ u \in Rects
    BY FrameDoes, ValueAtTyped DEF ValueTyped, Typed, RunTyped
<1>2. Sized /\ eff \in Effs
    BY SizedAlways DEF Typed
<1>3. /\ z \in Rects /\ z.left = z.right /\ z.top = z.bottom /\ z.left \in 0..W /\ z.top \in 0..H
      /\ run.out => run.from = Whole /\ run.to = z
      /\ ~run.out => run.from = z /\ run.to = Whole
    BY <1>1, <1>2, ZoomEnds DEF Begins
<1>4. NeverBack(f, g)
    BY Later
<1>5. v = RectBetween(run.from, run.to, f) /\ u = RectBetween(run.from, run.to, g)
    BY DEF ValueAt
<1>6. b = (IF run.out THEN 2 ELSE 1) /\ t = (IF run.out THEN 1 ELSE 2)
    BY DEF Behind, Front
<1>7. /\ Whole \in Rects /\ Whole.left <= z.left /\ Whole.top <= z.top
      /\ z.right <= Whole.right /\ z.bottom <= Whole.bottom
    BY <1>2, <1>3 DEF Whole, Rects, Sized
<1>8. Proper(v) /\ sink = ZoomPic(b, t, v)
    BY DEF ZoomOK
<1>9. Proper(u)
    BY <1>1, ZoomProper
<1>10. sink' = ZoomPic(b, t, u)
    <2>1. sink' = ZoomPic(Behind(run), Front(run), eff.rect)'
        BY <1>1, ZoomFrame DEF ZoomOK
    <2>2. Behind(run)' = b /\ Front(run)' = t
        BY <1>1 DEF Behind, Front
    <2> HIDE DEF b, t, u
    <2> QED
        BY <1>1, <2>1, <2>2, SamePics
<1> HIDE DEF f, g, v, u, z, b, t
<1>11. ASSUME NEW p \in Pixels
       PROVE  /\ InRect(p, v) => ZoomPic(b, t, v)[p][1] = t
              /\ ~InRect(p, v) => ZoomPic(b, t, v)[p][1] = b
              /\ InRect(p, u) => ZoomPic(b, t, u)[p][1] = t
              /\ ~InRect(p, u) => ZoomPic(b, t, u)[p][1] = b
    <2>1. Picture(b)[p] = <<b, p>>
        BY DEF Picture
    <2> QED
        BY <1>1, <1>8, <1>9, <2>1, StretchBltAt DEF ZoomPic
<1>12. ASSUME NEW p \in Pixels
       PROVE  /\ ~run.out => (InRect(p, v) => InRect(p, u))
              /\ run.out => (InRect(p, u) => InRect(p, v))
    <2>1. p \in Int \X Int
        BY <1>2 DEF Pixels, Sized
    <2> DEFINE whole == Whole
    <2> HIDE DEF whole
    <2>2. /\ InRect(p, RectBetween(z, whole, f)) => InRect(p, RectBetween(z, whole, g))
          /\ InRect(p, RectBetween(whole, z, g)) => InRect(p, RectBetween(whole, z, f))
        BY <1>3, <1>4, <1>7, <2>1, RectGoes DEF whole
    <2> QED
        BY <1>3, <1>5, <2>2 DEF whole
<1> QED
    BY <1>6, <1>8, <1>10, <1>11, <1>12 DEF Keeps

(* Push: the first picture is drawn last, and leaves the other way.        *)
PushOld(d, v) ==
    LET w == v.right - v.left
        h == v.bottom - v.top
    IN  CASE d = 0 -> <<v.left + w, v.top>>
          [] d = 1 -> <<v.left - w, v.top>>
          [] d = 2 -> <<v.left, v.top + h>>
          [] OTHER -> <<v.left, v.top - h>>
PushedIn(d, v, p) ==
    CASE d = 0 -> p[1] < v.right
      [] d = 1 -> v.left <= p[1]
      [] d = 2 -> p[2] < v.bottom
      [] OTHER -> v.top <= p[2]

LEMMA BetweenShift ==
    ASSUME NEW n \in Nat, NEW f \in Fractions, f[1] \in 0..f[2]
    PROVE  Between(2 * n, n, f) = Between(n, 0, f) + n
<1> DEFINE x == f[1]
           d == f[2]
           y == n * d - n * x
<1>1. x \in Nat /\ d \in Nat \ {0} /\ x <= d
    BY DEF Fractions
<1> HIDE DEF x, d
<1>2. n * x <= n * d /\ n * x \in Nat /\ n * d \in Nat
    BY <1>1, TimesInt
<1>3. (2 * n) * d + (n - 2 * n) * x = n * d + y /\ n * d + (0 - n) * x = y
    BY <1>1
<1>4. y \in Nat
    BY <1>2
<1> HIDE DEF y
<1>5. (n * d + y) \div d = n + (y \div d)
    BY <1>1, <1>2, <1>4
<1>6. Trunc(n * d + y, d) = (n * d + y) \div d /\ Trunc(y, d) = y \div d
    BY <1>2, <1>4 DEF Trunc
<1>7. y \div d \in Int
    BY <1>1, <1>4
<1> QED
    BY <1>3, <1>5, <1>6, <1>7 DEF Between, x, d

LEMMA BetweenSame ==
    ASSUME NEW n \in Int, NEW f \in Fractions
    PROVE  Between(n, n, f) = n
<1> DEFINE d == f[2]
<1>1. d \in Nat \ {0} /\ n * d + (n - n) * f[1] = n * d
    BY DEF Fractions
<1> HIDE DEF d
<1>2. Trunc(n * d, d) = n
    BY <1>1, TruncExact
<1> QED
    BY <1>1, <1>2 DEF Between, d

LEMMA PushShows ==
    ASSUME Sized, NEW d \in 0..3, NEW f, NeverBack(f, f), NEW v, v = RectBetween(PushStart(d), Whole, f),
           NEW p \in Pixels
    PROVE  Covers(<<0, 0>>, 0, 0, PushOld(d, v), p) <=> ~PushedIn(d, v, p)
<1> DEFINE z == 0
           s == PushStart(d)
<1>1. /\ W \in Nat \ {0} /\ H \in Nat \ {0} /\ f \in Fractions /\ f[1] \in 0..f[2] /\ z \in Nat
      /\ p[1] \in Int /\ p[2] \in Int /\ 0 <= p[1] /\ p[1] < W /\ 0 <= p[2] /\ p[2] < H
    BY PixelIs DEF Sized, NeverBack
<1>2. /\ s \in Rects /\ Whole \in Rects /\ Whole.left = z /\ Whole.top = z /\ Whole.right = W /\ Whole.bottom = H
      /\ s = CASE d = 0 -> Rect(-W, z, z, z) [] d = 1 -> Rect(W, z, 2 * W, z)
               [] d = 2 -> Rect(z, -H, z, z) [] OTHER -> Rect(z, H, z, 2 * H)
    BY <1>1 DEF PushStart, Rect, Rects, Whole
<1> DEFINE t == Whole
<1>0. v = RectBetween(s, t, f)
    OBVIOUS
<1> HIDE DEF z, s, t
<1>3. /\ v \in Rects /\ v.left = Between(s.left, z, f) /\ v.top = Between(s.top, z, f)
      /\ v.right = Between(s.right, W, f) /\ v.bottom = Between(s.bottom, H, f)
    <2>1. s \in Rects /\ t \in Rects /\ f \in Fractions /\ t.left = z /\ t.top = z /\ t.right = W /\ t.bottom = H
        BY <1>1, <1>2 DEF t
    <2>2. /\ RectBetween(s, t, f) \in Rects
          /\ RectBetween(s, t, f).left = Between(s.left, t.left, f)
          /\ RectBetween(s, t, f).top = Between(s.top, t.top, f)
          /\ RectBetween(s, t, f).right = Between(s.right, t.right, f)
          /\ RectBetween(s, t, f).bottom = Between(s.bottom, t.bottom, f)
        BY <2>1, RectBetweenRect
    <2> QED
        BY <1>0, <2>1, <2>2
<1>4. Between(z, z, f) = 0
    <2>1. Between(z, z, f) = z
        BY <1>1, BetweenSame
    <2> QED
        BY <2>1 DEF z
<1>5. \A n \in Nat : Between(z, n, f) \in 0..n
    <2> SUFFICES ASSUME NEW n \in Nat PROVE Between(z, n, f) \in 0..n
        OBVIOUS
    <2>1. Part(n, f) \in 0..n
        BY <1>1, PartBound
    <2>2. z * f[2] + (n - z) * f[1] = n * f[1]
        BY <1>1 DEF z, Fractions
    <2> QED
        BY <2>1, <2>2 DEF Between, Part
<1>6. \A n \in Nat : Between(n, z, f) \in Nat /\ Between(2 * n, n, f) = Between(n, z, f) + n
    BY <1>1, ToZero, BetweenShift DEF z
<1>7. \A r \in Points : Covers(<<0, 0>>, 0, 0, r, p) <=>
        r[1] <= p[1] /\ p[1] < r[1] + W /\ r[2] <= p[2] /\ p[2] < r[2] + H
    BY WholeCovers
<1>8. CASE d = 0
    <2>1. v.top = 0 /\ v.right \in 0..W /\ v.left \in Int
        BY <1>1, <1>2, <1>3, <1>4, <1>5, <1>8 DEF Rect, Rects
    <2>2. PushOld(d, v) = <<v.right, 0>> /\ <<v.right, 0>> \in Points
        BY <1>8, <2>1 DEF PushOld, Points
    <2> QED
        BY <1>1, <1>7, <1>8, <2>1, <2>2 DEF PushedIn
<1>9. CASE d = 1
    <2>1. v.top = 0 /\ v.left \in Nat /\ v.right = v.left + W
        BY <1>1, <1>2, <1>3, <1>4, <1>6, <1>9 DEF Rect, Rects
    <2>2. PushOld(d, v) = <<v.left - W, 0>> /\ <<v.left - W, 0>> \in Points
        BY <1>1, <1>9, <2>1 DEF PushOld, Points
    <2>3. v.left <= W
        <3>1. Between(z, W, f) \in Int
            BY <1>1, <1>5
        <3>2. s.left = W /\ Between(W, z, f) <= Between(W, W, f) /\ Between(W, W, f) = W
            <4>1. s.left = W
                BY <1>2, <1>9 DEF Rect
            <4>4. Between(W, W, f) = W
                BY <1>1, BetweenSame
            <4>5. Between(W, z, f) <= Between(W, W, f)
                BY <1>1, BetweenOrder DEF z
            <4> QED
                BY <4>1, <4>4, <4>5
        <3> QED
            BY <1>3, <3>2
    <2> QED
        BY <1>1, <1>7, <1>9, <2>1, <2>2, <2>3 DEF PushedIn
<1>10. CASE d = 2
    <2>1. v.left = 0 /\ v.bottom \in 0..H /\ v.top \in Int
        BY <1>1, <1>2, <1>3, <1>4, <1>5, <1>10 DEF Rect, Rects
    <2>2. PushOld(d, v) = <<0, v.bottom>> /\ <<0, v.bottom>> \in Points
        BY <1>10, <2>1 DEF PushOld, Points
    <2> QED
        BY <1>1, <1>7, <1>10, <2>1, <2>2 DEF PushedIn
<1>11. CASE d = 3
    <2>1. v.left = 0 /\ v.top \in Nat /\ v.bottom = v.top + H
        BY <1>1, <1>2, <1>3, <1>4, <1>6, <1>11 DEF Rect, Rects
    <2>2. PushOld(d, v) = <<0, v.top - H>> /\ <<0, v.top - H>> \in Points
        BY <1>1, <1>11, <2>1 DEF PushOld, Points
    <2>3. v.top <= H
        <3>1. s.top = H
            BY <1>2, <1>11 DEF Rect
        <3>4. Between(H, H, f) = H
            BY <1>1, BetweenSame
        <3>5. Between(H, z, f) <= Between(H, H, f)
            BY <1>1, BetweenOrder DEF z
        <3> QED
            BY <1>3, <3>1, <3>4, <3>5
    <2> QED
        BY <1>1, <1>7, <1>11, <2>1, <2>2, <2>3 DEF PushedIn
<1> QED
    BY <1>8, <1>9, <1>10, <1>11

LEMMA Forward ==
    ASSUME Typed, Monotone(run.curve), NEW j \in 0..Steps
    PROVE  NeverBack(CurveValue(run.curve, j, Steps), CurveValue(run.curve, j, Steps))
<1>1. run.curve \in AllCurves /\ Steps \in Nat \ {0}
    BY CurvesAssumption, StepsAssumption DEF Typed, RunTyped, AllCurves
<1>2. ~Overshoots(run.curve)
    BY DEF Monotone, Overshoots
<1> DEFINE f == CurveValue(run.curve, j, Steps)
<1>3. f \in Fractions /\ f[1] \in 0..f[2]
    BY <1>1, <1>2, Values
<1> HIDE DEF f
<1>4. NeverBack(f, f)
    BY <1>3 DEF NeverBack, Fractions
<1> QED
    BY <1>4 DEF f

LEMMA PushedFurther ==
    ASSUME Sized, NEW d \in 0..3, NEW f, NEW g, NeverBack(f, g), NEW v, v = RectBetween(PushStart(d), Whole, f),
           NEW u, u = RectBetween(PushStart(d), Whole, g), NEW p \in Pixels, PushedIn(d, v, p)
    PROVE  PushedIn(d, u, p)
<1> DEFINE s == PushStart(d)
           t == Whole
<1>1. W \in Nat \ {0} /\ H \in Nat \ {0} /\ p[1] \in Int /\ p[2] \in Int
    BY PixelIs DEF Sized
<1>2. /\ s \in Rects /\ t \in Rects /\ t.left = 0 /\ t.top = 0 /\ t.right = W /\ t.bottom = H
      /\ d = 0 => s.right = 0
      /\ d = 1 => s.left = W
      /\ d = 2 => s.bottom = 0
      /\ d = 3 => s.top = H
    BY <1>1 DEF PushStart, Rect, Rects, Whole
<1>3. f \in Fractions /\ g \in Fractions /\ f[2] = g[2] /\ f[1] <= g[1]
    BY DEF NeverBack
<1>4. v = RectBetween(s, t, f) /\ u = RectBetween(s, t, g)
    OBVIOUS
<1> HIDE DEF s, t
<1>5. /\ v \in Rects /\ v.left = Between(s.left, t.left, f) /\ v.top = Between(s.top, t.top, f)
      /\ v.right = Between(s.right, t.right, f) /\ v.bottom = Between(s.bottom, t.bottom, f)
      /\ u \in Rects /\ u.left = Between(s.left, t.left, g) /\ u.top = Between(s.top, t.top, g)
      /\ u.right = Between(s.right, t.right, g) /\ u.bottom = Between(s.bottom, t.bottom, g)
    <2>1. /\ RectBetween(s, t, f) \in Rects
          /\ RectBetween(s, t, f).left = Between(s.left, t.left, f)
          /\ RectBetween(s, t, f).top = Between(s.top, t.top, f)
          /\ RectBetween(s, t, f).right = Between(s.right, t.right, f)
          /\ RectBetween(s, t, f).bottom = Between(s.bottom, t.bottom, f)
        BY <1>2, <1>3, RectBetweenRect
    <2>2. /\ RectBetween(s, t, g) \in Rects
          /\ RectBetween(s, t, g).left = Between(s.left, t.left, g)
          /\ RectBetween(s, t, g).top = Between(s.top, t.top, g)
          /\ RectBetween(s, t, g).right = Between(s.right, t.right, g)
          /\ RectBetween(s, t, g).bottom = Between(s.bottom, t.bottom, g)
        BY <1>2, <1>3, RectBetweenRect
    <2> QED
        BY <1>4, <2>1, <2>2
<1>6. /\ s.left \in Int /\ s.top \in Int /\ s.right \in Int /\ s.bottom \in Int
      /\ t.left \in Int /\ t.top \in Int /\ t.right \in Int /\ t.bottom \in Int
      /\ v.left \in Int /\ v.top \in Int /\ v.right \in Int /\ v.bottom \in Int
      /\ u.left \in Int /\ u.top \in Int /\ u.right \in Int /\ u.bottom \in Int
    BY <1>2, <1>5 DEF Rects
<1>7. /\ d = 0 => v.right <= u.right
      /\ d = 1 => u.left <= v.left
      /\ d = 2 => v.bottom <= u.bottom
      /\ d = 3 => u.top <= v.top
    <2>1. /\ s.right <= t.right => Between(s.right, t.right, f) <= Between(s.right, t.right, g)
          /\ t.left <= s.left => Between(s.left, t.left, g) <= Between(s.left, t.left, f)
          /\ s.bottom <= t.bottom => Between(s.bottom, t.bottom, f) <= Between(s.bottom, t.bottom, g)
          /\ t.top <= s.top => Between(s.top, t.top, g) <= Between(s.top, t.top, f)
        BY <1>3, <1>6, BetweenGoes
    <2> QED
        BY <1>1, <1>2, <1>5, <2>1
<1>8. d = 0 \/ d = 1 \/ d = 2 \/ d = 3
    OBVIOUS
<1> QED
    BY <1>1, <1>6, <1>7, <1>8 DEF PushedIn

PushOK ==
    run.state = "drawing" /\ run.frames > 0 /\ Monotone(run.curve) /\ eff.class = "push" =>
        \A p \in Pixels : sink[p][1] = 2 => PushedIn(eff.direction, ValueAt(eff, run, run.at), p)

LEMMA PushKeeps ==
    ASSUME Typed, Begins, Directed, PushOK, eff.class = "push", Monotone(run.curve),
           NEW j \in 0..Steps, Frame(j)
    PROVE  (run.frames > 0 => Keeps(2)) /\ PushOK'
<1> DEFINE d == eff.direction
           f == CurveValue(run.curve, run.at, Steps)
           g == CurveValue(run.curve, j, Steps)
           v == ValueAt(eff, run, run.at)
           u == ValueAt(eff, run, j)
           z == 0
           o == <<0, 0>>
           old == PushOld(d, u)
           two == BitBlt(sink, 2, o, z, z, <<u.left, u.top>>)
<1>1. /\ run.state = "drawing" /\ size' = size /\ sink' = OnDraw(sink, eff, u, run.frames = 0)
      /\ run'.at = j /\ run'.curve = run.curve /\ eff'.class = eff.class /\ eff'.direction = d
      /\ ValueAt(eff, run, j)' = u
    BY FrameDoes
<1>2. Sized /\ d \in 0..3
    BY SizedAlways DEF Typed, Directed
<1>3. run.from = PushStart(d) /\ run.to = Whole
    BY <1>1 DEF Begins, Begun
<1>4. v = RectBetween(PushStart(d), Whole, f) /\ u = RectBetween(PushStart(d), Whole, g)
    BY <1>3 DEF ValueAt
<1>5. NeverBack(g, g) /\ (run.frames > 0 => NeverBack(f, g))
    BY Later, Forward
<1>6. sink' = BitBlt(two, 1, o, z, z, old)
    BY <1>1 DEF OnDraw, PushDrawn, PushOld
<1>0. z \in Nat
    OBVIOUS
<1>7. \A p \in Pixels : Covers(o, z, z, old, p) <=> ~PushedIn(d, u, p)
    <2>1. \A p \in Pixels : Covers(<<0, 0>>, 0, 0, PushOld(d, u), p) <=> ~PushedIn(d, u, p)
        <3> HIDE DEF d, g, u
        <3> QED
            BY <1>2, <1>4, <1>5, PushShows
    <2> QED
        BY <2>1
<1>8. run.frames > 0 => \A p \in Pixels : sink[p][1] = 2 => PushedIn(d, v, p)
    BY <1>1 DEF PushOK
<1> HIDE DEF d, f, g, v, u, z, o, old
<1>9. run.frames > 0 => \A p \in Pixels : PushedIn(d, v, p) => PushedIn(d, u, p)
    BY <1>2, <1>4, <1>5, PushedFurther
<1>10. ASSUME NEW p \in Pixels
       PROVE  /\ PushedIn(d, u, p) => sink'[p][1] = 2 \/ sink'[p] = sink[p]
              /\ ~PushedIn(d, u, p) => sink'[p][1] = 1
    <2> DEFINE one == BitBlt(two, 1, o, z, z, old)
    <2>1. two[p][1] = 2 \/ two[p] = sink[p]
        BY <1>0, BitBltAt
    <2>2. sink' = one
        BY <1>6
    <2>3. one[p] = IF Covers(o, z, z, old, p) THEN <<1, Reads(o, old, p)>> ELSE two[p]
        <3> HIDE DEF two
        <3>1. ~(z < 0 \/ z < 0)
            BY <1>0
        <3> QED
            BY <3>1 DEF BitBlt
    <2> HIDE DEF one, two
    <2> QED
        BY <1>7, <2>1, <2>2, <2>3
<1>11. run.frames > 0 => Keeps(2)
    BY <1>8, <1>9, <1>10 DEF Keeps
<1>12. PushOK'
    <2>1. Pixels' = Pixels
        BY <1>1, SameSize
    <2>2. ValueAt(eff, run, run.at)' = u
        BY <1>1
    <2>3. \A p \in Pixels : PushedIn(eff.direction, ValueAt(eff, run, run.at), p)' <=> PushedIn(d, u, p)
        BY <1>1, <2>2 DEF PushedIn
    <2> QED
        BY <1>10, <2>1, <2>3 DEF PushOK
<1> QED
    BY <1>11, <1>12

(* Zip: what is shown of the second picture grows from its side.           *)
LEMMA PartGoes ==
    ASSUME NEW n \in Nat, NEW f, NEW g, NeverBack(f, g)
    PROVE  Part(n, f) <= Part(n, g) /\ Trunc(n * f[1], 2 * f[2]) <= Trunc(n * g[1], 2 * g[2])
<1> DEFINE a == n * f[1]
           b == n * g[1]
           d == f[2]
           e == 2 * d
<1>1. f[1] \in Int /\ g[1] \in Int /\ f[1] <= g[1] /\ d \in Nat \ {0} /\ e \in Nat \ {0} /\ g[2] = d
    BY DEF NeverBack, Fractions
<1>2. a \in Int /\ b \in Int /\ a <= b
    BY <1>1, TimesInt
<1>3. Part(n, f) = Trunc(a, d) /\ Part(n, g) = Trunc(b, d)
    BY <1>1 DEF Part
<1>4. Trunc(n * f[1], 2 * f[2]) = Trunc(a, e) /\ Trunc(n * g[1], 2 * g[2]) = Trunc(b, e)
    BY <1>1
<1> HIDE DEF a, b, d, e
<1> QED
    BY <1>1, <1>2, <1>3, <1>4, TruncGrows

ZipShows(d, f, p) == InRect(p, ZipNew(d, Part(W, f), Part(H, f)))
ZipOK ==
    run.state = "drawing" /\ run.frames > 0 /\ Monotone(run.curve) /\ eff.class = "zip" =>
        \A p \in Pixels : sink[p][1] = 2 => ZipShows(eff.direction, ValueAt(eff, run, run.at), p)

LEMMA ZipFurther ==
    ASSUME Sized, NEW d, NEW f, NEW g, NeverBack(f, g), NEW p \in Pixels, ZipShows(d, f, p)
    PROVE  ZipShows(d, g, p)
<1> DEFINE w == Part(W, f)
           h == Part(H, f)
           x == Part(W, g)
           y == Part(H, g)
<1>1. W \in Nat /\ H \in Nat /\ p[1] \in Int /\ p[2] \in Int
    BY PixelIs DEF Sized
<1>2. f \in Fractions /\ g \in Fractions
    BY DEF NeverBack
<1>3. w \in Int /\ h \in Int /\ x \in Int /\ y \in Int /\ w <= x /\ h <= y
    BY <1>1, <1>2, PartInt, PartGoes
<1>4. InRect(p, ZipNew(d, w, h))
    BY DEF ZipShows
<1> HIDE DEF w, h, x, y
<1>5. InRect(p, ZipNew(d, x, y))
    <2>1. CASE d = 0
        BY <1>1, <1>3, <1>4, <2>1 DEF ZipNew, InRect, Rect
    <2>2. CASE d = 1
        BY <1>1, <1>3, <1>4, <2>2 DEF ZipNew, InRect, Rect
    <2>3. CASE d = 2
        BY <1>1, <1>3, <1>4, <2>3 DEF ZipNew, InRect, Rect
    <2>4. CASE d \notin {0, 1, 2}
        BY <1>1, <1>3, <1>4, <2>4 DEF ZipNew, InRect, Rect
    <2> QED
        BY <2>1, <2>2, <2>3, <2>4
<1> QED
    BY <1>5 DEF ZipShows, x, y

LEMMA ZipKeeps ==
    ASSUME Typed, Begins, ZipOK, eff.class = "zip", Monotone(run.curve), NEW j \in 0..Steps, Frame(j)
    PROVE  (run.frames > 0 => Keeps(2)) /\ ZipOK'
<1> DEFINE d == eff.direction
           f == CurveValue(run.curve, run.at, Steps)
           g == CurveValue(run.curve, j, Steps)
           u == ValueAt(eff, run, j)
<1>1. /\ run.state = "drawing" /\ size' = size /\ run'.at = j /\ run'.curve = run.curve
      /\ eff'.class = eff.class /\ eff'.direction = d /\ ValueAt(eff, run, j)' = u
    BY FrameDoes
<1>2. Sized
    BY SizedAlways DEF Typed
<1>3. ValueAt(eff, run, run.at) = f /\ u = g
    BY DEF ValueAt
<1>4. run.frames > 0 => NeverBack(f, g)
    BY Later
<1>5. \A p \in Pixels : sink'[p][1] = 2 <=> ZipShows(d, g, p)
    BY <1>3, ZipFrame DEF ZipShows
<1>6. run.frames > 0 => \A p \in Pixels : sink[p][1] = 2 => ZipShows(d, f, p)
    BY <1>1, <1>3 DEF ZipOK
<1> HIDE DEF d, f, g, u
<1>7. run.frames > 0 => Keeps(2)
    BY <1>2, <1>4, <1>5, <1>6, ZipFurther DEF Keeps
<1>8. ZipOK'
    <2>1. W' = W /\ H' = H /\ Pixels' = Pixels
        BY <1>1, SameSize
    <2>2. ValueAt(eff, run, run.at)' = g
        BY <1>1, <1>3
    <2>3. \A p \in Pixels : ZipShows(eff.direction, ValueAt(eff, run, run.at), p)' <=> ZipShows(d, g, p)
        BY <1>1, <2>1, <2>2 DEF ZipShows, ZipNew
    <2> QED
        BY <1>5, <2>1, <2>3 DEF ZipOK
<1> QED
    BY <1>7, <1>8

(* Centersplit: the corners of the first picture, which it draws last when *)
(* it splits to the outside, go away.                                      *)
Corner(d, cw, ch, p) ==
    LET mw == W \div 2
        mh == H \div 2
        kw == mw - cw
        kh == mh - ch
    IN  IF d = 0
        THEN \/ p[1] < kw /\ p[2] < kh
             \/ W - kw <= p[1] /\ p[2] < kh
             \/ p[1] < kw /\ mh + ch <= p[2] /\ p[2] < mh + ch + kh
             \/ mw + cw <= p[1] /\ p[1] < mw + cw + kw /\ mh + ch <= p[2] /\ p[2] < mh + ch + kh
        ELSE p[2] < kh \/ (mh + ch <= p[2] /\ p[2] < mh + ch + kh)

LEMMA PieceCovers ==
    ASSUME Sized, NEW from \in Points, NEW wide \in Nat \ {0}, NEW high \in Nat \ {0}, NEW r \in Points,
           0 <= from[1], from[1] + wide <= W, 0 <= from[2], from[2] + high <= H, NEW p \in Pixels
    PROVE  Covers(from, wide, high, r, p) <=>
                r[1] <= p[1] /\ p[1] < r[1] + wide /\ r[2] <= p[2] /\ p[2] < r[2] + high
<1>1. /\ W \in Nat \ {0} /\ H \in Nat \ {0} /\ r[1] \in Int /\ r[2] \in Int
      /\ from[1] \in Int /\ from[2] \in Int
      /\ p[1] \in Int /\ p[2] \in Int /\ 0 <= p[1] /\ p[1] < W /\ 0 <= p[2] /\ p[2] < H
    BY PixelIs DEF Sized, Points
<1>2. Reads(from, r, p) = <<p[1] - r[1] + from[1], p[2] - r[2] + from[2]>>
    BY <1>1 DEF Reads, Plus, Minus
<1>3. Reads(from, r, p) \in Pixels <=>
        /\ 0 <= p[1] - r[1] + from[1] /\ p[1] - r[1] + from[1] < W
        /\ 0 <= p[2] - r[2] + from[2] /\ p[2] - r[2] + from[2] < H
    BY <1>1, <1>2 DEF Pixels
<1>4. InRect(p, Rect(r[1], r[2], r[1] + wide, r[2] + high)) <=>
        r[1] <= p[1] /\ p[1] < r[1] + wide /\ r[2] <= p[2] /\ p[2] < r[2] + high
    BY <1>1 DEF InRect, Rect
<1>5. Covers(from, wide, high, r, p) <=>
        InRect(p, Rect(r[1], r[2], r[1] + wide, r[2] + high)) /\ Reads(from, r, p) \in Pixels
    BY DEF Covers
<1> QED
    BY <1>1, <1>3, <1>4, <1>5

(* Of a few blits one is the last that covers a pixel.                     *)
On(list, n, p) == Covers(list[n][2], list[n][3], list[n][4], list[n][5], p)

LEMMA LastSome ==
    ASSUME NEW list, DOMAIN list = 1..2 \/ DOMAIN list = 1..4, NEW p
    PROVE  Last(list, p) # {} <=> \E n \in DOMAIN list : On(list, n, p)
<1> DEFINE D == DOMAIN list
           S == {n \in D : On(list, n, p)}
<1>1. Last(list, p) = {n \in D : n \in S /\ \A m \in D : m > n => m \notin S}
    BY DEF Last, On
<1>2. S \subseteq D /\ (D = 1..2 \/ D = 1..4)
    OBVIOUS
<1>3. S # {} <=> \E n \in D : On(list, n, p)
    OBVIOUS
<1> HIDE DEF D, S
<1>4. ASSUME S # {}
      PROVE  \E n \in D : n \in S /\ \A m \in D : m > n => m \notin S
    <2>1. CASE D = 1..2
        <3>1. \A n : n \in D <=> n = 1 \/ n = 2
            BY <2>1
        <3>2. CASE 2 \in S
            BY <3>1, <3>2
        <3>3. CASE 2 \notin S
            <4>1. 1 \in S
                BY <1>2, <1>4, <3>1, <3>3
            <4> QED
                BY <3>1, <3>3, <4>1
        <3> QED
            BY <3>2, <3>3
    <2>2. CASE D = 1..4
        <3>1. \A n : n \in D <=> n = 1 \/ n = 2 \/ n = 3 \/ n = 4
            BY <2>2
        <3>2. CASE 4 \in S
            BY <3>1, <3>2
        <3>3. CASE 4 \notin S /\ 3 \in S
            BY <3>1, <3>3
        <3>4. CASE 4 \notin S /\ 3 \notin S /\ 2 \in S
            BY <3>1, <3>4
        <3>5. CASE 4 \notin S /\ 3 \notin S /\ 2 \notin S
            <4>1. 1 \in S
                BY <1>2, <1>4, <3>1, <3>5
            <4> QED
                BY <3>1, <3>5, <4>1
        <3> QED
            BY <3>2, <3>3, <3>4, <3>5
    <2> QED
        BY <1>2, <2>1, <2>2
<1>5. Last(list, p) # {} <=> S # {}
    BY <1>1, <1>4
<1> QED
    BY <1>3, <1>5 DEF D

LEMMA CornerCovers ==
    ASSUME Sized, NEW x \in 1..W \div 2, NEW y \in 1..(H \div 2 - 1), NEW d,
           d = 0 => W \div 2 - x # 0, NEW p \in Pixels
    PROVE  (\E n \in DOMAIN OutList(d, x, y) : On(OutList(d, x, y), n, p)) <=> Corner(d, x, y, p)
<1> DEFINE mw == W \div 2
           mh == H \div 2
           kw == mw - x
           kh == mh - y
           l == OutList(d, x, y)
           z == 0
<1>1. /\ W \in Nat \ {0} /\ H \in Nat \ {0} /\ mw \in Nat /\ mh \in Nat /\ 2 * mw <= W /\ 2 * mh <= H
      /\ x \in Nat \ {0} /\ y \in Nat \ {0} /\ kw \in Nat /\ kh \in Nat \ {0} /\ (d = 0 => kw # 0)
      /\ p[1] \in Int /\ p[2] \in Int /\ 0 <= p[1] /\ p[1] < W /\ 0 <= p[2] /\ p[2] < H
      /\ mw = x + kw /\ mh = y + kh
    BY PixelIs DEF Sized
<1>2. Corner(d, x, y, p) <=>
        IF d = 0
        THEN \/ p[1] < kw /\ p[2] < kh
             \/ W - kw <= p[1] /\ p[2] < kh
             \/ p[1] < kw /\ mh + y <= p[2] /\ p[2] < mh + y + kh
             \/ mw + x <= p[1] /\ p[1] < mw + x + kw /\ mh + y <= p[2] /\ p[2] < mh + y + kh
        ELSE p[2] < kh \/ (mh + y <= p[2] /\ p[2] < mh + y + kh)
    BY Zenon DEF Corner
<1>3. l = IF d = 0
          THEN <<<<1, <<x, y>>, kw, kh, <<z, z>>>>, <<1, <<mw, y>>, kw, kh, <<W - kw, z>>>>,
                 <<1, <<x, mh>>, kw, kh, <<z, mh + y>>>>, <<1, <<mw, mh>>, kw, kh, <<mw + x, mh + y>>>>>>
          ELSE <<<<1, <<z, y>>, W, kh, <<z, z>>>>, <<1, <<z, mh>>, W, kh, <<z, mh + y>>>>>>
    BY DEF OutList
<1>4. z \in Int /\ z = 0
    OBVIOUS
<1> HIDE DEF mw, mh, kw, kh, l, z
<1>5. CASE d = 0
    <2>1. /\ DOMAIN l = 1..4
          /\ l[1] = <<1, <<x, y>>, kw, kh, <<z, z>>>>
          /\ l[2] = <<1, <<mw, y>>, kw, kh, <<W - kw, z>>>>
          /\ l[3] = <<1, <<x, mh>>, kw, kh, <<z, mh + y>>>>
          /\ l[4] = <<1, <<mw, mh>>, kw, kh, <<mw + x, mh + y>>>>
        BY <1>3, <1>5
    <2>2. /\ On(l, 1, p) <=> Covers(<<x, y>>, kw, kh, <<z, z>>, p)
          /\ On(l, 2, p) <=> Covers(<<mw, y>>, kw, kh, <<W - kw, z>>, p)
          /\ On(l, 3, p) <=> Covers(<<x, mh>>, kw, kh, <<z, mh + y>>, p)
          /\ On(l, 4, p) <=> Covers(<<mw, mh>>, kw, kh, <<mw + x, mh + y>>, p)
        BY <2>1 DEF On
    <2>3. ASSUME NEW a \in {x, mw}, NEW b \in {y, mh}, NEW u \in Int, NEW v \in Int
          PROVE  Covers(<<a, b>>, kw, kh, <<u, v>>, p) <=>
                    u <= p[1] /\ p[1] < u + kw /\ v <= p[2] /\ p[2] < v + kh
        <3> DEFINE from == <<a, b>>
                   r == <<u, v>>
        <3>1. /\ from \in Points /\ r \in Points /\ from[1] = a /\ from[2] = b /\ r[1] = u /\ r[2] = v
              /\ 0 <= a /\ a + kw <= W /\ 0 <= b /\ b + kh <= H
              /\ kw \in Nat \ {0} /\ kh \in Nat \ {0}
            BY <1>1, <1>5 DEF Points
        <3> HIDE DEF from, r
        <3>2. Covers(from, kw, kh, r, p) <=> r[1] <= p[1] /\ p[1] < r[1] + kw /\ r[2] <= p[2] /\ p[2] < r[2] + kh
            BY <3>1, PieceCovers
        <3> QED
            BY <3>1, <3>2 DEF from, r
    <2>4. W - kw \in Int /\ mw + x \in Int /\ mh + y \in Int
        BY <1>1
    <2>5. /\ On(l, 1, p) <=> z <= p[1] /\ p[1] < z + kw /\ z <= p[2] /\ p[2] < z + kh
          /\ On(l, 2, p) <=> W - kw <= p[1] /\ p[1] < W - kw + kw /\ z <= p[2] /\ p[2] < z + kh
          /\ On(l, 3, p) <=> z <= p[1] /\ p[1] < z + kw /\ mh + y <= p[2] /\ p[2] < mh + y + kh
          /\ On(l, 4, p) <=> mw + x <= p[1] /\ p[1] < mw + x + kw /\ mh + y <= p[2] /\ p[2] < mh + y + kh
        BY <1>4, <2>2, <2>3, <2>4
    <2>6. (\E n \in DOMAIN l : On(l, n, p)) <=> On(l, 1, p) \/ On(l, 2, p) \/ On(l, 3, p) \/ On(l, 4, p)
        <3>1. \A n : n \in DOMAIN l <=> n = 1 \/ n = 2 \/ n = 3 \/ n = 4
            BY <2>1
        <3> QED
            BY <3>1, Zenon
    <2>7. /\ On(l, 1, p) <=> p[1] < kw /\ p[2] < kh
          /\ On(l, 2, p) <=> W - kw <= p[1] /\ p[2] < kh
          /\ On(l, 3, p) <=> p[1] < kw /\ mh + y <= p[2] /\ p[2] < mh + y + kh
          /\ On(l, 4, p) <=> mw + x <= p[1] /\ p[1] < mw + x + kw /\ mh + y <= p[2] /\ p[2] < mh + y + kh
        BY <1>1, <1>4, <2>5
    <2>8. (\E n \in DOMAIN l : On(l, n, p)) <=> Corner(d, x, y, p)
        BY <1>2, <1>5, <2>6, <2>7
    <2> QED
        BY <2>8 DEF l
<1>6. CASE d # 0
    <2>1. /\ DOMAIN l = 1..2
          /\ l[1] = <<1, <<z, y>>, W, kh, <<z, z>>>>
          /\ l[2] = <<1, <<z, mh>>, W, kh, <<z, mh + y>>>>
        BY <1>3, <1>6
    <2>2. /\ On(l, 1, p) <=> Covers(<<z, y>>, W, kh, <<z, z>>, p)
          /\ On(l, 2, p) <=> Covers(<<z, mh>>, W, kh, <<z, mh + y>>, p)
        BY <2>1 DEF On
    <2>3. ASSUME NEW b \in {y, mh}, NEW v \in Int
          PROVE  Covers(<<z, b>>, W, kh, <<z, v>>, p) <=> v <= p[2] /\ p[2] < v + kh
        <3> DEFINE from == <<z, b>>
                   r == <<z, v>>
        <3>1. /\ from \in Points /\ r \in Points /\ from[1] = 0 /\ from[2] = b /\ r[1] = 0 /\ r[2] = v
              /\ 0 <= b /\ b + kh <= H
            BY <1>1, <1>4 DEF Points
        <3> HIDE DEF from, r
        <3>2. Covers(from, W, kh, r, p) <=> r[1] <= p[1] /\ p[1] < r[1] + W /\ r[2] <= p[2] /\ p[2] < r[2] + kh
            <4>1. 0 <= from[1] /\ from[1] + W <= W /\ 0 <= from[2] /\ from[2] + kh <= H
                BY <1>1, <3>1
            <4> QED
                BY <1>1, <3>1, <4>1, PieceCovers
        <3>3. Covers(from, W, kh, r, p) <=> v <= p[2] /\ p[2] < v + kh
            BY <1>1, <3>1, <3>2
        <3> QED
            BY <3>3 DEF from, r
    <2>4. mh + y \in Int
        BY <1>1
    <2>5. /\ On(l, 1, p) <=> z <= p[2] /\ p[2] < z + kh
          /\ On(l, 2, p) <=> mh + y <= p[2] /\ p[2] < mh + y + kh
        BY <1>4, <2>2, <2>3, <2>4
    <2>6. (\E n \in DOMAIN l : On(l, n, p)) <=> On(l, 1, p) \/ On(l, 2, p)
        <3>1. \A n : n \in DOMAIN l <=> n = 1 \/ n = 2
            BY <2>1
        <3> QED
            BY <3>1, Zenon
    <2>7. On(l, 1, p) <=> p[2] < kh
        BY <1>1, <1>4, <2>5
    <2>8. (\E n \in DOMAIN l : On(l, n, p)) <=> Corner(d, x, y, p)
        BY <1>2, <1>6, <2>5, <2>6, <2>7
    <2> QED
        BY <2>8 DEF l
<1> QED
    BY <1>5, <1>6

LEMMA CornerShrinks ==
    ASSUME Sized, NEW a \in Nat, NEW b \in Nat, NEW x \in Nat, NEW y \in Nat, a <= x, b <= y,
           NEW d, NEW p \in Pixels, Corner(d, x, y, p)
    PROVE  Corner(d, a, b, p)
<1> DEFINE mw == W \div 2
           mh == H \div 2
<1>1. mw \in Nat /\ mh \in Nat /\ W \in Nat /\ p[1] \in Int /\ p[2] \in Int
    BY PixelIs DEF Sized
<1>2. \A u, v \in Nat : Corner(d, u, v, p) <=>
        IF d = 0
        THEN \/ p[1] < mw - u /\ p[2] < mh - v
             \/ W - (mw - u) <= p[1] /\ p[2] < mh - v
             \/ p[1] < mw - u /\ mh + v <= p[2] /\ p[2] < mh + v + (mh - v)
             \/ /\ mw + u <= p[1] /\ p[1] < mw + u + (mw - u)
                /\ mh + v <= p[2] /\ p[2] < mh + v + (mh - v)
        ELSE p[2] < mh - v \/ (mh + v <= p[2] /\ p[2] < mh + v + (mh - v))
    BY Zenon DEF Corner
<1> HIDE DEF mw, mh
<1>3. CASE d = 0
    BY <1>1, <1>2, <1>3
<1>4. CASE d # 0
    BY <1>1, <1>2, <1>4
<1> QED
    BY <1>3, <1>4

Opened(d, f, p) ==
    LET cw == Trunc(W * f[1], 2 * f[2])
        ch == Trunc(H * f[1], 2 * f[2])
    IN  /\ cw # 0 \/ ch # 0
        /\ cw # 0 /\ ch # 0 => ~Corner(d, cw, ch, p)
SplitOK ==
    run.state = "drawing" /\ eff.class = "centersplit" =>
        /\ run.frames = 0 => sink = Picture(1)
        /\ run.frames > 0 /\ Monotone(run.curve) /\ eff.direction \in {0, 2} =>
            \A p \in Pixels : sink[p][1] = 2 => Opened(eff.direction, ValueAt(eff, run, run.at), p)

LEMMA OutShows ==
    ASSUME Sized, NEW x \in 1..W \div 2, NEW y \in 1..H \div 2, NEW d, NEW pic, NEW p \in Pixels
    PROVE  OutDrawn(pic, d, x, y)[p][1] = 2 <=> ~Corner(d, x, y, p)
<1> DEFINE mw == W \div 2
           mh == H \div 2
           none == (d = 0 /\ mw - x = 0) \/ mh - y = 0
           two == Picture(2)
           l == OutList(d, x, y)
<1>1. /\ mw \in Nat /\ mh \in Nat /\ W \in Nat /\ p[1] \in Int /\ p[2] \in Int /\ 0 <= p[1] /\ p[1] < W
      /\ 0 <= p[2] /\ x \in 1..mw /\ y \in 1..mh
    BY PixelIs DEF Sized
<1>2. two[p][1] = 2
    BY DEF Picture
<1>3. OutDrawn(pic, d, x, y) = IF none THEN two ELSE Blits(two, l)
    BY <1>1 DEF OutDrawn
<1>4. CASE none
    <2>1. Corner(d, x, y, p) <=>
            IF d = 0
            THEN \/ p[1] < mw - x /\ p[2] < mh - y
                 \/ W - (mw - x) <= p[1] /\ p[2] < mh - y
                 \/ p[1] < mw - x /\ mh + y <= p[2] /\ p[2] < mh + y + (mh - y)
                 \/ /\ mw + x <= p[1] /\ p[1] < mw + x + (mw - x)
                    /\ mh + y <= p[2] /\ p[2] < mh + y + (mh - y)
            ELSE p[2] < mh - y \/ (mh + y <= p[2] /\ p[2] < mh + y + (mh - y))
        BY Zenon DEF Corner
    <2> HIDE DEF mw, mh, two, l
    <2>2. CASE mh - y = 0
        BY <1>1, <1>2, <1>3, <1>4, <2>1, <2>2
    <2>3. CASE d = 0 /\ mw - x = 0
        <3>1. ~(p[1] < mw - x) /\ ~(W - (mw - x) <= p[1])
              /\ ~(mw + x <= p[1] /\ p[1] < mw + x + (mw - x))
            BY <1>1, <2>3
        <3> QED
            BY <1>2, <1>3, <1>4, <2>1, <2>3, <3>1
    <2> QED
        BY <1>4, <2>2, <2>3
<1>5. CASE ~none
    <2>1. y \in 1..(H \div 2 - 1) /\ (d = 0 => W \div 2 - x # 0)
        BY <1>1, <1>5
    <2>2. \A n \in DOMAIN l : l[n][1] = 1 /\ l[n][3] \in Nat /\ l[n][4] \in Nat
        BY SplitLists
    <2>3. DOMAIN l = 1..2 \/ DOMAIN l = 1..4
        BY DEF OutList
    <2>4. (\E n \in DOMAIN l : On(l, n, p)) <=> Corner(d, x, y, p)
        BY <2>1, CornerCovers
    <2> HIDE DEF l, none, two
    <2>5. Last(l, p) # {} <=> Corner(d, x, y, p)
        BY <2>3, <2>4, LastSome
    <2>6. ASSUME Last(l, p) = {}
          PROVE  Blits(two, l)[p][1] = 2 /\ ~Corner(d, x, y, p)
        <3>1. Blits(two, l)[p] = two[p]
            BY <2>2, <2>6, BlitsAt
        <3> QED
            BY <1>2, <2>5, <2>6, <3>1
    <2>7. ASSUME Last(l, p) # {}
          PROVE  Blits(two, l)[p][1] = 1 /\ Corner(d, x, y, p)
        <3>1. PICK n \in Last(l, p) : Blits(two, l)[p] = <<l[n][1], Reads(l[n][2], l[n][5], p)>>
            BY <2>2, <2>7, BlitsAt
        <3>2. l[n][1] = 1
            BY <2>2 DEF Last
        <3>3. Blits(two, l)[p][1] = 1
            BY <3>1, <3>2
        <3> QED
            BY <2>5, <2>7, <3>3
    <2> QED
        BY <1>3, <1>5, <2>6, <2>7
<1> QED
    BY <1>4, <1>5

LEMMA SplitKeeps ==
    ASSUME Typed, Begins, Directed, SplitOK, eff.class = "centersplit", Monotone(run.curve),
           NEW j \in 0..Steps, Frame(j)
    PROVE  (run.frames > 0 /\ ~Flash => Keeps(2)) /\ SplitOK'
<1> DEFINE d == eff.direction
           f == ValueAt(eff, run, run.at)
           g == ValueAt(eff, run, j)
           a == Trunc(W * f[1], 2 * f[2])
           b == Trunc(H * f[1], 2 * f[2])
           x == Trunc(W * g[1], 2 * g[2])
           y == Trunc(H * g[1], 2 * g[2])
           mw == W \div 2
           mh == H \div 2
           old == IF run.frames = 0 THEN Picture(1) ELSE sink
           Open(u, v, p) == (u # 0 \/ v # 0) /\ (u # 0 /\ v # 0 => ~Corner(d, u, v, p))
<1>1. /\ run.state = "drawing" /\ size' = size /\ run'.at = j /\ run'.curve = run.curve /\ run'.frames = 1
      /\ eff'.class = eff.class /\ eff'.direction = d /\ ValueAt(eff, run, j)' = g
    BY FrameDoes
<1>2. Sized /\ W \in Nat /\ H \in Nat /\ run.frames \in 0..1 /\ run.at \in 0..Steps
    BY SizedAlways DEF Typed, RunTyped, Sized
<1>3. /\ d \in 0..3 /\ mw \in Nat /\ mh \in Nat /\ x \in 0..mw /\ y \in 0..mh
      /\ d \in {0, 2} => sink' = OutDrawn(sink, d, x, y)
      /\ d \notin {0, 2} => sink' = CenterDrawn(old, d, x, y)
    BY SplitStep
<1>4. run.frames > 0 => a \in Nat /\ a <= x /\ b \in Nat /\ b <= y
    <2>1. f = CurveValue(run.curve, run.at, Steps) /\ g = CurveValue(run.curve, j, Steps)
        BY DEF ValueAt
    <2>2. f \in Fractions /\ f[1] \in 0..f[2]
        BY <1>1, <1>2, FractionAt
    <2>3. run.frames > 0 => NeverBack(f, g)
        BY <2>1, Later
    <2> HIDE DEF f, g, mw, mh
    <2>4. a \in 0..(W \div 2) /\ b \in 0..(H \div 2)
        BY <1>2, <2>2, PartBound
    <2>5. NeverBack(f, g) => a <= x /\ b <= y
        BY <1>2, PartGoes
    <2> QED
        BY <1>2, <2>3, <2>4, <2>5
<1>5. /\ run.frames = 0 => sink = Picture(1)
      /\ run.frames > 0 /\ d \in {0, 2} => \A p \in Pixels : sink[p][1] = 2 => Open(a, b, p)
    BY <1>1 DEF SplitOK, Opened
<1>6. d \in {0, 2} /\ ~Flash => (a = 0 <=> b = 0)
    <2>1. Flash <=> d \in {0, 2} /\ (a = 0) # (b = 0)
        BY Zenon DEF Flash
    <2> HIDE DEF a, b, d
    <2> QED
        BY <2>1
<1>7. SplitOK' <=> (j # Steps /\ d \in {0, 2} => \A p \in Pixels : sink'[p][1] = 2 => Open(x, y, p))
    <2>1. W' = W /\ H' = H /\ Pixels' = Pixels
        BY <1>1, SameSize
    <2>2. ValueAt(eff, run, run.at)' = g
        BY <1>1
    <2>3. \A p \in Pixels : Opened(eff.direction, ValueAt(eff, run, run.at), p)' <=> Open(x, y, p)
        <3>1. Trunc(W' * g[1], 2 * g[2]) = x /\ Trunc(H' * g[1], 2 * g[2]) = y
            BY <2>1
        <3>2. \A u, v, p : Corner(eff.direction, u, v, p)' <=> Corner(d, u, v, p)
            BY <1>1, <2>1 DEF Corner
        <3> HIDE DEF x, y, g
        <3> QED
            BY <1>1, <2>1, <2>2, <3>1, <3>2 DEF Opened
    <2>4. run'.state = "drawing" <=> j # Steps
        BY FrameDoes
    <2> HIDE DEF x, y, g, d, Open
    <2> QED
        BY <1>1, <2>1, <2>3, <2>4 DEF SplitOK
<1> HIDE DEF d, f, g, a, b, x, y, mw, mh
<1>8. CASE d \in {0, 2}
    <2>1. CASE x = 0 /\ y = 0
        <3>1. sink' = sink
            BY <1>3, <1>8, <2>1 DEF OutDrawn
        <3>2. ASSUME NEW p \in Pixels PROVE sink'[p][1] # 2
            <4>1. CASE run.frames = 0
                BY <1>5, <3>1, <4>1 DEF Picture
            <4>2. CASE run.frames > 0
                <5>1. a = 0 /\ b = 0
                    BY <1>4, <2>1, <4>2
                <5> QED
                    BY <1>5, <1>8, <3>1, <4>2, <5>1
            <4> QED
                BY <1>2, <4>1, <4>2
        <3> QED
            BY <1>7, <3>1, <3>2 DEF Keeps
    <2>2. CASE (x = 0) # (y = 0)
        <3>1. sink' = Picture(2)
            BY <1>3, <1>8, <2>2 DEF OutDrawn
        <3>2. \A p \in Pixels : sink'[p][1] = 2 /\ Open(x, y, p)
            BY <2>2, <3>1 DEF Picture
        <3> QED
            BY <1>7, <3>2 DEF Keeps
    <2>3. CASE x # 0 /\ y # 0
        <3>1. x \in 1..W \div 2 /\ y \in 1..H \div 2 /\ sink' = OutDrawn(sink, d, x, y)
            BY <1>3, <1>8, <2>3 DEF mw, mh
        <3>2. \A p \in Pixels : sink'[p][1] = 2 <=> ~Corner(d, x, y, p)
            BY <1>2, <3>1, OutShows
        <3>3. ASSUME run.frames > 0, ~Flash
              PROVE  Keeps(2)
            <4>1. \A p \in Pixels : sink[p][1] = 2 => ~Corner(d, a, b, p)
                BY <1>5, <1>6, <1>8, <3>3
            <4>2. a \in Nat /\ b \in Nat /\ x \in Nat /\ y \in Nat /\ a <= x /\ b <= y
                BY <1>3, <1>4, <3>3
            <4>3. \A p \in Pixels : Corner(d, x, y, p) => Corner(d, a, b, p)
                BY <1>2, <4>2, CornerShrinks
            <4> QED
                BY <3>2, <4>1, <4>3 DEF Keeps
        <3> QED
            BY <1>7, <2>3, <3>2, <3>3
    <2> QED
        BY <2>1, <2>2, <2>3
<1>9. CASE d \notin {0, 2}
    <2>1. ASSUME run.frames > 0
          PROVE  Keeps(2)
        <3>1. sink' = CenterDrawn(sink, d, x, y)
            BY <1>2, <1>3, <1>9, <2>1
        <3>2. CASE x = 0 \/ y = 0
            BY <3>1, <3>2 DEF Keeps, CenterDrawn
        <3>3. CASE ~(x = 0 \/ y = 0)
            <4> DEFINE l == CenterList(d, x, y)
            <4>1. sink' = Blits(sink, l) /\ x \in 1..W \div 2 /\ y \in 1..H \div 2
                BY <1>3, <3>1, <3>3 DEF mw, mh, CenterDrawn
            <4>2. \A n \in DOMAIN l : l[n][1] = 2 /\ l[n][3] \in Nat /\ l[n][4] \in Nat
                BY <1>2, <4>1, SplitLists
            <4> HIDE DEF l
            <4> QED
                BY <4>1, <4>2, BlitsKeep DEF Keeps
        <3> QED
            BY <3>2, <3>3
    <2> QED
        BY <1>7, <1>9, <2>1
<1> QED
    BY <1>8, <1>9

(* What the sink shows of the final picture of a run under way, for every  *)
(* class that does not simply draw the second source over the first.       *)
ShownOK == PushOK /\ ZipOK /\ SplitOK
Unflickered ==
    run.state = "drawing" /\ run.frames > 0 /\ Monotone(run.curve) /\ ~Flash => Keeps(Final(eff))

LEMMA FrameShown ==
    ASSUME DInv, ShownOK, NEW j \in 0..Steps, Frame(j)
    PROVE  ShownOK' /\ Unflickered
<1>1. /\ run.state = "drawing" /\ run'.curve = run.curve /\ run'.frames = 1 /\ eff'.class = eff.class
    BY FrameDoes DEF DInv
<1>2. eff.class \in {"push", "clear", "zip", "zoom", "centersplit", "leafwindow"}
    BY ClassesDrawn DEF DInv, Typed, Effs
<1>3. CASE ~Monotone(run.curve)
    <2>1. ~Monotone(run'.curve)
        BY <1>1, <1>3
    <2>2. ShownOK'
        BY <1>1, <2>1 DEF ShownOK, PushOK, ZipOK, SplitOK, Monotone
    <2> QED
        BY <1>3, <2>2 DEF Unflickered
<1>4. CASE Monotone(run.curve)
    <2>1. /\ eff.class # "push" => PushOK'
          /\ eff.class # "zip" => ZipOK'
          /\ eff.class # "centersplit" => SplitOK'
        BY <1>1 DEF PushOK, ZipOK, SplitOK
    <2>2. CASE eff.class = "push"
        BY <1>4, <2>1, <2>2, PushKeeps DEF DInv, ShownOK, Unflickered, Final
    <2>3. CASE eff.class = "zip"
        BY <1>4, <2>1, <2>3, ZipKeeps DEF DInv, ShownOK, Unflickered, Final
    <2>4. CASE eff.class = "centersplit"
        BY <1>4, <2>1, <2>4, SplitKeeps DEF DInv, ShownOK, Unflickered, Final
    <2>5. CASE eff.class = "clear"
        BY <1>4, <2>1, <2>5, ClearKeeps DEF DInv, ShownOK, Unflickered, Final
    <2>6. CASE eff.class = "zoom"
        BY <1>4, <2>1, <2>6, ZoomKeeps DEF DInv, ShownOK, Unflickered, Final
    <2>7. CASE eff.class = "leafwindow"
        <3>1. Full(sink)
            BY <1>1, <2>7 DEF DInv, CoveredOK
        <3>2. Keeps(2)
            BY <2>7, <3>1, LeafFrame DEF DInv
        <3> QED
            BY <2>1, <2>7, <3>2 DEF ShownOK, Unflickered, Final
    <2> QED
        BY <1>2, <2>2, <2>3, <2>4, <2>5, <2>6, <2>7
<1> QED
    BY <1>3, <1>4

LEMMA BeginShown ==
    ASSUME AllRules, NEW c \in CurveSet, Begin(c)
    PROVE  ShownOK' /\ Unflickered
<1>1. run.state # "drawing" /\ run'.frames = 0 /\ size' = size /\ sink' = sink
      /\ eff' = [eff EXCEPT !.zoomed_out = eff.zoomed_out \/ (eff.class = "zoom" /\ eff.out)]
    BY DEF Begin
<1>2. eff.class = "centersplit" => sink = Picture(1)
    BY DEF Begin, MayBegin, AllRules, Rules
<1>3. eff'.class = eff.class
    BY <1>1
<1>4. Picture(1)' = Picture(1)
    BY <1>1, SameSize
<1>5. PushOK' /\ ZipOK' /\ SplitOK'
    BY <1>1, <1>2, <1>3, <1>4 DEF PushOK, ZipOK, SplitOK
<1> QED
    BY <1>1, <1>5 DEF ShownOK, Unflickered

LEMMA StutterShown ==
    ASSUME ShownOK, UNCHANGED vars
    PROVE  ShownOK' /\ Unflickered
<1>1. size' = size /\ eff' = eff /\ run' = run /\ sink' = sink
    BY DEF vars
<1>2. W' = W /\ H' = H /\ Pixels' = Pixels /\ Picture(1)' = Picture(1)
    BY <1>1, SameSize
<1>3. ValueAt(eff, run, run.at)' = ValueAt(eff, run, run.at)
    BY <1>1 DEF ValueAt
<1> DEFINE d == eff.direction
           v == ValueAt(eff, run, run.at)
<1>4. \A p : PushedIn(eff.direction, ValueAt(eff, run, run.at), p)' <=> PushedIn(d, v, p)
    BY <1>1, <1>3 DEF PushedIn
<1>5. \A p : ZipShows(eff.direction, ValueAt(eff, run, run.at), p)' <=> ZipShows(d, v, p)
    BY <1>1, <1>2, <1>3 DEF ZipShows, ZipNew
<1>6. \A p : Opened(eff.direction, ValueAt(eff, run, run.at), p)' <=> Opened(d, v, p)
    BY <1>1, <1>2, <1>3 DEF Opened, Corner
<1> HIDE DEF v
<1>7. PushOK'
    BY <1>1, <1>2, <1>4 DEF ShownOK, PushOK, v
<1>8. ZipOK'
    BY <1>1, <1>2, <1>5 DEF ShownOK, ZipOK, v
<1>9. SplitOK'
    BY <1>1, <1>2, <1>6 DEF ShownOK, SplitOK, v
<1>10. Unflickered
    BY <1>1 DEF Unflickered, Keeps
<1> QED
    BY <1>7, <1>8, <1>9, <1>10 DEF ShownOK

LEMMA QuietShown ==
    ASSUME run'.state # "drawing", run.state # "drawing" \/ sink' = sink
    PROVE  ShownOK' /\ Unflickered
BY DEF ShownOK, PushOK, ZipOK, SplitOK, Unflickered, Keeps

LEMMA ShownStep ==
    ASSUME AllRules, DInv, ShownOK, [Next]_vars
    PROVE  ShownOK' /\ Unflickered
<1>1. ASSUME NEW d \in 0..4, SetDirection(d)
      PROVE  run'.state # "drawing" /\ run.state # "drawing"
    BY <1>1 DEF SetDirection, MaySet, AllRules, Rules
<1>2. ASSUME NEW n \in Rows, NEW v \in BOOLEAN, SetRows(n, v)
      PROVE  run'.state # "drawing" /\ run.state # "drawing"
    BY <1>2 DEF SetRows, MaySet, AllRules, Rules
<1>3. ASSUME NEW out \in BOOLEAN, SetZoom(out)
      PROVE  run'.state # "drawing" /\ run.state # "drawing"
    BY <1>3 DEF SetZoom, MaySet, AllRules, Rules
<1>4. ASSUME NEW pic, NewSink(pic)
      PROVE  run'.state # "drawing" /\ run.state # "drawing"
    BY <1>4 DEF NewSink, NotRun
<1>5. ASSUME Stop
      PROVE  run'.state # "drawing" /\ sink' = sink
    BY <1>5 DEF Stop, DInv, Typed, RunTyped
<1> QED
    BY <1>1, <1>2, <1>3, <1>4, <1>5, QuietShown, BeginShown, FrameShown, StutterShown DEF Next

(***************************************************************************)
(* ... and with a curve that does not go back no pixel flickers: what      *)
(* shows the final picture shows it to the end of the run, whatever the    *)
(* class, the direction, the size that fits and the frames left out, but   *)
(* for the frames of centersplit that Flash names, which flicker.          *)
(***************************************************************************)
THEOREM NoFlickerAlways == ASSUME AllRules PROVE Spec => NoFlicker
<1>1. Init => DInv /\ ShownOK
    <2> SUFFICES ASSUME Init PROVE ShownOK
        BY DInvFromInit
    <2>1. run.state = "new"
        BY DEF Init, NotRun
    <2> QED
        BY <2>1 DEF ShownOK, PushOK, ZipOK, SplitOK
<1>2. (DInv /\ ShownOK) /\ [Next]_vars => (DInv /\ ShownOK)'
    BY DInvStep, ShownStep
<1>3. (DInv /\ ShownOK) /\ [Next]_vars =>
        [run.state = "drawing" /\ run.frames > 0 /\ Monotone(run.curve) /\ ~Flash =>
            \A p \in Pixels : sink[p][1] = Final(eff) => sink'[p][1] = Final(eff)]_vars
    BY ShownStep DEF Unflickered, Keeps
<1> QED
    BY <1>1, <1>2, <1>3, PTL DEF Spec, NoFlicker
=============================================================================
