-------------------------------- MODULE Ed448_proofs -----------------------------
(***************************************************************************)
(* Proofs about Ed448, for any curve of this kind: a public key has one    *)
(* encoding, what is made verifies, and a signature is accepted with one S *)
(* and for one challenge.                                                  *)
(*                                                                         *)
(* That a comparison of bytes is one of numbers is shown digit by digit;   *)
(* that decompression yields at most one point, from the curve equation;   *)
(* the rest is reckoned in the group, from which the factor 4 of the       *)
(* equation leaves the part of order L.                                    *)
(***************************************************************************)
EXTENDS Ed448, BasicLemmas

---------------------------------------------------------------------------
(* The bytes of a number, and the comparison with those of the prime.      *)

N == Len(FieldPrimeLE)

\* What is left of y above its first i bytes.
Above(y, i) == y \div Power[i]

LEMMA LenNat == N \in Nat /\ DOMAIN FieldPrimeLE = 1 .. N
  BY NumbersAssumption, LenProperties DEF N

LEMMA PowerFacts ==
    /\ Power[0] = 1
    /\ \A i \in 1 .. N : Power[i] = Base * Power[i - 1]
    /\ \A i \in 0 .. N : Power[i] \in Nat \ {0}
<1> DEFINE V == Nat
           one == 1
           G == [i \in 1 .. N |-> [x \in V |-> Base * x]]
           Step(g, i) == IF i = 0 THEN 1 ELSE Base * g[i - 1]
<1>1. N \in Nat /\ Base \in Nat /\ Base > 1
  BY LenNat, NumbersAssumption
<1>2. G \in [1 .. N -> [V -> V]] /\ one \in V
  BY <1>1
<1>3. PICK f \in [0 .. N -> V] : f[0] = one /\ \A i \in 1 .. N : f[i] = G[i][f[i - 1]]
  <2> HIDE DEF V, one, G
  <2> QED BY ONLY <1>1, <1>2, RecursionExists
<1>4. \A i \in 0 .. N : f[i] = Step(f, i)
  <2> SUFFICES ASSUME NEW i \in 0 .. N PROVE f[i] = Step(f, i)
    OBVIOUS
  <2>1. CASE i = 0
    BY <1>3, <2>1
  <2>2. CASE i # 0
    <3>1. i \in 1 .. N /\ f[i - 1] \in V
      BY <1>1, <2>2
    <3>2. f[i] = Base * f[i - 1]
      BY <1>3, <3>1
    <3>3. QED BY <2>2, <3>2
  <2>3. QED BY <2>1, <2>2
<1>5. f = [i \in 0 .. N |-> Step(f, i)]
  <2> HIDE DEF Step
  <2> QED BY <1>4
<1>6. Power = [i \in 0 .. N |-> Step(Power, i)]
  BY <1>5 DEF Power, N
<1> DEFINE h == Power
<1>7. h = [i \in 0 .. N |-> Step(h, i)]
  BY <1>6
<1> HIDE DEF h
<1>8. h[0] = 1 /\ \A i \in 1 .. N : h[i] = Base * h[i - 1]
  BY <1>1, <1>7
<1> DEFINE T == {i \in Nat : i \in 0 .. N => h[i] \in Nat \ {0}}
<1>9. 0 \in T
  BY <1>8
<1>10. ASSUME NEW i \in Nat, i \in T PROVE i + 1 \in T
  <2> SUFFICES ASSUME i + 1 \in 0 .. N PROVE h[i + 1] \in Nat \ {0}
    OBVIOUS
  <2>1. i \in 0 .. N /\ i + 1 \in 1 .. N /\ (i + 1) - 1 = i
    BY <1>1
  <2>2. h[i] \in Nat \ {0} /\ h[i + 1] = Base * h[i]
    BY <1>8, <1>10, <2>1
  <2>3. QED BY <1>1, <2>2
<1>11. Nat \subseteq T
  <2> HIDE DEF T
  <2> QED BY <1>9, <1>10, Induction
<1>12. \A i \in 0 .. N : h[i] \in Nat \ {0}
  BY <1>11
<1>13. QED BY <1>8, <1>12 DEF h

\* Dividing twice is dividing by the product.
LEMMA DivTwice ==
    ASSUME NEW n \in Nat \ {0}, NEW m \in Nat \ {0}, NEW y \in Int
    PROVE  (y \div n) \div m = y \div (m * n)
<1> DEFINE a == y \div n
           r == y % n
<1>1. a \in Int /\ r \in 0 .. n - 1 /\ y = n * a + r
  BY DivMod
<1> HIDE DEF a, r
<1> DEFINE b == a \div m
           s == a % m
<1>2. b \in Int /\ s \in 0 .. m - 1 /\ a = m * b + s
  BY <1>1, DivMod
<1> HIDE DEF b, s
<1> DEFINE k == m * n
           t == n * s + r
<1>3. k \in Nat \ {0}
  BY DEF k
<1>4. t \in 0 .. k - 1
  <2>1. n * s \in Nat /\ t \in Nat
    BY <1>1, <1>2
  <2>2. n * s <= n * (m - 1)
    <3>1. m - 1 - s >= 0 /\ m - 1 - s \in Int
      BY <1>2
    <3>2. n * (m - 1 - s) >= 0
      BY <3>1
    <3>3. n * (m - 1 - s) = n * (m - 1) - n * s
      BY <1>2
    <3>4. n * (m - 1) \in Int /\ n * s \in Int
      BY <1>2
    <3>5. QED BY <3>2, <3>3, <3>4
  <2>3. n * (m - 1) + n = k /\ n * (m - 1) \in Int
    OBVIOUS
  <2>4. n * s + r <= k - 1
    BY <1>1, <2>1, <2>2, <2>3
  <2>5. QED BY <1>3, <2>1, <2>4
<1>5. y = k * b + t
  <2>1. n * a = n * (m * b) + n * s
    BY <1>2
  <2>2. n * (m * b) = k * b
    BY <1>2
  <2>3. k * b \in Int /\ n * s \in Int /\ n * a \in Int
    BY <1>1, <1>2
  <2>4. QED BY <1>1, <2>1, <2>2, <2>3
<1> HIDE DEF k, t
<1>6. (k * b + t) \div k = b
  BY <1>2, <1>3, <1>4, ModUnique
<1>7. y \div k = b
  BY <1>5, <1>6
<1>8. QED BY <1>7 DEF a, b, k

\* A number is peeled byte by byte.
LEMMA AboveFacts ==
    ASSUME NEW y \in YValues
    PROVE  /\ Above(y, 0) = y /\ Above(y, N) = 0
           /\ \A i \in 0 .. N : Above(y, i) \in Int
           /\ \A i \in 1 .. N :
                 /\ Byte(y, i) \in 0 .. Base - 1
                 /\ Above(y, i - 1) = Base * Above(y, i) + Byte(y, i)
<1>1. /\ N \in Nat /\ Base \in Nat \ {0} /\ y \in 0 .. Power[N] - 1 /\ y \in Int
      /\ \A i \in 0 .. N : Power[i] \in Nat \ {0}
  BY LenNat, PowerFacts, NumbersAssumption DEF YValues, N
<1>2. Above(y, 0) = y
  <2>1. Power[0] = 1 /\ y = 1 * y + 0 /\ (1 * y + 0) \div 1 = y
    BY <1>1, PowerFacts, ModUnique
  <2>2. QED BY <2>1 DEF Above
<1>3. Above(y, N) = 0
  <2> DEFINE m == Power[N]
  <2>1. m \in Nat \ {0} /\ y \in 0 .. m - 1
    BY <1>1
  <2> HIDE DEF m
  <2>2. (m * 0 + y) \div m = 0 /\ m * 0 + y = y
    BY <2>1, ModUnique
  <2>3. y \div m = 0
    BY <2>2
  <2>4. QED BY <2>3 DEF Above, m
<1>4. \A i \in 0 .. N : Above(y, i) \in Int
  <2> SUFFICES ASSUME NEW i \in 0 .. N PROVE Above(y, i) \in Int
    OBVIOUS
  <2> DEFINE m == Power[i]
  <2>1. m \in Nat \ {0}
    BY <1>1
  <2> HIDE DEF m
  <2>2. y \div m \in Int
    BY <1>1, <2>1, DivMod
  <2>3. QED BY <2>2 DEF Above, m
<1>5. ASSUME NEW i \in 1 .. N
      PROVE  /\ Byte(y, i) \in 0 .. Base - 1
             /\ Above(y, i - 1) = Base * Above(y, i) + Byte(y, i)
  <2> DEFINE a == Above(y, i - 1)
  <2>1. i - 1 \in 0 .. N /\ a \in Int
    BY <1>1, <1>4
  <2>2. Byte(y, i) = a % Base
    BY DEF Byte, Above
  <2>3. Above(y, i) = a \div Base
    <3> DEFINE m == Power[i - 1]
    <3>1. m \in Nat \ {0} /\ Power[i] = Base * m
      BY <1>1, <2>1, PowerFacts
    <3> HIDE DEF m
    <3>2. (y \div m) \div Base = y \div (Base * m)
      BY <1>1, <3>1, DivTwice
    <3>3. QED BY <3>1, <3>2 DEF Above, m
  <2> HIDE DEF a
  <2>4. a % Base \in 0 .. Base - 1 /\ a = Base * (a \div Base) + (a % Base)
    BY <1>1, <2>1, DivMod
  <2>5. QED BY <2>2, <2>3, <2>4 DEF a
<1>6. QED BY <1>2, <1>3, <1>4, <1>5

\* Numbers with the same high bytes have the same part above the others.
LEMMA SameAbove ==
    ASSUME NEW a \in YValues, NEW b \in YValues, NEW i \in 0 .. N,
           \A j \in i + 1 .. N : Byte(a, j) = Byte(b, j)
    PROVE  Above(a, i) = Above(b, i)
<1> DEFINE T == {k \in Nat : k <= N - i => Above(a, N - k) = Above(b, N - k)}
<1>1. N \in Nat /\ Base \in Nat
  BY LenNat, NumbersAssumption
<1>2. 0 \in T
  BY <1>1, AboveFacts
<1>3. ASSUME NEW k \in Nat, k \in T PROVE k + 1 \in T
  <2> SUFFICES ASSUME k + 1 <= N - i PROVE Above(a, N - (k + 1)) = Above(b, N - (k + 1))
    OBVIOUS
  <2> DEFINE j == N - k
  <2>1. j \in 1 .. N /\ j \in i + 1 .. N /\ N - (k + 1) = j - 1
    BY <1>1
  <2>2. Above(a, j) = Above(b, j) /\ Byte(a, j) = Byte(b, j)
    BY <1>1, <1>3, <2>1
  <2> HIDE DEF j
  <2>3. Above(a, j - 1) = Base * Above(a, j) + Byte(a, j)
    BY <2>1, AboveFacts
  <2>4. Above(b, j - 1) = Base * Above(b, j) + Byte(b, j)
    BY <2>1, AboveFacts
  <2>5. QED BY <2>1, <2>2, <2>3, <2>4
<1>4. Nat \subseteq T
  <2> HIDE DEF T
  <2> QED BY <1>2, <1>3, Induction
<1>5. N - i \in Nat /\ N - (N - i) = i
  BY <1>1
<1>6. QED BY <1>4, <1>5

\* The highest byte that differs decides which number is less.
LEMMA HighestByteDecides ==
    ASSUME NEW a \in YValues, NEW b \in YValues, NEW i \in 1 .. N,
           \A j \in i + 1 .. N : Byte(a, j) = Byte(b, j), Byte(a, i) < Byte(b, i)
    PROVE  a < b
<1> DEFINE T == {k \in Nat : k <= i - 1 => Above(a, i - 1 - k) < Above(b, i - 1 - k)}
<1>1. N \in Nat /\ Base \in Nat /\ Base > 1
  BY LenNat, NumbersAssumption
<1>2. 0 \in T
  <2>1. Above(a, i) = Above(b, i)
    BY <1>1, SameAbove
  <2>2. /\ Above(a, i - 1) = Base * Above(a, i) + Byte(a, i)
        /\ Above(b, i - 1) = Base * Above(b, i) + Byte(b, i)
        /\ Byte(a, i) \in Int /\ Byte(b, i) \in Int /\ Above(a, i) \in Int
    BY <1>1, AboveFacts
  <2>3. Base * Above(a, i) \in Int
    BY <1>1, <2>2
  <2>4. Above(a, i - 1) < Above(b, i - 1)
    BY <2>1, <2>2, <2>3
  <2>5. QED BY <1>1, <2>4
<1>3. ASSUME NEW k \in Nat, k \in T PROVE k + 1 \in T
  <2> SUFFICES ASSUME k + 1 <= i - 1
               PROVE  Above(a, i - 1 - (k + 1)) < Above(b, i - 1 - (k + 1))
    OBVIOUS
  <2> DEFINE j == i - 1 - k
             x == Above(a, j)
             y == Above(b, j)
  <2>1. j \in 1 .. N /\ j \in 0 .. N /\ i - 1 - (k + 1) = j - 1
    BY <1>1
  <2>2. x < y
    BY <1>1, <1>3, <2>1
  <2> HIDE DEF j
  <2>3. /\ Above(a, j - 1) = Base * x + Byte(a, j)
        /\ Above(b, j - 1) = Base * y + Byte(b, j)
        /\ Byte(a, j) \in 0 .. Base - 1 /\ Byte(b, j) \in 0 .. Base - 1
        /\ x \in Int /\ y \in Int
    BY <2>1, AboveFacts
  <2> HIDE DEF x, y
  <2>4. Base * x + Base <= Base * y
    <3>1. y - x - 1 \in Nat
      BY <2>2, <2>3
    <3>2. Base * (y - x - 1) >= 0
      BY <1>1, <3>1
    <3>3. Base * (y - x - 1) = Base * y - Base * x - Base
      BY <1>1, <2>3
    <3>4. Base * y \in Int /\ Base * x \in Int
      BY <1>1, <2>3
    <3>5. QED BY <1>1, <3>2, <3>3, <3>4
  <2>5. Base * y \in Int /\ Base * x \in Int
    BY <1>1, <2>3
  <2>6. Above(a, j - 1) < Above(b, j - 1)
    BY <1>1, <2>3, <2>4, <2>5
  <2>7. QED BY <2>1, <2>6
<1>4. Nat \subseteq T
  <2> HIDE DEF T
  <2> QED BY <1>2, <1>3, Induction
<1>5. i - 1 \in Nat /\ i - 1 - (i - 1) = 0
  BY <1>1
<1>6. Above(a, 0) < Above(b, 0)
  BY <1>4, <1>5
<1>7. QED BY <1>6, AboveFacts

\* The comparison of bytes is one of numbers (decode_canonical_point).
LEMMA BelowPrimeIsLess ==
    ASSUME NEW y \in YValues
    PROVE  BelowPrime(y) <=> y < P
<1>1. /\ N \in Nat /\ P \in YValues /\ DOMAIN FieldPrimeLE = 1 .. N
      /\ \A i \in 1 .. N : Byte(P, i) = FieldPrimeLE[i]
  BY LenNat, PrimeAssumption
<1>2. BelowPrime(y) <=> \E i \in 1 .. N : /\ Byte(y, i) < Byte(P, i)
                                          /\ \A j \in i + 1 .. N : Byte(y, j) = Byte(P, j)
  <2>1. \A i \in 1 .. N : \A j \in i + 1 .. N : j \in 1 .. N
    BY <1>1
  <2>2. QED BY <1>1, <2>1 DEF BelowPrime, N
<1>3. BelowPrime(y) => y < P
  BY <1>1, <1>2, HighestByteDecides
<1>4. ASSUME y < P PROVE BelowPrime(y)
  <2> DEFINE S == {i \in 1 .. N : Byte(y, i) # Byte(P, i)}
  <2>1. S # {}
    <3> SUFFICES ASSUME S = {} PROVE FALSE
      OBVIOUS
    <3>1. 0 \in 0 .. N /\ \A j \in 0 + 1 .. N : Byte(y, j) = Byte(P, j)
      BY <1>1
    <3>2. Above(y, 0) = Above(P, 0)
      BY <1>1, <3>1, SameAbove
    <3>3. y = P
      BY <1>1, <3>2, AboveFacts
    <3>4. y \in Int /\ P \in Int
      BY <1>1, PowerFacts DEF YValues, N
    <3>5. QED BY <1>4, <3>3, <3>4
  <2>2. PICK i \in S : \A j \in S : j <= i
    <3>1. S \subseteq 0 .. N
      BY <1>1
    <3> HIDE DEF S
    <3>2. QED BY <1>1, <2>1, <3>1, GreatestElement
  <2>3. \A j \in i + 1 .. N : Byte(y, j) = Byte(P, j)
    BY <1>1, <2>2
  <2>4. i \in 1 .. N /\ Byte(y, i) # Byte(P, i)
    OBVIOUS
  <2>5. Byte(y, i) \in Int /\ Byte(P, i) \in Int
    <3>1. Base \in Nat
      BY NumbersAssumption
    <3>2. QED BY <1>1, <2>4, <3>1, AboveFacts
  <2> HIDE DEF S
  <2>6. CASE Byte(y, i) < Byte(P, i)
    BY <1>2, <2>3, <2>4, <2>6
  <2>7. CASE Byte(P, i) < Byte(y, i)
    <3>1. \A j \in i + 1 .. N : Byte(P, j) = Byte(y, j)
      BY <2>3
    <3>2. P < y
      BY <1>1, <2>4, <2>7, <3>1, HighestByteDecides
    <3>3. y \in Int /\ P \in Int
      BY <1>1, PowerFacts DEF YValues, N
    <3>4. QED BY <1>4, <3>2, <3>3
  <2>8. QED BY <2>4, <2>5, <2>6, <2>7
<1>5. QED BY <1>3, <1>4

---------------------------------------------------------------------------
(* The curve: decompression yields at most one point. *)

LEMMA FieldFacts ==
    /\ P \in Nat /\ P > 2 /\ IsPrime(P) /\ D \in Int /\ P \in YValues
    /\ \A y \in Field : y \in YValues /\ y \in Int /\ y % P = y
<1>1. P \in YValues /\ P % 4 = 3 /\ \A n, m \in 2 .. P - 1 : (n * m) % P # 0
  BY PrimeAssumption
<1>2. Power[N] \in Nat /\ YValues = 0 .. Power[N] - 1
  BY LenNat, PowerFacts DEF YValues, N
<1>3. P \in Nat
  BY <1>1, <1>2
<1>4. P > 2
  <2>1. \A n \in 0 .. 2 : n % 4 # 3
    OBVIOUS
  <2>2. QED BY <1>1, <1>3, <2>1
<1>5. IsPrime(P)
  BY <1>1, <1>3, <1>4 DEF IsPrime
<1>6. \A y \in Field : y \in YValues /\ y \in Int /\ y % P = y
  <2> SUFFICES ASSUME NEW y \in Field PROVE y \in YValues /\ y \in Int /\ y % P = y
    OBVIOUS
  <2>1. y \in 0 .. P - 1
    BY DEF Field
  <2>2. y % P = y
    BY <1>3, <1>4, <2>1, ModSmall
  <2>3. QED BY <1>1, <1>2, <1>3, <2>1, <2>2
<1>7. QED BY <1>1, <1>3, <1>4, <1>5, <1>6, NumbersAssumption

\* For no y is 1 = D * y * y: D would be the square of an inverse.
LEMMA NonSquare ==
    ASSUME NEW y \in Field
    PROVE  (1 - D * (y * y)) % P # 0
<1> SUFFICES ASSUME (1 - D * (y * y)) % P = 0 PROVE FALSE
  OBVIOUS
<1> DEFINE c == y * y
           d == D * c
<1>1. /\ P \in Nat \ {0} /\ IsPrime(P) /\ D \in Int /\ y \in 0 .. P - 1
      /\ c \in Int /\ d \in Int /\ 1 \in Int /\ 1 \in 0 .. P - 1 /\ 0 \in 0 .. P - 1
  BY FieldFacts DEF Field
<1>2. 1 % P = 1 /\ 0 % P = 0
  BY <1>1, ModSmall
<1>3. d % P = 1
  <2> HIDE DEF d
  <2>1. 1 % P = d % P
    BY <1>1, ModZero DEF d
  <2>2. QED BY <1>2, <2>1
<1>4. y # 0
  <2> SUFFICES ASSUME y = 0 PROVE FALSE
    OBVIOUS
  <2>1. d = 0
    BY <1>1
  <2>2. QED BY <1>2, <1>3, <2>1
<1>5. PICK b \in 1 .. P - 1 : (y * b) % P = 1
  <2>1. y \in 1 .. P - 1
    BY <1>1, <1>4
  <2>2. QED BY <1>1, <2>1, PrimeInverse
<1> DEFINE u == y * b
           s == b * b
<1>6. u \in Int /\ s \in Int /\ b \in Int /\ u % P = 1 % P /\ c * s = u * u
  BY <1>1, <1>2, <1>5
<1> HIDE DEF c, u, s
<1>7. (u * u) % P = 1
  <2>1. (u * u) % P = (1 * u) % P
    <3>1. P \in Nat \ {0} /\ u \in Int /\ 1 \in Int /\ u % P = 1 % P
      BY <1>1, <1>6
    <3>2. QED BY ONLY <3>1, SameModMul
  <2>2. 1 * u = u
    BY <1>6
  <2>3. QED BY <1>2, <1>6, <2>1, <2>2
<1>8. (d * s) % P = s % P
  <2>1. (d * s) % P = (1 * s) % P
    <3> HIDE DEF d
    <3>1. P \in Nat \ {0} /\ d \in Int /\ s \in Int /\ 1 \in Int /\ d % P = 1 % P
      BY <1>1, <1>2, <1>3, <1>6
    <3>2. QED BY ONLY <3>1, SameModMul
  <2>2. 1 * s = s
    BY <1>6
  <2>3. QED BY <2>1, <2>2
<1>9. (d * s) % P = D % P
  <2> DEFINE v == u * u
  <2>1. d * s = v * D /\ v \in Int /\ 1 * D = D
    <3>1. d * s = D * (c * s)
      BY <1>1, <1>6
    <3>2. D * (u * u) = (u * u) * D /\ u * u \in Int
      BY <1>1, <1>6
    <3>3. QED BY <1>1, <1>6, <3>1, <3>2
  <2>2. v % P = 1 % P
    BY <1>2, <1>7
  <2> HIDE DEF v, d
  <2>3. (v * D) % P = (1 * D) % P
    BY <1>1, <2>1, <2>2, SameModMul
  <2>4. QED BY <2>1, <2>3
<1>10. (b * b) % P = D % P /\ b \in Field
  BY <1>1, <1>8, <1>9 DEF s, Field
<1>11. QED BY <1>10, NonSquareAssumption

\* Points with one y have the same x, or opposite ones.
LEMMA SameOrOppositeX ==
    ASSUME NEW p \in Points, NEW q \in Points, p.y = q.y
    PROVE  p.x = q.x \/ (p.x + q.x) % P = 0
<1> DEFINE x == p.x
           z == q.x
           y == p.y
           c == y * y
           f == 1 - D * c
           a == x * x
           b == z * z
<1>1. /\ P \in Nat \ {0} /\ IsPrime(P) /\ D \in Int
      /\ x \in Field /\ z \in Field /\ y \in Field /\ x \in Int /\ z \in Int /\ y \in Int
      /\ x % P = x /\ z % P = z
  BY FieldFacts DEF Points
<1>2. /\ (x * x + y * y - 1 - D * x * x * y * y) % P = 0
      /\ (z * z + y * y - 1 - D * z * z * y * y) % P = 0
  BY DEF Points, OnCurve
<1>3. f % P # 0
  BY <1>1, NonSquare
<1> HIDE DEF x, y, z
<1>4. c \in Int /\ f \in Int /\ a \in Int /\ b \in Int
  BY <1>1
<1>5. /\ x * x + y * y - 1 - D * x * x * y * y = f * a - (1 - c)
      /\ z * z + y * y - 1 - D * z * z * y * y = f * b - (1 - c)
  <2>1. D * x * x * y * y = (D * c) * a
    BY <1>1
  <2>2. D * z * z * y * y = (D * c) * b
    BY <1>1
  <2>3. f * a = a - (D * c) * a /\ f * b = b - (D * c) * b
    <3> DEFINE g == D * c
    <3>1. g \in Int /\ f = 1 - g
      BY <1>1, <1>4
    <3> HIDE DEF f, g, a, b
    <3>2. QED BY <1>4, <3>1 DEF g
  <2>4. (D * c) * a \in Int /\ (D * c) * b \in Int
    BY <1>1, <1>4
  <2>5. QED BY <1>4, <2>1, <2>2, <2>3, <2>4
<1> DEFINE m == f * a
           n == f * b
           e == 1 - c
<1>6. (m - e) % P = 0 /\ (n - e) % P = 0
  BY <1>2, <1>5
<1>7. m \in Int /\ n \in Int /\ e \in Int
  BY <1>4
<1> HIDE DEF m, n, e
<1>8. m % P = e % P /\ n % P = e % P
  BY <1>1, <1>6, <1>7, ModZero
<1>9. (f * a) % P = (f * b) % P
  BY <1>8 DEF m, n
<1> HIDE DEF f, a, b
<1>10. a % P = b % P
  <2>1. /\ IsPrime(P) /\ f \in Int /\ a \in Int /\ b \in Int
        /\ f % P # 0 /\ (f * a) % P = (f * b) % P
    BY <1>1, <1>3, <1>4, <1>9
  <2>2. QED BY ONLY <2>1, PrimeCancel
<1>11. (x - z) % P = 0 \/ (x + z) % P = 0
  <2>1. (x * x) % P = (z * z) % P
    BY <1>10 DEF a, b
  <2>2. QED BY <1>1, <2>1, PrimeSquares
<1>12. CASE (x - z) % P = 0
  <2>1. x % P = z % P
    BY <1>1, <1>12, ModZero
  <2>2. QED BY <1>1, <2>1 DEF x, z
<1>13. CASE (x + z) % P = 0
  BY <1>13 DEF x, z
<1>14. QED BY <1>11, <1>12, <1>13

LEMMA PointIsRecord ==
    ASSUME NEW p \in Points, NEW q \in Points, p.x = q.x, p.y = q.y
    PROVE  p = q
  BY DEF Points

\* Bytes are those of one point at most.
LEMMA DecompressOnce ==
    ASSUME NEW raw, NEW p \in Decompress(raw), NEW q \in Decompress(raw)
    PROVE  p = q
<1>1. /\ p \in Points /\ q \in Points /\ p.y = q.y
      /\ p.x # 0 => p.x % 2 = raw.sign
      /\ q.x # 0 => q.x % 2 = raw.sign
      /\ p.x \in Field /\ q.x \in Field
  BY DEF Decompress, Points
<1>2. P \in Nat \ {0} /\ P > 2
  BY FieldFacts
<1>3. p.x = q.x \/ (p.x + q.x) % P = 0
  BY <1>1, SameOrOppositeX
<1>4. ASSUME (p.x + q.x) % P = 0 PROVE p.x = q.x
  <2>1. CASE p.x = 0
    <3>1. p.x + q.x = q.x /\ q.x % P = q.x
      BY <1>1, <2>1, FieldFacts
    <3>2. QED BY <1>4, <2>1, <3>1
  <2>2. CASE q.x = 0
    <3>1. p.x + q.x = p.x /\ p.x % P = p.x
      BY <1>1, <2>2, FieldFacts
    <3>2. QED BY <1>4, <2>2, <3>1
  <2>3. CASE p.x # 0 /\ q.x # 0
    <3>1. p.x \in 0 .. P - 1 /\ q.x \in 0 .. P - 1 /\ p.x % 2 = q.x % 2
      BY <1>1, <2>3 DEF Field
    <3>2. QED BY <1>4, <3>1, FieldFacts, OppositeParity
  <2>4. QED BY <2>1, <2>2, <2>3
<1>5. QED BY <1>1, <1>3, <1>4, PointIsRecord

---------------------------------------------------------------------------
(* The group, and four times a point. *)

plus == [p \in Points |-> [q \in Points |-> Add(p, q)]]

Four(p) == Double(Double(p))

LEMMA IdentityIsPoint == Identity \in Points
<1>1. /\ P \in Nat \ {0} /\ 0 \in Field /\ 1 \in Field /\ D \in Int /\ 0 % P = 0
  BY FieldFacts, ModSmall DEF Field
<1>2. 0 * 0 + 1 * 1 - 1 - D * 0 * 0 * 1 * 1 = 0
  BY <1>1
<1>3. Identity.x = 0 /\ Identity.y = 1 /\ Identity \in [x : Field, y : Field]
  BY <1>1 DEF Identity
<1>4. OnCurve(Identity)
  BY <1>1, <1>2, <1>3 DEF OnCurve
<1>5. QED BY <1>3, <1>4 DEF Points

LEMMA AddType == \A p, q \in Points : Add(p, q) \in Points /\ plus[p][q] = Add(p, q)
<1>1. \A p, q \in Points : Sums[p][q] \in Points
  BY GroupAssumption
<1>2. QED BY <1>1 DEF Add, plus

LEMMA FourType == \A p \in Points : Double(p) \in Points /\ Four(p) \in Points
  BY AddType DEF Double, Four

LEMMA EdwardsGroup == IsAbelianGroup(Points, plus, Identity)
<1>1. plus \in [Points -> [Points -> Points]]
  BY AddType DEF plus
<1>2. ASSUME NEW p \in Points, NEW q \in Points, NEW r \in Points
      PROVE  plus[plus[p][q]][r] = plus[p][plus[q][r]]
  <2>1. plus[plus[p][q]][r] = Add(Add(p, q), r) /\ plus[p][plus[q][r]] = Add(p, Add(q, r))
    BY AddType
  <2>2. Add(Add(p, q), r) = Add(p, Add(q, r))
    BY GroupAssumption
  <2>3. QED BY <2>1, <2>2
<1>3. ASSUME NEW p \in Points, NEW q \in Points
      PROVE  plus[p][q] = plus[q][p]
  <2>1. plus[p][q] = Add(p, q) /\ plus[q][p] = Add(q, p)
    BY AddType
  <2>2. Add(p, q) = Add(q, p)
    BY GroupAssumption
  <2>3. QED BY <2>1, <2>2
<1>4. ASSUME NEW p \in Points
      PROVE  plus[Identity][p] = p /\ \E q \in Points : plus[p][q] = Identity
  <2>1. plus[Identity][p] = Add(Identity, p) /\ Add(Identity, p) = p
    BY AddType, IdentityIsPoint, GroupAssumption
  <2>2. Negate(p) \in Points /\ Add(p, Negate(p)) = Identity
    BY GroupAssumption
  <2>3. plus[p][Negate(p)] = Identity
    BY <2>2, AddType
  <2>4. QED BY <2>1, <2>2, <2>3
<1>5. QED BY IdentityIsPoint, <1>1, <1>2, <1>3, <1>4 DEF IsAbelianGroup

\* The recursive function exists, and is that of the multiples.
LEMMA EdwardsMultiples == AreMultiples(Points, plus, Identity, L, Products)
<1> DEFINE Step(g, n) == [p \in Points |-> IF n = 0 THEN Identity
                                           ELSE Add(g[n - 1][p], p)]
           I == 0 .. L - 1
<1>1. /\ L \in Nat /\ L > 1 /\ Identity \in Points
      /\ plus \in [Points -> [Points -> Points]]
  BY OrderAssumption, EdwardsGroup DEF IsAbelianGroup
<1>2. PICK f : AreMultiples(Points, plus, Identity, L, f)
  BY <1>1, MultiplesExist
<1>3. /\ f \in [I -> [Points -> Points]]
      /\ \A p \in Points : f[0][p] = Identity
      /\ \A i \in 1 .. L - 1 : \A p \in Points : f[i][p] = plus[f[i - 1][p]][p]
  BY <1>2 DEF AreMultiples
<1>4. \A n \in I : f[n] = Step(f, n)
  <2> SUFFICES ASSUME NEW n \in I PROVE f[n] = Step(f, n)
    OBVIOUS
  <2>1. CASE n = 0
    BY <1>1, <1>3, <2>1
  <2>2. CASE n # 0
    <3>1. n \in 1 .. L - 1 /\ n - 1 \in I
      BY <1>1, <2>2
    <3>2. \A p \in Points : f[n - 1][p] \in Points
      BY <1>3, <3>1
    <3>3. \A p \in Points : f[n][p] = Add(f[n - 1][p], p)
      BY <1>3, <3>1, <3>2, AddType
    <3>4. f[n] \in [Points -> Points]
      BY <1>3
    <3>5. QED BY <2>2, <3>3, <3>4
  <2>3. QED BY <2>1, <2>2
<1>5. f = [n \in I |-> Step(f, n)]
  <2> HIDE DEF Step
  <2> QED BY <1>3, <1>4
<1>6. Multiples = [n \in I |-> Step(Multiples, n)]
  BY <1>5 DEF Multiples
<1> DEFINE h == Multiples
<1>7. h = [n \in I |-> Step(h, n)]
  BY <1>6
<1> HIDE DEF h
<1>8. \A n \in I : h[n] = f[n]
  <2> DEFINE T == {n \in Nat : n \in I => h[n] = f[n]}
  <2>1. 0 \in T
    BY <1>1, <1>4, <1>7
  <2>2. ASSUME NEW n \in Nat, n \in T PROVE n + 1 \in T
    <3>1. SUFFICES ASSUME n + 1 \in I PROVE h[n + 1] = f[n + 1]
      OBVIOUS
    <3>2. n \in I /\ h[n] = f[n] /\ (n + 1) - 1 = n
      BY <1>1, <2>2, <3>1
    <3>3. h[n + 1] = Step(h, n + 1) /\ f[n + 1] = Step(f, n + 1)
      <4> HIDE DEF Step
      <4>1. QED BY <1>4, <1>7, <3>1
    <3>4. QED BY <3>2, <3>3
  <2>3. Nat \subseteq T
    <3> HIDE DEF T
    <3>1. QED BY <2>1, <2>2, Induction
  <2>4. QED BY <1>1, <2>3
<1>9. Products = f
  <2>1. Products = [n \in I |-> [p \in Points |-> h[n][p]]]
    BY DEF Products, h
  <2>2. \A n \in I : [p \in Points |-> h[n][p]] = f[n]
    <3> SUFFICES ASSUME NEW n \in I PROVE [p \in Points |-> h[n][p]] = f[n]
      OBVIOUS
    <3>1. h[n] = f[n] /\ f[n] \in [Points -> Points]
      BY <1>3, <1>8
    <3>2. QED BY <3>1
  <2>3. Products = [n \in I |-> f[n]]
    BY <2>1, <2>2
  <2>4. QED BY <1>3, <2>3
<1>10. QED BY <1>2, <1>9

\* The cofactor distributes over a sum and over a multiple.
LEMMA FourSum ==
    ASSUME NEW p \in Points, NEW q \in Points
    PROVE  Four(Add(p, q)) = Add(Four(p), Four(q))
<1>1. ASSUME NEW x \in Points, NEW y \in Points
      PROVE  Double(Add(x, y)) = Add(Double(x), Double(y))
  <2>1. plus[plus[x][y]][plus[x][y]] = plus[plus[x][x]][plus[y][y]]
    BY EdwardsGroup, GroupSwap
  <2>2. /\ plus[plus[x][y]][plus[x][y]] = Add(Add(x, y), Add(x, y))
        /\ plus[plus[x][x]][plus[y][y]] = Add(Add(x, x), Add(y, y))
    BY AddType
  <2>3. QED BY <2>1, <2>2 DEF Double
<1>2. Double(Add(p, q)) = Add(Double(p), Double(q))
  BY <1>1
<1>3. Double(Add(Double(p), Double(q))) = Add(Double(Double(p)), Double(Double(q)))
  BY <1>1, FourType
<1>4. QED BY <1>2, <1>3 DEF Four

LEMMA FourMul ==
    ASSUME NEW p \in Points, NEW n \in Scalars
    PROVE  /\ ScalarMul(n, p) \in Points
           /\ Four(ScalarMul(n, p)) = ScalarMul(n, Four(p))
<1>1. n \in 0 .. L - 1
  BY DEF Scalars
<1>2. \A x \in Points : Products[n][x] \in Points
  BY <1>1, EdwardsGroup, EdwardsMultiples, GroupType
<1>3. ASSUME NEW x \in Points
      PROVE  Double(Products[n][x]) = Products[n][Double(x)]
  <2>1. Products[n][plus[x][x]] = plus[Products[n][x]][Products[n][x]]
    BY <1>1, EdwardsGroup, EdwardsMultiples, MultPlus
  <2>2. QED BY <1>2, <2>1, AddType DEF Double
<1>4. Double(Products[n][p]) = Products[n][Double(p)]
  BY <1>3
<1>5. Double(Products[n][Double(p)]) = Products[n][Double(Double(p))]
  BY <1>3, FourType
<1>6. QED BY <1>2, <1>4, <1>5 DEF ScalarMul, Four

\* Four times a point has order L, if it is not the identity.
LEMMA FourOrder ==
    ASSUME NEW p \in Points
    PROVE  /\ Annihilates(plus, Identity, L, Products, Four(p))
           /\ ~SmallOrder(p) => \A m, n \in Scalars :
                 ScalarMul(m, Four(p)) = ScalarMul(n, Four(p)) => m = n
<1>1. Four(p) \in Points /\ IsPrime(L) /\ L - 1 \in 0 .. L - 1 /\ Scalars = 0 .. L - 1
  BY FourType, OrderAssumption DEF IsPrime, Scalars
<1>2. Products[L - 1][Four(p)] \in Points
  BY <1>1, EdwardsGroup, EdwardsMultiples, GroupType
<1>3. Add(Products[L - 1][Four(p)], Four(p)) = Identity
  BY OrderAssumption DEF Four, ScalarMul
<1>4. Annihilates(plus, Identity, L, Products, Four(p))
  BY <1>1, <1>2, <1>3, AddType DEF Annihilates
<1>5. ASSUME ~SmallOrder(p), NEW m \in Scalars, NEW n \in Scalars,
             ScalarMul(m, Four(p)) = ScalarMul(n, Four(p))
      PROVE  m = n
  <2> DEFINE q == Four(p)
  <2>1. /\ q \in Points /\ q # Identity /\ m \in 0 .. L - 1 /\ n \in 0 .. L - 1
        /\ Products[m][q] = Products[n][q] /\ Annihilates(plus, Identity, L, Products, q)
    BY <1>1, <1>4, <1>5 DEF SmallOrder, Four, ScalarMul
  <2> HIDE DEF q
  <2>2. QED BY <1>1, <2>1, EdwardsGroup, EdwardsMultiples, MultDistinct
<1>6. QED BY <1>4, <1>5

\* The generator is not of small order: L is odd.
LEMMA GeneratorOrder == Generator \in Points /\ ~SmallOrder(Generator)
<1>1. /\ Generator \in Points /\ Generator # Identity /\ IsPrime(L)
      /\ L \in Nat \ {0} /\ L > 2 /\ 0 \in 0 .. L - 1 /\ 1 \in 0 .. L - 1 /\ 2 \in 0 .. L - 1
      /\ L - 1 \in 0 .. L - 1
  BY OrderAssumption DEF IsPrime
<1>2. Products[L - 1][Generator] \in Points
  BY <1>1, EdwardsGroup, EdwardsMultiples, GroupType
<1>3. Annihilates(plus, Identity, L, Products, Generator)
  BY <1>1, <1>2, AddType, OrderAssumption DEF Annihilates, ScalarMul
<1>4. 2 % L = 2 /\ (1 + 1) % L = 2
  <2>1. 2 % L = 2
    BY <1>1, ModSmall
  <2>2. QED BY <2>1
<1>5. Products[1][Generator] = Generator
  BY <1>1, EdwardsGroup, EdwardsMultiples, MultOne
<1>6. Products[2][Generator] = Double(Generator)
  <2>1. Products[(1 + 1) % L][Generator]
            = plus[Products[1][Generator]][Products[1][Generator]]
    BY <1>1, <1>3, EdwardsGroup, EdwardsMultiples, MultSum
  <2>2. QED BY <1>1, <1>4, <1>5, <2>1, AddType DEF Double
<1>7. Products[(2 + 2) % L][Generator] = Four(Generator)
  <2>1. Products[(2 + 2) % L][Generator]
            = plus[Products[2][Generator]][Products[2][Generator]]
    BY <1>1, <1>3, EdwardsGroup, EdwardsMultiples, MultSum
  <2>2. QED BY <1>1, <1>6, <2>1, AddType, FourType DEF Double, Four
<1>8. (2 + 2) % L # 0
  <2> SUFFICES ASSUME (2 + 2) % L = 0 PROVE FALSE
    OBVIOUS
  <2>1. 2 * 2 = 2 + 2
    OBVIOUS
  <2>2. (2 * 2) % L = 0
    BY <2>1
  <2>3. IsPrime(L) /\ 2 \in Int /\ 2 % L # 0
    BY <1>1, <1>4
  <2>4. QED BY ONLY <2>2, <2>3, PrimeProduct
<1>9. Four(Generator) # Identity
  <2> DEFINE n == (2 + 2) % L
  <2>1. n \in 0 .. L - 1 /\ n # 0 /\ Products[n][Generator] = Four(Generator)
    <3>1. 2 + 2 \in Int
      OBVIOUS
    <3>2. (2 + 2) % L \in 0 .. L - 1
      BY <1>1, <3>1, DivMod
    <3>3. QED BY <1>7, <1>8, <3>2
  <2> HIDE DEF n
  <2>2. QED BY <1>1, <1>3, <2>1, EdwardsGroup, EdwardsMultiples, MultNeutral
<1>10. QED BY <1>1, <1>9 DEF SmallOrder, Four

\* The equation of verification, without its differences.
LEMMA EquationMeans ==
    ASSUME NEW a \in Points, NEW r \in Points, NEW s \in Scalars, NEW k \in Scalars
    PROVE  Equation(a, r, s, k)
               <=> Add(ScalarMul(k, Four(a)), Four(r)) = ScalarMul(s, Four(Generator))
<1> DEFINE S == ScalarMul(s, Generator)
           K == ScalarMul(k, a)
           lhs == Add(Add(S, Negate(K)), Negate(r))
<1>1. /\ S \in Points /\ K \in Points
      /\ Four(S) = ScalarMul(s, Four(Generator)) /\ Four(K) = ScalarMul(k, Four(a))
  BY GeneratorOrder, FourMul
<1>2. Equation(a, r, s, k) <=> Four(lhs) = Identity
  BY DEF Equation, Four
<1> HIDE DEF S, K
<1>3. /\ Negate(K) \in Points /\ Add(Negate(K), K) = Identity
      /\ Negate(r) \in Points /\ Add(Negate(r), r) = Identity
  <2>1. /\ Negate(K) \in Points /\ Add(K, Negate(K)) = Identity
        /\ Negate(r) \in Points /\ Add(r, Negate(r)) = Identity
    BY <1>1, GroupAssumption
  <2>2. Add(Negate(K), K) = Add(K, Negate(K)) /\ Add(Negate(r), r) = Add(r, Negate(r))
    BY <1>1, <2>1, GroupAssumption
  <2>3. QED BY <2>1, <2>2
<1>4. lhs \in Points /\ Add(S, Negate(K)) \in Points /\ Add(K, r) \in Points
  BY <1>1, <1>3, AddType
<1>5. Add(lhs, Add(K, r)) = S
  <2> DEFINE x == Add(S, Negate(K))
             y == Negate(r)
  <2>1. x \in Points /\ y \in Points
    BY <1>3, <1>4
  <2>2. Add(x, K) = S
    <3>1. Add(x, K) = Add(S, Add(Negate(K), K))
      BY <1>1, <1>3, GroupAssumption
    <3>2. Add(S, Identity) = Add(Identity, S) /\ Add(Identity, S) = S
      BY <1>1, IdentityIsPoint, GroupAssumption
    <3>3. QED BY <1>3, <3>1, <3>2
  <2>3. Add(y, r) = Identity
    BY <1>3
  <2>4. lhs = Add(x, y)
    OBVIOUS
  <2> HIDE DEF x, y, lhs
  <2>5. plus[plus[x][y]][plus[K][r]] = plus[plus[x][K]][plus[y][r]]
    BY <1>1, <2>1, EdwardsGroup, GroupSwap
  <2>6. Add(Add(x, y), Add(K, r)) = Add(Add(x, K), Add(y, r))
    BY <1>1, <2>1, <2>5, AddType
  <2>7. Add(S, Identity) = Add(Identity, S) /\ Add(Identity, S) = S
    BY <1>1, IdentityIsPoint, GroupAssumption
  <2>8. QED BY <2>2, <2>3, <2>4, <2>6, <2>7
<1> HIDE DEF lhs
<1>6. Add(Four(lhs), Four(Add(K, r))) = Four(S)
  BY <1>4, <1>5, FourSum
<1>7. Four(Add(K, r)) = Add(Four(K), Four(r))
  BY <1>1, FourSum
<1> DEFINE X == Four(Add(K, r))
           Y == Four(lhs)
<1>8. X \in Points /\ Y \in Points /\ Add(Y, X) = Four(S) /\ Add(Identity, X) = X
  BY <1>4, <1>6, FourType, GroupAssumption
<1> HIDE DEF X, Y
<1>9. Y = Identity => X = Four(S)
  BY <1>8
<1>10. ASSUME X = Four(S) PROVE Y = Identity
  <2>1. plus[Y][X] = plus[Identity][X]
    BY <1>8, <1>10, AddType, IdentityIsPoint
  <2>2. QED BY <1>8, <2>1, IdentityIsPoint, EdwardsGroup, GroupCancel
<1>11. QED BY <1>1, <1>2, <1>7, <1>9, <1>10 DEF X, Y

---------------------------------------------------------------------------
(* Points from bytes. *)

LEMMA DecodedPoint ==
    ASSUME NEW raw, NEW p \in DecodeCanonicalPoint(raw)
    PROVE  p \in Points /\ ~SmallOrder(p) /\ DecodeCanonicalPoint(raw) = {p}
<1>1. p \in Points /\ ~SmallOrder(p)
  BY DEF DecodeCanonicalPoint, Decompress
<1>2. \A q \in DecodeCanonicalPoint(raw) : q = p
  <2>1. DecodeCanonicalPoint(raw) \subseteq Decompress(raw)
    BY DEF DecodeCanonicalPoint
  <2>2. QED BY <2>1, DecompressOnce
<1>3. QED BY <1>1, <1>2

LEMMA CompressIsEncoding == \A p \in Points : Compress(p) \in Encodings
<1> SUFFICES ASSUME NEW p \in Points PROVE Compress(p) \in Encodings
  OBVIOUS
<1>1. p.y \in YValues /\ p.x \in Int
  BY FieldFacts DEF Points
<1>2. p.x % 2 \in 0 .. 1
  BY <1>1
<1>3. QED BY <1>1, <1>2 DEF Compress, Encodings

\* A point on the y axis is of small order: it is its own opposite.
LEMMA YAxisIsSmall ==
    ASSUME NEW p \in Points, p.x = 0
    PROVE  SmallOrder(p)
<1> DEFINE y == p.y
           q == Double(p)
<1>1. /\ P \in Nat \ {0} /\ P > 2 /\ D \in Int /\ y \in Field /\ y \in Int
      /\ 0 \in Int /\ 1 \in Int /\ 0 % P = 0 /\ 1 % P = 1 /\ 0 \in Field /\ 1 \in Field
  <2>1. 0 \in Field /\ 1 \in Field
    BY FieldFacts DEF Field
  <2>2. QED BY <2>1, FieldFacts DEF Points
<1>2. Negate(p).x = 0 /\ Negate(p).y = y
  <2>1. Negate(p) = [p EXCEPT !.x = 0]
    <3>1. 0 - p.x = 0
      OBVIOUS
    <3>2. (0 - p.x) % P = 0
      BY <1>1, <3>1
    <3>3. QED BY <3>2 DEF Negate
  <2>2. p \in [x : Field, y : Field]
    BY DEF Points
  <2>3. QED BY <2>1, <2>2
<1>3. Negate(p) = p
  <2>1. Negate(p) \in Points
    BY GroupAssumption
  <2>2. QED BY <1>2, <2>1, PointIsRecord
<1>4. q = Identity
  <2>1. Add(p, Negate(p)) = Identity
    BY GroupAssumption
  <2>2. QED BY <1>3, <2>1 DEF Double
<1>5. Double(Identity) = Identity
  BY IdentityIsPoint, GroupAssumption DEF Double
<1>6. QED BY <1>4, <1>5 DEF SmallOrder

\* A point that is accepted has one encoding.
LEMMA EncodedOnce ==
    ASSUME NEW raw \in Encodings, NEW other \in Encodings,
           NEW p \in DecodeCanonicalPoint(raw), p \in DecodeCanonicalPoint(other)
    PROVE  other = raw
<1>1. /\ p \in Points /\ ~SmallOrder(p)
      /\ p.y = raw.y % P /\ p.y = other.y % P
      /\ p.x # 0 => p.x % 2 = raw.sign /\ p.x % 2 = other.sign
      /\ ~raw.padded /\ ~other.padded /\ BelowPrime(raw.y) /\ BelowPrime(other.y)
  BY DEF DecodeCanonicalPoint, Decompress
<1>2. /\ raw.y \in YValues /\ other.y \in YValues
      /\ raw.padded \in BOOLEAN /\ other.padded \in BOOLEAN
      /\ raw = [y |-> raw.y, sign |-> raw.sign, padded |-> raw.padded]
      /\ other = [y |-> other.y, sign |-> other.sign, padded |-> other.padded]
  BY DEF Encodings
<1>3. \A y \in YValues : BelowPrime(y) => y % P = y
  <2> SUFFICES ASSUME NEW y \in YValues, BelowPrime(y) PROVE y % P = y
    OBVIOUS
  <2>1. y < P /\ y \in 0 .. Power[N] - 1 /\ P \in Nat
    BY BelowPrimeIsLess, FieldFacts DEF YValues, N
  <2>2. y \in 0 .. P - 1
    BY <2>1, PowerFacts, LenNat
  <2>3. QED BY <2>1, <2>2, FieldFacts DEF Field
<1>4. raw.y = other.y
  BY <1>1, <1>2, <1>3
<1>5. raw.sign = other.sign
  BY <1>1, YAxisIsSmall
<1>6. raw.padded = other.padded
  BY <1>1, <1>2
<1>7. QED BY <1>2, <1>4, <1>5, <1>6

\* The encoding of a point is read back, if the point is not of small order.
LEMMA EncodingIsRead ==
    ASSUME NEW p \in Points, ~SmallOrder(p)
    PROVE  DecodeCanonicalPoint(Compress(p)) = {p}
<1>1. p.y \in Field /\ p.y \in YValues /\ p.y % P = p.y /\ p.y < P
  BY FieldFacts DEF Points, Field
<1>2. /\ Compress(p).y = p.y /\ Compress(p).sign = p.x % 2 /\ Compress(p).padded = FALSE
  BY DEF Compress
<1>3. p \in Decompress(Compress(p))
  BY <1>1, <1>2 DEF Decompress
<1>4. BelowPrime(Compress(p).y)
  BY <1>1, <1>2, BelowPrimeIsLess
<1>5. p \in DecodeCanonicalPoint(Compress(p))
  BY <1>2, <1>3, <1>4 DEF DecodeCanonicalPoint
<1>6. QED BY <1>5, DecodedPoint

\* A multiple of the generator is not of small order.
LEMMA MultipleOrder ==
    ASSUME NEW n \in Scalars \ {0}
    PROVE  ScalarMul(n, Generator) \in Points /\ ~SmallOrder(ScalarMul(n, Generator))
<1>1. Generator \in Points /\ ~SmallOrder(Generator) /\ 0 \in Scalars
  BY GeneratorOrder, OrderAssumption DEF Scalars
<1>2. /\ ScalarMul(n, Generator) \in Points
      /\ Four(ScalarMul(n, Generator)) = ScalarMul(n, Four(Generator))
  BY <1>1, FourMul
<1>3. ScalarMul(0, Four(Generator)) = Identity
  BY <1>1, FourType, EdwardsGroup, EdwardsMultiples, MultOne DEF ScalarMul
<1>4. ScalarMul(n, Four(Generator)) # Identity
  BY <1>1, <1>3, FourOrder
<1>5. QED BY <1>2, <1>4 DEF SmallOrder, Four

\* What verification shows of the points it reads.
LEMMA VerifiesMeans ==
    ASSUME NEW raw, NEW sig, sig.s \in Nat, NEW k \in Scalars, Verifies(raw, sig, k)
    PROVE  \E a \in DecodeCanonicalPoint(raw), r \in DecodeCanonicalPoint(sig.r) :
              /\ sig.s \in Scalars
              /\ Add(ScalarMul(k, Four(a)), Four(r)) = ScalarMul(sig.s, Four(Generator))
<1>1. PICK a \in DecodeCanonicalPoint(raw), r \in DecodeCanonicalPoint(sig.r),
           s \in FromCanonicalBytes(sig.s) : Equation(a, r, s, k)
  BY DEF Verifies
<1>2. s = sig.s /\ s \in Scalars
  BY OrderAssumption DEF FromCanonicalBytes, Some, None, Scalars
<1>3. a \in Points /\ r \in Points
  BY DecodedPoint
<1>4. Add(ScalarMul(k, Four(a)), Four(r)) = ScalarMul(s, Four(Generator))
  BY <1>1, <1>2, <1>3, EquationMeans
<1>5. QED BY <1>2, <1>4

\* A made signature verifies.
LEMMA MadeIsVerified ==
    ASSUME NEW n \in Scalars \ {0}, NEW nonce \in Scalars \ {0}, NEW k \in Scalars
    PROVE  Verifies(Compress(ScalarMul(n, Generator)),
                    [r |-> Compress(ScalarMul(nonce, Generator)), s |-> (nonce + k * n) % L], k)
<1> DEFINE a == ScalarMul(n, Generator)
           r == ScalarMul(nonce, Generator)
           s == (nonce + k * n) % L
           g == Four(Generator)
           sig == [r |-> Compress(r), s |-> s]
<1>1. /\ a \in Points /\ r \in Points
      /\ DecodeCanonicalPoint(Compress(a)) = {a} /\ DecodeCanonicalPoint(Compress(r)) = {r}
  BY MultipleOrder, EncodingIsRead
<1>2. L \in Nat \ {0} /\ Scalars = 0 .. L - 1 /\ n \in Int /\ k \in Int /\ nonce \in Int
  BY OrderAssumption DEF Scalars
<1>3. s \in Scalars
  <2> DEFINE c == nonce + k * n
  <2>1. c \in Int
    BY <1>2
  <2> HIDE DEF c
  <2>2. c % L \in 0 .. L - 1
    BY <1>2, <2>1, DivMod
  <2>3. QED BY <1>2, <2>2 DEF c
<1>4. /\ g \in Points /\ Annihilates(plus, Identity, L, Products, g)
      /\ Four(a) = ScalarMul(n, g) /\ Four(r) = ScalarMul(nonce, g)
  BY GeneratorOrder, FourType, FourOrder, FourMul
<1> HIDE DEF a, r, g
<1> DEFINE m == (n * k) % L
<1>5. m \in 0 .. L - 1
  <2> DEFINE c == n * k
  <2>1. c \in Int
    BY <1>2
  <2> HIDE DEF c
  <2>2. c % L \in 0 .. L - 1
    BY <1>2, <2>1, DivMod
  <2>3. QED BY <2>2 DEF c
<1>6. ScalarMul(k, Four(a)) = Products[m][g]
  <2>1. Products[k][Products[n][g]] = Products[(n * k) % L][g]
    <3>1. n \in 0 .. L - 1 /\ k \in 0 .. L - 1
      BY <1>2
    <3>2. QED BY <1>4, <3>1, EdwardsGroup, EdwardsMultiples, MultMult
  <2>2. QED BY <1>4, <2>1 DEF ScalarMul
<1>7. (m + nonce) % L = s
  <2> DEFINE c == n * k
  <2>1. c \in Int /\ c + nonce = nonce + k * n
    BY <1>2
  <2>2. m = c % L
    OBVIOUS
  <2> HIDE DEF c, m
  <2>3. ((c % L) + nonce) % L = (c + nonce) % L
    BY <1>2, <2>1, ModAdd
  <2>4. QED BY <2>1, <2>2, <2>3
<1> HIDE DEF m, s
<1>8. Add(ScalarMul(k, Four(a)), Four(r)) = ScalarMul(s, g)
  <2>1. Products[(m + nonce) % L][g] = plus[Products[m][g]][Products[nonce][g]]
    <3>1. nonce \in 0 .. L - 1
      BY <1>2
    <3>2. QED BY <1>4, <1>5, <3>1, EdwardsGroup, EdwardsMultiples, MultSum
  <2>2. Products[m][g] \in Points /\ Products[nonce][g] \in Points
    BY <1>2, <1>4, <1>5, EdwardsGroup, EdwardsMultiples, GroupType
  <2>3. QED BY <1>4, <1>6, <1>7, <2>1, <2>2, AddType DEF ScalarMul
<1>9. Equation(a, r, s, k)
  BY <1>1, <1>3, <1>8, EquationMeans DEF g
<1>10. FromCanonicalBytes(s) = {s}
  BY <1>2, <1>3 DEF FromCanonicalBytes, Some
<1>11. sig.r = Compress(r) /\ sig.s = s
  OBVIOUS
<1> HIDE DEF sig
<1>12. Verifies(Compress(a), sig, k)
  BY <1>1, <1>9, <1>10, <1>11 DEF Verifies
<1>13. QED BY <1>12 DEF sig, a, r, s

---------------------------------------------------------------------------
(* The states. *)

\* What a key pair, and a signature that was made or accepted, is.
KeyAndSignature ==
    /\ \A raw \in key : raw \in Encodings /\ key = {raw}
    /\ \A n \in secret : n \in Scalars \ {0} /\ key = {Compress(ScalarMul(n, Generator))}
    /\ last # None => key # None
    /\ \A c \in last : c.made =>
          \E n \in secret, nonce \in Scalars \ {0} :
              /\ c.k \in Scalars
              /\ c.sig = [r |-> Compress(ScalarMul(nonce, Generator)),
                          s |-> (nonce + c.k * n) % L]
    /\ \A c \in last : ~c.made =>
          /\ c.k \in Scalars /\ c.sig.s \in ScalarValues
          /\ \E r \in Encodings : c.sig = [r |-> r, s |-> c.sig.s]
          /\ \A raw \in key : Verifies(raw, c.sig, c.k)

LEMMA KeyInit == Init => KeyAndSignature
  BY DEF Init, KeyAndSignature, None

LEMMA KeyNext ==
    ASSUME KeyAndSignature, [Next]_vars
    PROVE  KeyAndSignature'
<1>1. key = None => secret = {} /\ last = {}
  BY DEF KeyAndSignature, None
<1>2. ASSUME NEW raw \in Encodings, FromBytes(raw)
      PROVE  KeyAndSignature'
  <2>1. secret' = {} /\ last' = {} /\ \A x \in key' : x = raw /\ key' = {raw}
    BY <1>1, <1>2 DEF FromBytes, Some, None
  <2>2. QED BY <2>1 DEF KeyAndSignature, None
<1>3. ASSUME NEW n \in Scalars \ {0}, FromSeed(n)
      PROVE  KeyAndSignature'
  <2>1. /\ last' = {} /\ secret' = {n} /\ key' = {Compress(ScalarMul(n, Generator))}
    BY <1>1, <1>3 DEF FromSeed, Some
  <2>2. Compress(ScalarMul(n, Generator)) \in Encodings
    BY MultipleOrder, CompressIsEncoding
  <2>3. QED BY <2>1, <2>2 DEF KeyAndSignature, None, ScalarMul, Compress
<1>4. ASSUME NEW nonce \in Scalars \ {0}, NEW k \in Scalars, SignMsg(nonce, k)
      PROVE  KeyAndSignature'
  <2>1. PICK n \in secret :
          last' = {[sig |-> [r |-> Compress(ScalarMul(nonce, Generator)),
                             s |-> (nonce + k * n) % L],
                    k |-> k, made |-> TRUE]}
    BY <1>4 DEF SignMsg, Some
  <2> DEFINE c == [sig |-> [r |-> Compress(ScalarMul(nonce, Generator)),
                            s |-> (nonce + k * n) % L],
                   k |-> k, made |-> TRUE]
  <2>2. /\ c.made = TRUE /\ c.k = k
        /\ c.sig = [r |-> Compress(ScalarMul(nonce, Generator)), s |-> (nonce + c.k * n) % L]
    OBVIOUS
  <2>3. last' = {c}
    BY <2>1
  <2> HIDE DEF c
  <2>4. key' = key /\ secret' = secret /\ key # None
    BY <1>4 DEF SignMsg, KeyAndSignature, None
  <2>5. \A d \in last' : d = c
    BY <2>3
  <2>6. QED BY <2>2, <2>4, <2>5 DEF KeyAndSignature, ScalarMul, Compress
<1>5. ASSUME NEW r \in Encodings, NEW s \in ScalarValues, NEW k \in Scalars,
             VerifySig([r |-> r, s |-> s], k)
      PROVE  KeyAndSignature'
  <2> DEFINE sig == [r |-> r, s |-> s]
  <2>1. PICK raw \in key :
          last' = IF Verifies(raw, sig, k) THEN Some([sig |-> sig, k |-> k, made |-> FALSE])
                                           ELSE None
    BY <1>5 DEF VerifySig
  <2>2. key' = key /\ secret' = secret /\ last = {}
    BY <1>5 DEF VerifySig, None
  <2>3. CASE ~Verifies(raw, sig, k)
    <3>1. last' = {}
      BY <2>1, <2>3 DEF None
    <3>2. QED BY <2>2, <3>1 DEF KeyAndSignature, None, ScalarMul, Compress
  <2>4. CASE Verifies(raw, sig, k)
    <3> DEFINE c == [sig |-> sig, k |-> k, made |-> FALSE]
    <3>1. last' = {c}
      BY <2>1, <2>4 DEF Some
    <3>2. /\ c.made = FALSE /\ c.k = k /\ c.sig = sig /\ c.sig.s = s
          /\ c.sig = [r |-> r, s |-> c.sig.s]
      OBVIOUS
    <3>3. key = {raw}
      BY DEF KeyAndSignature
    <3> HIDE DEF c, sig
    <3>4. \A d \in last' : d = c
      BY <3>1
    <3>5. QED BY <2>2, <2>4, <3>2, <3>3, <3>4 DEF KeyAndSignature, ScalarMul, Compress
  <2>5. QED BY <2>3, <2>4
<1>6. UNCHANGED vars => KeyAndSignature'
  BY DEF KeyAndSignature, vars
<1>7. QED BY <1>2, <1>3, <1>4, <1>5, <1>6 DEF Next

LEMMA KeyAlways == Spec => []KeyAndSignature
<1>1. Init => KeyAndSignature
  BY KeyInit
<1>2. KeyAndSignature /\ [Next]_vars => KeyAndSignature'
  BY KeyNext
<1>3. QED BY <1>1, <1>2, PTL DEF Spec

(* The bytes of a public key are the only ones that are read as its point, *)
(* on every curve of this kind and for every prime of the form that the    *)
(* bytes can hold: comparing keys by their bytes is comparing points       *)
(* (decode_canonical_point).                                               *)
THEOREM KeysHaveOneEncoding == Spec => []OneEncoding
<1>1. KeyAndSignature => OneEncoding
  <2> SUFFICES ASSUME KeyAndSignature, NEW raw \in key,
                      NEW p \in DecodeCanonicalPoint(raw), NEW other \in Encodings,
                      p \in DecodeCanonicalPoint(other)
               PROVE  other = raw
    BY DEF OneEncoding
  <2>1. raw \in Encodings
    BY DEF KeyAndSignature
  <2>2. QED BY <2>1, EncodedOnce
<1>2. QED BY <1>1, KeyAlways, PTL

(* What key generation and signing produce is read back from its bytes and *)
(* verifies, for every key, nonce and challenge (PrivateKey::from_seed,    *)
(* sign_msg, decode_canonical_point and verify_via_goldilocks).            *)
THEOREM MadeSignaturesVerify == Spec => []MadeVerifies
<1>1. KeyAndSignature => MadeVerifies
  <2> SUFFICES ASSUME KeyAndSignature, NEW raw \in key
               PROVE  /\ \A n \in secret :
                            DecodeCanonicalPoint(raw) = Some(ScalarMul(n, Generator))
                      /\ \A c \in last : c.made => Verifies(raw, c.sig, c.k)
    BY DEF MadeVerifies
  <2>1. \A n \in secret : n \in Scalars \ {0} /\ raw = Compress(ScalarMul(n, Generator))
    BY DEF KeyAndSignature
  <2>2. ASSUME NEW n \in secret
        PROVE  DecodeCanonicalPoint(raw) = Some(ScalarMul(n, Generator))
    BY <2>1, MultipleOrder, EncodingIsRead DEF Some
  <2>3. ASSUME NEW c \in last, c.made
        PROVE  Verifies(raw, c.sig, c.k)
    <3>1. PICK n \in secret, nonce \in Scalars \ {0} :
            /\ c.k \in Scalars
            /\ c.sig = [r |-> Compress(ScalarMul(nonce, Generator)),
                        s |-> (nonce + c.k * n) % L]
      BY <2>3 DEF KeyAndSignature
    <3> DEFINE k == c.k
               sig == c.sig
    <3>2. /\ k \in Scalars /\ n \in Scalars \ {0}
          /\ sig = [r |-> Compress(ScalarMul(nonce, Generator)), s |-> (nonce + k * n) % L]
      BY <2>1, <3>1
    <3> HIDE DEF k, sig
    <3>3. Verifies(Compress(ScalarMul(n, Generator)), sig, k)
      BY <3>2, MadeIsVerified
    <3>4. QED BY <2>1, <3>3 DEF k, sig
  <2>4. QED BY <2>2, <2>3
<1>2. QED BY <1>1, KeyAlways, PTL

\* Two accepted signatures under one key with one R: four times the points are
\* the same, so that the scalars tell them apart.
LEMMA AcceptedTwice ==
    ASSUME NEW raw, NEW sig, NEW other, sig.s \in Nat, other.s \in Nat, sig.r = other.r,
           NEW k \in Scalars, NEW m \in Scalars,
           Verifies(raw, sig, k), Verifies(raw, other, m)
    PROVE  /\ k = m => sig.s = other.s
           /\ sig.s = other.s => k = m
<1>1. PICK a \in DecodeCanonicalPoint(raw), r \in DecodeCanonicalPoint(sig.r) :
        /\ sig.s \in Scalars
        /\ Add(ScalarMul(k, Four(a)), Four(r)) = ScalarMul(sig.s, Four(Generator))
  BY VerifiesMeans
<1>2. PICK b \in DecodeCanonicalPoint(raw), q \in DecodeCanonicalPoint(other.r) :
        /\ other.s \in Scalars
        /\ Add(ScalarMul(m, Four(b)), Four(q)) = ScalarMul(other.s, Four(Generator))
  BY VerifiesMeans
<1>3. a \in Points /\ ~SmallOrder(a) /\ b = a /\ r \in Points /\ q = r
  BY DecodedPoint
<1>4. Generator \in Points /\ ~SmallOrder(Generator)
  BY GeneratorOrder
<1>5. k = m => sig.s = other.s
  BY <1>1, <1>2, <1>3, <1>4, FourOrder
<1>6. ASSUME sig.s = other.s PROVE k = m
  <2> DEFINE f == Four(a)
             x == ScalarMul(k, f)
             y == ScalarMul(m, f)
             z == Four(r)
  <2>1. f \in Points /\ z \in Points
    BY <1>3, FourType
  <2>2. Add(x, z) = Add(y, z)
    BY <1>1, <1>2, <1>3, <1>6
  <2>3. x \in Points /\ y \in Points
    BY <2>1, FourMul
  <2> HIDE DEF x, y, z
  <2>4. plus[x][z] = plus[y][z]
    BY <2>1, <2>2, <2>3, AddType
  <2>5. x = y
    BY <2>1, <2>3, <2>4, EdwardsGroup, GroupCancel
  <2>6. QED BY <1>3, <2>5, FourOrder DEF x, y
<1>7. QED BY <1>5, <1>6

(* An accepted signature has no second S for its R and challenge, though   *)
(* the equation is multiplied by the cofactor: S is below L, and four      *)
(* times the generator still has order L (Scalar::from_canonical_bytes and *)
(* verify_via_goldilocks).                                                 *)
THEOREM AcceptedScalarIsUnique == Spec => []OneScalar
<1>1. KeyAndSignature => OneScalar
  <2> SUFFICES ASSUME KeyAndSignature, NEW raw \in key, NEW c \in last, ~c.made,
                      NEW s \in ScalarValues, Verifies(raw, [c.sig EXCEPT !.s = s], c.k)
               PROVE  s = c.sig.s
    BY DEF OneScalar
  <2> DEFINE other == [c.sig EXCEPT !.s = s]
             sig == c.sig
             k == c.k
  <2>1. k \in Scalars /\ sig.s \in Nat /\ s \in Nat /\ Verifies(raw, sig, k)
    BY NumbersAssumption DEF KeyAndSignature
  <2>2. PICK r, t : sig = [r |-> r, s |-> t]
    BY DEF KeyAndSignature
  <2>3. other.s = s /\ other.r = sig.r
    BY <2>2
  <2>4. Verifies(raw, other, k)
    OBVIOUS
  <2> HIDE DEF other, sig, k
  <2>5. sig.s = other.s
    BY <2>1, <2>3, <2>4, AcceptedTwice
  <2>6. QED BY <2>3, <2>5 DEF sig
<1>2. QED BY <1>1, KeyAlways, PTL

(* An accepted signature is accepted for one challenge only, whatever key  *)
(* and R were read from bytes: a key that passes the check for small order *)
(* keeps order L under the cofactor (decode_canonical_point and            *)
(* verify_via_goldilocks).                                                 *)
THEOREM AcceptedChallengeIsUnique == Spec => []OneChallenge
<1>1. KeyAndSignature => OneChallenge
  <2> SUFFICES ASSUME KeyAndSignature, NEW raw \in key, NEW c \in last, ~c.made,
                      NEW m \in Scalars, Verifies(raw, c.sig, m)
               PROVE  m = c.k
    BY DEF OneChallenge
  <2> DEFINE sig == c.sig
             k == c.k
  <2>1. k \in Scalars /\ sig.s \in Nat /\ Verifies(raw, sig, k) /\ Verifies(raw, sig, m)
    BY NumbersAssumption DEF KeyAndSignature
  <2> HIDE DEF sig, k
  <2>2. k = m
    BY <2>1, AcceptedTwice
  <2>3. QED BY <2>2 DEF k
<1>2. QED BY <1>1, KeyAlways, PTL
==================================================================================
