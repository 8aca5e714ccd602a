-------------------------------- MODULE BasicLemmas -------------------------------
(***************************************************************************)
(* Lemmas that the proofs about several components need: on sequences,     *)
(* concatenations and their parts; on recursion and induction; on          *)
(* remainders, of primes in particular; and on abelian groups and the      *)
(* multiples of their elements.                                            *)
(*                                                                         *)
(* Induction is over a set, the elements that satisfy what is to be shown, *)
(* so that it can be used without an operator as a parameter; from it      *)
(* follow that functions defined by recursion exist, and what FlattenSeq   *)
(* computes.                                                               *)
(***************************************************************************)
EXTENDS SequencesExt, SequenceTheorems, FiniteSetTheorems, FunctionTheorems, TLAPS

\* A set of naturals that is not empty has a least element: an initial segment
\* is a finite set, and strict inclusion of finite sets is well-founded.
LEMMA LeastNatural ==
    ASSUME NEW T \in SUBSET Nat, T # {}
    PROVE  \E n \in T : \A m \in T : n <= m
<1> DEFINE C == {0 .. n : n \in T}
           R == StrictSubsetOrdering(Nat)
           F == FiniteSubsetsOf(Nat)
<1>1. IsWellFoundedOn(R, F)
  BY FS_StrictSubsetOrderingWellFounded
<1>2. \A n \in T : 0 .. n \in F
  BY FS_Interval DEF FiniteSubsetsOf
<1>3. C \subseteq F /\ C # {}
  BY <1>2
<1>9. \A x, y \in F : x \subseteq y /\ x # y => << x, y >> \in R
  BY DEF StrictSubsetOrdering, FiniteSubsetsOf
<1> HIDE DEF R, F
<1>4. \E x \in C : \A y \in C : ~(<< y, x >> \in R)
  <2> HIDE DEF C
  <2> QED BY <1>1, <1>3, WFMin
<1>5. PICK n \in T : \A m \in T : ~(<< 0 .. m, 0 .. n >> \in R)
  BY <1>4
<1>6. ASSUME NEW m \in T PROVE n <= m
  <2>1. SUFFICES ASSUME m < n PROVE FALSE
    OBVIOUS
  <2>2. 0 .. m \subseteq 0 .. n /\ 0 .. m # 0 .. n
    BY <2>1
  <2>3. QED BY <2>2, <1>5, <1>2, <1>9
<1>7. QED BY <1>6

\* A set of naturals up to a bound that is not empty has a greatest element.
LEMMA GreatestElement ==
    ASSUME NEW N \in Nat, NEW T \in SUBSET (0 .. N), T # {}
    PROVE  Max(T) \in T /\ \A m \in T : m <= Max(T)
<1> DEFINE U == {N - m : m \in T}
<1>1. U \in SUBSET Nat /\ U # {}
  <2>1. \A m \in T : N - m \in Nat
    OBVIOUS
  <2>2. QED BY <2>1
<1>2. PICK u \in U : \A v \in U : u <= v
  BY <1>1, LeastNatural
<1>3. PICK m \in T : u = N - m
  BY <1>2
<1>4. \A k \in T : k <= m
  <2>1. \A k \in T : N - k \in U /\ k \in Nat /\ m \in Nat
    OBVIOUS
  <2> HIDE DEF U
  <2>2. QED BY <1>2, <1>3, <2>1
<1>5. \E x \in T : \A k \in T : x >= k
  BY <1>4
<1>6. Max(T) = CHOOSE x \in T : \A y \in T : x >= y
  BY DEF Max
<1>7. Max(T) \in T /\ \A k \in T : Max(T) >= k
  BY <1>5, <1>6
<1>8. QED BY <1>7

\* Induction over the naturals with a set in place of a predicate.
LEMMA Induction ==
    ASSUME NEW T, 0 \in T, \A n \in Nat : n \in T => n + 1 \in T
    PROVE  Nat \subseteq T
<1> DEFINE U == Nat \ T
<1>1. SUFFICES ASSUME U # {} PROVE FALSE
  OBVIOUS
<1>2. PICK n \in U : \A m \in U : n <= m
  BY <1>1, LeastNatural
<1>3. n # 0 /\ n \in Nat
  OBVIOUS
<1>4. n - 1 \in T /\ n - 1 \in Nat
  BY <1>2, <1>3
<1>5. QED BY <1>4, <1>3

\* The recursive function of FlattenSeq.
FlattenTo(seqs) ==
    CHOOSE f : f = [i \in 1 .. Len(seqs) |-> IF i = 1 THEN seqs[i] ELSE f[i - 1] \o seqs[i]]

\* FlattenSeq is the last value of its recursive function.
LEMMA FlattenDef ==
    ASSUME NEW S, NEW seqs \in Seq(Seq(S)), seqs # << >>
    PROVE  FlattenSeq(seqs) = FlattenTo(seqs)[Len(seqs)]
BY DEF FlattenSeq, FlattenTo

\* The recursive function exists, and satisfies its equation.
LEMMA FlattenToProperty ==
    ASSUME NEW S, NEW seqs \in Seq(Seq(S))
    PROVE  /\ FlattenTo(seqs) \in [1 .. Len(seqs) -> Seq(S)]
           /\ \A i \in 1 .. Len(seqs) :
                 FlattenTo(seqs)[i] = IF i = 1 THEN seqs[i] ELSE FlattenTo(seqs)[i - 1] \o seqs[i]
<1> DEFINE Step(f, i) == IF i = 1 THEN seqs[i] ELSE f[i - 1] \o seqs[i]
           Upto(n) == {f \in [1 .. n -> Seq(S)] : \A i \in 1 .. n : f[i] = Step(f, i)}
           T == {n \in Nat : n <= Len(seqs) => Upto(n) # {}}
<1>1. 0 \in T
  <2>1. [i \in 1 .. 0 |-> << >>] \in Upto(0)
    OBVIOUS
  <2>2. QED BY <2>1
<1>2. ASSUME NEW n \in Nat, n \in T PROVE n + 1 \in T
  <2>0. Len(seqs) \in Nat
    OBVIOUS
  <2>1. SUFFICES ASSUME n + 1 <= Len(seqs) PROVE Upto(n + 1) # {}
    <3> HIDE DEF Upto
    <3> QED OBVIOUS
  <2>2. PICK f \in Upto(n) : TRUE
    <3> HIDE DEF Upto
    <3>1. n <= Len(seqs)
      BY <2>0, <2>1
    <3>2. QED BY <3>1, <1>2
  <2> DEFINE g == [i \in 1 .. n + 1 |-> IF i <= n THEN f[i] ELSE Step(f, i)]
  <2>3. Step(f, n + 1) \in Seq(S)
    <3>1. seqs[n + 1] \in Seq(S)
      BY <2>1
    <3>2. n # 0 => f[n] \in Seq(S)
      OBVIOUS
    <3>3. QED BY <3>1, <3>2, ConcatProperties
  <2>4. g \in [1 .. n + 1 -> Seq(S)]
    BY <2>3
  <2>5. ASSUME NEW i \in 1 .. n + 1 PROVE g[i] = Step(g, i)
    <3>1. CASE i <= n
      <4>0. i \in 1 .. n
        BY <3>1
      <4>1. f[i] = Step(f, i)
        BY <4>0
      <4>2. g[i] = f[i]
        BY <3>1
      <4>3. i # 1 => g[i - 1] = f[i - 1]
        BY <3>1
      <4>4. QED BY <4>1, <4>2, <4>3
    <3>2. CASE i = n + 1
      <4>1. g[i] = Step(f, i)
        BY <3>2
      <4>2. i # 1 => g[i - 1] = f[i - 1]
        BY <3>2
      <4>3. QED BY <4>1, <4>2
    <3>3. QED BY <3>1, <3>2
  <2>6. QED BY <2>4, <2>5
<1>3. Upto(Len(seqs)) # {}
  <2> HIDE DEF Upto
  <2>1. Nat \subseteq T
    <3> HIDE DEF T
    <3> QED BY <1>1, <1>2, Induction
  <2>2. QED BY <2>1
<1>4. PICK f \in Upto(Len(seqs)) : TRUE
  BY <1>3
<1>5. f = [i \in 1 .. Len(seqs) |-> Step(f, i)]
  OBVIOUS
<1>6. FlattenTo(seqs) = [i \in 1 .. Len(seqs) |-> Step(FlattenTo(seqs), i)]
  BY <1>5 DEF FlattenTo
<1> DEFINE h == FlattenTo(seqs)
<1> HIDE DEF h
<1>7. \A i \in 1 .. Len(seqs) : h[i] = Step(h, i)
  BY <1>6 DEF h
<1> DEFINE V == {n \in Nat : n \in 1 .. Len(seqs) => h[n] \in Seq(S)}
<1>8. 0 \in V
  OBVIOUS
<1>9. ASSUME NEW n \in Nat, n \in V PROVE n + 1 \in V
  <2>1. SUFFICES ASSUME n + 1 <= Len(seqs) PROVE h[n + 1] \in Seq(S)
    OBVIOUS
  <2>2. seqs[n + 1] \in Seq(S)
    BY <2>1
  <2>3. CASE n = 0
    BY <2>1, <2>2, <2>3, <1>7
  <2>4. CASE n # 0
    <3>1. h[n] \in Seq(S)
      BY <2>1, <2>4, <1>9
    <3>2. h[n + 1] = h[n] \o seqs[n + 1]
      <4>1. n + 1 \in 1 .. Len(seqs) /\ n + 1 # 1 /\ (n + 1) - 1 = n
        BY <2>1, <2>4
      <4>2. h[n + 1] = Step(h, n + 1)
        BY <4>1, <1>7
      <4>3. QED BY <4>1, <4>2
    <3>3. QED BY <3>1, <3>2, <2>2, ConcatProperties
  <2>5. QED BY <2>3, <2>4
<1>10. Nat \subseteq V
  <2> HIDE DEF V
  <2> QED BY <1>8, <1>9, Induction
<1>11. h = [i \in 1 .. Len(seqs) |-> h[i]]
  BY <1>6 DEF h
<1>12. h \in [1 .. Len(seqs) -> Seq(S)]
  BY <1>10, <1>11
<1>13. QED BY <1>7, <1>12 DEF h

\* A sequence of sequences flattens to a sequence.
LEMMA FlattenType ==
    ASSUME NEW S, NEW seqs \in Seq(Seq(S))
    PROVE  FlattenSeq(seqs) \in Seq(S)
<1>1. CASE seqs = << >>
  BY <1>1, EmptySeq DEF FlattenSeq
<1>2. CASE seqs # << >>
  <2>1. Len(seqs) \in 1 .. Len(seqs)
    BY <1>2, EmptySeq
  <2>2. QED BY <1>2, <2>1, FlattenDef, FlattenToProperty
<1>3. QED BY <1>1, <1>2

\* What is appended to a sequence does not change how its beginning flattens.
LEMMA FlattenToConcatLeft ==
    ASSUME NEW S, NEW s \in Seq(Seq(S)), NEW t \in Seq(Seq(S))
    PROVE  \A i \in 1 .. Len(s) : FlattenTo(s \o t)[i] = FlattenTo(s)[i]
<1> DEFINE u == s \o t
           T == {n \in Nat : n \in 1 .. Len(s) => FlattenTo(u)[n] = FlattenTo(s)[n]}
<1>1. u \in Seq(Seq(S)) /\ Len(u) = Len(s) + Len(t) /\ Len(s) \in Nat /\ Len(t) \in Nat
  BY ConcatProperties, LenProperties
<1>2. \A i \in 1 .. Len(s) : u[i] = s[i]
  BY ConcatProperties, LenProperties
<1> HIDE DEF u
<1>3. 0 \in T
  OBVIOUS
<1>4. ASSUME NEW n \in Nat, n \in T PROVE n + 1 \in T
  <2>1. SUFFICES ASSUME n + 1 \in 1 .. Len(s) PROVE FlattenTo(u)[n + 1] = FlattenTo(s)[n + 1]
    OBVIOUS
  <2>2. n + 1 \in 1 .. Len(u)
    BY <1>1, <2>1
  <2>3. FlattenTo(u)[n + 1] = IF n + 1 = 1 THEN u[n + 1] ELSE FlattenTo(u)[(n + 1) - 1] \o u[n + 1]
    BY <1>1, <2>2, FlattenToProperty
  <2>4. FlattenTo(s)[n + 1] = IF n + 1 = 1 THEN s[n + 1] ELSE FlattenTo(s)[(n + 1) - 1] \o s[n + 1]
    BY <2>1, FlattenToProperty
  <2>5. n # 0 => FlattenTo(u)[n] = FlattenTo(s)[n]
    BY <2>1, <1>4, <1>1
  <2>6. u[n + 1] = s[n + 1] /\ (n + 1) - 1 = n
    BY <2>1, <1>2
  <2>7. QED BY <2>3, <2>4, <2>5, <2>6
<1>5. Nat \subseteq T
  <2> HIDE DEF T
  <2> QED BY <1>3, <1>4, Induction
<1>6. QED BY <1>5, <1>1 DEF u

\* What comes after a sequence flattens behind it.
LEMMA FlattenToConcatRight ==
    ASSUME NEW S, NEW s \in Seq(Seq(S)), NEW t \in Seq(Seq(S)), s # << >>
    PROVE  \A i \in 1 .. Len(t) :
              FlattenTo(s \o t)[Len(s) + i] = FlattenSeq(s) \o FlattenTo(t)[i]
<1> DEFINE u == s \o t
           T == {n \in Nat : n \in 1 .. Len(t) =>
                    FlattenTo(u)[Len(s) + n] = FlattenSeq(s) \o FlattenTo(t)[n]}
<1>1. u \in Seq(Seq(S)) /\ Len(u) = Len(s) + Len(t) /\ Len(s) \in Nat /\ Len(t) \in Nat
  BY ConcatProperties, LenProperties
<1>2. \A i \in 1 .. Len(t) : u[Len(s) + i] = t[i]
  <2>1. \A i \in 1 .. Len(s) + Len(t) : u[i] = IF i <= Len(s) THEN s[i] ELSE t[i - Len(s)]
    BY ConcatProperties
  <2>2. QED BY <2>1, <1>1
<1>3. Len(s) # 0
  BY EmptySeq
<1>4. FlattenTo(u)[Len(s)] = FlattenSeq(s)
  <2>1. Len(s) \in 1 .. Len(s)
    BY <1>1, <1>3
  <2>2. QED BY <2>1, FlattenDef, FlattenToConcatLeft
<1> HIDE DEF u
<1>5. 0 \in T
  OBVIOUS
<1>6. ASSUME NEW n \in Nat, n \in T PROVE n + 1 \in T
  <2>1. SUFFICES ASSUME n + 1 \in 1 .. Len(t)
                 PROVE  FlattenTo(u)[Len(s) + (n + 1)] = FlattenSeq(s) \o FlattenTo(t)[n + 1]
    OBVIOUS
  <2> HIDE DEF T
  <2>2. Len(s) + (n + 1) \in 1 .. Len(u) /\ Len(s) + (n + 1) # 1
    BY <1>1, <1>3, <2>1
  <2>3. FlattenTo(u)[Len(s) + (n + 1)] = FlattenTo(u)[(Len(s) + (n + 1)) - 1] \o u[Len(s) + (n + 1)]
    <3>1. PICK k \in 1 .. Len(u) : k = Len(s) + (n + 1)
      BY <2>2
    <3>2. FlattenTo(u)[k] = IF k = 1 THEN u[k] ELSE FlattenTo(u)[k - 1] \o u[k]
      BY <1>1, FlattenToProperty
    <3>3. QED BY <3>1, <3>2, <2>2
  <2>4. FlattenTo(t)[n + 1] = IF n + 1 = 1 THEN t[n + 1] ELSE FlattenTo(t)[(n + 1) - 1] \o t[n + 1]
    BY <2>1, FlattenToProperty
  <2>5. u[Len(s) + (n + 1)] = t[n + 1] /\ (n + 1) - 1 = n /\ (Len(s) + (n + 1)) - 1 = Len(s) + n
    BY <2>1, <1>2, <1>1
  <2>6. FlattenTo(u)[Len(s) + (n + 1)] = FlattenTo(u)[Len(s) + n] \o t[n + 1]
    BY <2>3, <2>5
  <2>7. CASE n = 0
    <3>1. FlattenTo(t)[n + 1] = t[n + 1] /\ Len(s) + n = Len(s)
      BY <2>4, <2>7, <1>1
    <3>2. QED BY <3>1, <2>6, <1>4
  <2>8. CASE n # 0
    <3>1. n \in 1 .. Len(t)
      BY <2>1, <2>8, <1>1
    <3> DEFINE a == FlattenSeq(s)
               b == FlattenTo(t)[n]
               c == t[n + 1]
    <3>2. FlattenTo(u)[Len(s) + n] = a \o b
      BY <3>1, <1>6 DEF T
    <3>3. n + 1 # 1
      BY <2>8
    <3>4. FlattenTo(t)[n + 1] = b \o c
      BY <2>4, <2>5, <3>3
    <3>5. a \in Seq(S)
      BY FlattenType
    <3>6. b \in Seq(S)
      BY <3>1, FlattenToProperty
    <3>7. c \in Seq(S)
      BY <2>1
    <3> HIDE DEF a, b, c
    <3>8. (a \o b) \o c = a \o (b \o c)
      BY <3>5, <3>6, <3>7, ConcatAssociative, SMTT(30)
    <3>9. QED BY <2>6, <3>2, <3>4, <3>8 DEF a, b, c
  <2>9. QED BY <2>7, <2>8
<1>7. Nat \subseteq T
  <2> HIDE DEF T
  <2> QED BY <1>5, <1>6, Induction
<1>8. QED BY <1>7, <1>1 DEF u

\* Flattening distributes over concatenation.
LEMMA FlattenConcat ==
    ASSUME NEW S, NEW s \in Seq(Seq(S)), NEW t \in Seq(Seq(S))
    PROVE  FlattenSeq(s \o t) = FlattenSeq(s) \o FlattenSeq(t)
<1>1. FlattenSeq(s) \in Seq(S) /\ FlattenSeq(t) \in Seq(S)
  BY FlattenType
<1>2. CASE s = << >>
  <2>1. s \o t = t /\ FlattenSeq(s) = << >>
    BY <1>2, ConcatEmptySeq DEF FlattenSeq
  <2>2. QED BY <2>1, <1>1, ConcatEmptySeq
<1>3. CASE t = << >>
  <2>1. s \o t = s /\ FlattenSeq(t) = << >>
    BY <1>3, ConcatEmptySeq DEF FlattenSeq
  <2>2. QED BY <2>1, <1>1, ConcatEmptySeq
<1>4. CASE s # << >> /\ t # << >>
  <2> DEFINE u == s \o t
  <2>1. u \in Seq(Seq(S)) /\ Len(u) = Len(s) + Len(t) /\ u # << >> /\ Len(t) \in 1 .. Len(t)
    BY <1>4, ConcatProperties, ConcatEqualIffEmpty, EmptySeq
  <2>2. FlattenSeq(u) = FlattenTo(u)[Len(s) + Len(t)]
    BY <2>1, FlattenDef
  <2>3. FlattenSeq(t) = FlattenTo(t)[Len(t)]
    BY <1>4, FlattenDef
  <2>4. FlattenTo(u)[Len(s) + Len(t)] = FlattenSeq(s) \o FlattenTo(t)[Len(t)]
    BY <2>1, <1>4, FlattenToConcatRight
  <2>5. QED BY <2>2, <2>3, <2>4
<1>5. QED BY <1>2, <1>3, <1>4

\* One sequence flattens to itself.
LEMMA FlattenSingle ==
    ASSUME NEW S, NEW x \in Seq(S)
    PROVE  FlattenSeq(<< x >>) = x
<1> DEFINE s == << x >>
<1>1. s \in Seq(Seq(S)) /\ s # << >> /\ Len(s) = 1 /\ s[1] = x
  OBVIOUS
<1> HIDE DEF s
<1>2. FlattenSeq(s) = FlattenTo(s)[1]
  BY <1>1, FlattenDef
<1>3. FlattenTo(s)[1] = s[1]
  BY <1>1, FlattenToProperty
<1>4. QED BY <1>1, <1>2, <1>3 DEF s

\* Induction over sequences, one element at the end at a time.
LEMMA SequenceInduction ==
    ASSUME NEW S, NEW T, << >> \in T,
           \A s \in Seq(S), e \in S : s \in T => Append(s, e) \in T
    PROVE  Seq(S) \subseteq T
<1> DEFINE N == {n \in Nat : \A s \in Seq(S) : Len(s) = n => s \in T}
<1>1. 0 \in N
  BY EmptySeq
<1>2. ASSUME NEW n \in Nat, n \in N PROVE n + 1 \in N
  <2>1. SUFFICES ASSUME NEW s \in Seq(S), Len(s) = n + 1 PROVE s \in T
    OBVIOUS
  <2>2. s # << >>
    BY <2>1, EmptySeq
  <2>3. PICK r \in Seq(S), e \in S : s = Append(r, e)
    BY <2>2, SequenceEmptyOrAppend
  <2>4. Len(r) = n
    BY <2>1, <2>3, AppendProperties, LenProperties
  <2>5. QED BY <2>3, <2>4, <1>2
<1>3. Nat \subseteq N
  <2> HIDE DEF N
  <2> QED BY <1>1, <1>2, Induction
<1>4. QED BY <1>3, LenProperties

\* A function that is defined step by step up to N exists.
LEMMA RecursionExists ==
    ASSUME NEW V, NEW v0 \in V, NEW N \in Nat, NEW G \in [1 .. N -> [V -> V]]
    PROVE  \E f \in [0 .. N -> V] : f[0] = v0 /\ \A n \in 1 .. N : f[n] = G[n][f[n - 1]]
<1> DEFINE Upto(n) == {f \in [0 .. n -> V] :
                          f[0] = v0 /\ \A i \in 1 .. n : f[i] = G[i][f[i - 1]]}
           T == {n \in Nat : n <= N => Upto(n) # {}}
<1>1. 0 \in T
  <2>1. [i \in 0 .. 0 |-> v0] \in Upto(0)
    OBVIOUS
  <2>2. QED BY <2>1
<1>2. ASSUME NEW n \in Nat, n \in T PROVE n + 1 \in T
  <2>1. SUFFICES ASSUME n + 1 <= N PROVE Upto(n + 1) # {}
    <3> HIDE DEF Upto
    <3> QED OBVIOUS
  <2>2. PICK f \in Upto(n) : TRUE
    <3> HIDE DEF Upto
    <3> QED BY <2>1, <1>2
  <2> DEFINE g == [i \in 0 .. n + 1 |-> IF i <= n THEN f[i] ELSE G[n + 1][f[n]]]
  <2>3. f[n] \in V /\ n + 1 \in 1 .. N
    BY <2>1
  <2>4. G[n + 1][f[n]] \in V
    BY <2>3
  <2>5. g \in [0 .. n + 1 -> V]
    BY <2>4
  <2>6. g[0] = v0
    OBVIOUS
  <2>7. ASSUME NEW i \in 1 .. n + 1 PROVE g[i] = G[i][g[i - 1]]
    <3>1. g[i - 1] = f[i - 1]
      OBVIOUS
    <3>2. CASE i \in 1 .. n
      <4>1. f[i] = G[i][f[i - 1]]
        BY <3>2
      <4>2. g[i] = f[i]
        BY <3>2
      <4>3. QED BY <3>1, <4>1, <4>2
    <3>3. CASE i = n + 1
      BY <3>1, <3>3
    <3>4. QED BY <3>2, <3>3
  <2>8. QED
    <3> HIDE DEF g
    <3> QED BY <2>5, <2>6, <2>7
<1>3. Nat \subseteq T
  <2> HIDE DEF T
  <2> QED BY <1>1, <1>2, Induction
<1>4. PICK f \in Upto(N) : TRUE
  <2> HIDE DEF Upto
  <2> QED BY <1>3
<1>5. QED OBVIOUS

\* What holds at the start and is kept by every step holds at each.
LEMMA StepsType ==
    ASSUME NEW V, NEW N \in Nat, NEW h, h[0] \in V,
           \A n \in 1 .. N : h[n - 1] \in V => h[n] \in V
    PROVE  \A n \in 0 .. N : h[n] \in V
<1> DEFINE T == {n \in Nat : n <= N => h[n] \in V}
<1>1. 0 \in T
  OBVIOUS
<1>2. ASSUME NEW n \in Nat, n \in T PROVE n + 1 \in T
  <2>1. SUFFICES ASSUME n + 1 <= N PROVE h[n + 1] \in V
    OBVIOUS
  <2>2. n + 1 \in 1 .. N /\ (n + 1) - 1 = n /\ h[n] \in V
    BY <1>2, <2>1
  <2>3. QED BY <2>2
<1>3. Nat \subseteq T
  <2> HIDE DEF T
  <2> QED BY <1>1, <1>2, Induction
<1>4. QED BY <1>3

\* Two recursions that start and step alike agree.
LEMMA StepsAgree ==
    ASSUME NEW N \in Nat, NEW h, NEW k, h[0] = k[0],
           \A n \in 1 .. N : h[n - 1] = k[n - 1] => h[n] = k[n]
    PROVE  \A n \in 0 .. N : h[n] = k[n]
<1> DEFINE T == {n \in Nat : n <= N => h[n] = k[n]}
<1>1. 0 \in T
  OBVIOUS
<1>2. ASSUME NEW n \in Nat, n \in T PROVE n + 1 \in T
  <2>1. SUFFICES ASSUME n + 1 <= N PROVE h[n + 1] = k[n + 1]
    OBVIOUS
  <2>2. n + 1 \in 1 .. N /\ (n + 1) - 1 = n /\ h[n] = k[n]
    BY <1>2, <2>1
  <2>3. QED BY <2>2
<1>3. Nat \subseteq T
  <2> HIDE DEF T
  <2> QED BY <1>1, <1>2, Induction
<1>4. QED BY <1>3

\* Appending to the second part of a concatenation.
LEMMA ConcatAppend ==
    ASSUME NEW S, NEW a \in Seq(S), NEW b \in Seq(S), NEW c \in S
    PROVE  a \o Append(b, c) = Append(a \o b, c)
<1>1. << c >> \in Seq(S) /\ a \o b \in Seq(S)
  BY ConcatProperties
<1>2. (a \o b) \o << c >> = a \o (b \o << c >>)
  BY <1>1, ConcatAssociative
<1>3. QED BY <1>1, <1>2, AppendIsConcat

\* The last element is replaced.
LEMMA ReplaceLast ==
    ASSUME NEW S, NEW r \in Seq(S), NEW y \in S, NEW e \in S
    PROVE  [Append(r, y) EXCEPT ![Len(Append(r, y))] = e] = Append(r, e)
<1> DEFINE s == Append(r, y)
           x == [s EXCEPT ![Len(s)] = e]
<1>1. s \in Seq(S) /\ Len(s) = Len(r) + 1 /\ \A i \in 1 .. Len(r) : s[i] = r[i]
  BY AppendProperties
<1>2. /\ Append(r, e) \in Seq(S) /\ Len(Append(r, e)) = Len(r) + 1
      /\ Append(r, e)[Len(r) + 1] = e
      /\ \A i \in 1 .. Len(r) : Append(r, e)[i] = r[i]
  BY AppendProperties
<1>3. Len(r) \in Nat
  BY LenProperties
<1> HIDE DEF s
<1>4. /\ x \in Seq(S) /\ Len(x) = Len(s)
      /\ \A j \in 1 .. Len(s) : x[j] = IF j = Len(s) THEN e ELSE s[j]
  <2>1. Len(s) \in 1 .. Len(s)
    BY <1>1, <1>3
  <2>2. QED BY <1>1, <2>1, ExceptSeq
<1> HIDE DEF x
<1>5. \A j \in 1 .. Len(x) : x[j] = Append(r, e)[j]
  <2>1. TAKE j \in 1 .. Len(x)
  <2>2. j = Len(r) + 1 \/ j \in 1 .. Len(r)
    BY <1>1, <1>3, <1>4
  <2>3. QED BY <1>1, <1>2, <1>3, <1>4, <2>2
<1>6. x = Append(r, e)
  BY <1>1, <1>2, <1>4, <1>5, SeqEqual
<1>7. QED BY <1>6 DEF x, s

\* The last element of an Append.
LEMMA AppendLast ==
    ASSUME NEW S, NEW s \in Seq(S), NEW e \in S
    PROVE  Append(s, e) \in Seq(S) /\ Append(s, e) # << >> /\ Last(Append(s, e)) = e
BY AppendProperties DEF Last

\* A pair is appended one element after the other.
LEMMA AppendTwo ==
    ASSUME NEW S, NEW s \in Seq(S), NEW a \in S, NEW b \in S
    PROVE  s \o << a, b >> = Append(Append(s, a), b)
OBVIOUS

\* A function on 1 .. n is a sequence of length n.
LEMMA FunctionIsSequence ==
    ASSUME NEW S, NEW n \in Nat, NEW f \in [1 .. n -> S]
    PROVE  f \in Seq(S) /\ Len(f) = n
<1>1. f \in Seq(S)
  BY SeqDef
<1>2. DOMAIN f = 1 .. n /\ DOMAIN f = 1 .. Len(f) /\ Len(f) \in Nat
  BY <1>1, LenProperties
<1>3. QED BY <1>1, <1>2

\* The elements of a concatenation.
LEMMA ConcatElements ==
    ASSUME NEW S, NEW a \in Seq(S), NEW b \in Seq(S)
    PROVE  /\ a \o b \in Seq(S)
           /\ Len(a \o b) = Len(a) + Len(b)
           /\ \A i \in 1 .. Len(a) : (a \o b)[i] = a[i]
           /\ \A i \in 1 .. Len(b) : (a \o b)[Len(a) + i] = b[i]
<1>1. Len(a) \in Nat /\ Len(b) \in Nat
  BY LenProperties
<1>2. \A i \in 1 .. Len(a) + Len(b) : (a \o b)[i] = IF i <= Len(a) THEN a[i] ELSE b[i - Len(a)]
  BY ConcatProperties
<1>3. QED BY <1>1, <1>2, ConcatProperties

\* The elements of a subsequence.
LEMMA SubSeqElements ==
    ASSUME NEW S, NEW s \in Seq(S), NEW m \in Nat \ {0}, NEW n \in Nat, n <= Len(s)
    PROVE  /\ SubSeq(s, m, n) \in Seq(S)
           /\ Len(SubSeq(s, m, n)) = IF m <= n THEN n - m + 1 ELSE 0
           /\ \A i \in 1 .. n - m + 1 : SubSeq(s, m, n)[i] = s[m + i - 1]
<1>1. \A i \in m .. n : s[i] \in S
  BY ElementOfSeq, LenProperties
<1>2. QED BY <1>1, SubSeqProperties

\* A sequence that is a header, a payload and a rest is cut into them.
LEMMA HeaderPayloadRest ==
    ASSUME NEW S, NEW h \in S, NEW p \in Seq(S), NEW r \in Seq(S), NEW s,
           s = (<< h >> \o p) \o r
    PROVE  /\ s \in Seq(S) /\ s # << >> /\ Head(s) = h
           /\ Len(s) = 1 + Len(p) + Len(r)
           /\ SubSeq(s, 2, Len(p) + 1) = p
           /\ SubSeq(s, Len(p) + 2, Len(s)) = r
<1> DEFINE f == << h >> \o p
<1>1. f \in Seq(S) /\ Len(f) = 1 + Len(p) /\ f[1] = h
      /\ (\A i \in 1 .. Len(p) : f[1 + i] = p[i]) /\ Len(p) \in Nat /\ Len(r) \in Nat
  BY ConcatElements
<1> HIDE DEF f
<1>2. /\ s \in Seq(S) /\ Len(s) = Len(f) + Len(r)
      /\ \A i \in 1 .. Len(f) : s[i] = f[i]
      /\ \A i \in 1 .. Len(r) : s[Len(f) + i] = r[i]
  BY <1>1, ConcatElements DEF f
<1>3. Len(s) = 1 + Len(p) + Len(r) /\ s # << >> /\ Head(s) = h
  BY <1>1, <1>2
<1>4. \A i \in 1 .. Len(p) : s[1 + i] = p[i]
  BY <1>1, <1>2
<1>5. \A i \in 1 .. Len(r) : s[1 + Len(p) + i] = r[i]
  BY <1>1, <1>2
<1>6. SubSeq(s, 2, Len(p) + 1) = p
  <2> DEFINE q == SubSeq(s, 2, Len(p) + 1)
  <2>1. /\ q \in Seq(S) /\ Len(q) = IF 2 <= Len(p) + 1 THEN (Len(p) + 1) - 2 + 1 ELSE 0
        /\ \A i \in 1 .. (Len(p) + 1) - 2 + 1 : q[i] = s[2 + i - 1]
    BY <1>1, <1>2, <1>3, SubSeqElements
  <2> HIDE DEF q
  <2>2. Len(q) = Len(p) /\ \A i \in 1 .. Len(p) : q[i] = p[i]
    BY <1>1, <1>4, <2>1
  <2>3. q = p
    BY <2>1, <2>2, SeqEqual
  <2>4. QED BY <2>3 DEF q
<1>7. SubSeq(s, Len(p) + 2, Len(s)) = r
  <2> DEFINE m == Len(p) + 2
             n == Len(s)
             q == SubSeq(s, m, n)
  <2>1. m \in Nat \ {0} /\ n \in Nat /\ n <= Len(s) /\ n - m + 1 = Len(r)
    BY <1>1, <1>3
  <2>2. /\ q \in Seq(S) /\ Len(q) = IF m <= n THEN n - m + 1 ELSE 0
        /\ \A i \in 1 .. n - m + 1 : q[i] = s[m + i - 1]
    <3> HIDE DEF m, n
    <3> QED BY <1>2, <2>1, SubSeqElements DEF q
  <2> HIDE DEF q
  <2>3. Len(q) = Len(r) /\ \A i \in 1 .. Len(r) : q[i] = r[i]
    <3>1. Len(q) = Len(r)
      BY <1>1, <1>3, <2>1, <2>2
    <3>2. \A i \in 1 .. Len(r) : m + i - 1 = 1 + Len(p) + i
      BY <1>1
    <3> HIDE DEF m, n
    <3>3. \A i \in 1 .. Len(r) : q[i] = s[m + i - 1]
      BY <2>1, <2>2
    <3>4. QED BY <1>5, <3>1, <3>2, <3>3
  <2>4. q = r
    BY <2>2, <2>3, SeqEqual
  <2>5. QED BY <2>4 DEF q
<1>8. QED BY <1>2, <1>3, <1>6, <1>7

\* What is left of a concatenation behind its first part.
LEMMA ConcatSuffix ==
    ASSUME NEW S, NEW a \in Seq(S), NEW r \in Seq(S)
    PROVE  SubSeq(a \o r, Len(a) + 1, Len(a \o r)) = r
<1> DEFINE s == a \o r
           m == Len(a) + 1
           n == Len(s)
           q == SubSeq(s, m, n)
<1>1. /\ s \in Seq(S) /\ Len(s) = Len(a) + Len(r)
      /\ \A i \in 1 .. Len(r) : s[Len(a) + i] = r[i]
  BY ConcatElements
<1>2. Len(a) \in Nat /\ Len(r) \in Nat
  BY LenProperties
<1> HIDE DEF s
<1>3. m \in Nat \ {0} /\ n \in Nat /\ n <= Len(s) /\ n - m + 1 = Len(r)
  BY <1>1, <1>2
<1>4. \A i \in 1 .. Len(r) : m + i - 1 = Len(a) + i
  BY <1>2
<1>5. m <= n => Len(r) # 0
  BY <1>1, <1>2
<1>6. ~(m <= n) => Len(r) = 0
  BY <1>1, <1>2
<1>7. /\ q \in Seq(S) /\ Len(q) = IF m <= n THEN n - m + 1 ELSE 0
      /\ \A i \in 1 .. n - m + 1 : q[i] = s[m + i - 1]
  <2> HIDE DEF m, n
  <2> QED BY <1>1, <1>3, SubSeqElements
<1> HIDE DEF m, n, q
<1>8. Len(q) = Len(r) /\ \A i \in 1 .. Len(r) : q[i] = r[i]
  BY <1>1, <1>3, <1>4, <1>6, <1>7
<1>9. q = r
  BY <1>7, <1>8, SeqEqual
<1>10. QED BY <1>9 DEF q, m, n, s

\* The beginning of a concatenation that holds all of its first part.
LEMMA ConcatPrefix ==
    ASSUME NEW S, NEW a \in Seq(S), NEW r \in Seq(S), NEW k \in 0 .. Len(r)
    PROVE  SubSeq(a \o r, 1, Len(a) + k) = a \o SubSeq(r, 1, k)
<1> DEFINE s == a \o r
           n == Len(a) + k
           p == SubSeq(r, 1, k)
           q == SubSeq(s, 1, n)
           u == a \o p
<1>1. /\ s \in Seq(S) /\ Len(s) = Len(a) + Len(r)
      /\ \A i \in 1 .. Len(a) : s[i] = a[i]
      /\ \A i \in 1 .. Len(r) : s[Len(a) + i] = r[i]
  BY ConcatElements
<1>2. Len(a) \in Nat /\ Len(r) \in Nat /\ k \in Nat /\ k <= Len(r)
  BY LenProperties
<1> HIDE DEF s
<1>3. n \in Nat /\ n <= Len(s) /\ 1 \in Nat \ {0}
  BY <1>1, <1>2
<1>4. p \in Seq(S) /\ Len(p) = k /\ \A i \in 1 .. k : p[i] = r[i]
  <2>1. /\ p \in Seq(S) /\ Len(p) = IF 1 <= k THEN k - 1 + 1 ELSE 0
        /\ \A i \in 1 .. k - 1 + 1 : p[i] = r[1 + i - 1]
    BY <1>2, <1>3, SubSeqElements
  <2> HIDE DEF p
  <2>2. QED BY <1>2, <2>1
<1>5. q \in Seq(S) /\ Len(q) = n /\ \A i \in 1 .. n : q[i] = s[i]
  <2>1. /\ q \in Seq(S) /\ Len(q) = IF 1 <= n THEN n - 1 + 1 ELSE 0
        /\ \A i \in 1 .. n - 1 + 1 : q[i] = s[1 + i - 1]
    <3> HIDE DEF n
    <3> QED BY <1>1, <1>3, SubSeqElements
  <2> HIDE DEF q, n
  <2>2. QED BY <1>3, <2>1
<1> HIDE DEF p, q
<1>6. /\ u \in Seq(S) /\ Len(u) = Len(a) + Len(p)
      /\ \A i \in 1 .. Len(a) : u[i] = a[i]
      /\ \A i \in 1 .. Len(p) : u[Len(a) + i] = p[i]
  <2>1. p \in Seq(S)
    BY <1>4
  <2>2. QED BY <2>1, ConcatElements
<1> HIDE DEF u
<1>7. ASSUME NEW i \in 1 .. Len(q) PROVE q[i] = u[i]
  <2>1. CASE i <= Len(a)
    BY <2>1, <1>1, <1>2, <1>5, <1>6
  <2>2. CASE i > Len(a)
    <3>1. PICK j \in 1 .. k : i = Len(a) + j
      <4>1. i - Len(a) \in 1 .. k /\ i = Len(a) + (i - Len(a))
        BY <2>2, <1>2, <1>5
      <4>2. QED BY <4>1
    <3>2. s[i] = r[j] /\ u[i] = p[j] /\ p[j] = r[j]
      BY <3>1, <1>1, <1>2, <1>4, <1>6
    <3>3. QED BY <3>2, <1>5
  <2>3. QED BY <2>1, <2>2, <1>2, <1>5
<1>8. Len(q) = Len(u)
  BY <1>4, <1>5, <1>6
<1>9. q = u
  BY <1>5, <1>6, <1>7, <1>8, SeqEqual
<1>10. QED BY <1>9 DEF q, u, p, s

\* A sequence is its beginning, the next element and what follows.
LEMMA SplitAt ==
    ASSUME NEW S, NEW w \in Seq(S), NEW n \in 0 .. Len(w)
    PROVE  /\ SubSeq(w, 1, n) \in Seq(S) /\ Len(SubSeq(w, 1, n)) = n
           /\ \A i \in 1 .. n : SubSeq(w, 1, n)[i] = w[i]
           /\ SubSeq(w, n + 1, Len(w)) \in Seq(S)
           /\ w = SubSeq(w, 1, n) \o SubSeq(w, n + 1, Len(w))
           /\ n < Len(w) => /\ w[n + 1] \in S
                            /\ SubSeq(w, 1, n + 1) = SubSeq(w, 1, n) \o << w[n + 1] >>
                            /\ SubSeq(w, n + 2, Len(w)) \in Seq(S)
                            /\ w = (SubSeq(w, 1, n) \o << w[n + 1] >>)
                                        \o SubSeq(w, n + 2, Len(w))
<1>1. Len(w) \in Nat /\ n \in Nat /\ n <= Len(w) /\ n + 1 \in Nat \ {0} /\ 1 \in Nat \ {0}
  BY LenProperties
<1>2. SubSeq(w, 1, n) \in Seq(S) /\ Len(SubSeq(w, 1, n)) = n
      /\ \A i \in 1 .. n : SubSeq(w, 1, n)[i] = w[i]
  <2> DEFINE q == SubSeq(w, 1, n)
  <2>1. /\ q \in Seq(S) /\ Len(q) = IF 1 <= n THEN n - 1 + 1 ELSE 0
        /\ \A i \in 1 .. n - 1 + 1 : q[i] = w[1 + i - 1]
    BY <1>1, SubSeqElements
  <2> HIDE DEF q
  <2>2. q \in Seq(S) /\ Len(q) = n /\ \A i \in 1 .. n : q[i] = w[i]
    BY <1>1, <2>1
  <2>3. QED BY <2>2 DEF q
<1>3. SubSeq(w, n + 1, Len(w)) \in Seq(S)
  BY <1>1, SubSeqElements
<1>4. w = SubSeq(w, 1, n) \o SubSeq(w, n + 1, Len(w))
  <2>1. 1 \in 1 .. Len(w) + 1 /\ n \in 1 - 1 .. Len(w) /\ Len(w) \in n .. Len(w)
    BY <1>1
  <2>2. SubSeq(w, 1, n) \o SubSeq(w, n + 1, Len(w)) = SubSeq(w, 1, Len(w))
    BY <2>1, ConcatAdjacentSubSeq
  <2>3. QED BY <2>2, SubSeqFull
<1>5. ASSUME n < Len(w)
      PROVE  /\ w[n + 1] \in S
             /\ SubSeq(w, 1, n + 1) = SubSeq(w, 1, n) \o << w[n + 1] >>
             /\ SubSeq(w, n + 2, Len(w)) \in Seq(S)
             /\ w = (SubSeq(w, 1, n) \o << w[n + 1] >>) \o SubSeq(w, n + 2, Len(w))
  <2>1. PICK m \in 1 .. Len(w) : m = n + 1 /\ m - 1 = n /\ m + 1 = n + 2
    BY <1>1, <1>5
  <2>2. SubSeq(w, 1, m) = SubSeq(w, 1, m - 1) \o << w[m] >>
    BY <2>1, <1>1, SubSeqRecursiveSecond
  <2>3. SubSeq(w, m + 1, Len(w)) \in Seq(S)
    BY <1>1, <2>1, SubSeqElements
  <2>4. SubSeq(w, 1, m) \o SubSeq(w, m + 1, Len(w)) = SubSeq(w, 1, Len(w))
    <3>1. 1 \in 1 .. Len(w) + 1 /\ m \in 1 - 1 .. Len(w) /\ Len(w) \in m .. Len(w)
      BY <1>1
    <3>2. QED BY <3>1, ConcatAdjacentSubSeq
  <2>5. w = SubSeq(w, 1, m) \o SubSeq(w, m + 1, Len(w))
    BY <2>4, SubSeqFull
  <2>6. w[m] \in S
    BY ElementOfSeq
  <2>7. QED BY <2>1, <2>2, <2>3, <2>5, <2>6
<1>6. QED BY <1>2, <1>3, <1>4, <1>5

\* A sequence is its head and its tail.
LEMMA HeadAndTail ==
    ASSUME NEW S, NEW w \in Seq(S), w # << >>
    PROVE  /\ w[1] \in S /\ Head(w) = w[1] /\ Tail(w) \in Seq(S) /\ w = << w[1] >> \o Tail(w)
           /\ Len(w) \in Nat \ {0} /\ Len(Tail(w)) = Len(w) - 1
           /\ \A i \in 1 .. Len(w) - 1 : Tail(w)[i] = w[i + 1]
<1>1. Len(w) \in Nat \ {0}
  BY EmptySeq
<1>2. Tail(w) \in Seq(S) /\ Len(Tail(w)) = Len(w) - 1
      /\ \A i \in 1 .. Len(w) - 1 : Tail(w)[i] = w[i + 1]
  BY <1>1, HeadTailProperties
<1>3. w[1] \in S /\ Head(w) = w[1]
  BY <1>1
<1>4. w = << w[1] >> \o Tail(w)
  <2>1. SubSeq(w, 1, Len(w)) = << w[1] >> \o SubSeq(w, 1 + 1, Len(w))
    BY <1>1, SubSeqRecursiveFirst
  <2>2. QED BY <2>1, SubSeqFull, TailIsSubSeq
<1>5. QED BY <1>1, <1>2, <1>3, <1>4
---------------------------------------------------------------------------
(* Quotients and remainders. *)

\* A number is its quotient and its remainder.
LEMMA DivMod ==
    ASSUME NEW n \in Nat \ {0}, NEW a \in Int
    PROVE  a % n \in 0 .. n - 1 /\ a \div n \in Int /\ a = n * (a \div n) + (a % n)
  OBVIOUS

\* There is one way to write a number as a multiple and a remainder.
LEMMA ModUnique ==
    ASSUME NEW n \in Nat \ {0}, NEW q \in Int, NEW r \in 0 .. n - 1
    PROVE  (n * q + r) % n = r /\ (n * q + r) \div n = q
<1> DEFINE a == n * q + r
<1>1. a \in Int /\ a = n * q + r
  OBVIOUS
<1> HIDE DEF a
<1> DEFINE p == a \div n
           s == a % n
<1>2. p \in Int /\ s \in 0 .. n - 1 /\ a = n * p + s
  BY <1>1, DivMod
<1> HIDE DEF p, s
<1>3. n * (p - q) = r - s
  BY <1>1, <1>2
<1>4. ASSUME p > q PROVE FALSE
  <2>1. p - q >= 1
    BY <1>2, <1>4
  <2>2. n * (p - q) >= n
    BY <1>2, <2>1
  <2>3. QED BY <1>2, <1>3, <2>2
<1>5. ASSUME p < q PROVE FALSE
  <2>1. q - p >= 1 /\ n * (q - p) = s - r
    BY <1>2, <1>3, <1>5
  <2>2. n * (q - p) >= n
    BY <1>2, <2>1
  <2>3. QED BY <1>2, <2>1, <2>2
<1>6. p = q
  BY <1>2, <1>4, <1>5
<1>7. s = r
  BY <1>1, <1>2, <1>6
<1>8. QED BY <1>6, <1>7 DEF a, p, s

\* Numbers have the same remainder exactly if they differ by a multiple.
LEMMA SameMod ==
    ASSUME NEW n \in Nat \ {0}, NEW a \in Int, NEW b \in Int
    PROVE  a % n = b % n <=> \E k \in Int : a = b + n * k
<1>1. PICK p \in Int : a = n * p + (a % n)
  BY DivMod
<1>2. PICK q \in Int : b = n * q + (b % n)
  BY DivMod
<1>3. a % n \in 0 .. n - 1 /\ b % n \in 0 .. n - 1
  BY DivMod
<1>4. ASSUME a % n = b % n PROVE \E k \in Int : a = b + n * k
  <2>1. p - q \in Int /\ a = b + n * (p - q)
    BY <1>1, <1>2, <1>3, <1>4
  <2>2. QED BY <2>1
<1>5. ASSUME NEW k \in Int, a = b + n * k PROVE a % n = b % n
  <2>1. q + k \in Int /\ a = n * (q + k) + (b % n)
    BY <1>2, <1>3, <1>5
  <2>2. QED BY <1>3, <2>1, ModUnique
<1>6. QED BY <1>4, <1>5

\* A remainder is a number of its own, and of a small number the number.
LEMMA ModSmall ==
    ASSUME NEW n \in Nat \ {0}, NEW r \in 0 .. n - 1
    PROVE  r % n = r
  BY DivMod, ModUnique

\* Remainders may be taken before a sum, a difference or a product.
LEMMA ModAdd ==
    ASSUME NEW n \in Nat \ {0}, NEW a \in Int, NEW b \in Int
    PROVE  ((a % n) + b) % n = (a + b) % n
<1> DEFINE r == a % n
<1>1. r \in Int
  BY DivMod
<1>2. PICK q \in Int : a = n * q + r
  BY DivMod
<1> HIDE DEF r
<1> DEFINE x == a + b
           y == r + b
<1>3. x = y + n * q /\ x \in Int /\ y \in Int
  BY <1>1, <1>2
<1> HIDE DEF x, y
<1>4. x % n = y % n
  BY <1>2, <1>3, SameMod
<1>5. QED BY <1>4 DEF r, x, y

LEMMA ModMul ==
    ASSUME NEW n \in Nat \ {0}, NEW a \in Int, NEW b \in Int
    PROVE  ((a % n) * b) % n = (a * b) % n
<1> DEFINE r == a % n
<1>1. r \in Int
  BY DivMod
<1>2. PICK q \in Int : a = n * q + r
  BY DivMod
<1> HIDE DEF r
<1> DEFINE x == a * b
           y == r * b
           k == q * b
<1>3. x = y + n * k /\ x \in Int /\ y \in Int /\ k \in Int
  BY <1>1, <1>2
<1> HIDE DEF x, y, k
<1>4. x % n = y % n
  BY <1>3, SameMod
<1>5. QED BY <1>4 DEF r, x, y

\* Equal remainders stay so when a number is added or multiplied.
LEMMA SameModAdd ==
    ASSUME NEW n \in Nat \ {0}, NEW a \in Int, NEW b \in Int, NEW c \in Int, a % n = b % n
    PROVE  (a + c) % n = (b + c) % n
<1>1. ((a % n) + c) % n = (a + c) % n
  BY ModAdd
<1>2. ((b % n) + c) % n = (b + c) % n
  BY ModAdd
<1>3. QED BY <1>1, <1>2

LEMMA SameModMul ==
    ASSUME NEW n \in Nat \ {0}, NEW a \in Int, NEW b \in Int, NEW c \in Int, a % n = b % n
    PROVE  (a * c) % n = (b * c) % n
<1>1. ((a % n) * c) % n = (a * c) % n
  BY ModMul
<1>2. ((b % n) * c) % n = (b * c) % n
  BY ModMul
<1>3. QED BY <1>1, <1>2

\* Numbers have the same remainder exactly if their difference is a multiple.
LEMMA ModZero ==
    ASSUME NEW n \in Nat \ {0}, NEW a \in Int, NEW b \in Int
    PROVE  (a - b) % n = 0 <=> a % n = b % n
<1> DEFINE d == a - b
<1>1. 0 % n = 0 /\ 0 \in Int
  BY ModSmall
<1>2. d \in Int /\ \A k \in Int : d = 0 + n * k <=> a = b + n * k
  OBVIOUS
<1> HIDE DEF d
<1>3. d % n = 0 % n <=> \E k \in Int : d = 0 + n * k
  BY <1>1, <1>2, SameMod
<1>4. a % n = b % n <=> \E k \in Int : a = b + n * k
  BY SameMod
<1>5. d % n = 0 <=> a % n = b % n
  BY <1>1, <1>2, <1>3, <1>4
<1>6. QED BY <1>5 DEF d

---------------------------------------------------------------------------
(* Remainders of a prime. *)

\* A product is a multiple of a prime only if a factor is.
IsPrime(n) == n \in Nat /\ n > 1 /\ \A a, b \in 2 .. n - 1 : (a * b) % n # 0

LEMMA PrimeProduct ==
    ASSUME NEW n, IsPrime(n), NEW a \in Int, NEW b \in Int, (a * b) % n = 0
    PROVE  a % n = 0 \/ b % n = 0
<1> DEFINE r == a % n
           s == b % n
<1>1. n \in Nat \ {0} /\ n > 1 /\ r \in 0 .. n - 1 /\ s \in 0 .. n - 1
  BY DivMod DEF IsPrime
<1>2. (r * s) % n = 0
  <2>1. (r * b) % n = 0
    BY <1>1, ModMul
  <2>2. (s * r) % n = (b * r) % n
    <3>1. r \in Int
      BY <1>1
    <3> HIDE DEF r
    <3>2. QED BY <1>1, <3>1, ModMul
  <2>3. b * r = r * b /\ s * r = r * s
    BY <1>1
  <2>4. QED BY <2>1, <2>2, <2>3
<1> HIDE DEF r, s
<1>3. CASE r = 1
  <2>1. r * s = s
    BY <1>1, <1>3
  <2>2. QED BY <1>1, <1>2, <2>1, ModSmall DEF s
<1>4. CASE s = 1
  <2>1. r * s = r
    BY <1>1, <1>4
  <2>2. QED BY <1>1, <1>2, <2>1, ModSmall DEF r
<1>5. CASE r \in 2 .. n - 1 /\ s \in 2 .. n - 1
  BY <1>2, <1>5 DEF IsPrime
<1>6. CASE r = 0 \/ s = 0
  BY <1>6 DEF r, s
<1>7. QED BY <1>1, <1>3, <1>4, <1>5, <1>6

\* A factor that is no multiple of the prime cancels.
LEMMA PrimeCancel ==
    ASSUME NEW n, IsPrime(n), NEW a \in Int, NEW b \in Int, NEW c \in Int,
           a % n # 0, (a * b) % n = (a * c) % n
    PROVE  b % n = c % n
<1>1. n \in Nat \ {0}
  BY DEF IsPrime
<1>2. (a * b - a * c) % n = 0
  <2> DEFINE x == a * b
             y == a * c
  <2>1. x \in Int /\ y \in Int /\ x % n = y % n
    OBVIOUS
  <2> HIDE DEF x, y
  <2>2. (x - y) % n = 0
    BY <1>1, <2>1, ModZero
  <2>3. QED BY <2>2 DEF x, y
<1>3. a * b - a * c = a * (b - c) /\ b - c \in Int
  OBVIOUS
<1>4. (b - c) % n = 0
  BY <1>2, <1>3, PrimeProduct
<1>5. QED BY <1>1, <1>4, ModZero

\* Two numbers with one square are the same or opposite.
LEMMA PrimeSquares ==
    ASSUME NEW n, IsPrime(n), NEW a \in Int, NEW b \in Int, (a * a) % n = (b * b) % n
    PROVE  (a - b) % n = 0 \/ (a + b) % n = 0
<1>1. n \in Nat \ {0}
  BY DEF IsPrime
<1>2. (a * a - b * b) % n = 0
  <2> DEFINE x == a * a
             y == b * b
  <2>1. x \in Int /\ y \in Int /\ x % n = y % n
    OBVIOUS
  <2> HIDE DEF x, y
  <2>2. (x - y) % n = 0
    BY <1>1, <2>1, ModZero
  <2>3. QED BY <2>2 DEF x, y
<1>3. a * a - b * b = (a - b) * (a + b) /\ a - b \in Int /\ a + b \in Int
  OBVIOUS
<1>4. QED BY <1>2, <1>3, PrimeProduct

\* Below an odd prime, opposite numbers have different parity, except zero.
LEMMA OppositeParity ==
    ASSUME NEW n, IsPrime(n), n > 2, NEW x \in 0 .. n - 1, NEW z \in 0 .. n - 1,
           (x + z) % n = 0, x % 2 = z % 2
    PROVE  x = 0 /\ z = 0
<1>1. n \in Nat \ {0} /\ 2 \in Nat \ {0} /\ x \in Int /\ z \in Int
  BY DEF IsPrime
<1>2. PICK i \in Int, m \in 0 .. 1 : x = 2 * i + m /\ m = x % 2
  <2>1. x % 2 \in 0 .. 2 - 1 /\ x \div 2 \in Int /\ x = 2 * (x \div 2) + (x % 2)
    BY ONLY <1>1, DivMod
  <2>2. QED BY <2>1
<1>3. PICK j \in Int : z = 2 * j + m
  <2>1. z \div 2 \in Int /\ z = 2 * (z \div 2) + (z % 2)
    BY ONLY <1>1, DivMod
  <2>2. QED BY <1>2, <2>1
<1>4. n # x + z
  <2> SUFFICES ASSUME n = x + z PROVE FALSE
    OBVIOUS
  <2> DEFINE h == i + j + m
  <2>1. h \in Int /\ n = 2 * h
    BY <1>1, <1>2, <1>3
  <2> HIDE DEF h
  <2>2. 2 \in 2 .. n - 1 /\ h \in 2 .. n - 1
    BY <1>1, <2>1
  <2>3. (2 * h) % n = 0
    <3>1. n = n * 1 + 0 /\ 0 \in 0 .. n - 1 /\ (n * 1 + 0) % n = 0
      BY <1>1, ModUnique
    <3>2. n % n = 0
      BY <3>1
    <3>3. QED BY <2>1, <3>2
  <2>4. QED BY <2>2, <2>3, <1>1 DEF IsPrime
<1>5. PICK q \in Int : x + z = n * q
  <2> DEFINE c == x + z
             m0 == c % n
             q0 == c \div n
  <2>1. c \in Int /\ m0 = 0
    BY <1>1
  <2> HIDE DEF c
  <2>2. q0 \in Int /\ m0 \in Int /\ c = n * q0 + m0
    BY ONLY <1>1, <2>1, DivMod
  <2> HIDE DEF m0, q0
  <2>3. c = n * q0
    BY <1>1, <2>1, <2>2
  <2>4. QED BY <2>2, <2>3 DEF c
<1>6. q = 0
  <2>1. CASE q < 0
    <3>1. n * q < 0
      BY <1>1, <2>1
    <3>2. QED BY <1>1, <1>5, <3>1
  <2>2. CASE q = 1
    BY <1>1, <1>4, <1>5, <2>2
  <2>3. CASE q >= 2
    <3>1. n * q >= 2 * n
      BY <1>1, <2>3
    <3>2. QED BY <1>1, <1>5, <3>1
  <2>4. QED BY <2>1, <2>2, <2>3
<1>7. QED BY <1>1, <1>5, <1>6

\* Every number below a prime has an inverse.
LEMMA PrimeInverse ==
    ASSUME NEW n, IsPrime(n), NEW a \in 1 .. n - 1
    PROVE  \E b \in 1 .. n - 1 : (a * b) % n = 1
<1> DEFINE S == 1 .. n - 1
           f == [b \in S |-> (a * b) % n]
<1>1. n \in Nat \ {0} /\ n > 1 /\ a \in Int
  BY DEF IsPrime
<1>2. a % n = a /\ \A b \in S : b % n = b
  BY <1>1, ModSmall
<1>3. \A b \in S : f[b] \in S
  <2> SUFFICES ASSUME NEW b \in S PROVE f[b] \in S
    OBVIOUS
  <2>1. b \in Int /\ a * b \in Int
    BY <1>1
  <2>2. (a * b) % n # 0
    <3>1. a % n # 0 /\ b % n # 0
      BY <1>1, <1>2
    <3>2. QED BY <1>1, <2>1, <3>1, PrimeProduct
  <2>3. (a * b) % n \in 0 .. n - 1
    BY <1>1, <2>1, DivMod
  <2>4. QED BY <2>2, <2>3
<1>4. \A b, c \in S : f[b] = f[c] => b = c
  <2> SUFFICES ASSUME NEW b \in S, NEW c \in S, f[b] = f[c] PROVE b = c
    OBVIOUS
  <2>1. b \in Int /\ c \in Int /\ (a * b) % n = (a * c) % n /\ a % n # 0
    BY <1>1, <1>2
  <2>2. b % n = c % n
    BY <1>1, <2>1, PrimeCancel
  <2>3. QED BY <1>2, <2>2
<1>5. IsFiniteSet(S)
  BY <1>1, FS_Interval
<1>6. 1 \in S
  BY <1>1
<1> DEFINE image == {f[b] : b \in S}
<1>7. \E b \in S : f[b] = 1
  <2>1. f \in Injection(S, S)
    <3>1. f \in [S -> S]
      BY <1>3
    <3>2. \A b, c \in S : f[b] = f[c] => b = c
      BY <1>4
    <3> HIDE DEF f, S
    <3>3. QED BY <3>1, <3>2 DEF Injection, IsInjective
  <2> HIDE DEF f, S
  <2>2. f \in Surjection(S, S)
    BY <1>5, <2>1, FS_Injection
  <2>3. QED BY <1>6, <2>2 DEF Surjection
<1>8. QED BY <1>7

---------------------------------------------------------------------------
(* Abelian groups, and the multiples of their elements. *)

\* plus makes C an abelian group with the neutral element e.
IsAbelianGroup(C, plus, e) ==
    /\ e \in C
    /\ plus \in [C -> [C -> C]]
    /\ \A p, q, r \in C : plus[plus[p][q]][r] = plus[p][plus[q][r]]
    /\ \A p, q \in C : plus[p][q] = plus[q][p]
    /\ \A p \in C : plus[e][p] = p
    /\ \A p \in C : \E q \in C : plus[p][q] = e

\* mult holds the multiples of every element up to n - 1.
AreMultiples(C, plus, e, n, mult) ==
    /\ n \in Nat /\ n > 1
    /\ mult \in [0 .. n - 1 -> [C -> C]]
    /\ \A p \in C : mult[0][p] = e
    /\ \A i \in 1 .. n - 1 : \A p \in C : mult[i][p] = plus[mult[i - 1][p]][p]

\* n times p is neutral.
Annihilates(plus, e, n, mult, p) == plus[mult[n - 1][p]][p] = e

\* The multiples of the elements exist, as a function.
LEMMA MultiplesExist ==
    ASSUME NEW C, NEW plus, NEW e, NEW n,
           plus \in [C -> [C -> C]], e \in C, n \in Nat, n > 1
    PROVE  \E mult : AreMultiples(C, plus, e, n, mult)
<1> DEFINE V == [C -> C]
           v0 == [p \in C |-> e]
           N == n - 1
           G == [i \in 1 .. N |-> [m \in V |-> [p \in C |-> plus[m[p]][p]]]]
<1>1. v0 \in V /\ N \in Nat
  OBVIOUS
<1>2. G \in [1 .. N -> [V -> V]]
  <2>1. \A m \in V : [p \in C |-> plus[m[p]][p]] \in V
    OBVIOUS
  <2> HIDE DEF V, N
  <2>2. QED BY <2>1
<1>3. PICK f \in [0 .. N -> V] : f[0] = v0 /\ \A i \in 1 .. N : f[i] = G[i][f[i - 1]]
  <2> HIDE DEF V, v0, N, G
  <2>1. QED BY ONLY <1>1, <1>2, RecursionExists
<1>4. \A p \in C : f[0][p] = e
  BY <1>3
<1>5. \A i \in 1 .. N : \A p \in C : f[i][p] = plus[f[i - 1][p]][p]
  <2> SUFFICES ASSUME NEW i \in 1 .. N, NEW p \in C PROVE f[i][p] = plus[f[i - 1][p]][p]
    OBVIOUS
  <2>1. f[i - 1] \in V
    BY <1>1
  <2>2. f[i] = G[i][f[i - 1]]
    BY <1>3
  <2> HIDE DEF V, N
  <2>3. QED BY <2>1, <2>2
<1>6. QED BY <1>3, <1>4, <1>5 DEF AreMultiples

\* A sum is in the group, and its terms associate.
LEMMA GroupSum ==
    ASSUME NEW C, NEW plus, NEW e, IsAbelianGroup(C, plus, e)
    PROVE  /\ \A p, q \in C : plus[p][q] \in C
           /\ \A p, q, r \in C : plus[plus[p][q]][r] = plus[p][plus[q][r]]
<1>1. plus \in [C -> [C -> C]]
  BY DEF IsAbelianGroup
<1>2. \A p, q \in C : plus[p][q] \in C
  BY <1>1
<1>3. \A p, q, r \in C : plus[plus[p][q]][r] = plus[p][plus[q][r]]
  BY Zenon DEF IsAbelianGroup
<1>4. QED BY <1>2, <1>3

\* An element on both sides cancels.
LEMMA GroupCancel ==
    ASSUME NEW C, NEW plus, NEW e, IsAbelianGroup(C, plus, e),
           NEW p \in C, NEW q \in C, NEW r \in C, plus[q][p] = plus[r][p]
    PROVE  q = r
<1>1. PICK s \in C : plus[p][s] = e
  BY DEF IsAbelianGroup
<1>2. \A x \in C : plus[plus[x][p]][s] = x
  <2> SUFFICES ASSUME NEW x \in C PROVE plus[plus[x][p]][s] = x
    OBVIOUS
  <2>1. plus[plus[x][p]][s] = plus[x][plus[p][s]]
    BY GroupSum
  <2>2. plus[x][e] = plus[e][x] /\ plus[e][x] = x
    BY Zenon DEF IsAbelianGroup
  <2>3. QED BY <1>1, <2>1, <2>2
<1>3. QED BY <1>2

\* A sum is in the group, and a multiple is.
LEMMA GroupType ==
    ASSUME NEW C, NEW plus, NEW e, IsAbelianGroup(C, plus, e),
           NEW n, NEW mult, AreMultiples(C, plus, e, n, mult)
    PROVE  /\ e \in C /\ n \in Nat \ {0} /\ n > 1 /\ 0 \in 0 .. n - 1 /\ 1 \in 0 .. n - 1
           /\ \A p, q \in C : plus[p][q] \in C
           /\ \A i \in 0 .. n - 1 : \A p \in C : mult[i][p] \in C
<1>1. e \in C
  BY DEF IsAbelianGroup
<1>2. n \in Nat \ {0} /\ n > 1 /\ 0 \in 0 .. n - 1 /\ 1 \in 0 .. n - 1
  BY DEF AreMultiples
<1>3. mult \in [0 .. n - 1 -> [C -> C]]
  BY DEF AreMultiples
<1>4. \A i \in 0 .. n - 1 : \A p \in C : mult[i][p] \in C
  BY <1>3
<1>5. QED BY <1>1, <1>2, <1>4, GroupSum

\* One multiple is the element itself.
LEMMA MultOne ==
    ASSUME NEW C, NEW plus, NEW e, IsAbelianGroup(C, plus, e),
           NEW n, NEW mult, AreMultiples(C, plus, e, n, mult), NEW p \in C
    PROVE  mult[0][p] = e /\ mult[1][p] = p
<1>1. mult[0][p] = e
  BY DEF AreMultiples
<1>2. 1 \in 1 .. n - 1 /\ 1 - 1 = 0
  BY DEF AreMultiples
<1>3. mult[1][p] = plus[mult[0][p]][p]
  BY <1>2 DEF AreMultiples
<1>4. QED BY <1>1, <1>3 DEF IsAbelianGroup

\* One more multiple of an element that n annihilates, round the circle.
LEMMA MultNext ==
    ASSUME NEW C, NEW plus, NEW e, IsAbelianGroup(C, plus, e),
           NEW n, NEW mult, AreMultiples(C, plus, e, n, mult), NEW p \in C,
           Annihilates(plus, e, n, mult, p), NEW i \in 0 .. n - 1
    PROVE  mult[(i + 1) % n][p] = plus[mult[i][p]][p]
<1>1. n \in Nat \ {0} /\ n > 1
  BY DEF AreMultiples
<1>2. CASE i = n - 1
  <2>1. i + 1 = n * 1 + 0 /\ 0 \in 0 .. n - 1
    BY <1>1, <1>2
  <2>2. (n * 1 + 0) % n = 0
    BY <1>1, <2>1, ModUnique
  <2>3. mult[0][p] = e
    BY DEF AreMultiples
  <2>4. (i + 1) % n = 0
    BY <2>1, <2>2
  <2>5. QED BY <1>2, <2>3, <2>4 DEF Annihilates
<1>3. CASE i # n - 1
  <2> DEFINE j == i + 1
  <2>1. j \in 1 .. n - 1 /\ j \in 0 .. n - 1 /\ j - 1 = i
    BY <1>1, <1>3
  <2> HIDE DEF j
  <2>2. j % n = j
    BY <1>1, <2>1, ModSmall
  <2>3. mult[j][p] = plus[mult[j - 1][p]][p]
    BY <2>1 DEF AreMultiples
  <2>4. mult[j % n][p] = plus[mult[i][p]][p]
    BY <2>1, <2>2, <2>3
  <2>5. QED BY <2>4 DEF j
<1>4. QED BY <1>2, <1>3

\* A sum of multiples is the multiple of the sum.
LEMMA MultSum ==
    ASSUME NEW C, NEW plus, NEW e, IsAbelianGroup(C, plus, e),
           NEW n, NEW mult, AreMultiples(C, plus, e, n, mult), NEW p \in C,
           Annihilates(plus, e, n, mult, p), NEW a \in 0 .. n - 1, NEW b \in 0 .. n - 1
    PROVE  mult[(a + b) % n][p] = plus[mult[a][p]][mult[b][p]]
<1> DEFINE T == {k \in Nat : k < n => mult[(a + k) % n][p] = plus[mult[a][p]][mult[k][p]]}
<1>1. /\ e \in C /\ n \in Nat \ {0} /\ \A i \in 0 .. n - 1 : mult[i][p] \in C
      /\ \A q, r \in C : plus[q][r] \in C
  BY GroupType
<1>2. 0 \in T
  <2>1. (a + 0) % n = a
    BY <1>1, ModSmall
  <2>2. plus[mult[a][p]][e] = mult[a][p]
    BY <1>1 DEF IsAbelianGroup
  <2>3. mult[0][p] = e
    BY DEF AreMultiples
  <2>4. QED BY <2>1, <2>2, <2>3
<1>3. ASSUME NEW k \in Nat, k \in T PROVE k + 1 \in T
  <2> SUFFICES ASSUME k + 1 < n
               PROVE  mult[(a + (k + 1)) % n][p] = plus[mult[a][p]][mult[k + 1][p]]
    OBVIOUS
  <2> DEFINE i == (a + k) % n
             x == mult[a][p]
             y == mult[k][p]
  <2>1. i \in 0 .. n - 1
    <3> DEFINE c == a + k
    <3>1. c \in Int
      OBVIOUS
    <3> HIDE DEF c
    <3>2. c % n \in 0 .. n - 1
      BY <1>1, <3>1, DivMod
    <3>3. QED BY <3>2 DEF c
  <2>2. k \in 0 .. n - 1 /\ k + 1 \in 1 .. n - 1
    BY <1>1
  <2>3. mult[i][p] = plus[x][y] /\ x \in C /\ y \in C
    BY <1>1, <1>3, <2>2
  <2>4. mult[k + 1][p] = plus[y][p]
    BY <2>2 DEF AreMultiples
  <2>5. (a + (k + 1)) % n = (i + 1) % n
    <3> DEFINE c == a + k
    <3>1. c \in Int /\ a + (k + 1) = c + 1
      OBVIOUS
    <3>2. i = c % n
      OBVIOUS
    <3> HIDE DEF c, i
    <3>3. ((c % n) + 1) % n = (c + 1) % n
      BY <1>1, <3>1, ModAdd
    <3>4. QED BY <3>1, <3>2, <3>3
  <2> HIDE DEF i, x, y
  <2>6. mult[(i + 1) % n][p] = plus[mult[i][p]][p]
    BY <2>1, MultNext
  <2>7. plus[plus[x][y]][p] = plus[x][plus[y][p]]
    BY <2>3, GroupSum
  <2>8. mult[(a + (k + 1)) % n][p] = plus[x][mult[k + 1][p]]
    BY <2>3, <2>4, <2>5, <2>6, <2>7
  <2>9. QED BY <2>8 DEF x
<1>4. Nat \subseteq T
  <2> HIDE DEF T
  <2>1. QED BY <1>2, <1>3, Induction
<1>5. b \in T /\ b < n
  BY <1>1, <1>4
<1>6. QED BY <1>5

\* A multiple of a multiple is the multiple of the product.
LEMMA MultMult ==
    ASSUME NEW C, NEW plus, NEW e, IsAbelianGroup(C, plus, e),
           NEW n, NEW mult, AreMultiples(C, plus, e, n, mult), NEW p \in C,
           Annihilates(plus, e, n, mult, p), NEW a \in 0 .. n - 1, NEW b \in 0 .. n - 1
    PROVE  mult[b][mult[a][p]] = mult[(a * b) % n][p]
<1> DEFINE q == mult[a][p]
           T == {k \in Nat : k < n => mult[k][q] = mult[(a * k) % n][p]}
<1>1. /\ e \in C /\ n \in Nat \ {0} /\ q \in C
  BY GroupType
<1>2. 0 \in T
  <2>1. (a * 0) % n = 0
    BY <1>1, ModSmall
  <2>2. mult[0][p] = e /\ mult[0][q] = e
    BY <1>1 DEF AreMultiples
  <2>3. QED BY <2>1, <2>2
<1>3. ASSUME NEW k \in Nat, k \in T PROVE k + 1 \in T
  <2> SUFFICES ASSUME k + 1 < n
               PROVE  mult[k + 1][q] = mult[(a * (k + 1)) % n][p]
    OBVIOUS
  <2> DEFINE c == a * k
             i == c % n
  <2>1. c \in Int /\ a * (k + 1) = c + a
    OBVIOUS
  <2>2. k \in 0 .. n - 1 /\ k + 1 \in 1 .. n - 1 /\ k + 1 - 1 = k
    BY <1>1
  <2>3. mult[k][q] = mult[i][p]
    BY <1>1, <1>3, <2>2
  <2>4. mult[k + 1][q] = plus[mult[k][q]][q]
    BY <1>1, <2>2 DEF AreMultiples
  <2> HIDE DEF c
  <2>5. i \in 0 .. n - 1 /\ (i + a) % n = (c + a) % n
    <3>1. c % n \in 0 .. n - 1
      BY <1>1, <2>1, DivMod
    <3>2. a \in Int /\ c \in Int /\ n \in Nat \ {0}
      BY <1>1, <2>1
    <3>3. ((c % n) + a) % n = (c + a) % n
      BY <3>2, ModAdd
    <3>4. QED BY <3>1, <3>3
  <2> HIDE DEF i
  <2>6. mult[(i + a) % n][p] = plus[mult[i][p]][q]
    BY <2>5, MultSum
  <2>7. QED BY <2>1, <2>3, <2>4, <2>5, <2>6
<1>4. Nat \subseteq T
  <2> HIDE DEF T
  <2>1. QED BY <1>2, <1>3, Induction
<1>5. b \in T /\ b < n
  BY <1>1, <1>4
<1>6. QED BY <1>5

\* A sum of four, in another order.
LEMMA GroupSwap ==
    ASSUME NEW C, NEW plus, NEW e, IsAbelianGroup(C, plus, e),
           NEW x \in C, NEW y \in C, NEW p \in C, NEW q \in C
    PROVE  plus[plus[x][y]][plus[p][q]] = plus[plus[x][p]][plus[y][q]]
<1> DEFINE pq == plus[p][q]
           yq == plus[y][q]
<1>1. \A s, t, u \in C : plus[plus[s][t]][u] = plus[s][plus[t][u]]
  BY GroupSum
<1>2. pq \in C /\ yq \in C
  BY GroupSum
<1>3. plus[y][pq] = plus[plus[y][p]][q] /\ plus[p][yq] = plus[plus[p][y]][q]
  BY <1>1
<1>4. plus[y][p] = plus[p][y]
  BY Zenon DEF IsAbelianGroup
<1> HIDE DEF pq, yq
<1>5. plus[plus[x][y]][pq] = plus[x][plus[y][pq]] /\ plus[plus[x][p]][yq] = plus[x][plus[p][yq]]
  BY <1>1, <1>2
<1>6. plus[plus[x][y]][pq] = plus[plus[x][p]][yq]
  BY <1>3, <1>4, <1>5
<1>7. QED BY <1>6 DEF pq, yq

\* Multiplying distributes over a sum.
LEMMA MultPlus ==
    ASSUME NEW C, NEW plus, NEW e, IsAbelianGroup(C, plus, e),
           NEW n, NEW mult, AreMultiples(C, plus, e, n, mult), NEW p \in C, NEW q \in C,
           NEW a \in 0 .. n - 1
    PROVE  mult[a][plus[p][q]] = plus[mult[a][p]][mult[a][q]]
<1> DEFINE r == plus[p][q]
           T == {k \in Nat : k < n => mult[k][r] = plus[mult[k][p]][mult[k][q]]}
<1>1. /\ e \in C /\ n \in Nat \ {0} /\ r \in C
      /\ \A i \in 0 .. n - 1 : mult[i][p] \in C /\ mult[i][q] \in C
  BY GroupType
<1>2. 0 \in T
  <2>1. mult[0][p] = e /\ mult[0][q] = e /\ mult[0][r] = e
    BY <1>1 DEF AreMultiples
  <2>2. plus[e][e] = e
    BY <1>1 DEF IsAbelianGroup
  <2>3. QED BY <2>1, <2>2
<1>3. ASSUME NEW k \in Nat, k \in T PROVE k + 1 \in T
  <2> SUFFICES ASSUME k + 1 < n
               PROVE  mult[k + 1][r] = plus[mult[k + 1][p]][mult[k + 1][q]]
    OBVIOUS
  <2> DEFINE x == mult[k][p]
             y == mult[k][q]
  <2>2. k \in 0 .. n - 1 /\ k + 1 \in 1 .. n - 1 /\ k + 1 - 1 = k
    BY <1>1
  <2>3. mult[k][r] = plus[x][y] /\ x \in C /\ y \in C
    BY <1>1, <1>3, <2>2
  <2>4. /\ mult[k + 1][r] = plus[mult[k][r]][r]
        /\ mult[k + 1][p] = plus[x][p] /\ mult[k + 1][q] = plus[y][q]
    BY <1>1, <2>2 DEF AreMultiples
  <2> HIDE DEF x, y
  <2>5. plus[plus[x][y]][plus[p][q]] = plus[plus[x][p]][plus[y][q]]
    BY <2>3, GroupSwap
  <2>6. QED BY <2>3, <2>4, <2>5
<1>4. Nat \subseteq T
  <2> HIDE DEF T
  <2>1. QED BY <1>2, <1>3, Induction
<1>5. a \in T /\ a < n
  BY <1>1, <1>4
<1>6. QED BY <1>5

\* What annihilates an element annihilates its multiples.
LEMMA MultAnnihilates ==
    ASSUME NEW C, NEW plus, NEW e, IsAbelianGroup(C, plus, e),
           NEW n, NEW mult, AreMultiples(C, plus, e, n, mult), NEW p \in C,
           Annihilates(plus, e, n, mult, p), NEW a \in 0 .. n - 1
    PROVE  Annihilates(plus, e, n, mult, mult[a][p])
<1> DEFINE q == mult[a][p]
           c == a * (n - 1)
           i == c % n
<1>1. n \in Nat \ {0} /\ n - 1 \in 0 .. n - 1 /\ q \in C
  BY GroupType
<1>2. mult[n - 1][q] = mult[i][p]
  BY <1>1, MultMult
<1>3. c \in Int /\ c + a = n * a + 0 /\ a \in Int /\ 0 \in 0 .. n - 1
  BY <1>1
<1> HIDE DEF c
<1>4. i \in 0 .. n - 1 /\ (i + a) % n = (c + a) % n
  BY <1>1, <1>3, DivMod, ModAdd
<1>5. (c + a) % n = 0
  BY <1>1, <1>3, ModUnique
<1> HIDE DEF i
<1>6. mult[(i + a) % n][p] = plus[mult[i][p]][q]
  BY <1>4, MultSum
<1>7. mult[0][p] = e
  BY DEF AreMultiples
<1>8. QED BY <1>2, <1>4, <1>5, <1>6, <1>7 DEF Annihilates

\* An element that a prime annihilates has no other neutral multiple.
LEMMA MultNeutral ==
    ASSUME NEW C, NEW plus, NEW e, IsAbelianGroup(C, plus, e),
           NEW n, NEW mult, AreMultiples(C, plus, e, n, mult), IsPrime(n), NEW p \in C,
           Annihilates(plus, e, n, mult, p), p # e, NEW a \in 0 .. n - 1, mult[a][p] = e
    PROVE  a = 0
<1> SUFFICES ASSUME a # 0 PROVE FALSE
  OBVIOUS
<1>1. n \in Nat \ {0} /\ 0 \in 0 .. n - 1 /\ a \in 1 .. n - 1
  BY GroupType
<1>2. PICK b \in 1 .. n - 1 : (a * b) % n = 1
  BY <1>1, PrimeInverse
<1>3. b \in 0 .. n - 1
  BY <1>2
<1>4. mult[b][mult[a][p]] = mult[1][p]
  BY <1>2, <1>3, MultMult
<1>5. mult[b][mult[0][p]] = mult[(0 * b) % n][p]
  BY <1>1, <1>3, MultMult
<1>6. (0 * b) % n = 0
  BY <1>1, ModSmall
<1>7. mult[0][p] = e /\ mult[1][p] = p
  BY MultOne
<1>8. QED BY <1>4, <1>5, <1>6, <1>7

\* The multiples of such an element are all different.
LEMMA MultDistinct ==
    ASSUME NEW C, NEW plus, NEW e, IsAbelianGroup(C, plus, e),
           NEW n, NEW mult, AreMultiples(C, plus, e, n, mult), IsPrime(n), NEW p \in C,
           Annihilates(plus, e, n, mult, p), p # e,
           NEW a \in 0 .. n - 1, NEW b \in 0 .. n - 1, mult[a][p] = mult[b][p]
    PROVE  a = b
<1> DEFINE c == (n - b) % n
<1>1. n \in Nat \ {0}
  BY GroupType
<1>2. c = IF b = 0 THEN 0 ELSE n - b
  <2>1. CASE b = 0
    <3>1. n - b = n * 1 + 0 /\ 0 \in 0 .. n - 1
      BY <1>1, <2>1
    <3>2. (n * 1 + 0) % n = 0
      BY <1>1, <3>1, ModUnique
    <3>3. QED BY <2>1, <3>1, <3>2
  <2>2. CASE b # 0
    <3>1. n - b \in 0 .. n - 1
      BY <1>1, <2>2
    <3>2. QED BY <1>1, <2>2, <3>1, ModSmall
  <2>3. QED BY <2>1, <2>2
<1> HIDE DEF c
<1>3. c \in 0 .. n - 1
  BY <1>1, <1>2
<1>4. mult[(a + c) % n][p] = plus[mult[a][p]][mult[c][p]]
  BY <1>3, MultSum
<1>5. mult[(b + c) % n][p] = plus[mult[b][p]][mult[c][p]]
  BY <1>3, MultSum
<1>6. (b + c) % n = 0
  <2>1. CASE b = 0
    <3>1. b + c = 0 /\ 0 \in 0 .. n - 1
      BY <1>1, <1>2, <2>1
    <3>2. QED BY <1>1, <3>1, ModSmall
  <2>2. CASE b # 0
    <3>1. b + c = n * 1 + 0 /\ 0 \in 0 .. n - 1
      BY <1>1, <1>2, <2>2
    <3>2. (n * 1 + 0) % n = 0
      BY <1>1, <3>1, ModUnique
    <3>3. QED BY <3>1, <3>2
  <2>3. QED BY <2>1, <2>2
<1>7. mult[0][p] = e
  BY MultOne
<1>8. (a + c) % n \in 0 .. n - 1
  <2> DEFINE d == a + c
  <2>1. d \in Int
    BY <1>3
  <2> HIDE DEF d
  <2>2. d % n \in 0 .. n - 1
    BY <1>1, <2>1, DivMod
  <2>3. QED BY <2>2 DEF d
<1>9. (a + c) % n = 0
  <2>1. mult[(a + c) % n][p] = e
    BY <1>4, <1>5, <1>6, <1>7
  <2>2. QED BY <1>8, <2>1, MultNeutral
<1>10. (a + c) % n = (b + c) % n
  BY <1>6, <1>9
<1>11. a % n = b % n
  <2> DEFINE x == a + c
             y == b + c
  <2>1. x \in Int /\ y \in Int /\ x % n = y % n /\ -c \in Int /\ x + (-c) = a /\ y + (-c) = b
    BY <1>3, <1>10
  <2> HIDE DEF x, y
  <2>2. (x + (-c)) % n = (y + (-c)) % n
    BY <1>1, <2>1, SameModAdd
  <2>3. QED BY <2>1, <2>2
<1>12. QED BY <1>1, <1>11, ModSmall
=================================================================================
