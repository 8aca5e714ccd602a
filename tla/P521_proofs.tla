-------------------------------- MODULE P521_proofs -------------------------------
(***************************************************************************)
(* Proofs about P521: derivation for any seeds, digests and number of      *)
(* attempts, and what zeroizing does to what is signed afterwards, neither *)
(* of which needs the curve; then signatures, for any curve whose points   *)
(* are a group of prime order.                                             *)
(***************************************************************************)
EXTENDS P521, BasicLemmas

\* Every attempt before the current one was refused.
AttemptsRefused ==
    \A d \in loop :
        /\ d.seed \in Seeds
        /\ d.counter \in Counters
        /\ \A c \in 0 .. d.counter - 1 : FromSlice(digest[d.seed][c]) = None

\* A handle holds what it was given or, zeroized, the dummy.
HeldAsOwned ==
    /\ keys \in [Handles -> SUBSET Int]
    /\ owner \in [Handles -> SUBSET Int]
    /\ \A h \in Handles :
          /\ keys[h] = None \/ \E x \in Int : keys[h] = Some(x)
          /\ keys[h] = IF h \in zeroized THEN Some(1) ELSE owner[h]

LEMMA UnwrapSome == ASSUME NEW x, NEW d PROVE UnwrapOr(Some(x), d) = x
  BY DEF UnwrapOr, Some, None

LEMMA FromSliceOfDummy == FromSlice(Dummy) = Some(1)
  BY OrderAssumption DEF FromSlice, Dummy

\* Giving a handle a number is the only way it comes to hold one.
LEMMA GiveKeeps ==
    ASSUME HeldAsOwned, NEW h \in Handles, NEW secret \in Int, Give(h, secret)
    PROVE  HeldAsOwned'
  BY DEF HeldAsOwned, Give, Some, None

---------------------------------------------------------------------------
(* A step other than an attempt leaves derivations alone, but for starting *)
(* one.                                                                    *)

LEMMA AttemptsInit == Init => AttemptsRefused /\ DerivedAsSpecified
  BY DEF Init, AttemptsRefused, DerivedAsSpecified, None

LEMMA AttemptsStart ==
    ASSUME AttemptsRefused, DerivedAsSpecified,
           NEW h \in Handles, NEW seed \in Seeds, StartDerive(h, seed)
    PROVE  AttemptsRefused' /\ DerivedAsSpecified'
<1>1. loop' = {[handle |-> h, seed |-> seed, counter |-> 0]} /\ digest' = digest /\ derived' = derived
  BY DEF StartDerive, Some
<1>2. 0 \in Counters /\ 0 .. 0 - 1 = {}
  BY CounterAssumption DEF Counters
<1>3. AttemptsRefused'
  BY <1>1, <1>2 DEF AttemptsRefused, FromSlice
<1>4. DerivedAsSpecified'
  BY <1>1 DEF DerivedAsSpecified, FromSlice
<1> QED  BY <1>3, <1>4

LEMMA AttemptsStep ==
    ASSUME AttemptsRefused, DerivedAsSpecified, Attempt
    PROVE  AttemptsRefused' /\ DerivedAsSpecified'
<1> PICK d \in loop : LET key == FromSlice(digest[d.seed][d.counter])
                      IN  IF key = None THEN NextAttempt(d)
                          ELSE /\ \E secret \in key : Give(d.handle, secret)
                               /\ Return(d, key)
  BY DEF Attempt
<1> DEFINE key == FromSlice(digest[d.seed][d.counter])
           entry == [seed |-> d.seed, key |-> key]
<1>1. /\ digest' = digest
      /\ d.seed \in Seeds /\ d.counter \in Counters
      /\ \A c \in 0 .. d.counter - 1 : FromSlice(digest[d.seed][c]) = None
  BY DEF Attempt, AttemptsRefused
<1>2. CASE key = None /\ d.counter # MaxCounter
  <2>1. loop' = {[d EXCEPT !.counter = @ + 1]} /\ derived' = derived
    BY <1>2 DEF NextAttempt, Some
  <2>2. /\ [d EXCEPT !.counter = @ + 1].seed = d.seed
        /\ [d EXCEPT !.counter = @ + 1].counter = d.counter + 1
    OBVIOUS
  <2>3. d.counter + 1 \in Counters
    BY <1>1, <1>2, CounterAssumption DEF Counters
  <2>4. \A c \in 0 .. (d.counter + 1) - 1 : FromSlice(digest[d.seed][c]) = None
    BY <1>1, <1>2, CounterAssumption DEF Counters
  <2> QED  BY <1>1, <2>1, <2>2, <2>3, <2>4 DEF AttemptsRefused, DerivedAsSpecified, FromSlice
<1>3. CASE key = None /\ d.counter = MaxCounter
  <2>1. loop' = {} /\ derived' = derived \cup {entry}
    BY <1>3 DEF NextAttempt, Return, None
  <2>2. \A c \in Counters : FromSlice(digest[d.seed][c]) = None
    BY <1>1, <1>3, CounterAssumption DEF Counters
  <2> QED  BY <1>1, <1>3, <2>1, <2>2 DEF AttemptsRefused, DerivedAsSpecified, FromSlice
<1>4. CASE key # None
  <2>1. loop' = {} /\ derived' = derived \cup {entry}
    BY <1>4 DEF Return, None
  <2> QED  BY <1>1, <1>4, <2>1 DEF AttemptsRefused, DerivedAsSpecified, FromSlice
<1> QED  BY <1>2, <1>3, <1>4

LEMMA AttemptsNext ==
    ASSUME AttemptsRefused, DerivedAsSpecified, [Next]_vars
    PROVE  AttemptsRefused' /\ DerivedAsSpecified'
<1>1. CASE Attempt
  BY <1>1, AttemptsStep
<1>2. CASE \E h \in Handles, seed \in Seeds : StartDerive(h, seed)
  BY <1>2, AttemptsStart
<1>3. CASE UNCHANGED << loop, digest, derived >>
  BY <1>3 DEF AttemptsRefused, DerivedAsSpecified, FromSlice
<1> QED
  BY <1>1, <1>2, <1>3 DEF Next, vars, GenerateKey, FromBytes, CloneKey, ZeroizeKey, DropKey, Sign

(* A derived key is the scalar of the first counter whose digest is one,   *)
(* and only seeds without such a counter make derivation panic, for any    *)
(* digests and any number of counters (derive_keypair_from_seed).          *)
THEOREM Derivation == Spec => []DerivedAsSpecified
<1>1. Init => AttemptsRefused /\ DerivedAsSpecified
  BY AttemptsInit
<1>2. AttemptsRefused /\ DerivedAsSpecified /\ [Next]_vars
          => (AttemptsRefused /\ DerivedAsSpecified)'
  BY AttemptsNext
<1> QED  BY <1>1, <1>2, PTL DEF Spec

---------------------------------------------------------------------------
(* Handles. *)

LEMMA HeldInit == Init => HeldAsOwned /\ SignsAsOwner
  BY DEF Init, HeldAsOwned, SignsAsOwner, None

LEMMA FromSliceIsInt == ASSUME NEW number \in Int PROVE FromSlice(number) \subseteq Int
  BY DEF FromSlice, Some, None

LEMMA SignStep ==
    ASSUME HeldAsOwned, NEW h \in Handles, NEW hash \in Hashes, NEW nonce \in Nonces,
           Sign(h, hash, nonce)
    PROVE  SignsAsOwner'
<1> PICK secret \in keys[h] : \E sig \in SignMsg(secret, hash, nonce) :
        signed' = Some([handle |-> h, owner |-> owner[h], live |-> h \notin zeroized,
                        public |-> PublicKey(secret), hash |-> hash, sig |-> sig])
  BY DEF Sign
<1> PICK sig \in SignMsg(secret, hash, nonce) :
        signed' = Some([handle |-> h, owner |-> owner[h], live |-> h \notin zeroized,
                        public |-> PublicKey(secret), hash |-> hash, sig |-> sig])
  OBVIOUS
<1> DEFINE e == [handle |-> h, owner |-> owner[h], live |-> h \notin zeroized,
                 public |-> PublicKey(secret), hash |-> hash, sig |-> sig]
<1>1. signed' = {e}
  BY DEF Some
<1>2. keys[h] = Some(secret)
  BY DEF HeldAsOwned, Some, None
<1>3. secret = IF h \notin zeroized THEN UnwrapOr(owner[h], 0) ELSE 1
  <2>1. CASE h \in zeroized
    BY <2>1, <1>2 DEF HeldAsOwned, Some
  <2>2. CASE h \notin zeroized
    BY <2>2, <1>2, UnwrapSome DEF HeldAsOwned
  <2> QED  BY <2>1, <2>2
<1>4. e.public = PublicKey(IF e.live THEN UnwrapOr(e.owner, 0) ELSE 1)
  <2>1. e.public = PublicKey(secret) /\ e.live = (h \notin zeroized) /\ e.owner = owner[h]
    OBVIOUS
  <2> QED  BY <1>3, <2>1
<1> HIDE DEF e
<1> QED  BY <1>1, <1>4 DEF SignsAsOwner, PublicKey

LEMMA HeldNext ==
    ASSUME HeldAsOwned, SignsAsOwner, AttemptsRefused, [Next]_vars,
           digest \in [Seeds -> [Counters -> DigestValues]],
           \A d \in loop : d.handle \in Handles
    PROVE  HeldAsOwned' /\ SignsAsOwner'
<1>1. ASSUME NEW h \in Handles, GenerateKey(h)
      PROVE  HeldAsOwned' /\ signed' = signed
  BY <1>1, GiveKeeps, NumbersAssumption, OrderAssumption DEF GenerateKey
<1>2. ASSUME NEW h \in Handles, NEW number \in SecretNumbers, FromBytes(h, number)
      PROVE  HeldAsOwned' /\ signed' = signed
  BY <1>2, GiveKeeps, FromSliceIsInt, NumbersAssumption DEF FromBytes
<1>3. ASSUME NEW h \in Handles, NEW g \in Handles, CloneKey(h, g)
      PROVE  HeldAsOwned' /\ signed' = signed
  <2>1. PICK secret \in keys[g] : \E copy \in FromSlice(secret) : Give(h, copy)
    BY <1>3 DEF CloneKey
  <2>2. secret \in Int
    BY DEF HeldAsOwned
  <2> QED  BY <1>3, <2>1, <2>2, GiveKeeps, FromSliceIsInt DEF CloneKey
<1>4. ASSUME Attempt
      PROVE  HeldAsOwned' /\ signed' = signed
  <2> PICK d \in loop : LET key == FromSlice(digest[d.seed][d.counter])
                        IN  IF key = None THEN NextAttempt(d)
                            ELSE /\ \E secret \in key : Give(d.handle, secret)
                                 /\ Return(d, key)
    BY <1>4 DEF Attempt
  <2>1. digest[d.seed][d.counter] \in Int
    <3>1. d.seed \in Seeds /\ d.counter \in Counters
      BY DEF AttemptsRefused
    <3>2. digest[d.seed] \in [Counters -> DigestValues]
      BY <3>1
    <3>3. digest[d.seed][d.counter] \in DigestValues
      BY <3>1, <3>2
    <3>4. DigestValues \subseteq Int
      BY DigestAssumption
    <3> QED  BY <3>3, <3>4
  <2>2. CASE FromSlice(digest[d.seed][d.counter]) = None
    BY <1>4, <2>2 DEF NextAttempt, Attempt, HeldAsOwned
  <2>3. CASE FromSlice(digest[d.seed][d.counter]) # None
    BY <1>4, <2>1, <2>3, GiveKeeps, FromSliceIsInt DEF Attempt
  <2> QED  BY <2>2, <2>3
<1>5. ASSUME NEW h \in Handles, ZeroizeKey(h)
      PROVE  HeldAsOwned' /\ signed' = signed
  <2>1. keys' = [keys EXCEPT ![h] = Some(1)] /\ zeroized' = zeroized \cup {h} /\ owner' = owner
    BY <1>5, FromSliceOfDummy DEF ZeroizeKey, Some, None
  <2>2. keys' \in [Handles -> SUBSET Int]
    BY <2>1 DEF HeldAsOwned, Some
  <2>3. ASSUME NEW g \in Handles
        PROVE  /\ keys'[g] = None \/ \E x \in Int : keys'[g] = Some(x)
               /\ keys'[g] = IF g \in zeroized' THEN Some(1) ELSE owner'[g]
    <3>1. CASE g = h
      BY <2>1, <3>1 DEF HeldAsOwned
    <3>2. CASE g # h
      BY <2>1, <3>2 DEF HeldAsOwned
    <3> QED  BY <3>1, <3>2
  <2> QED  BY <1>5, <2>1, <2>2, <2>3 DEF ZeroizeKey, HeldAsOwned
<1>6. ASSUME NEW h \in Handles, DropKey(h)
      PROVE  HeldAsOwned' /\ signed' = signed
  BY <1>6 DEF DropKey, HeldAsOwned, Some, None
<1>7. ASSUME NEW h \in Handles, NEW hash \in Hashes, NEW nonce \in Nonces, Sign(h, hash, nonce)
      PROVE  HeldAsOwned' /\ SignsAsOwner'
  BY <1>7, SignStep DEF Sign, HeldAsOwned
<1>8. ASSUME NEW h \in Handles, NEW seed \in Seeds, StartDerive(h, seed)
      PROVE  HeldAsOwned' /\ signed' = signed
  BY <1>8 DEF StartDerive, HeldAsOwned
<1>9. CASE UNCHANGED vars
  BY <1>9 DEF vars, HeldAsOwned, SignsAsOwner, PublicKey
<1>10. signed' = signed => SignsAsOwner'
  BY DEF SignsAsOwner, PublicKey
<1> QED
  BY <1>1, <1>2, <1>3, <1>4, <1>5, <1>6, <1>7, <1>8, <1>9, <1>10 DEF Next

\* The derivation in progress has a handle to fill, and digests do not change.
LoopTyped ==
    /\ digest \in [Seeds -> [Counters -> DigestValues]]
    /\ \A d \in loop : d.handle \in Handles

LEMMA LoopTypedNext == ASSUME LoopTyped, [Next]_vars PROVE LoopTyped'
<1>1. CASE Attempt
  <2> PICK d \in loop : LET key == FromSlice(digest[d.seed][d.counter])
                        IN  IF key = None THEN NextAttempt(d)
                            ELSE /\ \E secret \in key : Give(d.handle, secret)
                                 /\ Return(d, key)
    BY <1>1 DEF Attempt
  <2>1. loop' = {} \/ loop' = {[d EXCEPT !.counter = @ + 1]}
    BY DEF NextAttempt, Return, Some, None
  <2>2. [d EXCEPT !.counter = @ + 1].handle = d.handle
    OBVIOUS
  <2> QED  BY <1>1, <2>1, <2>2 DEF LoopTyped, Attempt
<1>2. ASSUME NEW h \in Handles, NEW seed \in Seeds, StartDerive(h, seed)
      PROVE  LoopTyped'
  BY <1>2 DEF LoopTyped, StartDerive, Some
<1>3. CASE UNCHANGED << loop, digest >>
  BY <1>3 DEF LoopTyped
<1> QED
  BY <1>1, <1>2, <1>3 DEF Next, vars, GenerateKey, FromBytes, CloneKey, ZeroizeKey, DropKey, Sign

(* Whatever is done with key objects, a signature is made with the key its *)
(* handle was given or, once that handle was zeroized, with the dummy      *)
(* (zeroize, clone and sign_msg).                                          *)
THEOREM Zeroizing == Spec => []SignsAsOwner
<1> DEFINE Inv == AttemptsRefused /\ DerivedAsSpecified /\ LoopTyped /\ HeldAsOwned /\ SignsAsOwner
<1>1. Init => Inv
  BY AttemptsInit, HeldInit DEF Init, LoopTyped, None
<1>2. Inv /\ [Next]_vars => Inv'
  BY AttemptsNext, LoopTypedNext, HeldNext DEF LoopTyped
<1>3. Inv => SignsAsOwner
  OBVIOUS
<1> QED  BY <1>1, <1>2, <1>3, PTL DEF Spec
---------------------------------------------------------------------------
(* The curve is a group, and ScalarMul takes its multiples.                *)

plus == [p \in CurvePoints |-> [q \in CurvePoints |-> AddPoints(p, q)]]

\* A point has coordinates in the field, and so has its opposite.
LEMMA PointCoordinates ==
    ASSUME NEW p \in CurvePoints, p # Identity
    PROVE  /\ p = << p[1], p[2] >> /\ p[1] \in 0 .. P - 1 /\ p[2] \in 0 .. P - 1
           /\ OnCurve(p[1], p[2])
  BY DEF CurvePoints, Points

LEMMA PointOpposite ==
    ASSUME NEW p \in CurvePoints
    PROVE  \E q \in CurvePoints : AddPoints(p, q) = Identity
<1>1. CASE p = Identity
  BY <1>1 DEF CurvePoints, AddPoints
<1>2. CASE p # Identity
  <2> DEFINE x == p[1]
             y == p[2]
             z == IF y = 0 THEN 0 ELSE P - y
             q == << x, z >>
  <2>1. /\ p = << x, y >> /\ x \in 0 .. P - 1 /\ y \in 0 .. P - 1 /\ OnCurve(x, y)
        /\ P \in Nat \ {0} /\ B \in Int
    BY <1>2, PointCoordinates, FieldAssumption
  <2> HIDE DEF x, y
  <2>2. z \in 0 .. P - 1 /\ \E k \in Int : z * z = y * y + P * k
    <3>1. CASE y = 0
      BY <2>1, <3>1
    <3>2. CASE y # 0
      <4>1. z = P - y /\ P - 2 * y \in Int
        BY <2>1, <3>2
      <4>2. z * z = y * y + P * (P - 2 * y)
        BY <2>1, <4>1
      <4>3. QED BY <2>1, <3>2, <4>1, <4>2
    <3>3. QED BY <3>1, <3>2
  <2>3. (y + z) % P = 0
    <3>1. CASE y = 0
      <4>1. y + z = 0 /\ 0 \in 0 .. P - 1
        BY <2>1, <3>1
      <4>2. QED BY <2>1, <4>1, ModSmall
    <3>2. CASE y # 0
      <4>1. y + z = P * 1 + 0 /\ 0 \in 0 .. P - 1
        BY <2>1, <3>2
      <4>2. (P * 1 + 0) % P = 0
        BY <2>1, <4>1, ModUnique
      <4>3. QED BY <4>1, <4>2
    <3>3. QED BY <3>1, <3>2
  <2> HIDE DEF z
  <2>4. OnCurve(x, z)
    <3> DEFINE a == y * y - x * x * x + 3 * x - B
               b == z * z - x * x * x + 3 * x - B
    <3>1. PICK k \in Int : z * z = y * y + P * k
      BY <2>2
    <3>2. a \in Int /\ b \in Int
      BY <2>1, <2>2
    <3>3. b = a + P * k
      <4> DEFINE c == x * x * x
      <4>1. c \in Int /\ y * y \in Int /\ z * z \in Int /\ P * k \in Int /\ x \in Int
        BY <2>1, <2>2
      <4> HIDE DEF c
      <4>2. QED BY <2>1, <3>1, <4>1
    <3>4. a % P = 0
      BY <2>1 DEF OnCurve
    <3> HIDE DEF a, b
    <3>5. b % P = 0
      BY <2>1, <3>2, <3>3, <3>4, SameMod
    <3>6. QED BY <3>5 DEF b, OnCurve
  <2>5. q \in CurvePoints
    BY <2>1, <2>2, <2>4 DEF CurvePoints, Points
  <2>6. p[1] = q[1] /\ (p[2] + q[2]) % P = 0 /\ q # Identity
    BY <2>3 DEF x, y, Identity
  <2>7. AddPoints(p, q) = Identity
    BY <1>2, <2>6 DEF AddPoints
  <2>8. QED BY <2>5, <2>7
<1>3. QED BY <1>1, <1>2

LEMMA CurveGroup == IsAbelianGroup(CurvePoints, plus, Identity)
<1>1. Identity \in CurvePoints
  BY DEF CurvePoints
<1>2. plus \in [CurvePoints -> [CurvePoints -> CurvePoints]]
  BY GroupAssumption DEF plus
<1>3. \A p, q \in CurvePoints : plus[p][q] = AddPoints(p, q) /\ plus[p][q] \in CurvePoints
  BY GroupAssumption DEF plus
<1>4. \A p, q, r \in CurvePoints : plus[plus[p][q]][r] = plus[p][plus[q][r]]
  <2> SUFFICES ASSUME NEW p \in CurvePoints, NEW q \in CurvePoints, NEW r \in CurvePoints
               PROVE  plus[plus[p][q]][r] = plus[p][plus[q][r]]
    OBVIOUS
  <2>1. plus[plus[p][q]][r] = AddPoints(AddPoints(p, q), r)
    BY <1>3
  <2>2. plus[p][plus[q][r]] = AddPoints(p, AddPoints(q, r))
    BY <1>3
  <2>3. QED BY <2>1, <2>2, GroupAssumption
<1>5. \A p, q \in CurvePoints : plus[p][q] = plus[q][p]
  <2> SUFFICES ASSUME NEW p \in CurvePoints, NEW q \in CurvePoints
               PROVE  plus[p][q] = plus[q][p]
    OBVIOUS
  <2>1. plus[p][q] = AddPoints(p, q) /\ plus[q][p] = AddPoints(q, p)
    BY <1>3
  <2>2. AddPoints(p, q) = AddPoints(q, p)
    BY GroupAssumption
  <2>3. QED BY <2>1, <2>2
<1>6. \A p \in CurvePoints : plus[Identity][p] = p
  BY <1>1, <1>3 DEF AddPoints
<1>7. \A p \in CurvePoints : \E q \in CurvePoints : plus[p][q] = Identity
  BY <1>3, PointOpposite
<1>8. QED BY <1>1, <1>2, <1>4, <1>5, <1>6, <1>7 DEF IsAbelianGroup

\* The recursive function exists, and is that of the multiples.
LEMMA CurveMultiples == AreMultiples(CurvePoints, plus, Identity, Order, Products)
<1> DEFINE Step(g, n) == [p \in CurvePoints |-> IF n = 0 THEN Identity
                                                ELSE AddPoints(g[n - 1][p], p)]
           N == 0 .. Order - 1
<1>1. /\ Order \in Nat /\ Order > 1 /\ Identity \in CurvePoints
      /\ plus \in [CurvePoints -> [CurvePoints -> CurvePoints]]
  BY OrderAssumption, CurveGroup DEF IsAbelianGroup
<1>2. PICK f : AreMultiples(CurvePoints, plus, Identity, Order, f)
  BY <1>1, MultiplesExist
<1>3. /\ f \in [N -> [CurvePoints -> CurvePoints]]
      /\ \A p \in CurvePoints : f[0][p] = Identity
      /\ \A i \in 1 .. Order - 1 : \A p \in CurvePoints : f[i][p] = plus[f[i - 1][p]][p]
  BY <1>2 DEF AreMultiples
<1>4. \A n \in N : f[n] = Step(f, n)
  <2> SUFFICES ASSUME NEW n \in N PROVE f[n] = Step(f, n)
    OBVIOUS
  <2>1. CASE n = 0
    BY <1>1, <1>3, <2>1
  <2>2. CASE n # 0
    <3>1. n \in 1 .. Order - 1 /\ n - 1 \in N
      BY <1>1, <2>2
    <3>2. \A p \in CurvePoints : f[n - 1][p] \in CurvePoints
      BY <1>3, <3>1
    <3>3. \A p \in CurvePoints : f[n][p] = AddPoints(f[n - 1][p], p)
      BY <1>3, <3>1, <3>2 DEF plus
    <3>4. f[n] \in [CurvePoints -> CurvePoints]
      BY <1>3
    <3>5. QED BY <2>2, <3>3, <3>4
  <2>3. QED BY <2>1, <2>2
<1>5. f = [n \in N |-> Step(f, n)]
  <2> HIDE DEF Step
  <2> QED BY <1>3, <1>4
<1>6. Multiples = [n \in N |-> Step(Multiples, n)]
  BY <1>5 DEF Multiples
<1> DEFINE h == Multiples
<1>7. h = [n \in N |-> Step(h, n)]
  BY <1>6
<1> HIDE DEF h
<1>8. \A p \in CurvePoints : h[0][p] = Identity
  BY <1>1, <1>7
<1>9. \A i \in 1 .. Order - 1 : \A p \in CurvePoints : h[i][p] = AddPoints(h[i - 1][p], p)
  BY <1>1, <1>7
<1>10. \A n \in N : h[n] = f[n]
  <2> DEFINE T == {n \in Nat : n \in N => h[n] = f[n]}
  <2>1. 0 \in T
    BY <1>1, <1>4, <1>7
  <2>2. ASSUME NEW n \in Nat, n \in T PROVE n + 1 \in T
    <3>1. SUFFICES ASSUME n + 1 \in N PROVE h[n + 1] = f[n + 1]
      OBVIOUS
    <3>2. n \in N /\ h[n] = f[n] /\ (n + 1) - 1 = n
      BY <1>1, <2>2, <3>1
    <3>3. h[n + 1] = Step(h, n + 1) /\ f[n + 1] = Step(f, n + 1)
      <4> HIDE DEF Step
      <4>1. QED BY <1>4, <1>7, <3>1
    <3>4. QED BY <3>2, <3>3
  <2>3. Nat \subseteq T
    <3> HIDE DEF T
    <3>1. QED BY <2>1, <2>2, Induction
  <2>4. QED BY <1>1, <2>3
<1>11. Products = f
  <2>1. Products = [n \in N |-> h[n]]
    BY DEF Products, h
  <2>2. [n \in N |-> h[n]] = [n \in N |-> f[n]]
    BY <1>10
  <2>3. QED BY <1>3, <2>1, <2>2
<1>12. QED BY <1>2, <1>11

LEMMA GeneratorAnnihilated ==
    /\ Generator \in CurvePoints /\ Generator # Identity
    /\ Annihilates(plus, Identity, Order, Products, Generator)
<1>1. Generator \in CurvePoints /\ Generator # Identity
  BY GeneratorAssumption
<1>2. Products[Order - 1][Generator] \in CurvePoints
  BY <1>1, OrderAssumption, CurveGroup, CurveMultiples, GroupType
<1>3. AddPoints(Products[Order - 1][Generator], Generator) = Identity
  BY GeneratorAssumption DEF ScalarMul
<1>4. QED BY <1>1, <1>2, <1>3 DEF Annihilates, plus

\* The numbers of the group, in the words of the model.
LEMMA ScalarMulFacts ==
    /\ \A a \in 0 .. Order - 1 : ScalarMul(a, Generator) \in CurvePoints
    /\ \A a, b \in 0 .. Order - 1 :
          AddPoints(ScalarMul(a, Generator), ScalarMul(b, Generator))
              = ScalarMul((a + b) % Order, Generator)
    /\ \A a, b \in 0 .. Order - 1 :
          ScalarMul(b, ScalarMul(a, Generator)) = ScalarMul((a * b) % Order, Generator)
    /\ \A a, b \in 0 .. Order - 1 :
          ScalarMul(a, Generator) = ScalarMul(b, Generator) => a = b
    /\ ScalarMul(0, Generator) = Identity
<1>1. /\ Generator \in CurvePoints /\ Generator # Identity
      /\ Annihilates(plus, Identity, Order, Products, Generator)
      /\ IsAbelianGroup(CurvePoints, plus, Identity)
      /\ AreMultiples(CurvePoints, plus, Identity, Order, Products)
  BY GeneratorAnnihilated, CurveGroup, CurveMultiples
<1>2. IsPrime(Order)
  BY OrderAssumption DEF IsPrime
<1>3. \A a \in 0 .. Order - 1 : Products[a][Generator] \in CurvePoints
  BY <1>1, GroupType
<1>4. ASSUME NEW a \in 0 .. Order - 1, NEW b \in 0 .. Order - 1
      PROVE  AddPoints(Products[a][Generator], Products[b][Generator])
                 = Products[(a + b) % Order][Generator]
  <2>1. Products[(a + b) % Order][Generator] = plus[Products[a][Generator]][Products[b][Generator]]
    BY <1>1, MultSum
  <2>2. QED BY <1>3, <2>1 DEF plus
<1>5. ASSUME NEW a \in 0 .. Order - 1, NEW b \in 0 .. Order - 1
      PROVE  Products[b][Products[a][Generator]] = Products[(a * b) % Order][Generator]
  BY <1>1, MultMult
<1>6. ASSUME NEW a \in 0 .. Order - 1, NEW b \in 0 .. Order - 1,
             Products[a][Generator] = Products[b][Generator]
      PROVE  a = b
  BY <1>1, <1>2, <1>6, MultDistinct
<1>7. Products[0][Generator] = Identity
  BY <1>1, MultOne
<1>8. QED BY <1>3, <1>4, <1>5, <1>6, <1>7 DEF ScalarMul

\* Points with one x have the same y, or opposite ones.
LEMMA SameOrOpposite ==
    ASSUME NEW x \in 0 .. P - 1, NEW y \in 0 .. P - 1, NEW z \in 0 .. P - 1,
           OnCurve(x, y), OnCurve(x, z)
    PROVE  y = z \/ (y + z) % P = 0
<1> DEFINE c == x * x * x
           u == y * y - c + 3 * x - B
           v == z * z - c + 3 * x - B
<1>1. P \in Nat \ {0} /\ IsPrime(P) /\ B \in Int
  BY FieldAssumption DEF IsPrime
<1>2. c \in Int /\ u % P = 0 /\ v % P = 0
  BY <1>1 DEF OnCurve
<1> HIDE DEF c
<1>3. u \in Int /\ v \in Int /\ u - v = y * y - z * z
  BY <1>1, <1>2
<1> HIDE DEF u, v
<1>4. (u - v) % P = 0
  <2>1. u \in Int /\ v \in Int /\ u % P = v % P
    BY <1>2, <1>3
  <2>2. QED BY <1>1, <2>1, ModZero
<1>5. (y * y) % P = (z * z) % P
  <2> DEFINE m == y * y
             n == z * z
  <2>1. m \in Int /\ n \in Int /\ (m - n) % P = 0
    BY <1>1, <1>3, <1>4
  <2> HIDE DEF m, n
  <2>2. m % P = n % P
    BY <1>1, <2>1, ModZero
  <2>3. QED BY <2>2 DEF m, n
<1>6. (y - z) % P = 0 \/ (y + z) % P = 0
  <2>1. y \in Int /\ z \in Int /\ IsPrime(P)
    BY <1>1
  <2>2. QED BY <1>5, <2>1, PrimeSquares
<1>7. CASE (y - z) % P = 0
  <2>1. y % P = z % P
    BY <1>1, <1>7, ModZero
  <2>2. QED BY <1>1, <2>1, ModSmall
<1>8. QED BY <1>6, <1>7

\* No two multiples have the same x, but for a number and its opposite.
LEMMA SameX ==
    ASSUME NEW a \in 1 .. Order - 1, NEW b \in 1 .. Order - 1
    PROVE  ScalarMul(a, Generator)[1] = ScalarMul(b, Generator)[1] <=> a = b \/ a + b = Order
<1> DEFINE p == ScalarMul(a, Generator)
           q == ScalarMul(b, Generator)
<1>1. /\ Order \in Nat \ {0} /\ P \in Nat \ {0} /\ IsPrime(P)
      /\ a \in 0 .. Order - 1 /\ b \in 0 .. Order - 1 /\ 0 \in 0 .. Order - 1
  BY OrderAssumption, FieldAssumption DEF IsPrime
<1>2. /\ p \in CurvePoints /\ q \in CurvePoints /\ p # Identity /\ q # Identity
      /\ AddPoints(p, q) = ScalarMul((a + b) % Order, Generator)
      /\ p = q => a = b
  <2>1. p \in CurvePoints /\ q \in CurvePoints
    BY <1>1, ScalarMulFacts
  <2>2. p # Identity /\ q # Identity
    BY <1>1, ScalarMulFacts
  <2>3. AddPoints(p, q) = ScalarMul((a + b) % Order, Generator)
    BY <1>1, ScalarMulFacts
  <2>4. p = q => a = b
    BY <1>1, ScalarMulFacts
  <2>5. QED BY <2>1, <2>2, <2>3, <2>4
<1>3. a = b => p = q
  OBVIOUS
<1>4. (a + b) % Order \in 0 .. Order - 1 /\ ((a + b) % Order = 0 <=> a + b = Order)
  <2> DEFINE c == a + b
  <2>1. c \in Int /\ c > 0 /\ c < 2 * Order
    BY <1>1
  <2> HIDE DEF c
  <2>2. c % Order \in 0 .. Order - 1 /\ c \div Order \in Int /\ c = Order * (c \div Order) + (c % Order)
    BY <1>1, <2>1, DivMod
  <2>3. c % Order = 0 => c = Order
    <3> DEFINE d == c \div Order
               m == c % Order
    <3>1. d \in Int /\ m \in Int /\ c = Order * d + m
      BY <2>2
    <3> HIDE DEF d, m
    <3> SUFFICES ASSUME m = 0 PROVE c = Order
      BY DEF m
    <3>2. d \in Int /\ c = Order * d
      BY <1>1, <3>1
    <3>3. CASE d <= 0
      <4>1. Order * d <= 0
        BY <1>1, <3>2, <3>3
      <4>2. QED BY <2>1, <3>2, <4>1
    <3>4. CASE d = 1
      BY <1>1, <3>2, <3>4
    <3>5. CASE d >= 2
      <4>1. Order * d >= 2 * Order
        BY <1>1, <3>2, <3>5
      <4>2. QED BY <1>1, <2>1, <3>2, <4>1
    <3>6. QED BY <3>2, <3>3, <3>4, <3>5
  <2>4. c = Order => c % Order = 0
    <3>1. Order = Order * 1 + 0 /\ (Order * 1 + 0) % Order = 0
      BY <1>1, ModUnique
    <3>2. QED BY <3>1
  <2>5. c % Order \in 0 .. Order - 1 /\ (c % Order = 0 <=> c = Order)
    BY <2>2, <2>3, <2>4
  <2>6. QED BY <2>5 DEF c
<1>5. AddPoints(p, q) = Identity <=> a + b = Order
  <2> DEFINE c == (a + b) % Order
  <2>1. c \in 0 .. Order - 1 /\ (c = 0 <=> a + b = Order)
    BY <1>4
  <2>2. AddPoints(p, q) = ScalarMul(c, Generator)
    BY <1>2
  <2> HIDE DEF c, p, q
  <2>3. ScalarMul(c, Generator) = Identity <=> c = 0
    BY <1>1, <2>1, ScalarMulFacts
  <2>4. QED BY <2>1, <2>2, <2>3
<1> HIDE DEF p, q
<1>6. AddPoints(p, q) = Identity => p[1] = q[1]
  BY <1>2 DEF AddPoints, Identity
<1>7. ASSUME p[1] = q[1] PROVE p = q \/ AddPoints(p, q) = Identity
  <2>1. /\ p = << p[1], p[2] >> /\ p[1] \in 0 .. P - 1 /\ p[2] \in 0 .. P - 1
        /\ OnCurve(p[1], p[2])
    BY <1>2, PointCoordinates
  <2>2. /\ q = << p[1], q[2] >> /\ q[2] \in 0 .. P - 1 /\ OnCurve(p[1], q[2])
    BY <1>2, <1>7, PointCoordinates
  <2>3. p[2] = q[2] \/ (p[2] + q[2]) % P = 0
    BY <2>1, <2>2, SameOrOpposite
  <2>4. QED BY <1>2, <1>7, <2>1, <2>2, <2>3 DEF AddPoints
<1>8. p[1] = q[1] <=> a = b \/ a + b = Order
  BY <1>2, <1>3, <1>5, <1>6, <1>7
<1>9. QED BY <1>8 DEF p, q

---------------------------------------------------------------------------
(* Verification. *)

\* The inverses of the model are inverses.
LEMMA InverseFacts ==
    ASSUME NEW a \in 1 .. Order - 1
    PROVE  InverseN[a] \in 1 .. Order - 1 /\ (a * InverseN[a]) % Order = 1
<1>1. IsPrime(Order)
  BY OrderAssumption DEF IsPrime
<1>2. \E b \in 1 .. Order - 1 : (a * b) % Order = 1
  BY <1>1, PrimeInverse
<1>3. InverseN[a] = CHOOSE b \in 1 .. Order - 1 : (a * b) % Order = 1
  BY DEF InverseN
<1>4. QED BY <1>2, <1>3

\* An inverse times its number disappears from a product.
LEMMA InverseCancels ==
    ASSUME NEW s \in 1 .. Order - 1, NEW w \in Int, NEW i \in Int, (s * i) % Order = 1
    PROVE  (((i * w) % Order) * s) % Order = w % Order
<1> DEFINE t == i * w
           c == s * i
<1>1. Order \in Nat \ {0} /\ s \in Int /\ t \in Int /\ c \in Int /\ t * s = c * w
  BY OrderAssumption
<1>2. c % Order = 1 % Order
  <2>1. 1 \in 0 .. Order - 1
    BY OrderAssumption
  <2>2. QED BY <1>1, <2>1, ModSmall
<1> HIDE DEF t, c
<1>3. ((t % Order) * s) % Order = (t * s) % Order
  BY <1>1, ModMul
<1>4. (c * w) % Order = (1 * w) % Order
  <2>1. 1 \in Int
    OBVIOUS
  <2>2. QED BY <1>1, <1>2, <2>1, SameModMul
<1>5. QED BY <1>1, <1>3, <1>4 DEF t

\* Verification computes the multiple of the generator by the number that was
\* the nonce, if the signature was made with this key.
LEMMA VerifiedPoint ==
    ASSUME NEW k \in 1 .. Order - 1, NEW hash \in Nat,
           NEW r \in 1 .. Order - 1, NEW s \in 1 .. Order - 1
    PROVE  \E t \in 0 .. Order - 1 :
              /\ (t * s) % Order = (hash + r * k) % Order
              /\ EcdsaVerify(PublicKey(k), hash, [r |-> r, s |-> s])
                     <=> t # 0 /\ ScalarMul(t, Generator)[1] % Order = r
<1> DEFINE i == InverseN[s]
           sig == [r |-> r, s |-> s]
           u1 == (hash * i) % Order
           u2 == (r * i) % Order
           w == hash + r * k
           t == (i * w) % Order
           point == AddPoints(ScalarMul(u1, Generator), ScalarMul(u2, PublicKey(k)))
<1>1. /\ i \in 1 .. Order - 1 /\ i \in Int /\ (s * i) % Order = 1
      /\ Order \in Nat \ {0} /\ Order > 1 /\ k \in 0 .. Order - 1
      /\ hash * i \in Int /\ r * i \in Int /\ w \in Int /\ i * w \in Int
  BY InverseFacts, OrderAssumption
<1> HIDE DEF i
<1>2. u1 \in 0 .. Order - 1 /\ u2 \in 0 .. Order - 1 /\ t \in 0 .. Order - 1
  <2> DEFINE a == hash * i
             b == r * i
             c == i * w
  <2>1. a \in Int /\ b \in Int /\ c \in Int
    BY <1>1
  <2> HIDE DEF a, b, c
  <2>2. a % Order \in 0 .. Order - 1 /\ b % Order \in 0 .. Order - 1 /\ c % Order \in 0 .. Order - 1
    BY <1>1, <2>1, DivMod
  <2>3. QED BY <2>2 DEF a, b, c
<1>3. (u1 + ((k * u2) % Order)) % Order = t
  <2> DEFINE a == hash * i
             b == r * i
             c == k * b
             d == k * u2
             e == k * u2 + a
  <2>1. a \in Int /\ b \in Int /\ c \in Int /\ d \in Int /\ a + c = i * w
    <3>1. i * w = hash * i + (r * k) * i
      BY <1>1
    <3>2. (r * k) * i = k * (r * i)
      BY <1>1
    <3>3. QED BY <1>1, <1>2, <3>1, <3>2
  <2>2. d % Order = c % Order
    <3>1. u2 = b % Order
      OBVIOUS
    <3>2. k \in Int
      OBVIOUS
    <3> HIDE DEF b
    <3>3. ((b % Order) * k) % Order = (b * k) % Order
      BY <1>1, <2>1, <3>2, ModMul
    <3>4. d = (b % Order) * k /\ c = b * k
      BY <1>2, <2>1, <3>1
    <3>5. QED BY <3>3, <3>4
  <2>3. u1 = a % Order
    OBVIOUS
  <2> HIDE DEF a, b, c, d
  <2>4. d % Order \in Int /\ a % Order \in Int /\ c % Order \in Int
    BY <1>1, <2>1, DivMod
  <2>5. ((a % Order) + (d % Order)) % Order = (a + (d % Order)) % Order
    BY <1>1, <2>1, <2>4, ModAdd
  <2>6. ((c % Order) + a) % Order = (c + a) % Order
    BY <1>1, <2>1, ModAdd
  <2>7. a + (d % Order) = (c % Order) + a /\ c + a = i * w
    BY <2>1, <2>2, <2>4
  <2>8. ((a % Order) + (d % Order)) % Order = (i * w) % Order
    BY <2>5, <2>6, <2>7
  <2>9. QED BY <2>3, <2>8 DEF d
<1>4. point = ScalarMul(t, Generator)
  <2> DEFINE j == (k * u2) % Order
  <2>1. j \in 0 .. Order - 1
    <3> DEFINE d == k * u2
    <3>1. d \in Int
      BY <1>2
    <3> HIDE DEF d
    <3>2. d % Order \in 0 .. Order - 1
      BY <1>1, <3>1, DivMod
    <3>3. QED BY <3>2 DEF d
  <2>2. ScalarMul(u2, PublicKey(k)) = ScalarMul(j, Generator)
    BY <1>1, <1>2, ScalarMulFacts DEF PublicKey
  <2>3. (u1 + j) % Order = t
    BY <1>3
  <2> HIDE DEF u1, u2, j, t
  <2>4. AddPoints(ScalarMul(u1, Generator), ScalarMul(j, Generator))
            = ScalarMul((u1 + j) % Order, Generator)
    BY <1>2, <2>1, ScalarMulFacts
  <2>5. QED BY <2>2, <2>3, <2>4
<1>5. EcdsaVerify(PublicKey(k), hash, sig) <=> point # Identity /\ point[1] % Order = r
  <2>1. sig.r = r /\ sig.s = s
    OBVIOUS
  <2> HIDE DEF sig
  <2>2. QED BY <2>1 DEF EcdsaVerify, i
<1>6. (t * s) % Order = w % Order
  <2> HIDE DEF w
  <2>1. QED BY <1>1, InverseCancels
<1>7. point # Identity <=> t # 0
  <2> HIDE DEF t, point
  <2>1. 0 \in 0 .. Order - 1
    BY <1>1
  <2>2. QED BY <1>2, <1>4, <2>1, ScalarMulFacts
<1> HIDE DEF t, point
<1>8. QED BY <1>2, <1>4, <1>5, <1>6, <1>7

\* A number below the order is s times something in one way.
LEMMA SolveForNonce ==
    ASSUME NEW s \in 1 .. Order - 1, NEW t \in 0 .. Order - 1, NEW v \in 0 .. Order - 1,
           (t * s) % Order = (v * s) % Order
    PROVE  t = v
<1>1. /\ IsPrime(Order) /\ Order \in Nat \ {0} /\ s \in Int /\ t \in Int /\ v \in Int
      /\ t * s = s * t /\ v * s = s * v /\ s \in 0 .. Order - 1
  BY OrderAssumption DEF IsPrime
<1>2. s % Order # 0
  BY <1>1, ModSmall
<1>3. (s * t) % Order = (s * v) % Order
  BY <1>1
<1>4. t % Order = v % Order
  BY <1>1, <1>2, <1>3, PrimeCancel
<1>5. QED BY <1>1, <1>4, ModSmall

\* Two positive numbers below the order whose sum it divides add up to it.
LEMMA OppositeNumbers ==
    ASSUME NEW a \in 0 .. Order - 1, NEW b \in 1 .. Order - 1, (a + b) % Order = 0
    PROVE  a + b = Order
<1> DEFINE c == a + b
           d == c \div Order
           m == c % Order
<1>1. Order \in Nat \ {0} /\ c \in Int /\ c > 0 /\ c < 2 * Order /\ m = 0
  BY OrderAssumption
<1> HIDE DEF c
<1>2. d \in Int /\ m \in Int /\ c = Order * d + m
  BY <1>1, DivMod
<1> HIDE DEF d, m
<1>3. c = Order * d
  BY <1>1, <1>2
<1>4. CASE d <= 0
  <2>1. Order * d <= 0
    BY <1>1, <1>2, <1>4
  <2>2. QED BY <1>1, <1>3, <2>1
<1>5. CASE d = 1
  BY <1>1, <1>3, <1>5 DEF c
<1>6. CASE d >= 2
  <2>1. Order * d >= 2 * Order
    BY <1>1, <1>2, <1>6
  <2>2. QED BY <1>1, <1>3, <2>1
<1>7. QED BY <1>2, <1>4, <1>5, <1>6

\* If the opposite of s solves for v, s solves for the opposite of v.
LEMMA OppositeNonce ==
    ASSUME NEW s \in 1 .. Order - 1, NEW t \in 0 .. Order - 1, NEW v \in 1 .. Order - 1,
           (t * (Order - s)) % Order = (v * s) % Order
    PROVE  t + v = Order
<1> DEFINE a == t * (Order - s)
           b == v * s
           c == (t + v) * s
<1>1. /\ IsPrime(Order) /\ Order \in Nat \ {0} /\ s \in Int /\ t \in Int /\ v \in Int
      /\ t + v \in Int /\ s \in 0 .. Order - 1
  BY OrderAssumption DEF IsPrime
<1>2. a \in Int /\ b \in Int /\ c \in Int /\ b - a = c + Order * (-t) /\ -t \in Int
  BY <1>1
<1>3. b % Order = a % Order
  OBVIOUS
<1> HIDE DEF a, b
<1>4. (b - a) % Order = 0
  BY <1>1, <1>2, <1>3, ModZero
<1> DEFINE d == b - a
<1>5. d \in Int /\ d = c + Order * (-t) /\ d % Order = 0
  BY <1>2, <1>4
<1> HIDE DEF c, d
<1>6. c % Order = 0
  BY <1>1, <1>2, <1>5, SameMod
<1>7. (t + v) % Order = 0 \/ s % Order = 0
  <2> DEFINE x == t + v
  <2>1. x \in Int /\ c = x * s
    BY <1>1 DEF c
  <2> HIDE DEF x
  <2>2. x % Order = 0 \/ s % Order = 0
    BY <1>1, <1>6, <2>1, PrimeProduct
  <2>3. QED BY <2>2 DEF x
<1>8. s % Order # 0
  BY <1>1, ModSmall
<1>9. QED BY <1>7, <1>8, OppositeNumbers

\* What signing returns: r of the nonce, and s or its opposite, the lower.
LEMMA MadeSignature ==
    ASSUME NEW k \in 1 .. Order - 1, NEW hash \in Nat, NEW nonce \in 1 .. Order - 1,
           NEW sig \in SignMsg(k, hash, nonce)
    PROVE  \E r, s, s0 \in 1 .. Order - 1 :
              /\ sig = [r |-> r, s |-> s]
              /\ r = ScalarMul(nonce, Generator)[1] % Order
              /\ (nonce * s0) % Order = (hash + r * k) % Order
              /\ s = s0 \/ s = Order - s0
              /\ 2 * s <= Order
<1> DEFINE r == ScalarMul(nonce, Generator)[1] % Order
           w == hash + r * k
           i == InverseN[nonce]
           s0 == (i * w) % Order
           made == [r |-> r, s |-> s0]
<1>1. /\ Order \in Nat \ {0} /\ nonce \in 0 .. Order - 1 /\ 0 \in 0 .. Order - 1
      /\ i \in 1 .. Order - 1 /\ (nonce * i) % Order = 1
  BY OrderAssumption, InverseFacts
<1>2. r \in 0 .. Order - 1
  <2>1. ScalarMul(nonce, Generator) \in CurvePoints /\ ScalarMul(nonce, Generator) # Identity
    BY <1>1, ScalarMulFacts
  <2>2. ScalarMul(nonce, Generator)[1] \in Int
    BY <2>1, PointCoordinates, FieldAssumption
  <2>3. QED BY <1>1, <2>2, DivMod
<1>3. /\ EcdsaSign(k, hash, nonce) = IF r # 0 /\ s0 # 0 THEN Some(made) ELSE None
      /\ SignMsg(k, hash, nonce)
             = {UnwrapOr(NormalizeS(x), x) : x \in EcdsaSign(k, hash, nonce)}
  BY DEF EcdsaSign, SignMsg
<1> HIDE DEF r, i
<1>4. w \in Int /\ i * w \in Int /\ i \in Int
  BY <1>1, <1>2
<1> HIDE DEF w
<1>5. s0 \in 0 .. Order - 1 /\ (s0 * nonce) % Order = w % Order
  <2> DEFINE c == i * w
  <2>1. c \in Int
    BY <1>4
  <2> HIDE DEF c
  <2>2. c % Order \in 0 .. Order - 1
    BY <1>1, <2>1, DivMod
  <2>3. (((i * w) % Order) * nonce) % Order = w % Order
    BY <1>1, <1>4, InverseCancels
  <2>4. QED BY <2>2, <2>3 DEF c
<1> HIDE DEF s0
<1>6. (nonce * s0) % Order = w % Order
  <2>1. nonce * s0 = s0 * nonce
    BY <1>1, <1>5
  <2>2. QED BY <1>5, <2>1
<1>7. r # 0 /\ s0 # 0 /\ sig = UnwrapOr(NormalizeS(made), made)
  BY <1>3 DEF Some, None
<1>8. r \in 1 .. Order - 1 /\ s0 \in 1 .. Order - 1
  BY <1>2, <1>5, <1>7
<1>9. CASE 2 * s0 > Order
  <2> DEFINE s == Order - s0
             low == [r |-> r, s |-> s]
  <2>1. NormalizeS(made) = Some(low)
    BY <1>9 DEF NormalizeS
  <2>2. sig = low
    <3> HIDE DEF low, made
    <3>1. QED BY <1>7, <2>1, UnwrapSome
  <2>3. s \in 1 .. Order - 1 /\ 2 * s <= Order
    BY <1>1, <1>8, <1>9
  <2>4. QED BY <1>6, <1>8, <2>2, <2>3 DEF r, w
<1>10. CASE ~(2 * s0 > Order)
  <2>1. sig = made
    BY <1>7, <1>10 DEF NormalizeS, UnwrapOr
  <2>2. 2 * s0 <= Order
    BY <1>1, <1>8, <1>10
  <2>3. QED BY <1>6, <1>8, <2>1, <2>2 DEF r, w
<1>11. QED BY <1>9, <1>10

\* What is signed verifies.
LEMMA MadeIsVerified ==
    ASSUME NEW k \in 1 .. Order - 1, NEW hash \in Nat, NEW nonce \in 1 .. Order - 1,
           NEW sig \in SignMsg(k, hash, nonce)
    PROVE  VerifySig(PublicKey(k), hash, sig)
<1>1. PICK r \in 1 .. Order - 1, s \in 1 .. Order - 1, s0 \in 1 .. Order - 1 :
        /\ sig = [r |-> r, s |-> s]
        /\ r = ScalarMul(nonce, Generator)[1] % Order
        /\ (nonce * s0) % Order = (hash + r * k) % Order
        /\ s = s0 \/ s = Order - s0
        /\ 2 * s <= Order
  BY MadeSignature
<1>2. PICK t \in 0 .. Order - 1 :
        /\ (t * s) % Order = (hash + r * k) % Order
        /\ EcdsaVerify(PublicKey(k), hash, [r |-> r, s |-> s])
               <=> t # 0 /\ ScalarMul(t, Generator)[1] % Order = r
  BY VerifiedPoint
<1>3. Order \in Nat \ {0} /\ nonce \in 0 .. Order - 1
  BY OrderAssumption
<1>4. t = nonce \/ t + nonce = Order
  <2>1. CASE s = s0
    <3>1. (t * s) % Order = (nonce * s) % Order
      BY <1>1, <1>2, <2>1
    <3>2. QED BY <1>3, <3>1, SolveForNonce
  <2>2. CASE s = Order - s0
    <3>1. (t * (Order - s0)) % Order = (nonce * s0) % Order
      BY <1>1, <1>2, <2>2
    <3>2. QED BY <3>1, OppositeNonce
  <2>3. QED BY <1>1, <2>1, <2>2
<1>5. t \in 1 .. Order - 1
  BY <1>3, <1>4
<1>6. ScalarMul(t, Generator)[1] = ScalarMul(nonce, Generator)[1]
  BY <1>4, <1>5, SameX
<1>7. EcdsaVerify(PublicKey(k), hash, sig)
  BY <1>1, <1>2, <1>5, <1>6
<1>8. NormalizeS(sig) = None
  <2>1. sig.s = s /\ ~(2 * s > Order)
    BY <1>1, <1>3
  <2>2. QED BY <2>1 DEF NormalizeS
<1>9. QED BY <1>1, <1>7, <1>8 DEF VerifySig

\* Another x coordinate of the same r would be beyond the field.
LEMMA XOfR ==
    ASSUME NEW r \in 1 .. Order - 1, r + Order >= P, NEW x \in 0 .. P - 1, x % Order = r
    PROVE  x = r
<1>1. Order \in Nat \ {0} /\ P \in Nat
  BY OrderAssumption, FieldAssumption
<1> DEFINE q == x \div Order
<1>2. q \in Int /\ x = Order * q + r
  BY <1>1, DivMod
<1> HIDE DEF q
<1>3. q < 1
  <2> SUFFICES ASSUME q >= 1
               PROVE  FALSE
    BY <1>2
  <2>1. Order * q >= Order
    BY <1>1, <1>2
  <2>2. QED BY <1>1, <1>2, <2>1
<1>4. q > 0 - 1
  <2> SUFFICES ASSUME q <= 0 - 1
               PROVE  FALSE
    BY <1>2
  <2>1. Order * q <= 0 - Order
    BY <1>1, <1>2
  <2>2. QED BY <1>1, <1>2, <2>1
<1>5. q = 0
  BY <1>2, <1>3, <1>4
<1>6. QED BY <1>1, <1>2, <1>5

\* For each r that only one x coordinate has, one low s is accepted.
LEMMA VerifiedOnce ==
    ASSUME NEW k \in 1 .. Order - 1, NEW hash \in Nat,
           NEW r \in 1 .. Order - 1, r + Order >= P, NEW s \in 1 .. Order - 1, NEW t \in 1 .. Order - 1,
           VerifySig(PublicKey(k), hash, [r |-> r, s |-> s]),
           VerifySig(PublicKey(k), hash, [r |-> r, s |-> t])
    PROVE  s = t
<1>1. PICK a \in 0 .. Order - 1 :
        /\ (a * s) % Order = (hash + r * k) % Order
        /\ EcdsaVerify(PublicKey(k), hash, [r |-> r, s |-> s])
               <=> a # 0 /\ ScalarMul(a, Generator)[1] % Order = r
  BY VerifiedPoint
<1>2. PICK b \in 0 .. Order - 1 :
        /\ (b * t) % Order = (hash + r * k) % Order
        /\ EcdsaVerify(PublicKey(k), hash, [r |-> r, s |-> t])
               <=> b # 0 /\ ScalarMul(b, Generator)[1] % Order = r
  BY VerifiedPoint
<1>3. /\ a # 0 /\ ScalarMul(a, Generator)[1] % Order = r
      /\ b # 0 /\ ScalarMul(b, Generator)[1] % Order = r
  BY <1>1, <1>2 DEF VerifySig
<1>4. Order \in Nat \ {0} /\ a \in 1 .. Order - 1 /\ b \in 1 .. Order - 1
  BY <1>3, OrderAssumption
<1>5. \A x \in 1 .. Order - 1 :
        ScalarMul(x, Generator)[1] % Order = r => ScalarMul(x, Generator)[1] = r
  <2> SUFFICES ASSUME NEW x \in 1 .. Order - 1,
                      ScalarMul(x, Generator)[1] % Order = r
               PROVE  ScalarMul(x, Generator)[1] = r
    OBVIOUS
  <2> DEFINE p == ScalarMul(x, Generator)
  <2>1. x \in 0 .. Order - 1 /\ 0 \in 0 .. Order - 1 /\ x # 0
    BY <1>4
  <2>2. p \in CurvePoints /\ p # Identity
    BY <2>1, ScalarMulFacts
  <2>3. p[1] % Order = r
    OBVIOUS
  <2> HIDE DEF p
  <2>4. p[1] \in 0 .. P - 1
    BY <2>2, PointCoordinates
  <2>5. p[1] = r
    BY <1>4, <2>3, <2>4, XOfR
  <2>6. QED BY <2>5 DEF p
<1>6. ScalarMul(a, Generator)[1] = ScalarMul(b, Generator)[1]
  BY <1>3, <1>4, <1>5
<1>7. a = b \/ a + b = Order
  BY <1>4, <1>6, SameX
<1>8. 2 * s <= Order /\ 2 * t <= Order
  <2>1. [r |-> r, s |-> s].s = s /\ [r |-> r, s |-> t].s = t
    OBVIOUS
  <2>2. \A x : Some(x) # None
    BY DEF Some, None
  <2>3. QED BY <1>4, <2>1, <2>2 DEF VerifySig, NormalizeS
<1>9. (a * s) % Order = (b * t) % Order
  BY <1>1, <1>2
<1>10. CASE a = b
  <2>1. (s * a) % Order = (t * a) % Order
    <3>1. a * s = s * a /\ b * t = t * a
      BY <1>4, <1>10
    <3>2. QED BY <1>9, <3>1
  <2>2. s \in 0 .. Order - 1 /\ t \in 0 .. Order - 1
    BY <1>4
  <2>3. QED BY <1>4, <2>1, <2>2, SolveForNonce
<1>11. CASE a + b = Order
  <2>1. a = Order - b
    BY <1>4, <1>11
  <2>2. (s * (Order - b)) % Order = (t * b) % Order
    <3>1. a * s = s * (Order - b) /\ b * t = t * b
      BY <1>4, <2>1
    <3>2. QED BY <1>9, <3>1
  <2>3. s \in 0 .. Order - 1
    BY <1>4
  <2>4. s + t = Order
    BY <1>4, <2>2, <2>3, OppositeNonce
  <2>5. QED BY <1>4, <1>8, <2>4
<1>12. QED BY <1>7, <1>10, <1>11

---------------------------------------------------------------------------
(* Public keys and their bytes. *)

LEMMA PublicKeyIsPoint ==
    ASSUME NEW k \in 1 .. Order - 1
    PROVE  PublicKey(k) \in CurvePoints /\ PublicKey(k) # Identity
<1>1. k \in 0 .. Order - 1 /\ 0 \in 0 .. Order - 1 /\ k # 0
  BY OrderAssumption
<1>2. QED BY <1>1, ScalarMulFacts DEF PublicKey

\* Both forms of the bytes of a point are read as that point.
LEMMA FormsAreRead ==
    ASSUME NEW q \in CurvePoints, q # Identity, NEW form \in {Uncompressed(q), Compressed(q)}
    PROVE  PublicFromBytes(form) = {q}
<1>1. q \in PublicFromBytes(form)
  BY DEF PublicFromBytes
<1>2. ASSUME NEW p \in PublicFromBytes(form)
      PROVE  p = q
  <2>1. /\ p \in CurvePoints /\ p # Identity /\ form \in {Uncompressed(p), Compressed(p)}
    BY DEF PublicFromBytes
  <2>2. /\ p = << p[1], p[2] >> /\ p[1] \in 0 .. P - 1 /\ p[2] \in 0 .. P - 1
        /\ OnCurve(p[1], p[2])
    BY <2>1, PointCoordinates
  <2>3. /\ q = << q[1], q[2] >> /\ q[1] \in 0 .. P - 1 /\ q[2] \in 0 .. P - 1
        /\ OnCurve(q[1], q[2])
    BY PointCoordinates
  <2>4. /\ Uncompressed(p).tag = 4 /\ Uncompressed(q).tag = 4
        /\ Compressed(p).tag = 2 + (p[2] % 2) /\ Compressed(q).tag = 2 + (q[2] % 2)
        /\ Uncompressed(p).x = p[1] /\ Uncompressed(q).x = q[1]
        /\ Compressed(p).x = p[1] /\ Compressed(q).x = q[1]
        /\ Uncompressed(p).y = p[2] /\ Uncompressed(q).y = q[2]
    BY DEF Uncompressed, Compressed
  <2>5. p[2] % 2 \in 0 .. 1 /\ q[2] % 2 \in 0 .. 1
    BY <2>2, <2>3, FieldAssumption
  <2>6. 2 + (p[2] % 2) # 4 /\ 2 + (q[2] % 2) # 4
    BY <2>5
  <2>7. \/ Uncompressed(p) = Uncompressed(q)
        \/ Compressed(p) = Compressed(q)
    BY <2>1, <2>4, <2>6
  <2>8. p[1] = q[1]
    BY <2>4, <2>7
  <2>9. p[2] = q[2]
    <3>1. CASE Uncompressed(p) = Uncompressed(q)
      BY <2>4, <3>1
    <3>2. CASE Compressed(p) = Compressed(q)
      <4>1. p[2] % 2 = q[2] % 2
        BY <2>4, <2>5, <3>2
      <4>2. p[2] = q[2] \/ (p[2] + q[2]) % P = 0
        BY <2>2, <2>3, <2>8, SameOrOpposite
      <4>3. IsPrime(P) /\ P > 2
        BY FieldAssumption DEF IsPrime
      <4>4. QED BY <2>2, <2>3, <4>1, <4>2, <4>3, OppositeParity
    <3>3. QED BY <2>7, <3>1, <3>2
  <2>10. QED BY <2>2, <2>3, <2>8, <2>9
<1>3. QED BY <1>1, <1>2

---------------------------------------------------------------------------
(* What is signed. *)

\* Handles hold numbers that are keys.
ScalarsHeld == \A h \in Handles : \A x \in keys[h] : x \in 1 .. Order - 1

\* The last signature is one that signing returns for a key and a nonce.
SignedWithKey ==
    \A e \in signed : \E k, nonce \in 1 .. Order - 1 :
        e.public = PublicKey(k) /\ e.hash \in Nat /\ e.sig \in SignMsg(k, e.hash, nonce)

LEMMA GiveScalar ==
    ASSUME HeldAsOwned, ScalarsHeld, NEW h \in Handles, NEW x \in 1 .. Order - 1, Give(h, x)
    PROVE  ScalarsHeld'
  BY DEF HeldAsOwned, ScalarsHeld, Give, Some

LEMMA FromSliceIsScalar ==
    ASSUME NEW number PROVE \A x \in FromSlice(number) : x \in 1 .. Order - 1
  BY DEF FromSlice, Some, None

LEMMA SignedInit == Init => ScalarsHeld /\ SignedWithKey
  BY DEF Init, ScalarsHeld, SignedWithKey, None

LEMMA SignedStep ==
    ASSUME ScalarsHeld, NEW h \in Handles, NEW hash \in Hashes, NEW nonce \in Nonces,
           Sign(h, hash, nonce)
    PROVE  SignedWithKey'
<1>1. PICK k \in keys[h] : \E sig \in SignMsg(k, hash, nonce) :
        signed' = Some([handle |-> h, owner |-> owner[h], live |-> h \notin zeroized,
                        public |-> PublicKey(k), hash |-> hash, sig |-> sig])
  BY DEF Sign
<1>2. PICK sig \in SignMsg(k, hash, nonce) :
        signed' = Some([handle |-> h, owner |-> owner[h], live |-> h \notin zeroized,
                        public |-> PublicKey(k), hash |-> hash, sig |-> sig])
  BY <1>1
<1> DEFINE e == [handle |-> h, owner |-> owner[h], live |-> h \notin zeroized,
                 public |-> PublicKey(k), hash |-> hash, sig |-> sig]
<1>3. signed' = {e}
  BY <1>2 DEF Some
<1>4. e.public = PublicKey(k) /\ e.hash = hash /\ e.sig = sig
  OBVIOUS
<1>5. k \in 1 .. Order - 1 /\ nonce \in 1 .. Order - 1 /\ hash \in Nat
  BY NumbersAssumption DEF ScalarsHeld
<1> HIDE DEF e
<1>6. QED BY <1>3, <1>4, <1>5 DEF SignedWithKey, PublicKey, SignMsg, EcdsaSign, NormalizeS

LEMMA SignedNext ==
    ASSUME HeldAsOwned, LoopTyped, ScalarsHeld, SignedWithKey, [Next]_vars
    PROVE  ScalarsHeld' /\ SignedWithKey'
<1>1. signed' = signed => SignedWithKey'
  BY DEF SignedWithKey
<1>2. ASSUME NEW h \in Handles, GenerateKey(h)
      PROVE  ScalarsHeld' /\ signed' = signed
  BY <1>2, GiveScalar, NumbersAssumption DEF GenerateKey
<1>3. ASSUME NEW h \in Handles, NEW number \in SecretNumbers, FromBytes(h, number)
      PROVE  ScalarsHeld' /\ signed' = signed
  BY <1>3, GiveScalar, FromSliceIsScalar DEF FromBytes
<1>4. ASSUME NEW h \in Handles, NEW g \in Handles, CloneKey(h, g)
      PROVE  ScalarsHeld' /\ signed' = signed
  BY <1>4, GiveScalar, FromSliceIsScalar DEF CloneKey
<1>5. ASSUME Attempt
      PROVE  ScalarsHeld' /\ signed' = signed
  <2> PICK d \in loop : LET key == FromSlice(digest[d.seed][d.counter])
                        IN  IF key = None THEN NextAttempt(d)
                            ELSE /\ \E secret \in key : Give(d.handle, secret)
                                 /\ Return(d, key)
    BY <1>5 DEF Attempt
  <2>1. CASE FromSlice(digest[d.seed][d.counter]) = None
    BY <1>5, <2>1 DEF NextAttempt, Attempt, ScalarsHeld
  <2>2. CASE FromSlice(digest[d.seed][d.counter]) # None
    BY <1>5, <2>2, GiveScalar, FromSliceIsScalar DEF Attempt, LoopTyped
  <2>3. QED BY <2>1, <2>2
<1>6. ASSUME NEW h \in Handles, ZeroizeKey(h)
      PROVE  ScalarsHeld' /\ signed' = signed
  <2>1. keys' = [keys EXCEPT ![h] = {1}] /\ 1 \in 1 .. Order - 1
    BY <1>6, FromSliceOfDummy, OrderAssumption DEF ZeroizeKey, Some, None
  <2>2. QED BY <1>6, <2>1 DEF ZeroizeKey, HeldAsOwned, ScalarsHeld
<1>7. ASSUME NEW h \in Handles, DropKey(h)
      PROVE  ScalarsHeld' /\ signed' = signed
  BY <1>7 DEF DropKey, HeldAsOwned, ScalarsHeld, None
<1>8. ASSUME NEW h \in Handles, NEW hash \in Hashes, NEW nonce \in Nonces, Sign(h, hash, nonce)
      PROVE  ScalarsHeld' /\ SignedWithKey'
  BY <1>8, SignedStep DEF Sign, ScalarsHeld
<1>9. ASSUME NEW h \in Handles, NEW seed \in Seeds, StartDerive(h, seed)
      PROVE  ScalarsHeld' /\ signed' = signed
  BY <1>9 DEF StartDerive, ScalarsHeld
<1>10. UNCHANGED vars => ScalarsHeld' /\ signed' = signed
  BY DEF vars, ScalarsHeld
<1>11. QED
  BY <1>1, <1>2, <1>3, <1>4, <1>5, <1>6, <1>7, <1>8, <1>9, <1>10 DEF Next

\* What the theorems about signatures rest on, in every reachable state.
LEMMA SignedAlways == Spec => []SignedWithKey
<1> DEFINE Inv == /\ AttemptsRefused /\ DerivedAsSpecified /\ LoopTyped
                  /\ HeldAsOwned /\ SignsAsOwner /\ ScalarsHeld /\ SignedWithKey
<1>1. Init => Inv
  BY AttemptsInit, HeldInit, SignedInit DEF Init, LoopTyped, None
<1>2. Inv /\ [Next]_vars => Inv'
  BY AttemptsNext, LoopTypedNext, HeldNext, SignedNext DEF LoopTyped
<1>3. Inv => SignedWithKey
  OBVIOUS
<1>4. QED BY <1>1, <1>2, <1>3, PTL DEF Spec

(* What a key signs verifies under its public key, and both forms of the   *)
(* bytes of that key are read as it, on every curve of this form and for   *)
(* every key, hash and nonce (sign_msg, normalize_s, verify_sig and        *)
(* P521PublicKey::from_bytes).                                             *)
THEOREM SignaturesVerify == Spec => []SignedVerifies
<1>1. SignedWithKey => SignedVerifies
  <2> SUFFICES ASSUME SignedWithKey, NEW e \in signed,
                      NEW form \in {Uncompressed(e.public), Compressed(e.public)}
               PROVE  PublicFromBytes(form) = {e.public} /\ VerifySig(e.public, e.hash, e.sig)
    BY DEF SignedVerifies
  <2>1. PICK k \in 1 .. Order - 1, nonce \in 1 .. Order - 1 :
          e.public = PublicKey(k) /\ e.hash \in Nat /\ e.sig \in SignMsg(k, e.hash, nonce)
    BY DEF SignedWithKey
  <2>2. e.public \in CurvePoints /\ e.public # Identity
    BY <2>1, PublicKeyIsPoint
  <2>3. PublicFromBytes(form) = {e.public}
    BY <2>2, FormsAreRead
  <2>4. VerifySig(PublicKey(k), e.hash, e.sig)
    BY <2>1, MadeIsVerified
  <2>5. QED BY <2>1, <2>3, <2>4
<1>2. QED BY <1>1, SignedAlways, PTL

(* For each hash and r, a key accepts at most one s, whatever the curve,   *)
(* the key and the hash, but for the r, fewer than 1 in 2^260 of those of  *)
(* P-521, that two x coordinates have: the other root of the same x is the *)
(* one with the high s (verify_sig and normalize_s).                       *)
THEOREM NoSecondS == Spec => []OneS
<1>1. SignedWithKey => OneS
  <2> SUFFICES ASSUME SignedWithKey, NEW e \in signed,
                      NEW r \in 1 .. Order - 1, NEW s \in 1 .. Order - 1,
                      NEW t \in 1 .. Order - 1, r + Order >= P,
                      VerifySig(e.public, e.hash, [r |-> r, s |-> s]),
                      VerifySig(e.public, e.hash, [r |-> r, s |-> t])
               PROVE  s = t
    BY DEF OneS
  <2>1. PICK k \in 1 .. Order - 1 : e.public = PublicKey(k) /\ e.hash \in Nat
    BY DEF SignedWithKey
  <2>2. /\ VerifySig(PublicKey(k), e.hash, [r |-> r, s |-> s])
        /\ VerifySig(PublicKey(k), e.hash, [r |-> r, s |-> t])
    BY <2>1
  <2>3. QED BY <2>1, <2>2, VerifiedOnce
<1>2. QED BY <1>1, SignedAlways, PTL
=================================================================================
