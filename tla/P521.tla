----------------------------------- MODULE P521 -----------------------------------
(***************************************************************************)
(* P-521 keys and signatures (src/mdecc/p521.rs): keys from bytes, cloned, *)
(* zeroized and dropped, the derivation of a key from a seed, attempt by   *)
(* attempt, and ECDSA with the low-S rule, over a curve of the same form   *)
(* that is small enough to enumerate: y^2 = x^3 - 3x + b over a field of p *)
(* elements, with a group of prime order n.                                *)
(*                                                                         *)
(* Point arithmetic, ECDSA and SEC1 are the p521 crate's.  The SHA-512 of  *)
(* an attempt is any number, fixed for a behaviour.                        *)
(***************************************************************************)
EXTENDS Integers, Options

CONSTANTS P,             \* prime of the field
          B,             \* coefficient of the curve
          Order,         \* n
          Generator,
          Handles,       \* variables that hold a P521PrivateKey
          Seeds,         \* seeds of 66 bytes
          DigestValues,  \* values of the 64 bytes of a digest, all below n
          SecretNumbers, \* numbers read as a secret key
          RandomScalars, \* what SigningKey::random returns
          Hashes,        \* message hashes, as numbers modulo n
          Nonces,        \* of signatures
          MaxCounter,    \* last value of the counter: 255 in the code
          MaxCalls       \* bound: calls of the library

ASSUME FieldAssumption ==
    P \in Nat /\ P > 2 /\ B \in Int /\ \A a, b \in 2 .. P - 1 : (a * b) % P # 0
ASSUME OrderAssumption ==
    Order \in Nat /\ Order > 1 /\ \A a, b \in 2 .. Order - 1 : (a * b) % Order # 0
ASSUME DigestAssumption == DigestValues \subseteq 0 .. Order - 1
ASSUME NumbersAssumption ==
    /\ SecretNumbers \subseteq Nat /\ RandomScalars \subseteq 1 .. Order - 1
    /\ Hashes \subseteq Nat /\ Nonces \subseteq 1 .. Order - 1
ASSUME CounterAssumption == MaxCounter \in Nat

VARIABLES keys,          \* the scalar in each handle
          owner,         \* the scalar each handle was last given
          zeroized,      \* the handles zeroized since
          loop,          \* the derivation in progress: [handle, seed, counter]
          digest,        \* SHA-512 of prefix, seed and counter
          derived,       \* [seed, key]: what derivations came to, None a panic
          signed,        \* [handle, owner, live, public, hash, sig]: the last
          calls

vars == << keys, owner, zeroized, loop, digest, derived, signed, calls >>

Counters == 0 .. MaxCounter

---------------------------------------------------------------------------
(* The curve.  A point is << x, y >>, and the identity << >>. *)

Identity == << >>

OnCurve(x, y) == (y * y - x * x * x + 3 * x - B) % P = 0

Points == {<< x, y >> : x, y \in 0 .. P - 1}

CurvePoints == {p \in Points : OnCurve(p[1], p[2])} \cup {Identity}

InverseP == [a \in 1 .. P - 1 |-> CHOOSE b \in 1 .. P - 1 : (a * b) % P = 1]
InverseN == [a \in 1 .. Order - 1 |-> CHOOSE b \in 1 .. Order - 1 : (a * b) % Order = 1]

AddPoints(p, q) ==
    IF p = Identity THEN q
    ELSE IF q = Identity THEN p
    ELSE IF p[1] = q[1] /\ (p[2] + q[2]) % P = 0 THEN Identity
    ELSE LET slope == IF p = q THEN (3 * p[1] * p[1] - 3) * InverseP[(2 * p[2]) % P]
                               ELSE (q[2] - p[2]) * InverseP[(q[1] - p[1]) % P]
             x == (slope * slope - p[1] - q[1]) % P
         IN  << x, (slope * (p[1] - x) - p[2]) % P >>

Multiples[n \in 0 .. Order - 1] ==
    [p \in CurvePoints |-> IF n = 0 THEN Identity ELSE AddPoints(Multiples[n - 1][p], p)]

Products == [n \in 0 .. Order - 1 |-> Multiples[n]]

ScalarMul(n, p) == Products[n][p]

\* The formulas of the chord and the tangent are those of a group.
ASSUME GroupAssumption ==
    /\ \A p, q \in CurvePoints : AddPoints(p, q) \in CurvePoints
    /\ \A p, q \in CurvePoints : AddPoints(p, q) = AddPoints(q, p)
    /\ \A p, q, r \in CurvePoints :
          AddPoints(AddPoints(p, q), r) = AddPoints(p, AddPoints(q, r))

ASSUME GeneratorAssumption ==
    /\ Generator \in CurvePoints \ {Identity}
    /\ AddPoints(ScalarMul(Order - 1, Generator), Generator) = Identity

---------------------------------------------------------------------------
(* Keys and their bytes. *)

\* SigningKey::from_slice
FromSlice(number) == IF number \in 1 .. Order - 1 THEN Some(number) ELSE None

\* public_key_typed
PublicKey(secret) == ScalarMul(secret, Generator)

\* SEC1: both coordinates, or x and which y.
Uncompressed(q) == [tag |-> 4, x |-> q[1], y |-> q[2]]
Compressed(q) == [tag |-> 2 + (q[2] % 2), x |-> q[1]]

\* P521PublicKey::from_bytes
PublicFromBytes(data) ==
    {q \in CurvePoints \ {Identity} : data \in {Uncompressed(q), Compressed(q)}}

---------------------------------------------------------------------------
(* ECDSA. *)

\* The nonce is drawn again when r or s is zero.
EcdsaSign(secret, hash, nonce) ==
    LET r == ScalarMul(nonce, Generator)[1] % Order
        s == (InverseN[nonce] * (hash + r * secret)) % Order
    IN  IF r # 0 /\ s # 0 THEN Some([r |-> r, s |-> s]) ELSE None

EcdsaVerify(q, hash, sig) ==
    LET u1 == (hash * InverseN[sig.s]) % Order
        u2 == (sig.r * InverseN[sig.s]) % Order
        point == AddPoints(ScalarMul(u1, Generator), ScalarMul(u2, q))
    IN  point # Identity /\ point[1] % Order = sig.r

\* Signature::normalize_s
NormalizeS(sig) ==
    IF 2 * sig.s > Order THEN Some([sig EXCEPT !.s = Order - sig.s]) ELSE None

\* Mutant of SignMsg: the signature is returned as it was made.
SignMsg_NotNormalized(secret, hash, nonce) == EcdsaSign(secret, hash, nonce)

\* sign_msg
SignMsg(secret, hash, nonce) ==
    {UnwrapOr(NormalizeS(sig), sig) : sig \in EcdsaSign(secret, hash, nonce)}

\* Mutant of VerifySig: high S is accepted.
VerifySig_AnyS(q, hash, sig) ==
    /\ sig.r \in 1 .. Order - 1 /\ sig.s \in 1 .. Order - 1
    /\ EcdsaVerify(q, hash, sig)

\* verify_sig: from_slice takes r and s in 1 .. n - 1, high S is refused.
VerifySig(q, hash, sig) ==
    /\ sig.r \in 1 .. Order - 1 /\ sig.s \in 1 .. Order - 1
    /\ NormalizeS(sig) = None
    /\ EcdsaVerify(q, hash, sig)

---------------------------------------------------------------------------
Init ==
    /\ keys = [h \in Handles |-> None]
    /\ owner = [h \in Handles |-> None]
    /\ zeroized = {}
    /\ loop = None
    /\ digest \in [Seeds -> [Counters -> DigestValues]]
    /\ derived = {}
    /\ signed = None
    /\ calls = 0

Called == calls < MaxCalls /\ calls' = calls + 1

\* A key object is assigned to h; the one it held is dropped.
Give(h, secret) ==
    /\ keys' = [keys EXCEPT ![h] = Some(secret)]
    /\ owner' = [owner EXCEPT ![h] = Some(secret)]
    /\ zeroized' = zeroized \ {h}

\* generate_key
GenerateKey(h) ==
    /\ Called
    /\ \E secret \in RandomScalars : Give(h, secret)
    /\ UNCHANGED << loop, digest, derived, signed >>

\* P521PrivateKey::from_bytes: an error leaves h as it was.
FromBytes(h, number) ==
    /\ Called
    /\ \E secret \in FromSlice(number) : Give(h, secret)
    /\ UNCHANGED << loop, digest, derived, signed >>

\* derive_keypair_from_seed, up to the loop.
StartDerive(h, seed) ==
    /\ Called
    /\ loop = None
    /\ loop' = Some([handle |-> h, seed |-> seed, counter |-> 0])
    /\ UNCHANGED << keys, owner, zeroized, digest, derived, signed >>

Return(d, key) ==
    /\ loop' = None
    /\ derived' = derived \cup {[seed |-> d.seed, key |-> key]}

\* Mutant of NextAttempt: the counter wraps, and there is no end to the loop.
NextAttempt_Wraps(d) ==
    /\ loop' = Some([d EXCEPT !.counter = (@ + 1) % (MaxCounter + 1)])
    /\ UNCHANGED << keys, owner, zeroized, derived >>

\* The scalar was refused: the next counter, or the panic after the last.
NextAttempt(d) ==
    /\ IF d.counter = MaxCounter
       THEN Return(d, None)
       ELSE /\ loop' = Some([d EXCEPT !.counter = @ + 1])
            /\ UNCHANGED derived
    /\ UNCHANGED << keys, owner, zeroized >>

\* Mutant of Attempt: the digest is taken without asking from_slice.
Attempt_Unchecked ==
    /\ \E d \in loop :
          LET secret == digest[d.seed][d.counter]
          IN  Give(d.handle, secret) /\ Return(d, Some(secret))
    /\ UNCHANGED << digest, signed, calls >>

\* One turn of the loop of derive_keypair_from_seed.
Attempt ==
    /\ \E d \in loop :
          LET key == FromSlice(digest[d.seed][d.counter])
          IN  IF key = None
              THEN NextAttempt(d)
              ELSE /\ \E secret \in key : Give(d.handle, secret)
                   /\ Return(d, key)
    /\ UNCHANGED << digest, signed, calls >>

\* Clone, by way of the bytes.
CloneKey(h, g) ==
    /\ Called
    /\ \E secret \in keys[g] : \E copy \in FromSlice(secret) : Give(h, copy)
    /\ UNCHANGED << loop, digest, derived, signed >>

\* Mutant of Dummy: all bytes are zero.
Dummy_Zero == 0

\* The number zeroize writes: the last byte of it is one.
Dummy == 1

\* Zeroize: the key object stays usable, with the dummy in it.
ZeroizeKey(h) ==
    /\ Called
    /\ keys[h] # None
    /\ keys' = [keys EXCEPT ![h] = IF FromSlice(Dummy) # None THEN FromSlice(Dummy) ELSE @]
    /\ zeroized' = zeroized \cup {h}
    /\ UNCHANGED << owner, loop, digest, derived, signed >>

\* Drop: the handle is gone, zeroized first.
DropKey(h) ==
    /\ Called
    /\ keys[h] # None
    /\ keys' = [keys EXCEPT ![h] = None]
    /\ owner' = [owner EXCEPT ![h] = None]
    /\ zeroized' = zeroized \ {h}
    /\ UNCHANGED << loop, digest, derived, signed >>

Sign(h, hash, nonce) ==
    /\ Called
    /\ \E secret \in keys[h] : \E sig \in SignMsg(secret, hash, nonce) :
          signed' = Some([handle |-> h, owner |-> owner[h], live |-> h \notin zeroized,
                          public |-> PublicKey(secret), hash |-> hash, sig |-> sig])
    /\ UNCHANGED << keys, owner, zeroized, loop, digest, derived >>

Next ==
    \/ \E h \in Handles :
          \/ GenerateKey(h)
          \/ \E number \in SecretNumbers : FromBytes(h, number)
          \/ \E seed \in Seeds : StartDerive(h, seed)
          \/ \E g \in Handles : CloneKey(h, g)
          \/ ZeroizeKey(h)
          \/ DropKey(h)
          \/ \E hash \in Hashes, nonce \in Nonces : Sign(h, hash, nonce)
    \/ Attempt

\* The loop runs on a thread of its caller; nothing in it waits.
Fairness == WF_vars(Attempt)

Spec == Init /\ [][Next]_vars /\ Fairness

---------------------------------------------------------------------------
(* Properties. *)

(* A derived key is the scalar of the first counter whose digest is one,   *)
(* and derivation panics only when there is none among all the counters:   *)
(* it depends on the seed alone, whatever else the program does meanwhile  *)
(* (derive_keypair_from_seed).                                             *)
DerivedAsSpecified ==
    \A e \in derived :
        \/ /\ e.key = None
           /\ \A c \in Counters : FromSlice(digest[e.seed][c]) = None
        \/ \E c \in Counters :
              /\ e.key = FromSlice(digest[e.seed][c]) /\ e.key # None
              /\ \A b \in 0 .. c - 1 : FromSlice(digest[e.seed][b]) = None

(* Derivation returns or panics: the eight-bit counter ends the loop       *)
(* (derive_keypair_from_seed).                                             *)
DeriveReturns == loop # None ~> loop = None

(* A signature is made with the key the handle was given or, once the      *)
(* handle was zeroized, with the dummy: zeroizing reaches this object, no  *)
(* clone of it, and never fails in silence (zeroize, clone, sign_msg).     *)
SignsAsOwner ==
    \A e \in signed :
        e.public = PublicKey(IF e.live THEN UnwrapOr(e.owner, 0) ELSE 1)

(* What a key signs verifies under its public key, read from either form   *)
(* of its bytes (sign_msg, verify_sig and P521PublicKey::from_bytes).      *)
SignedVerifies ==
    \A e \in signed :
        \A form \in {Uncompressed(e.public), Compressed(e.public)} :
            /\ PublicFromBytes(form) = {e.public}
            /\ VerifySig(e.public, e.hash, e.sig)

(* For each hash and r, at most one s is accepted under a key: nobody can  *)
(* turn a signature into another one of the same message with the same r   *)
(* (verify_sig and normalize_s).  The r that two x coordinates can have,   *)
(* itself and the order added to it, are left out: of those of P-521 there *)
(* are fewer than 1 in 2^260.                                              *)
OneS ==
    \A e \in signed : \A r, s \in 1 .. Order - 1 :
        r + Order >= P /\ VerifySig(e.public, e.hash, [r |-> r, s |-> s]) =>
            \A t \in 1 .. Order - 1 :
                VerifySig(e.public, e.hash, [r |-> r, s |-> t]) => s = t
=================================================================================
