---------------------------------- MODULE Ed448 ----------------------------------
(***************************************************************************)
(* Ed448 signatures on keys read from bytes (src/mdecc/ed448.rs): the      *)
(* decoding of points and scalars and the verification equation, over a    *)
(* curve of the same kind that is small enough to enumerate: an untwisted  *)
(* Edwards curve with a non-square coefficient over a field of p elements, *)
(* p = b^n - b^m - 1 and p % 4 = 3, with a group of 4 * L points, L prime. *)
(*                                                                         *)
(* The group operations and decompression are those of ed448-goldilocks,   *)
(* key generation and signing those of ed448-rust: both are outside the    *)
(* repository.  The SHAKE-256 challenge is any scalar.                     *)
(***************************************************************************)
EXTENDS Integers, Sequences, Options

CONSTANTS Base,          \* values of a byte of y
          FieldPrimeLE,  \* the digits of p, least significant first
          D,             \* the coefficient of the curve
          L,             \* order of the group that the generator spans
          Generator,
          ScalarValues   \* values of the 57 bytes of S

VARIABLES key,           \* the bytes of the public key in use, if any
          secret,        \* the scalar of the key pair in use, if it is one
          last           \* the signature that was made or accepted, and its
                         \* challenge, if there was one

vars == << key, secret, last >>

---------------------------------------------------------------------------
(* The field and the curve. *)

ASSUME NumbersAssumption ==
    /\ Base \in Nat /\ Base > 1 /\ D \in Int
    /\ FieldPrimeLE \in Seq(Nat) /\ ScalarValues \subseteq Nat

Power[i \in 0 .. Len(FieldPrimeLE)] == IF i = 0 THEN 1 ELSE Base * Power[i - 1]

\* Byte i of the number y, from 1 for the least significant.
Byte(y, i) == (y \div Power[i - 1]) % Base

YValues == 0 .. Power[Len(FieldPrimeLE)] - 1

P == CHOOSE y \in YValues : \A i \in DOMAIN FieldPrimeLE : Byte(y, i) = FieldPrimeLE[i]
Field == 0 .. P - 1

ASSUME PrimeAssumption ==
    /\ P \in YValues /\ \A i \in DOMAIN FieldPrimeLE : Byte(P, i) = FieldPrimeLE[i]
    /\ P % 4 = 3 /\ \A n, m \in 2 .. P - 1 : (n * m) % P # 0

ASSUME NonSquareAssumption == \A x \in Field : (x * x) % P # D % P

InverseP == [a \in Field \ {0} |-> CHOOSE b \in Field : (a * b) % P = 1]

OnCurve(p) == (p.x * p.x + p.y * p.y - 1 - D * p.x * p.x * p.y * p.y) % P = 0

Points == {p \in [x : Field, y : Field] : OnCurve(p)}

Identity == [x |-> 0, y |-> 1]

\* ExtendedPoint::add: the formulas are complete, as D is not a square.
AddPoints(p, q) ==
    LET e == (D * p.x * q.x * p.y * q.y) % P
    IN  [x |-> ((p.x * q.y + p.y * q.x) * InverseP[(1 + e) % P]) % P,
         y |-> ((p.y * q.y - p.x * q.x) * InverseP[(1 - e) % P]) % P]

Sums == [p \in Points |-> [q \in Points |-> AddPoints(p, q)]]

Add(p, q) == Sums[p][q]
Double(p) == Add(p, p)
Negate(p) == [p EXCEPT !.x = (0 - p.x) % P]

\* ExtendedPoint::scalar_mul
Multiples[n \in 0 .. L - 1] ==
    [p \in Points |-> IF n = 0 THEN Identity ELSE Add(Multiples[n - 1][p], p)]

Products == [n \in 0 .. L - 1 |-> [p \in Points |-> Multiples[n][p]]]

ScalarMul(n, p) == Products[n][p]

\* The formulas are those of a group: the coefficient is not a square.
ASSUME GroupAssumption ==
    /\ Sums \in [Points -> [Points -> Points]]
    /\ \A p, q \in Points : Add(p, q) = Add(q, p)
    /\ \A p, q, r \in Points : Add(Add(p, q), r) = Add(p, Add(q, r))
    /\ \A p \in Points : Add(Identity, p) = p
    /\ \A p \in Points : Negate(p) \in Points /\ Add(p, Negate(p)) = Identity

\* An odd prime is the order of the generator and, but for the cofactor, of
\* every point.
ASSUME OrderAssumption ==
    /\ L \in Nat /\ L > 2 /\ \A n, m \in 2 .. L - 1 : (n * m) % L # 0
    /\ Generator \in Points /\ Generator # Identity
    /\ Add(ScalarMul(L - 1, Generator), Generator) = Identity
    /\ \A p \in Points :
          Add(ScalarMul(L - 1, Double(Double(p))), Double(Double(p))) = Identity

---------------------------------------------------------------------------
(* Encodings: the bytes of y, as their value, the sign of x, and whether   *)
(* one of the seven bits beside the sign is set.                           *)

Encodings == [y : YValues, sign : 0 .. 1, padded : BOOLEAN]

Compress(p) == [y |-> p.y, sign |-> p.x % 2, padded |-> FALSE]

\* CompressedEdwardsY::decompress reduces y, ignores the padding and, for the
\* points on the y axis, the sign.
Decompress(raw) ==
    {p \in Points : p.y = raw.y % P /\ (p.x # 0 => p.x % 2 = raw.sign)}

\* Mutant of BelowPrime: the bytes that are equal do not have to be.
BelowPrime_AnyByte(y) == \E i \in DOMAIN FieldPrimeLE : Byte(y, i) < FieldPrimeLE[i]

\* The comparison from the most significant byte: the first byte that differs
\* decides, and p itself is not below p.
BelowPrime(y) ==
    \E i \in DOMAIN FieldPrimeLE :
        /\ Byte(y, i) < FieldPrimeLE[i]
        /\ \A j \in i + 1 .. Len(FieldPrimeLE) : Byte(y, j) = FieldPrimeLE[j]

SmallOrder(p) == Double(Double(p)) = Identity

\* Mutant of DecodeCanonicalPoint: small-order points are not rejected.
DecodeCanonicalPoint_AnyOrder(raw) ==
    {p \in Decompress(raw) : ~raw.padded /\ BelowPrime(raw.y)}

\* decode_canonical_point: Some(point), or None for any of its errors.
DecodeCanonicalPoint(raw) ==
    {p \in Decompress(raw) : ~raw.padded /\ BelowPrime(raw.y) /\ ~SmallOrder(p)}

\* Mutant of FromCanonicalBytes: S is reduced, as Scalar::from_bytes does.
FromCanonicalBytes_Reduces(s) == Some(s % L)

\* Scalar::from_canonical_bytes
FromCanonicalBytes(s) == IF s < L THEN Some(s) ELSE None

---------------------------------------------------------------------------
(* verify_via_goldilocks: [4]([S]B - [k]A - R) is the identity. *)

\* Mutant of Equation: [k]A is added.
Equation_NotNegated(a, r, s, k) ==
    LET lhs == Add(Add(ScalarMul(s, Generator), ScalarMul(k, a)), Negate(r))
    IN  Double(Double(lhs)) = Identity

Equation(a, r, s, k) ==
    LET lhs == Add(Add(ScalarMul(s, Generator), Negate(ScalarMul(k, a))), Negate(r))
    IN  Double(Double(lhs)) = Identity

Verifies(raw, sig, k) ==
    \E a \in DecodeCanonicalPoint(raw), r \in DecodeCanonicalPoint(sig.r),
       s \in FromCanonicalBytes(sig.s) : Equation(a, r, s, k)

---------------------------------------------------------------------------
Init ==
    /\ key = None
    /\ secret = None
    /\ last = None

\* PublicKey::from_bytes
FromBytes(raw) ==
    /\ key = None
    /\ key' = IF DecodeCanonicalPoint(raw) # None THEN Some(raw) ELSE None
    /\ UNCHANGED << secret, last >>

\* PrivateKey::from_seed: the expanded scalar is never a multiple of L.
FromSeed(n) ==
    /\ key = None
    /\ key' = Some(Compress(ScalarMul(n, Generator)))
    /\ secret' = Some(n)
    /\ UNCHANGED last

\* sign_msg: the nonce, a hash, is never a multiple of L.
SignMsg(nonce, k) ==
    /\ last = None
    /\ \E n \in secret :
          last' = Some([sig |-> [r |-> Compress(ScalarMul(nonce, Generator)),
                                 s |-> (nonce + k * n) % L],
                        k |-> k, made |-> TRUE])
    /\ UNCHANGED << key, secret >>

\* verify_sig of the key, read from its bytes; what is refused leaves no trace.
VerifySig(sig, k) ==
    /\ last = None
    /\ \E raw \in key :
          last' = IF Verifies(raw, sig, k) THEN Some([sig |-> sig, k |-> k, made |-> FALSE])
                                           ELSE None
    /\ UNCHANGED << key, secret >>

Scalars == 0 .. L - 1

Next ==
    \/ \E raw \in Encodings : FromBytes(raw)
    \/ \E n \in Scalars \ {0} : FromSeed(n)
    \/ \E nonce \in Scalars \ {0}, k \in Scalars : SignMsg(nonce, k)
    \/ \E r \in Encodings, s \in ScalarValues, k \in Scalars :
          VerifySig([r |-> r, s |-> s], k)

Spec == Init /\ [][Next]_vars

---------------------------------------------------------------------------
(* Properties. *)

(* The bytes of a public key are the only ones that are read as its point: *)
(* comparing keys by their bytes, as PartialEq and the address do, is      *)
(* comparing points.  The two points whose sign bit decompression ignores  *)
(* are of small order (decode_canonical_point).                            *)
OneEncoding ==
    \A raw \in key : \A p \in DecodeCanonicalPoint(raw), other \in Encodings :
        p \in DecodeCanonicalPoint(other) => other = raw

(* What key generation and signing produce is read back from bytes and     *)
(* verifies, for every key, nonce and challenge (sign_msg, from_bytes and  *)
(* verify_via_goldilocks, three paths through two libraries).              *)
MadeVerifies ==
    \A raw \in key :
        /\ \A n \in secret : DecodeCanonicalPoint(raw) = Some(ScalarMul(n, Generator))
        /\ \A c \in last : c.made => Verifies(raw, c.sig, c.k)

(* An accepted signature has no second S: for the same R and challenge no  *)
(* other bytes are accepted, though the equation is multiplied by the      *)
(* cofactor (verify_via_goldilocks).                                       *)
OneScalar ==
    \A raw \in key, c \in last : ~c.made =>
        \A s \in ScalarValues : Verifies(raw, [c.sig EXCEPT !.s = s], c.k) => s = c.sig.s

(* An accepted signature is accepted for one challenge only, whatever key  *)
(* and R were read from bytes: it is bound to its message                  *)
(* (decode_canonical_point, verify_via_goldilocks).                        *)
OneChallenge ==
    \A raw \in key, c \in last : ~c.made =>
        \A k \in Scalars : Verifies(raw, c.sig, k) => k = c.k
=================================================================================
