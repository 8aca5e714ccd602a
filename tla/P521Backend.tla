------------------------------- MODULE P521Backend --------------------------------
(***************************************************************************)
(* The P-521 backend (src/mdecc/p521.rs) behind the signing traits: its    *)
(* key objects, their bytes, and the calls of Scheme and TypedScheme.  It  *)
(* keeps no state.  MlDsaBackend says how bytes, failures and signatures   *)
(* are written; the value of a secret is the number its bytes stand for.   *)
(*                                                                         *)
(* Module P521 has the arithmetic and the derivation loop in detail.       *)
(***************************************************************************)
EXTENDS Naturals, Options

CONSTANTS Order,          \* order n of the group
          MinScalarSize,  \* shortest secret the p521 crate parses
          SeedScalar      \* the scalar derive_keypair_from_seed makes of a seed

Name == "P-521"

PrivateKeySize == 66
PublicKeySize == 133
CompressedSize == 67
SignatureSize == 132
SeedSize == PrivateKeySize

\* public_key_size, private_key_size, signature_size, seed_size
Sizes == [public |-> PublicKeySize, private |-> PrivateKeySize,
          signature |-> SignatureSize, seed |-> SeedSize]

SupportsContext == FALSE

HasContext(opts) == UnwrapOr(opts, "") # ""

---------------------------------------------------------------------------
(* Keys and their bytes. *)

VerifyingKey(secret) == [scheme |-> Name, point |-> [of |-> Name, secret |-> secret]]

\* as_bytes: uncompressed SEC1.
PublicBytes(pk) == [size |-> PublicKeySize, value |-> pk.point]

\* from_bytes: a point of the curve, in either of the SEC1 forms.
PublicFromBytes(data) ==
    IF data.size \in {PublicKeySize, CompressedSize} /\ data.value.of = Name
    THEN Some([scheme |-> Name, point |-> data.value])
    ELSE None

\* as_bytes
PrivateBytes(sk) == [size |-> PrivateKeySize, value |-> sk.secret]

\* SigningKey::from_slice: shorter strings are padded in front, and the number
\* has to be in 1 .. n - 1.
PrivateFromBytes(data) ==
    IF data.size \in MinScalarSize .. PrivateKeySize /\ data.value \in 1 .. Order - 1
    THEN Some([scheme |-> Name, secret |-> data.value])
    ELSE None

\* public_key_typed, public_key_bytes
PublicKeyBytes(sk) == PublicBytes(VerifyingKey(sk.secret))

\* Clone, by way of the scalar; a failure would be a panic.
ClonePrivate(sk) == PrivateFromBytes(PrivateBytes(sk))

\* equal, given what marshal_binary of the other object returned.
EqualPublic(pk, other) == other = PublicBytes(pk)
EqualPrivate(sk, other) == other = PrivateBytes(sk)

\* PartialEq, by way of the bytes.
EqPublic(pk, other) == PublicBytes(pk) = PublicBytes(other)
EqPrivate(sk, other) == PrivateBytes(sk) = PrivateBytes(other)

Pair(secret) ==
    [public |-> VerifyingKey(secret), private |-> [scheme |-> Name, secret |-> secret]]

\* generate_key: SigningKey::random is never out of range.
GenerateKey(secret) == IF secret \in 1 .. Order - 1 THEN Some(Pair(secret)) ELSE None

\* derive_keypair_from_seed: a panic for a seed of another size.
DeriveKeypairFromSeed(data) ==
    IF data.size # SeedSize THEN None ELSE Some(Pair(SeedScalar[data.value]))

DeriveKey(data) == DeriveKeypairFromSeed(data)
DeriveKeyTyped(data) == DeriveKeypairFromSeed(data)

---------------------------------------------------------------------------
(* Signing and verifying: no context; the nonce is left out here. *)

SignMsg(sk, msg) ==
    [size |-> SignatureSize, by |-> VerifyingKey(sk.secret).point,
     hashed |-> [phflag |-> 0, context |-> "", text |-> msg]]

VerifySig(pk, msg, sig) ==
    /\ sig.size = SignatureSize
    /\ sig.by = pk.point
    /\ sig.hashed = [phflag |-> 0, context |-> "", text |-> msg]

\* Scheme::sign on the bytes of the key object; all failures are panics.
Sign(data, msg, opts) ==
    IF HasContext(opts) THEN None ELSE {SignMsg(sk, msg) : sk \in PrivateFromBytes(data)}

\* Scheme::verify on the bytes of the key object.
Verify(data, msg, sig, opts) ==
    ~HasContext(opts) /\ \E pk \in PublicFromBytes(data) : VerifySig(pk, msg, sig)

SignTyped(sk, msg, opts) == IF HasContext(opts) THEN None ELSE Some(SignMsg(sk, msg))

\* The options are not looked at.
VerifyTyped(pk, msg, sig, opts) == VerifySig(pk, msg, sig)

UnmarshalPublic(data) == PublicFromBytes(data)
UnmarshalPrivate(data) == PrivateFromBytes(data)

\* The typed forms.
GenerateKeyTyped(seed) == GenerateKey(seed)
UnmarshalPublicTyped(data) == PublicFromBytes(data)
UnmarshalPrivateTyped(data) == PrivateFromBytes(data)
=================================================================================
