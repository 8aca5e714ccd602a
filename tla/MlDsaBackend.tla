------------------------------- MODULE MlDsaBackend -------------------------------
(***************************************************************************)
(* The ML-DSA-87 backend (src/dilithium/mod.rs) behind the signing traits: *)
(* its key objects, their bytes, and the calls of Scheme and TypedScheme.  *)
(* It keeps no state.                                                      *)
(*                                                                         *)
(* A byte string is [size, value].  A failing call returns None: an error, *)
(* or a panic where the comment says so.  A signature records the public   *)
(* point it answers to and what was hashed.                                *)
(***************************************************************************)
EXTENDS Options

Name == "ML-DSA-87"

SeedSize == 32
PublicKeySize == 2592
PrivateKeySize == SeedSize   \* the seed stands for the expanded key
SignatureSize == 4627

\* public_key_size, private_key_size, signature_size, seed_size
Sizes == [public |-> PublicKeySize, private |-> PrivateKeySize,
          signature |-> SignatureSize, seed |-> SeedSize]

SupportsContext == FALSE

HasContext(opts) == UnwrapOr(opts, "") # ""

---------------------------------------------------------------------------
(* Keys and their bytes. *)

\* The verifying key of the ml-dsa crate.
VerifyingKey(seed) == [scheme |-> Name, point |-> [of |-> Name, secret |-> seed]]

SeedFromSlice(data) == IF data.size = SeedSize THEN Some(data.value) ELSE None

\* pack, to_vec, marshal_binary
PublicBytes(pk) == [size |-> PublicKeySize, value |-> pk.point]

\* from_bytes: every string of the right size is a key.
PublicFromBytes(data) ==
    IF data.size = PublicKeySize THEN Some([scheme |-> Name, point |-> data.value]) ELSE None

\* TryFrom<Vec<u8>> and TryFrom<&[u8]>
TryFromPublic(data) == PublicFromBytes(data)

\* Mutant of PrivateBytes: the expanded signing key is written.
PrivateBytes_Expanded(sk) == [size |-> 4896, value |-> sk.secret]

\* pack, seed_bytes, marshal_binary
PrivateBytes(sk) == [size |-> PrivateKeySize, value |-> sk.secret]

\* PrivateKey::from_bytes: the public half is computed from the seed.
PrivateFromBytes(data) ==
    {[scheme |-> Name, secret |-> seed, public |-> VerifyingKey(seed)] :
         seed \in SeedFromSlice(data)}

PublicKeyBytes(sk) == PublicBytes(sk.public)

\* Clone, by way of the seed; a failure would be a panic.
ClonePrivate(sk) == PrivateFromBytes(PrivateBytes(sk))

\* equal, given what marshal_binary of the other object returned.
EqualPublic(pk, other) == other.size = PublicKeySize /\ other = PublicBytes(pk)
EqualPrivate(sk, other) == other.size = PrivateKeySize /\ other = PrivateBytes(sk)

\* PartialEq: the keys of the ml-dsa crate, and the seeds.
EqPublic(pk, other) == pk.point = other.point
EqPrivate(sk, other) == sk.secret = other.secret

FromSeed(data) == {[public |-> sk.public, private |-> sk] : sk \in PrivateFromBytes(data)}

\* generate_key: the seed comes from the RNG.
GenerateKey(seed) == FromSeed([size |-> SeedSize, value |-> seed])

\* derive_key_with_seed: an error for a seed of another size.
DeriveKeyWithSeed(data) == IF data.size # SeedSize THEN None ELSE FromSeed(data)

\* Scheme::derive_key and TypedScheme::derive_key_typed: a panic.
DeriveKey(data) == IF data.size # SeedSize THEN None ELSE FromSeed(data)
DeriveKeyTyped(data) == DeriveKey(data)

---------------------------------------------------------------------------
(* Signing and verifying: pure ML-DSA with the empty context. *)

SignInternal(sk, msg) ==
    [size |-> SignatureSize, by |-> VerifyingKey(sk.secret).point,
     hashed |-> [phflag |-> 0, context |-> "", text |-> msg]]

VerifyInternal(pk, msg, sig) ==
    /\ sig.size = SignatureSize
    /\ sig.by = pk.point
    /\ sig.hashed = [phflag |-> 0, context |-> "", text |-> msg]

\* Mutant of Sign: the context is not looked at.
Sign_NoGuard(data, msg, opts) == {SignInternal(sk, msg) : sk \in PrivateFromBytes(data)}

\* Scheme::sign on the bytes of the key object; all failures are panics.
Sign(data, msg, opts) ==
    IF HasContext(opts) THEN None ELSE {SignInternal(sk, msg) : sk \in PrivateFromBytes(data)}

\* Scheme::verify on the bytes of the key object.
Verify(data, msg, sig, opts) ==
    ~HasContext(opts) /\ \E pk \in TryFromPublic(data) : VerifyInternal(pk, msg, sig)

SignTyped(sk, msg, opts) == IF HasContext(opts) THEN None ELSE Some(SignInternal(sk, msg))

\* The options are not looked at.
VerifyTyped(pk, msg, sig, opts) == VerifyInternal(pk, msg, sig)

UnmarshalPublic(data) == PublicFromBytes(data)
UnmarshalPrivate(data) == PrivateFromBytes(data)

\* The typed forms.
GenerateKeyTyped(seed) == GenerateKey(seed)
UnmarshalPublicTyped(data) == PublicFromBytes(data)
UnmarshalPrivateTyped(data) == PrivateFromBytes(data)
=================================================================================
