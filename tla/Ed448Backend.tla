------------------------------- MODULE Ed448Backend -------------------------------
(***************************************************************************)
(* The Ed448 backend (src/mdecc/ed448.rs) behind the signing traits: its   *)
(* key objects, their bytes, the options of a signature, and the calls of  *)
(* Scheme and TypedScheme.  It keeps no state.  MlDsaBackend says how      *)
(* bytes, failures and signatures are written.                             *)
(*                                                                         *)
(* A public key is `trusted` when it was derived in memory: it is verified *)
(* with by ed448-rust, and a key read from bytes by the code of this file  *)
(* (module Ed448 has its arithmetic).                                      *)
(***************************************************************************)
EXTENDS Naturals, Options

CONSTANTS LongContexts,   \* contexts of more than 255 bytes
          LibraryForms    \* forms of signatures that ed448-rust accepts

Name == "Ed448"

SeedSize == 57
PublicKeySize == 57
PrivateKeySize == 57
SignatureSize == 114

\* public_key_size, private_key_size, signature_size, seed_size
Sizes == [public |-> PublicKeySize, private |-> PrivateKeySize,
          signature |-> SignatureSize, seed |-> SeedSize]

SupportsContext == TRUE

PrehashContext == "PREHASHED"

---------------------------------------------------------------------------
(* The options. *)

\* SigningMode::from_opts
FromOpts(opts) == IF opts = Some(PrehashContext) THEN "Ed448Ph" ELSE "Ed448"

\* Mutant of ContextOpt: the filter keeps the empty contexts, not the others.
ContextOpt_FilterInverted(mode, opts) == ""

\* SigningMode::context_opt: none is the empty context.
ContextOpt(mode, opts) == IF mode = "Ed448Ph" THEN "" ELSE UnwrapOr(opts, "")

\* SHAKE256(msg), 64 bytes
Prehash(msg) == [msg EXCEPT !.depth = @ + 1]

\* What RFC 8032 hashes, dom4 and the message, and ed448-rust with it.
Dom4(mode, context, msg) ==
    [phflag |-> IF mode = "Ed448Ph" THEN 1 ELSE 0,
     context |-> context,
     text |-> IF mode = "Ed448Ph" THEN Prehash(msg) ELSE msg]

---------------------------------------------------------------------------
(* Keys and their bytes. *)

Point(seed) == [of |-> Name, secret |-> seed]

\* from_trusted_inner
FromTrustedInner(seed) == [scheme |-> Name, point |-> Point(seed), trusted |-> TRUE]

\* as_bytes, marshal_binary
PublicBytes(pk) == [size |-> PublicKeySize, value |-> pk.point]

\* PublicKey::from_bytes: decode_canonical_point must succeed.
PublicFromBytes(data) ==
    IF data.size = PublicKeySize /\ data.value.of = Name
    THEN Some([scheme |-> Name, point |-> data.value, trusted |-> FALSE])
    ELSE None

\* TryFrom<Vec<u8>> and TryFrom<&[u8]>
TryFromPublic(data) == PublicFromBytes(data)

\* as_bytes, marshal_binary
PrivateBytes(sk) == [size |-> PrivateKeySize, value |-> sk.secret]

\* PrivateKey::from_seed: the pair it returns; a panic for another size.
FromSeed(data) ==
    IF data.size # SeedSize THEN None
    ELSE LET pk == FromTrustedInner(data.value)
         IN  Some([public |-> pk,
                   private |-> [scheme |-> Name, secret |-> data.value, public |-> pk]])

\* PrivateKey::from_bytes: an error for another size.
PrivateFromBytes(data) ==
    IF data.size # PrivateKeySize THEN None ELSE {pair.private : pair \in FromSeed(data)}

\* TryFrom<Vec<u8>> and TryFrom<&[u8]>
TryFromPrivate(data) == PrivateFromBytes(data)

PublicKeyBytes(sk) == PublicBytes(sk.public)

\* Clone: the secret is expanded again, the public key copied.
ClonePrivate(sk) == Some([scheme |-> Name, secret |-> sk.secret, public |-> sk.public])

\* equal, given what marshal_binary of the other object returned: the bytes
\* are compared, not how the key came about.
EqualPublic(pk, other) == other.size = PublicKeySize /\ other = PublicBytes(pk)
EqualPrivate(sk, other) == other.size = PrivateKeySize /\ other = PrivateBytes(sk)

\* PartialEq: the raw bytes, and the seeds.
EqPublic(pk, other) == pk.point = other.point
EqPrivate(sk, other) == sk.secret = other.secret

\* generate_key: the seed comes from the RNG.
GenerateKey(seed) == FromSeed([size |-> SeedSize, value |-> seed])

\* Scheme::derive_key and derive_key_typed: a panic for another size.
DeriveKey(data) == IF data.size # SeedSize THEN None ELSE FromSeed(data)
DeriveKeyTyped(data) == FromSeed(data)

---------------------------------------------------------------------------
(* Signing and verifying. *)

\* How R and S of a signature that satisfies the equation are chosen and
\* written: as signing does, or otherwise.
Forms == {"as signed", "R not canonical", "R of small order", "S not reduced"}

\* sign_msg: ed448-rust refuses a context of more than 255 bytes.
SignMsg(sk, msg, opts) ==
    LET mode == FromOpts(opts)
        context == ContextOpt(mode, opts)
    IN  IF context \in LongContexts THEN None
        ELSE Some([size |-> SignatureSize, by |-> Point(sk.secret),
                   hashed |-> Dom4(mode, context, msg), form |-> "as signed"])

\* PublicKey::verify and verify_ph of ed448-rust.
VerifyInMemory(pk, msg, sig, context, mode) ==
    /\ sig.form \in LibraryForms
    /\ context \notin LongContexts
    /\ sig.by = pk.point
    /\ sig.hashed = Dom4(mode, context, msg)

\* decode_canonical_point of R, and Scalar::from_canonical_bytes of S.
DecodesR(sig) == sig.form \notin {"R not canonical", "R of small order"}
DecodesS(sig) == sig.form # "S not reduced"

\* Mutant of VerifyViaGoldilocks: S is loaded by Scalar::from_bytes.
VerifyViaGoldilocks_RawS(pk, msg, sig, context, mode) ==
    /\ DecodesR(sig)
    /\ context \notin LongContexts
    /\ sig.by = pk.point
    /\ sig.hashed = Dom4(mode, context, msg)

\* verify_via_goldilocks: the hash is built here, in the order of RFC 8032.
VerifyViaGoldilocks(pk, msg, sig, context, mode) ==
    /\ DecodesR(sig) /\ DecodesS(sig)
    /\ context \notin LongContexts
    /\ sig.by = pk.point
    /\ sig.hashed = [phflag |-> IF mode = "Ed448Ph" THEN 1 ELSE 0,
                     context |-> context,
                     text |-> IF mode = "Ed448Ph" THEN Prehash(msg) ELSE msg]

VerifySig(pk, msg, sig, opts) ==
    LET mode == FromOpts(opts)
        context == ContextOpt(mode, opts)
    IN  /\ sig.size = SignatureSize
        /\ IF pk.trusted THEN VerifyInMemory(pk, msg, sig, context, mode)
                         ELSE VerifyViaGoldilocks(pk, msg, sig, context, mode)

\* Scheme::sign on the bytes of the key object; all failures are panics.
Sign(data, msg, opts) == UNION {SignMsg(sk, msg, opts) : sk \in TryFromPrivate(data)}

\* Mutant of Verify: a context is refused, as by the two other schemes.
Verify_RefusesContext(data, msg, sig, opts) ==
    /\ UnwrapOr(opts, "") = ""
    /\ \E pk \in PublicFromBytes(data) : VerifySig(pk, msg, sig, opts)

\* Scheme::verify on the bytes of the key object: never by ed448-rust.
Verify(data, msg, sig, opts) ==
    \E pk \in TryFromPublic(data) : VerifySig(pk, msg, sig, opts)

SignTyped(sk, msg, opts) == SignMsg(sk, msg, opts)
VerifyTyped(pk, msg, sig, opts) == VerifySig(pk, msg, sig, opts)

UnmarshalPublic(data) == PublicFromBytes(data)
UnmarshalPrivate(data) == PrivateFromBytes(data)

\* The typed forms.
GenerateKeyTyped(seed) == GenerateKey(seed)
UnmarshalPublicTyped(data) == PublicFromBytes(data)
UnmarshalPrivateTyped(data) == PrivateFromBytes(data)
=================================================================================
