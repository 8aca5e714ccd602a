----------------------------- MODULE SchemeDispatch ------------------------------
(***************************************************************************)
(* The signing traits of sign.rs over the three backends: dynamic dispatch *)
(* through Scheme, where any key object can be handed to any scheme, and   *)
(* typed dispatch through TypedScheme.                                     *)
(*                                                                         *)
(* A dynamic call works on the bytes of the key object, so only their      *)
(* number tells key types apart.  The state is what a program has got out  *)
(* of these calls: key objects and signatures.                             *)
(***************************************************************************)
EXTENDS Naturals, FiniteSets, Options

CONSTANTS Seeds,          \* values of the seeds in use, whatever their size
          SecretStrings,  \* byte strings read as a private key
          PublicStrings,  \* byte strings read as a public key
          Messages,       \* [of, depth]: depth counts the SHAKE256 applied
          AppContexts,    \* context strings of 1 to 255 bytes, not "PREHASHED"
          LongContexts,   \* context strings of more than 255 bytes
          LibraryForms,   \* forms of Ed448 signatures that ed448-rust accepts
          Order,          \* of P-521: see P521Backend
          MinScalarSize,
          SeedScalar,
          MaxKeys,        \* bound: private, and public, key objects
          MaxSignatures   \* bound: signatures made

ASSUME OrderAssumption == Order \in Nat /\ MinScalarSize \in 0 .. 66
ASSUME SeedScalarAssumption == \A s \in Seeds : SeedScalar[s] \in 1 .. Order - 1
ASSUME MessagesAssumption == \A m \in Messages :
    m = [of |-> m.of, depth |-> m.depth] /\ m.depth \in Nat
ASSUME BoundsAssumption == MaxKeys \in Nat /\ MaxSignatures \in Nat

VARIABLES privates,      \* the key objects the program holds
          publics,
          made           \* [scheme, key, msg, opts, sig]: the signatures returned

vars == << privates, publics, made >>

MlDsa == INSTANCE MlDsaBackend
P521 == INSTANCE P521Backend
Ed448 == INSTANCE Ed448Backend

\* It accepts what it signs; of the other forms nothing is assumed.
ASSUME FormsAssumption == "as signed" \in LibraryForms

Schemes == {"ML-DSA-87", "P-521", "Ed448"}

\* SignatureOpts: the default, or a context string.
Opts == Option({"", Ed448!PrehashContext} \cup AppContexts \cup LongContexts)

ContextOf(opts) == UnwrapOr(opts, "")

---------------------------------------------------------------------------
(* The methods of the traits PublicKey and PrivateKey. *)

MarshalPublic(pk) ==
    CASE pk.scheme = "ML-DSA-87" -> MlDsa!PublicBytes(pk)
      [] pk.scheme = "P-521" -> P521!PublicBytes(pk)
      [] pk.scheme = "Ed448" -> Ed448!PublicBytes(pk)

MarshalPrivate(sk) ==
    CASE sk.scheme = "ML-DSA-87" -> MlDsa!PrivateBytes(sk)
      [] sk.scheme = "P-521" -> P521!PrivateBytes(sk)
      [] sk.scheme = "Ed448" -> Ed448!PrivateBytes(sk)

PublicKeyBytes(sk) ==
    CASE sk.scheme = "ML-DSA-87" -> MlDsa!PublicKeyBytes(sk)
      [] sk.scheme = "P-521" -> P521!PublicKeyBytes(sk)
      [] sk.scheme = "Ed448" -> Ed448!PublicKeyBytes(sk)

EqualPublic(pk, other) ==
    LET bytes == MarshalPublic(other)
    IN  CASE pk.scheme = "ML-DSA-87" -> MlDsa!EqualPublic(pk, bytes)
          [] pk.scheme = "P-521" -> P521!EqualPublic(pk, bytes)
          [] pk.scheme = "Ed448" -> Ed448!EqualPublic(pk, bytes)

EqualPrivate(sk, other) ==
    LET bytes == MarshalPrivate(other)
    IN  CASE sk.scheme = "ML-DSA-87" -> MlDsa!EqualPrivate(sk, bytes)
          [] sk.scheme = "P-521" -> P521!EqualPrivate(sk, bytes)
          [] sk.scheme = "Ed448" -> Ed448!EqualPrivate(sk, bytes)

\* PartialEq and Clone, which TypedScheme asks of the key types.
EqPublic(pk, other) ==
    CASE pk.scheme = "ML-DSA-87" -> MlDsa!EqPublic(pk, other)
      [] pk.scheme = "P-521" -> P521!EqPublic(pk, other)
      [] pk.scheme = "Ed448" -> Ed448!EqPublic(pk, other)

EqPrivate(sk, other) ==
    CASE sk.scheme = "ML-DSA-87" -> MlDsa!EqPrivate(sk, other)
      [] sk.scheme = "P-521" -> P521!EqPrivate(sk, other)
      [] sk.scheme = "Ed448" -> Ed448!EqPrivate(sk, other)

Clone(sk) ==
    CASE sk.scheme = "ML-DSA-87" -> MlDsa!ClonePrivate(sk)
      [] sk.scheme = "P-521" -> P521!ClonePrivate(sk)
      [] sk.scheme = "Ed448" -> Ed448!ClonePrivate(sk)

---------------------------------------------------------------------------
(* The methods of Scheme. *)

SupportsContext(scheme) ==
    CASE scheme = "ML-DSA-87" -> MlDsa!SupportsContext
      [] scheme = "P-521" -> P521!SupportsContext
      [] scheme = "Ed448" -> Ed448!SupportsContext

\* public_key_size, private_key_size, signature_size and seed_size.
Sizes(scheme) ==
    CASE scheme = "ML-DSA-87" -> MlDsa!Sizes
      [] scheme = "P-521" -> P521!Sizes
      [] scheme = "Ed448" -> Ed448!Sizes

GenerateKey(scheme, seed) ==
    CASE scheme = "ML-DSA-87" -> MlDsa!GenerateKey(seed)
      [] scheme = "P-521" -> P521!GenerateKey(seed)
      [] scheme = "Ed448" -> Ed448!GenerateKey(seed)

DeriveKey(scheme, data) ==
    CASE scheme = "ML-DSA-87" -> MlDsa!DeriveKey(data)
      [] scheme = "P-521" -> P521!DeriveKey(data)
      [] scheme = "Ed448" -> Ed448!DeriveKey(data)

UnmarshalPublic(scheme, data) ==
    CASE scheme = "ML-DSA-87" -> MlDsa!UnmarshalPublic(data)
      [] scheme = "P-521" -> P521!UnmarshalPublic(data)
      [] scheme = "Ed448" -> Ed448!UnmarshalPublic(data)

UnmarshalPrivate(scheme, data) ==
    CASE scheme = "ML-DSA-87" -> MlDsa!UnmarshalPrivate(data)
      [] scheme = "P-521" -> P521!UnmarshalPrivate(data)
      [] scheme = "Ed448" -> Ed448!UnmarshalPrivate(data)

\* None is a panic.
Sign(scheme, sk, msg, opts) ==
    LET data == MarshalPrivate(sk)
    IN  CASE scheme = "ML-DSA-87" -> MlDsa!Sign(data, msg, opts)
          [] scheme = "P-521" -> P521!Sign(data, msg, opts)
          [] scheme = "Ed448" -> Ed448!Sign(data, msg, opts)

Verify(scheme, pk, msg, sig, opts) ==
    LET data == MarshalPublic(pk)
    IN  CASE scheme = "ML-DSA-87" -> MlDsa!Verify(data, msg, sig, opts)
          [] scheme = "P-521" -> P521!Verify(data, msg, sig, opts)
          [] scheme = "Ed448" -> Ed448!Verify(data, msg, sig, opts)

---------------------------------------------------------------------------
(* The methods of TypedScheme: the compiler has checked the key's type. *)

GenerateKeyTyped(scheme, seed) ==
    CASE scheme = "ML-DSA-87" -> MlDsa!GenerateKeyTyped(seed)
      [] scheme = "P-521" -> P521!GenerateKeyTyped(seed)
      [] scheme = "Ed448" -> Ed448!GenerateKeyTyped(seed)

DeriveKeyTyped(scheme, data) ==
    CASE scheme = "ML-DSA-87" -> MlDsa!DeriveKeyTyped(data)
      [] scheme = "P-521" -> P521!DeriveKeyTyped(data)
      [] scheme = "Ed448" -> Ed448!DeriveKeyTyped(data)

SignTyped(sk, msg, opts) ==
    CASE sk.scheme = "ML-DSA-87" -> MlDsa!SignTyped(sk, msg, opts)
      [] sk.scheme = "P-521" -> P521!SignTyped(sk, msg, opts)
      [] sk.scheme = "Ed448" -> Ed448!SignTyped(sk, msg, opts)

VerifyTyped(pk, msg, sig, opts) ==
    CASE pk.scheme = "ML-DSA-87" -> MlDsa!VerifyTyped(pk, msg, sig, opts)
      [] pk.scheme = "P-521" -> P521!VerifyTyped(pk, msg, sig, opts)
      [] pk.scheme = "Ed448" -> Ed448!VerifyTyped(pk, msg, sig, opts)

UnmarshalPublicTyped(scheme, data) ==
    CASE scheme = "ML-DSA-87" -> MlDsa!UnmarshalPublicTyped(data)
      [] scheme = "P-521" -> P521!UnmarshalPublicTyped(data)
      [] scheme = "Ed448" -> Ed448!UnmarshalPublicTyped(data)

UnmarshalPrivateTyped(scheme, data) ==
    CASE scheme = "ML-DSA-87" -> MlDsa!UnmarshalPrivateTyped(data)
      [] scheme = "P-521" -> P521!UnmarshalPrivateTyped(data)
      [] scheme = "Ed448" -> Ed448!UnmarshalPrivateTyped(data)

---------------------------------------------------------------------------
(* What a program does with them.  Schemes keep no state: a call that      *)
(* fails, and verifying, leave everything as it was.                       *)

Init ==
    /\ privates = {}
    /\ publics = {}
    /\ made = {}

Hold(newPrivates, newPublics) ==
    /\ privates' = privates \cup newPrivates
    /\ publics' = publics \cup newPublics
    /\ Cardinality(privates') <= MaxKeys
    /\ Cardinality(publics') <= MaxKeys
    /\ UNCHANGED made

HoldPair(pairs) == Hold({p.private : p \in pairs}, {p.public : p \in pairs})

CallGenerateKey(scheme, seed) == HoldPair(GenerateKey(scheme, seed))
CallGenerateKeyTyped(scheme, seed) == HoldPair(GenerateKeyTyped(scheme, seed))
CallDeriveKey(scheme, data) == HoldPair(DeriveKey(scheme, data))
CallDeriveKeyTyped(scheme, data) == HoldPair(DeriveKeyTyped(scheme, data))
CallUnmarshalPublic(scheme, data) == Hold({}, UnmarshalPublic(scheme, data))
CallUnmarshalPrivate(scheme, data) == Hold(UnmarshalPrivate(scheme, data), {})
CallUnmarshalPublicTyped(scheme, data) == Hold({}, UnmarshalPublicTyped(scheme, data))
CallUnmarshalPrivateTyped(scheme, data) == Hold(UnmarshalPrivateTyped(scheme, data), {})
CallClone(sk) == Hold(Clone(sk), {})

Signed(scheme, sk, msg, opts, result) ==
    /\ made' = made \cup {[scheme |-> scheme, key |-> sk, msg |-> msg, opts |-> opts,
                           sig |-> sig] : sig \in result}
    /\ Cardinality(made') <= MaxSignatures
    /\ UNCHANGED << privates, publics >>

CallSign(scheme, sk, msg, opts) ==
    Signed(scheme, sk, msg, opts, Sign(scheme, sk, msg, opts))

CallSignTyped(sk, msg, opts) ==
    Signed(sk.scheme, sk, msg, opts, SignTyped(sk, msg, opts))

\* Seeds of the right size, and of another.
SeedStrings == [size : {Sizes(scheme).seed : scheme \in Schemes}, value : Seeds]

Next ==
    \/ \E scheme \in Schemes :
          \/ \E seed \in Seeds :
                CallGenerateKey(scheme, seed) \/ CallGenerateKeyTyped(scheme, seed)
          \/ \E data \in SeedStrings :
                CallDeriveKey(scheme, data) \/ CallDeriveKeyTyped(scheme, data)
          \/ \E data \in PublicStrings :
                CallUnmarshalPublic(scheme, data) \/ CallUnmarshalPublicTyped(scheme, data)
          \/ \E data \in SecretStrings :
                CallUnmarshalPrivate(scheme, data) \/ CallUnmarshalPrivateTyped(scheme, data)
    \/ \E sk \in privates :
          \/ CallClone(sk)
          \/ \E msg \in Messages, opts \in Opts :
                \/ \E scheme \in Schemes : CallSign(scheme, sk, msg, opts)
                \/ CallSignTyped(sk, msg, opts)

Spec == Init /\ [][Next]_vars

---------------------------------------------------------------------------
(* Properties. *)

\* The program was given sig for this message, under the private key of these
\* public bytes as the scheme reads it and, where the scheme has contexts, in
\* this context.
Answers(scheme, bytes, msg, sig, opts) ==
    \E e \in made :
        /\ e.sig = sig /\ e.msg = msg /\ e.scheme = scheme
        /\ SupportsContext(scheme) => ContextOf(e.opts) = ContextOf(opts)
        /\ \E sk \in UnmarshalPrivate(scheme, MarshalPrivate(e.key)) :
              PublicKeyBytes(sk) = bytes

(* What a verify call accepts was returned by a sign call of the same      *)
(* scheme for the same message, under the private half of that key and,    *)
(* where the scheme has contexts, in the same context: the prehash         *)
(* sentinel is not the empty one, and a prehashed message is not its hash  *)
(* (the three verify and verify_typed methods, SigningMode of ed448.rs).   *)
AcceptedAsSigned ==
    \A pk \in publics, e \in made, msg \in Messages, opts \in Opts :
        /\ \A scheme \in Schemes :
              Verify(scheme, pk, msg, e.sig, opts) =>
                  Answers(scheme, MarshalPublic(pk), msg, e.sig, opts)
        /\ VerifyTyped(pk, msg, e.sig, opts) =>
              Answers(pk.scheme, MarshalPublic(pk), msg, e.sig, opts)

(* What a scheme returned for a key of its own, whichever way it was       *)
(* called, verifies with the same options under every public key object    *)
(* that is that key's, through dynamic and through typed dispatch (sign.rs,*)
(* Scheme and TypedScheme).                                                *)
WhatSignsVerifies ==
    \A e \in made, pk \in publics :
        e.key.scheme = e.scheme /\ MarshalPublic(pk) = PublicKeyBytes(e.key) =>
            /\ Verify(e.scheme, pk, e.msg, e.sig, e.opts)
            /\ VerifyTyped(pk, e.msg, e.sig, e.opts)

(* A context is never dropped on the way to a signature: two calls that    *)
(* returned the same signature were given the same scheme, message and     *)
(* context, and bytes that the scheme reads as the same key (the sign and  *)
(* sign_typed methods, SigningMode).                                       *)
SignaturesTellContexts ==
    \A e, f \in made : e.sig = f.sig =>
        /\ e.scheme = f.scheme /\ e.msg = f.msg
        /\ ContextOf(e.opts) = ContextOf(f.opts)
        /\ UnmarshalPrivate(e.scheme, MarshalPrivate(e.key))
               = UnmarshalPrivate(f.scheme, MarshalPrivate(f.key))

\* Signatures of the same key, message and context that satisfy the equation
\* of Ed448 and that no sign call returns.
Crafted(e) ==
    IF e.scheme = "Ed448"
    THEN {[e.sig EXCEPT !.form = form] : form \in Ed448!Forms \ {"as signed"}}
    ELSE {}

(* Public keys that compare equal are of one scheme, compare equal the     *)
(* other way round and with ==, and accept what sign calls returned alike, *)
(* though one may have been derived and the other read from bytes, and two *)
(* libraries then verify.  Of Ed448 signatures crafted otherwise, with an  *)
(* R that is not canonical or of small order or an S that is not reduced,  *)
(* which the library of a derived key may accept, neither an equal key     *)
(* read from bytes nor dynamic dispatch accepts any (equal, verify_sig and *)
(* verify_via_goldilocks of ed448.rs, from_bytes).                         *)
EqualKeysVerifyAlike ==
    \A pk \in publics :
        \A read \in UnmarshalPublic(pk.scheme, MarshalPublic(pk)) :
            /\ \A other \in publics \cup {read} :
                  EqualPublic(pk, other) =>
                      /\ EqualPublic(other, pk)
                      /\ pk.scheme = other.scheme /\ EqPublic(pk, other)
                      /\ \A e \in made, msg \in Messages, opts \in Opts :
                            VerifyTyped(pk, msg, e.sig, opts)
                                = VerifyTyped(other, msg, e.sig, opts)
            /\ \A e \in made, msg \in Messages, opts \in Opts : \A sig \in Crafted(e) :
                  /\ ~VerifyTyped(read, msg, sig, opts)
                  /\ ~Verify(pk.scheme, pk, msg, sig, opts)

(* A key object can be written, read back and cloned, however it came      *)
(* about: the object read is equal to it, dynamically in both directions   *)
(* and with ==, its public half is unchanged and can itself be read, and   *)
(* its bytes are as many as the scheme announces (marshal_binary, the      *)
(* unmarshal methods, PartialEq and Clone of the three backends).          *)
KeysSurviveBytes ==
    /\ \A sk \in privates :
          /\ MarshalPrivate(sk).size = Sizes(sk.scheme).private
          /\ \A copies \in {UnmarshalPrivate(sk.scheme, MarshalPrivate(sk)),
                             UnmarshalPrivateTyped(sk.scheme, MarshalPrivate(sk)), Clone(sk)} :
              \E copy \in copies :
                  /\ EqualPrivate(sk, copy) /\ EqualPrivate(copy, sk) /\ EqPrivate(sk, copy)
                  /\ PublicKeyBytes(copy) = PublicKeyBytes(sk)
                  /\ UnmarshalPublic(sk.scheme, PublicKeyBytes(copy)) # None
    /\ \A pk \in publics :
          /\ MarshalPublic(pk).size = Sizes(pk.scheme).public
          /\ \E copy \in UnmarshalPublicTyped(pk.scheme, MarshalPublic(pk)) :
                EqualPublic(pk, copy)

---------------------------------------------------------------------------
(* What comments say and the code does not do. *)

\* What a call of sign, and of verify, comes to.
SignOutcome(result) == IF result = None THEN "panic" ELSE "signature"
VerifyOutcome(accepted) == IF accepted THEN "true" ELSE "false"

(* What the comment on SignatureOpts::context says: a call with a context  *)
(* the scheme does not support fails.                                      *)
UnsupportedContextFails ==
    \A pk \in publics, e \in made, opts \in Opts :
        ContextOf(opts) # "" /\ ~SupportsContext(pk.scheme) =>
            VerifyOutcome(VerifyTyped(pk, e.msg, e.sig, opts)) # "true"

(* What the comment on Scheme::sign says: it panics for a private key of   *)
(* another scheme.                                                         *)
SignPanicsOnMismatch ==
    \A sk \in privates, scheme \in Schemes, msg \in Messages :
        scheme # sk.scheme => SignOutcome(Sign(scheme, sk, msg, None)) = "panic"

(* What the comment on Scheme::verify says: it panics for a public key of  *)
(* another scheme and for a context the scheme does not support.           *)
VerifyPanicsOnMisuse ==
    \A pk \in publics, e \in made, scheme \in Schemes, opts \in Opts :
        scheme # pk.scheme \/ (ContextOf(opts) # "" /\ ~SupportsContext(scheme)) =>
            VerifyOutcome(Verify(scheme, pk, e.msg, e.sig, opts)) = "panic"
=================================================================================
