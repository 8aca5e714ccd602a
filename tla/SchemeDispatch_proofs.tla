---------------------------- MODULE SchemeDispatch_proofs --------------------------
(***************************************************************************)
(* Proofs about SchemeDispatch, for any keys, messages and contexts: what  *)
(* the key objects and the signatures of a program look like, whichever    *)
(* calls made them, and what verifying them can answer.                    *)
(***************************************************************************)
EXTENDS SchemeDispatch, TLAPS

---------------------------------------------------------------------------
(* Key objects. *)

\* A private key of the scheme, made of this secret.
MlDsaKey(x) == [scheme |-> "ML-DSA-87", secret |-> x, public |-> MlDsa!VerifyingKey(x)]
P521Key(x) == [scheme |-> "P-521", secret |-> x]
Ed448Key(x) == [scheme |-> "Ed448", secret |-> x, public |-> Ed448!FromTrustedInner(x)]

PrivateTyped(sk) ==
    \/ \E x : sk = MlDsaKey(x)
    \/ \E x \in 1 .. Order - 1 : sk = P521Key(x)
    \/ \E x : sk = Ed448Key(x)

PublicTyped(pk) ==
    \/ \E v : pk = [scheme |-> "ML-DSA-87", point |-> v]
    \/ \E v : v.of = "P-521" /\ pk = [scheme |-> "P-521", point |-> v]
    \/ \E v : \E b \in BOOLEAN :
          v.of = "Ed448" /\ pk = [scheme |-> "Ed448", point |-> v, trusted |-> b]

\* What the secret of scheme x, as that scheme read it, answers to.
KeyOf(scheme, x) ==
    CASE scheme = "ML-DSA-87" -> MlDsaKey(x)
      [] scheme = "P-521" -> P521Key(x)
      [] scheme = "Ed448" -> Ed448Key(x)

LEMMA KeyOfEach ==
    ASSUME NEW x
    PROVE  /\ KeyOf("ML-DSA-87", x) = MlDsaKey(x)
           /\ KeyOf("P-521", x) = P521Key(x)
           /\ KeyOf("Ed448", x) = Ed448Key(x)
  BY DEF KeyOf

LEMMA UnmarshalPublicTypes ==
    ASSUME NEW scheme \in Schemes, NEW data, NEW pk \in UnmarshalPublic(scheme, data)
    PROVE  PublicTyped(pk)
<1>1. CASE scheme = "ML-DSA-87"
  BY <1>1 DEF UnmarshalPublic, MlDsa!UnmarshalPublic, MlDsa!PublicFromBytes, MlDsa!Name,
              MlDsa!Some, MlDsa!None, PublicTyped
<1>2. CASE scheme = "P-521"
  BY <1>2 DEF UnmarshalPublic, P521!UnmarshalPublic, P521!PublicFromBytes, P521!Name,
              P521!Some, P521!None, PublicTyped
<1>3. CASE scheme = "Ed448"
  BY <1>3 DEF UnmarshalPublic, Ed448!UnmarshalPublic, Ed448!PublicFromBytes, Ed448!Name,
              Ed448!Some, Ed448!None, PublicTyped
<1> QED  BY <1>1, <1>2, <1>3 DEF Schemes

LEMMA TypedPublicSame ==
    ASSUME NEW scheme \in Schemes, NEW data
    PROVE  UnmarshalPublicTyped(scheme, data) = UnmarshalPublic(scheme, data)
  BY DEF UnmarshalPublicTyped, UnmarshalPublic, Schemes,
         MlDsa!UnmarshalPublicTyped, MlDsa!UnmarshalPublic,
         P521!UnmarshalPublicTyped, P521!UnmarshalPublic,
         Ed448!UnmarshalPublicTyped, Ed448!UnmarshalPublic

LEMMA TypedPrivateSame ==
    ASSUME NEW scheme \in Schemes, NEW data
    PROVE  UnmarshalPrivateTyped(scheme, data) = UnmarshalPrivate(scheme, data)
  BY DEF UnmarshalPrivateTyped, UnmarshalPrivate, Schemes,
         MlDsa!UnmarshalPrivateTyped, MlDsa!UnmarshalPrivate,
         P521!UnmarshalPrivateTyped, P521!UnmarshalPrivate,
         Ed448!UnmarshalPrivateTyped, Ed448!UnmarshalPrivate

\* The three readers of private keys: the key of the bytes' value, or none.
LEMMA MlDsaReads ==
    ASSUME NEW data
    PROVE  MlDsa!PrivateFromBytes(data) = IF data.size = 32 THEN {MlDsaKey(data.value)} ELSE {}
  BY DEF MlDsa!PrivateFromBytes, MlDsa!SeedFromSlice, MlDsa!SeedSize, MlDsa!Some, MlDsa!None,
         MlDsaKey, MlDsa!Name

LEMMA P521Reads ==
    ASSUME NEW data
    PROVE  P521!PrivateFromBytes(data) =
               IF data.size \in MinScalarSize .. 66 /\ data.value \in 1 .. Order - 1
               THEN {P521Key(data.value)} ELSE {}
  BY DEF P521!PrivateFromBytes, P521!PrivateKeySize, P521!Some, P521!None, P521Key, P521!Name

LEMMA Ed448Makes ==
    ASSUME NEW data
    PROVE  Ed448!FromSeed(data) =
               IF data.size = 57
               THEN {[public |-> Ed448!FromTrustedInner(data.value),
                      private |-> Ed448Key(data.value)]}
               ELSE {}
  BY DEF Ed448!FromSeed, Ed448!SeedSize, Ed448!Some, Ed448!None, Ed448Key, Ed448!Name

LEMMA Ed448Reads ==
    ASSUME NEW data
    PROVE  Ed448!PrivateFromBytes(data) = IF data.size = 57 THEN {Ed448Key(data.value)} ELSE {}
<1>1. CASE data.size = 57
  <2>1. Ed448!FromSeed(data) = {[public |-> Ed448!FromTrustedInner(data.value),
                                 private |-> Ed448Key(data.value)]}
    BY <1>1, Ed448Makes
  <2> QED  BY <1>1, <2>1 DEF Ed448!PrivateFromBytes, Ed448!PrivateKeySize
<1>2. CASE data.size # 57
  BY <1>2 DEF Ed448!PrivateFromBytes, Ed448!PrivateKeySize, Ed448!None
<1> QED  BY <1>1, <1>2

LEMMA Reads ==
    ASSUME NEW scheme \in Schemes, NEW data
    PROVE  /\ \A sk \in UnmarshalPrivate(scheme, data) :
                 sk = KeyOf(scheme, data.value) /\ PrivateTyped(sk)
           /\ UnmarshalPrivate("ML-DSA-87", data) = MlDsa!PrivateFromBytes(data)
           /\ UnmarshalPrivate("P-521", data) = P521!PrivateFromBytes(data)
           /\ UnmarshalPrivate("Ed448", data) = Ed448!PrivateFromBytes(data)
<1>1. /\ UnmarshalPrivate("ML-DSA-87", data) = MlDsa!PrivateFromBytes(data)
      /\ UnmarshalPrivate("P-521", data) = P521!PrivateFromBytes(data)
      /\ UnmarshalPrivate("Ed448", data) = Ed448!PrivateFromBytes(data)
  BY DEF UnmarshalPrivate, MlDsa!UnmarshalPrivate, P521!UnmarshalPrivate, Ed448!UnmarshalPrivate
<1>2. CASE scheme = "ML-DSA-87"
  BY <1>1, <1>2, MlDsaReads, KeyOfEach DEF PrivateTyped
<1>3. CASE scheme = "P-521"
  BY <1>1, <1>3, P521Reads, KeyOfEach DEF PrivateTyped
<1>4. CASE scheme = "Ed448"
  BY <1>1, <1>4, Ed448Reads, KeyOfEach DEF PrivateTyped
<1> QED  BY <1>1, <1>2, <1>3, <1>4 DEF Schemes

\* Key pairs, however they are made, are typed.
PairTyped(p) == PrivateTyped(p.private) /\ PublicTyped(p.public)

LEMMA MlDsaPairs == ASSUME NEW data, NEW p \in MlDsa!FromSeed(data) PROVE PairTyped(p)
<1>1. PICK sk \in MlDsa!PrivateFromBytes(data) : p = [public |-> sk.public, private |-> sk]
  BY DEF MlDsa!FromSeed
<1>2. sk = MlDsaKey(data.value)
  BY <1>1, MlDsaReads
<1>3. p.private = sk /\ p.public = MlDsa!VerifyingKey(data.value)
  BY <1>1, <1>2 DEF MlDsaKey
<1> QED  BY <1>2, <1>3 DEF PairTyped, PrivateTyped, PublicTyped, MlDsa!VerifyingKey, MlDsa!Name

LEMMA P521Pairs == ASSUME NEW x \in 1 .. Order - 1 PROVE PairTyped(P521!Pair(x))
<1>1. P521!Pair(x).private = P521Key(x) /\ P521!Pair(x).public = P521!VerifyingKey(x)
  BY DEF P521!Pair, P521Key, P521!Name
<1>2. PublicTyped(P521!VerifyingKey(x))
  BY DEF PublicTyped, P521!VerifyingKey, P521!Name
<1> QED  BY <1>1, <1>2 DEF PairTyped, PrivateTyped

LEMMA Ed448Pairs == ASSUME NEW data, NEW p \in Ed448!FromSeed(data) PROVE PairTyped(p)
<1>1. p.private = Ed448Key(data.value) /\ p.public = Ed448!FromTrustedInner(data.value)
  BY Ed448Makes
<1>2. PublicTyped(Ed448!FromTrustedInner(data.value))
  BY DEF PublicTyped, Ed448!FromTrustedInner, Ed448!Point, Ed448!Name
<1> QED  BY <1>1, <1>2 DEF PairTyped, PrivateTyped

LEMMA GeneratedTyped ==
    ASSUME NEW scheme \in Schemes, NEW seed \in Seeds
    PROVE  /\ \A p \in GenerateKey(scheme, seed) : PairTyped(p)
           /\ \A p \in GenerateKeyTyped(scheme, seed) : PairTyped(p)
<1>1. CASE scheme = "ML-DSA-87"
  BY <1>1, MlDsaPairs
     DEF GenerateKey, GenerateKeyTyped, MlDsa!GenerateKey, MlDsa!GenerateKeyTyped
<1>2. CASE scheme = "P-521"
  BY <1>2, P521Pairs
     DEF GenerateKey, GenerateKeyTyped, P521!GenerateKey, P521!GenerateKeyTyped, P521!Some,
         P521!None
<1>3. CASE scheme = "Ed448"
  BY <1>3, Ed448Pairs
     DEF GenerateKey, GenerateKeyTyped, Ed448!GenerateKey, Ed448!GenerateKeyTyped
<1> QED  BY <1>1, <1>2, <1>3 DEF Schemes

LEMMA DerivedTyped ==
    ASSUME NEW scheme \in Schemes, NEW data \in SeedStrings
    PROVE  /\ \A p \in DeriveKey(scheme, data) : PairTyped(p)
           /\ \A p \in DeriveKeyTyped(scheme, data) : PairTyped(p)
<1>1. CASE scheme = "ML-DSA-87"
  BY <1>1, MlDsaPairs DEF DeriveKey, DeriveKeyTyped, MlDsa!DeriveKey, MlDsa!DeriveKeyTyped,
                          MlDsa!None
<1>2. CASE scheme = "P-521"
  <2>1. data.value \in Seeds
    BY DEF SeedStrings
  <2>2. SeedScalar[data.value] \in 1 .. Order - 1
    BY <2>1, SeedScalarAssumption
  <2> QED  BY <1>2, <2>2, P521Pairs
           DEF DeriveKey, DeriveKeyTyped, P521!DeriveKey, P521!DeriveKeyTyped,
               P521!DeriveKeypairFromSeed, P521!Some, P521!None
<1>3. CASE scheme = "Ed448"
  BY <1>3, Ed448Pairs DEF DeriveKey, DeriveKeyTyped, Ed448!DeriveKey, Ed448!DeriveKeyTyped,
                          Ed448!None
<1> QED  BY <1>1, <1>2, <1>3 DEF Schemes

\* A clone is the key it was made from.
LEMMA ClonesSame == ASSUME NEW sk, PrivateTyped(sk) PROVE Clone(sk) = {sk}
<1>1. ASSUME NEW x, sk = MlDsaKey(x) PROVE Clone(sk) = {sk}
  <2>1. Clone(sk) = MlDsa!PrivateFromBytes([size |-> 32, value |-> x])
    BY <1>1 DEF Clone, MlDsaKey, MlDsa!ClonePrivate, MlDsa!PrivateBytes, MlDsa!PrivateKeySize,
                MlDsa!SeedSize
  <2> QED  BY <1>1, <2>1, MlDsaReads
<1>2. ASSUME NEW x \in 1 .. Order - 1, sk = P521Key(x) PROVE Clone(sk) = {sk}
  <2>1. Clone(sk) = P521!PrivateFromBytes([size |-> 66, value |-> x])
    BY <1>2 DEF Clone, P521Key, P521!ClonePrivate, P521!PrivateBytes, P521!PrivateKeySize
  <2>2. 66 \in MinScalarSize .. 66
    BY OrderAssumption
  <2> QED  BY <1>2, <2>1, <2>2, P521Reads
<1>3. ASSUME NEW x, sk = Ed448Key(x) PROVE Clone(sk) = {sk}
  BY <1>3 DEF Clone, Ed448Key, Ed448!ClonePrivate, Ed448!Some, Ed448!Name
<1> QED  BY <1>1, <1>2, <1>3 DEF PrivateTyped

---------------------------------------------------------------------------
(* The bytes of a key object. *)

LEMMA SizesEach ==
    /\ Sizes("ML-DSA-87").public = 2592 /\ Sizes("ML-DSA-87").private = 32
    /\ Sizes("P-521").public = 133 /\ Sizes("P-521").private = 66
    /\ Sizes("Ed448").public = 57 /\ Sizes("Ed448").private = 57
    /\ Sizes("ML-DSA-87").signature = 4627
    /\ Sizes("P-521").signature = 132
    /\ Sizes("Ed448").signature = 114
<1>1. /\ Sizes("ML-DSA-87") = MlDsa!Sizes
      /\ Sizes("P-521") = P521!Sizes
      /\ Sizes("Ed448") = Ed448!Sizes
  BY DEF Sizes
<1> QED  BY <1>1 DEF MlDsa!Sizes, P521!Sizes, Ed448!Sizes, MlDsa!PublicKeySize,
                     MlDsa!PrivateKeySize, MlDsa!SeedSize, MlDsa!SignatureSize,
                     P521!PublicKeySize, P521!PrivateKeySize, P521!SignatureSize,
                     Ed448!PublicKeySize, Ed448!PrivateKeySize, Ed448!SignatureSize

LEMMA PublicBytesForm ==
    ASSUME NEW pk, PublicTyped(pk)
    PROVE  /\ pk.scheme \in Schemes
           /\ MarshalPublic(pk) = [size |-> Sizes(pk.scheme).public, value |-> pk.point]
<1>1. CASE pk.scheme = "ML-DSA-87"
  <2>1. MarshalPublic(pk) = MlDsa!PublicBytes(pk)
    BY <1>1 DEF MarshalPublic
  <2> QED  BY <1>1, <2>1, SizesEach DEF MlDsa!PublicBytes, MlDsa!PublicKeySize, Schemes
<1>2. CASE pk.scheme = "P-521"
  <2>1. MarshalPublic(pk) = P521!PublicBytes(pk)
    BY <1>2 DEF MarshalPublic
  <2> QED  BY <1>2, <2>1, SizesEach DEF P521!PublicBytes, P521!PublicKeySize, Schemes
<1>3. CASE pk.scheme = "Ed448"
  <2>1. MarshalPublic(pk) = Ed448!PublicBytes(pk)
    BY <1>3 DEF MarshalPublic
  <2> QED  BY <1>3, <2>1, SizesEach DEF Ed448!PublicBytes, Ed448!PublicKeySize, Schemes
<1> QED  BY <1>1, <1>2, <1>3 DEF PublicTyped

LEMMA PrivateBytesForm ==
    ASSUME NEW sk, PrivateTyped(sk)
    PROVE  /\ sk.scheme \in Schemes
           /\ sk = KeyOf(sk.scheme, sk.secret)
           /\ MarshalPrivate(sk) = [size |-> Sizes(sk.scheme).private, value |-> sk.secret]
           /\ sk.scheme = "P-521" => sk.secret \in 1 .. Order - 1
<1>1. ASSUME NEW x, sk = MlDsaKey(x) PROVE sk.scheme = "ML-DSA-87" /\ sk.secret = x
  BY <1>1 DEF MlDsaKey
<1>2. ASSUME NEW x, sk = P521Key(x) PROVE sk.scheme = "P-521" /\ sk.secret = x
  BY <1>2 DEF P521Key
<1>3. ASSUME NEW x, sk = Ed448Key(x) PROVE sk.scheme = "Ed448" /\ sk.secret = x
  BY <1>3 DEF Ed448Key
<1>4. CASE sk.scheme = "ML-DSA-87"
  <2>1. MarshalPrivate(sk) = MlDsa!PrivateBytes(sk)
    BY <1>4 DEF MarshalPrivate
  <2>2. sk = KeyOf(sk.scheme, sk.secret)
    BY <1>1, <1>2, <1>3, <1>4, KeyOfEach DEF PrivateTyped
  <2> QED  BY <1>4, <2>1, <2>2, SizesEach
           DEF MlDsa!PrivateBytes, MlDsa!PrivateKeySize, MlDsa!SeedSize, Schemes
<1>5. CASE sk.scheme = "P-521"
  <2>1. MarshalPrivate(sk) = P521!PrivateBytes(sk)
    BY <1>5 DEF MarshalPrivate
  <2>2. sk = KeyOf(sk.scheme, sk.secret) /\ sk.secret \in 1 .. Order - 1
    BY <1>1, <1>2, <1>3, <1>5, KeyOfEach DEF PrivateTyped
  <2> QED  BY <1>5, <2>1, <2>2, SizesEach DEF P521!PrivateBytes, P521!PrivateKeySize, Schemes
<1>6. CASE sk.scheme = "Ed448"
  <2>1. MarshalPrivate(sk) = Ed448!PrivateBytes(sk)
    BY <1>6 DEF MarshalPrivate
  <2>2. sk = KeyOf(sk.scheme, sk.secret)
    BY <1>1, <1>2, <1>3, <1>6, KeyOfEach DEF PrivateTyped
  <2> QED  BY <1>6, <2>1, <2>2, SizesEach DEF Ed448!PrivateBytes, Ed448!PrivateKeySize, Schemes
<1> QED  BY <1>1, <1>2, <1>3, <1>4, <1>5, <1>6 DEF PrivateTyped

\* The public bytes of a private key name the scheme and the secret.
PointOf(scheme, x) == [of |-> scheme, secret |-> x]

LEMMA PublicKeyBytesForm ==
    ASSUME NEW scheme \in Schemes, NEW x
    PROVE  PublicKeyBytes(KeyOf(scheme, x))
               = [size |-> Sizes(scheme).public, value |-> PointOf(scheme, x)]
<1>1. CASE scheme = "ML-DSA-87"
  <2>1. MlDsaKey(x).scheme = "ML-DSA-87"
    BY DEF MlDsaKey
  <2>2. PublicKeyBytes(MlDsaKey(x)) = MlDsa!PublicKeyBytes(MlDsaKey(x))
    BY <2>1 DEF PublicKeyBytes
  <2> QED  BY <1>1, <2>2, SizesEach, KeyOfEach
           DEF MlDsa!PublicKeyBytes, MlDsa!PublicBytes, MlDsa!PublicKeySize, MlDsaKey,
               MlDsa!VerifyingKey, MlDsa!Name, PointOf
<1>2. CASE scheme = "P-521"
  <2>1. P521Key(x).scheme = "P-521"
    BY DEF P521Key
  <2>2. PublicKeyBytes(P521Key(x)) = P521!PublicKeyBytes(P521Key(x))
    BY <2>1 DEF PublicKeyBytes
  <2> QED  BY <1>2, <2>2, SizesEach, KeyOfEach
           DEF P521!PublicKeyBytes, P521!PublicBytes, P521!PublicKeySize, P521Key,
               P521!VerifyingKey, P521!Name, PointOf
<1>3. CASE scheme = "Ed448"
  <2>1. Ed448Key(x).scheme = "Ed448"
    BY DEF Ed448Key
  <2>2. PublicKeyBytes(Ed448Key(x)) = Ed448!PublicKeyBytes(Ed448Key(x))
    BY <2>1 DEF PublicKeyBytes
  <2>3. Ed448Key(x).public.point = PointOf("Ed448", x)
    <3>1. Ed448Key(x).public = Ed448!FromTrustedInner(x)
      BY DEF Ed448Key
    <3> QED  BY <3>1 DEF Ed448!FromTrustedInner, Ed448!Point, Ed448!Name, PointOf
  <2>4. PublicKeyBytes(Ed448Key(x)) = [size |-> 57, value |-> PointOf("Ed448", x)]
    BY <2>2, <2>3 DEF Ed448!PublicKeyBytes, Ed448!PublicBytes, Ed448!PublicKeySize
  <2> QED  BY <1>3, <2>4, SizesEach, KeyOfEach
<1> QED  BY <1>1, <1>2, <1>3 DEF Schemes

\* Its scheme reads a private key object back as it was.
LEMMA ReadBack ==
    ASSUME NEW sk, PrivateTyped(sk)
    PROVE  UnmarshalPrivate(sk.scheme, MarshalPrivate(sk)) = {sk}
<1> DEFINE data == MarshalPrivate(sk)
<1>1. /\ sk.scheme \in Schemes
      /\ sk = KeyOf(sk.scheme, sk.secret)
      /\ data = [size |-> Sizes(sk.scheme).private, value |-> sk.secret]
      /\ sk.scheme = "P-521" => sk.secret \in 1 .. Order - 1
  BY PrivateBytesForm
<1>2. data.size = Sizes(sk.scheme).private /\ data.value = sk.secret
  BY <1>1
<1> HIDE DEF data
<1>3. CASE sk.scheme = "ML-DSA-87"
  <2>1. MlDsa!PrivateFromBytes(data) = {MlDsaKey(sk.secret)}
    BY <1>2, <1>3, MlDsaReads, SizesEach
  <2> QED  BY <1>1, <1>3, <2>1, Reads, KeyOfEach DEF data
<1>4. CASE sk.scheme = "P-521"
  <2>1. 66 \in MinScalarSize .. 66
    BY OrderAssumption
  <2>2. P521!PrivateFromBytes(data) = {P521Key(sk.secret)}
    BY <1>1, <1>2, <1>4, <2>1, P521Reads, SizesEach
  <2> QED  BY <1>1, <1>4, <2>2, Reads, KeyOfEach DEF data
<1>5. CASE sk.scheme = "Ed448"
  <2>1. Ed448!PrivateFromBytes(data) = {Ed448Key(sk.secret)}
    BY <1>2, <1>5, Ed448Reads, SizesEach
  <2> QED  BY <1>1, <1>5, <2>1, Reads, KeyOfEach DEF data
<1> QED  BY <1>1, <1>3, <1>4, <1>5 DEF Schemes

---------------------------------------------------------------------------
(* What is hashed. *)

PlainHash(msg) == [phflag |-> 0, context |-> "", text |-> msg]

Ed448Hash(msg, opts) ==
    Ed448!Dom4(Ed448!FromOpts(opts), Ed448!ContextOpt(Ed448!FromOpts(opts), opts), msg)

Hashed(scheme, msg, opts) ==
    IF scheme = "Ed448" THEN Ed448Hash(msg, opts) ELSE PlainHash(msg)

\* The two modes of Ed448.
LEMMA Ed448HashForm ==
    ASSUME NEW msg \in Messages, NEW opts \in Opts
    PROVE  /\ opts = {"PREHASHED"} =>
                 /\ ContextOf(opts) = "PREHASHED"
                 /\ Ed448Hash(msg, opts).phflag = 1
                 /\ Ed448Hash(msg, opts).text = [of |-> msg.of, depth |-> msg.depth + 1]
           /\ opts # {"PREHASHED"} =>
                 /\ ContextOf(opts) # "PREHASHED"
                 /\ Ed448Hash(msg, opts).phflag = 0
                 /\ Ed448Hash(msg, opts).context = ContextOf(opts)
                 /\ Ed448Hash(msg, opts).text = msg
<1>1. ContextOf(opts) = IF opts = {} THEN "" ELSE CHOOSE x \in opts : TRUE
  BY DEF ContextOf, UnwrapOr, None
<1>2. opts # {} => ContextOf(opts) \in opts
  BY <1>1
<1>3. opts # {} => opts = {ContextOf(opts)}
  <2>1. \A x, y \in opts : x = y
    BY DEF Opts, Option
  <2> QED  BY <1>2, <2>1
<1>4. CASE opts = {"PREHASHED"}
  <2>1. Ed448!FromOpts(opts) = "Ed448Ph"
    BY <1>4 DEF Ed448!FromOpts, Ed448!PrehashContext, Ed448!Some
  <2>2. Ed448!ContextOpt("Ed448Ph", opts) = ""
    BY DEF Ed448!ContextOpt
  <2>3. Ed448!Prehash(msg) = [of |-> msg.of, depth |-> msg.depth + 1]
    BY MessagesAssumption DEF Ed448!Prehash
  <2>4. ContextOf(opts) = "PREHASHED"
    BY <1>2, <1>4
  <2> QED  BY <1>4, <2>1, <2>2, <2>3, <2>4 DEF Ed448Hash, Ed448!Dom4
<1>5. CASE opts # {"PREHASHED"}
  <2>1. Ed448!FromOpts(opts) = "Ed448"
    BY <1>5 DEF Ed448!FromOpts, Ed448!PrehashContext, Ed448!Some
  <2>2. Ed448!ContextOpt("Ed448", opts) = ContextOf(opts)
    BY DEF Ed448!ContextOpt, ContextOf, Ed448!UnwrapOr, UnwrapOr, Ed448!None, None
  <2>3. ContextOf(opts) # "PREHASHED"
    BY <1>1, <1>3, <1>5
  <2> QED  BY <1>5, <2>1, <2>2, <2>3 DEF Ed448Hash, Ed448!Dom4
<1> QED  BY <1>4, <1>5

\* The hash tells the message and, where there are contexts, the context.
LEMMA HashedTells ==
    ASSUME NEW scheme \in Schemes, NEW m1 \in Messages, NEW m2 \in Messages,
           NEW o1 \in Opts, NEW o2 \in Opts,
           Hashed(scheme, m1, o1) = Hashed(scheme, m2, o2)
    PROVE  /\ m1 = m2
           /\ scheme = "Ed448" => ContextOf(o1) = ContextOf(o2)
<1>1. CASE scheme # "Ed448"
  <2>1. PlainHash(m1).text = PlainHash(m2).text
    BY <1>1 DEF Hashed
  <2> QED  BY <1>1, <2>1 DEF PlainHash
<1>2. CASE scheme = "Ed448"
  <2> DEFINE h1 == Ed448Hash(m1, o1)
             h2 == Ed448Hash(m2, o2)
  <2>1. h1 = h2
    BY <1>2 DEF Hashed
  <2>2. h1.phflag = h2.phflag /\ h1.context = h2.context /\ h1.text = h2.text
    BY <2>1
  <2> HIDE DEF h1, h2
  <2>3. CASE o1 = {"PREHASHED"}
    <3>1. h1.phflag = 1 /\ h1.text = [of |-> m1.of, depth |-> m1.depth + 1]
      BY <2>3, Ed448HashForm DEF h1, h2
    <3>2. o2 = {"PREHASHED"}
      <4>1. o2 # {"PREHASHED"} => h2.phflag = 0
        BY Ed448HashForm DEF h1, h2
      <4> QED  BY <2>2, <3>1, <4>1
    <3>3. h2.text = [of |-> m2.of, depth |-> m2.depth + 1]
      BY <3>2, Ed448HashForm DEF h1, h2
    <3>4. m1.of = m2.of /\ m1.depth + 1 = m2.depth + 1
      <4> DEFINE t1 == [of |-> m1.of, depth |-> m1.depth + 1]
                 t2 == [of |-> m2.of, depth |-> m2.depth + 1]
      <4>1. t1 = t2
        BY <2>2, <3>1, <3>3
      <4>2. t1.of = t2.of /\ t1.depth = t2.depth
        BY <4>1
      <4> QED  BY <4>2
    <3>5. m1 = m2
      <4>1. m1.depth = m2.depth
        BY <3>4, MessagesAssumption
      <4> QED  BY <3>4, <4>1, MessagesAssumption
    <3> QED  BY <2>3, <3>2, <3>5
  <2>4. CASE o1 # {"PREHASHED"}
    <3>1. h1.phflag = 0 /\ h1.text = m1 /\ h1.context = ContextOf(o1)
      BY <2>4, Ed448HashForm DEF h1, h2
    <3>2. o2 # {"PREHASHED"}
      <4>1. o2 = {"PREHASHED"} => h2.phflag = 1
        BY Ed448HashForm DEF h1, h2
      <4> QED  BY <2>2, <3>1, <4>1
    <3>3. h2.text = m2 /\ h2.context = ContextOf(o2)
      BY <3>2, Ed448HashForm DEF h1, h2
    <3> QED  BY <2>2, <3>1, <3>3
  <2> QED  BY <2>3, <2>4
<1> QED  BY <1>1, <1>2

---------------------------------------------------------------------------
(* Signatures. *)

\* The signature of this secret.
SignatureOf(scheme, x, msg, opts) ==
    IF scheme = "Ed448"
    THEN [size |-> Sizes(scheme).signature, by |-> PointOf(scheme, x),
          hashed |-> Hashed(scheme, msg, opts), form |-> "as signed"]
    ELSE [size |-> Sizes(scheme).signature, by |-> PointOf(scheme, x),
          hashed |-> Hashed(scheme, msg, opts)]

\* The options a scheme signs with.
Allowed(scheme, opts) ==
    IF scheme = "Ed448" THEN Ed448!ContextOpt(Ed448!FromOpts(opts), opts) \notin LongContexts
    ELSE ContextOf(opts) = ""

LEMMA MlDsaSigns ==
    ASSUME NEW x, NEW msg, NEW opts
    PROVE  /\ MlDsa!SignInternal(MlDsaKey(x), msg) = SignatureOf("ML-DSA-87", x, msg, opts)
           /\ MlDsa!HasContext(opts) <=> ~Allowed("ML-DSA-87", opts)
<1>1. MlDsaKey(x).secret = x
  BY DEF MlDsaKey
<1>2. MlDsa!VerifyingKey(x).point = PointOf("ML-DSA-87", x)
  BY DEF MlDsa!VerifyingKey, MlDsa!Name, PointOf
<1>3. Hashed("ML-DSA-87", msg, opts) = [phflag |-> 0, context |-> "", text |-> msg]
  BY DEF Hashed, PlainHash
<1>4. MlDsa!HasContext(opts) <=> ~Allowed("ML-DSA-87", opts)
  BY DEF MlDsa!HasContext, MlDsa!UnwrapOr, UnwrapOr, MlDsa!None, None, ContextOf, Allowed
<1>5. MlDsa!SignInternal(MlDsaKey(x), msg) = SignatureOf("ML-DSA-87", x, msg, opts)
  <2>1. MlDsa!SignInternal(MlDsaKey(x), msg)
            = [size |-> MlDsa!SignatureSize, by |-> MlDsa!VerifyingKey(x).point,
               hashed |-> [phflag |-> 0, context |-> "", text |-> msg]]
    BY <1>1 DEF MlDsa!SignInternal
  <2>2. MlDsa!SignatureSize = Sizes("ML-DSA-87").signature
    BY SizesEach DEF MlDsa!SignatureSize
  <2> QED  BY <1>2, <1>3, <2>1, <2>2 DEF SignatureOf
<1> QED  BY <1>4, <1>5

LEMMA P521Signs ==
    ASSUME NEW x, NEW msg, NEW opts
    PROVE  /\ P521!SignMsg(P521Key(x), msg) = SignatureOf("P-521", x, msg, opts)
           /\ P521!HasContext(opts) <=> ~Allowed("P-521", opts)
<1>1. P521Key(x).secret = x
  BY DEF P521Key
<1>2. P521!VerifyingKey(x).point = PointOf("P-521", x)
  BY DEF P521!VerifyingKey, P521!Name, PointOf
<1>3. Hashed("P-521", msg, opts) = [phflag |-> 0, context |-> "", text |-> msg]
  BY DEF Hashed, PlainHash
<1>4. P521!HasContext(opts) <=> ~Allowed("P-521", opts)
  BY DEF P521!HasContext, P521!UnwrapOr, UnwrapOr, P521!None, None, ContextOf, Allowed
<1>5. P521!SignMsg(P521Key(x), msg) = SignatureOf("P-521", x, msg, opts)
  <2>1. P521!SignMsg(P521Key(x), msg)
            = [size |-> P521!SignatureSize, by |-> P521!VerifyingKey(x).point,
               hashed |-> [phflag |-> 0, context |-> "", text |-> msg]]
    BY <1>1 DEF P521!SignMsg
  <2>2. P521!SignatureSize = Sizes("P-521").signature
    BY SizesEach DEF P521!SignatureSize
  <2> QED  BY <1>2, <1>3, <2>1, <2>2 DEF SignatureOf
<1> QED  BY <1>4, <1>5

LEMMA Ed448Signs ==
    ASSUME NEW x, NEW msg, NEW opts
    PROVE  Ed448!SignMsg(Ed448Key(x), msg, opts) =
               IF Allowed("Ed448", opts) THEN {SignatureOf("Ed448", x, msg, opts)} ELSE {}
<1>1. Ed448Key(x).secret = x
  BY DEF Ed448Key
<1>2. Ed448!Point(x) = PointOf("Ed448", x)
  BY DEF Ed448!Point, Ed448!Name, PointOf
<1>3. Hashed("Ed448", msg, opts)
          = Ed448!Dom4(Ed448!FromOpts(opts), Ed448!ContextOpt(Ed448!FromOpts(opts), opts), msg)
  BY DEF Hashed, Ed448Hash
<1> DEFINE mode == Ed448!FromOpts(opts)
           context == Ed448!ContextOpt(mode, opts)
           sig == [size |-> Ed448!SignatureSize, by |-> Ed448!Point(x),
                   hashed |-> Ed448!Dom4(mode, context, msg), form |-> "as signed"]
<1>4. Ed448!SignMsg(Ed448Key(x), msg, opts) = IF context \in LongContexts THEN {} ELSE {sig}
  BY <1>1 DEF Ed448!SignMsg, Ed448!Some, Ed448!None
<1>5. sig = SignatureOf("Ed448", x, msg, opts)
  <2>1. Sizes("Ed448").signature = Ed448!SignatureSize
    BY SizesEach DEF Ed448!SignatureSize
  <2> QED  BY <1>2, <1>3, <2>1 DEF SignatureOf
<1>6. Allowed("Ed448", opts) <=> context \notin LongContexts
  BY DEF Allowed
<1> HIDE DEF mode, context, sig
<1> QED  BY <1>4, <1>5, <1>6

\* Signing with the bytes of a key object: the key that the scheme reads.
LEMMA SignForm ==
    ASSUME NEW scheme \in Schemes, NEW sk, NEW msg, NEW opts,
           NEW sig \in Sign(scheme, sk, msg, opts)
    PROVE  \E x : /\ UnmarshalPrivate(scheme, MarshalPrivate(sk)) = {KeyOf(scheme, x)}
                  /\ sig = SignatureOf(scheme, x, msg, opts)
                  /\ Allowed(scheme, opts)
<1> DEFINE data == MarshalPrivate(sk)
<1>1. CASE scheme = "ML-DSA-87"
  <2>1. Sign(scheme, sk, msg, opts) = MlDsa!Sign(data, msg, opts)
    BY <1>1 DEF Sign
  <2>2. /\ ~MlDsa!HasContext(opts)
        /\ sig \in {MlDsa!SignInternal(key, msg) : key \in MlDsa!PrivateFromBytes(data)}
    BY <2>1 DEF MlDsa!Sign, MlDsa!None
  <2>3. MlDsa!PrivateFromBytes(data) = {MlDsaKey(data.value)}
    BY <2>2, MlDsaReads
  <2>4. sig = MlDsa!SignInternal(MlDsaKey(data.value), msg)
    BY <2>2, <2>3
  <2> QED  BY <1>1, <2>2, <2>3, <2>4, MlDsaSigns, Reads, KeyOfEach
<1>2. CASE scheme = "P-521"
  <2>1. Sign(scheme, sk, msg, opts) = P521!Sign(data, msg, opts)
    BY <1>2 DEF Sign
  <2>2. /\ ~P521!HasContext(opts)
        /\ sig \in {P521!SignMsg(key, msg) : key \in P521!PrivateFromBytes(data)}
    BY <2>1 DEF P521!Sign, P521!None
  <2>3. P521!PrivateFromBytes(data) = {P521Key(data.value)}
    BY <2>2, P521Reads
  <2>4. sig = P521!SignMsg(P521Key(data.value), msg)
    BY <2>2, <2>3
  <2> QED  BY <1>2, <2>2, <2>3, <2>4, P521Signs, Reads, KeyOfEach
<1>3. CASE scheme = "Ed448"
  <2>1. Sign(scheme, sk, msg, opts) = Ed448!Sign(data, msg, opts)
    BY <1>3 DEF Sign
  <2>2. sig \in UNION {Ed448!SignMsg(key, msg, opts) : key \in Ed448!PrivateFromBytes(data)}
    BY <2>1 DEF Ed448!Sign, Ed448!TryFromPrivate
  <2>3. Ed448!PrivateFromBytes(data) = {Ed448Key(data.value)}
    BY <2>2, Ed448Reads
  <2>4. sig \in Ed448!SignMsg(Ed448Key(data.value), msg, opts)
    BY <2>2, <2>3
  <2> QED  BY <1>3, <2>3, <2>4, Ed448Signs, Reads, KeyOfEach
<1> QED  BY <1>1, <1>2, <1>3 DEF Schemes

\* Signing with a typed key does the same with the key itself.
LEMMA SignTypedForm ==
    ASSUME NEW sk, PrivateTyped(sk), NEW msg, NEW opts, NEW sig \in SignTyped(sk, msg, opts)
    PROVE  \E x : /\ UnmarshalPrivate(sk.scheme, MarshalPrivate(sk)) = {KeyOf(sk.scheme, x)}
                  /\ sig = SignatureOf(sk.scheme, x, msg, opts)
                  /\ Allowed(sk.scheme, opts)
<1>1. sk.scheme \in Schemes /\ sk = KeyOf(sk.scheme, sk.secret)
  BY PrivateBytesForm
<1>2. UnmarshalPrivate(sk.scheme, MarshalPrivate(sk)) = {KeyOf(sk.scheme, sk.secret)}
  BY <1>1, ReadBack
<1>3. CASE sk.scheme = "ML-DSA-87"
  <2>1. SignTyped(sk, msg, opts) = MlDsa!SignTyped(sk, msg, opts)
    BY <1>3 DEF SignTyped
  <2>2. ~MlDsa!HasContext(opts) /\ sig = MlDsa!SignInternal(MlDsaKey(sk.secret), msg)
    BY <1>1, <1>3, <2>1, KeyOfEach DEF MlDsa!SignTyped, MlDsa!None, MlDsa!Some
  <2> QED  BY <1>2, <1>3, <2>2, MlDsaSigns
<1>4. CASE sk.scheme = "P-521"
  <2>1. SignTyped(sk, msg, opts) = P521!SignTyped(sk, msg, opts)
    BY <1>4 DEF SignTyped
  <2>2. ~P521!HasContext(opts) /\ sig = P521!SignMsg(P521Key(sk.secret), msg)
    BY <1>1, <1>4, <2>1, KeyOfEach DEF P521!SignTyped, P521!None, P521!Some
  <2> QED  BY <1>2, <1>4, <2>2, P521Signs
<1>5. CASE sk.scheme = "Ed448"
  <2>1. SignTyped(sk, msg, opts) = Ed448!SignTyped(sk, msg, opts)
    BY <1>5 DEF SignTyped
  <2>2. sig \in Ed448!SignMsg(Ed448Key(sk.secret), msg, opts)
    BY <1>1, <1>5, <2>1, KeyOfEach DEF Ed448!SignTyped
  <2> QED  BY <1>2, <1>5, <2>2, Ed448Signs
<1> QED  BY <1>1, <1>3, <1>4, <1>5 DEF Schemes

\* The form of an Ed448 signature passes the checks of the library that verifies.
Decodes(sig) == Ed448!DecodesR(sig) /\ Ed448!DecodesS(sig)
WellFormed(pk, sig) == IF pk.trusted THEN sig.form \in LibraryForms ELSE Decodes(sig)

\* What the other rules of verifying come to.
Accepts(scheme, point, msg, sig, opts) ==
    /\ sig.size = Sizes(scheme).signature
    /\ sig.by = point
    /\ sig.hashed = Hashed(scheme, msg, opts)

LEMMA Ed448Verifies ==
    ASSUME NEW pk, NEW msg, NEW sig, NEW opts
    PROVE  Ed448!VerifySig(pk, msg, sig, opts) <=>
               /\ Accepts("Ed448", pk.point, msg, sig, opts)
               /\ Allowed("Ed448", opts) /\ WellFormed(pk, sig)
<1> DEFINE mode == Ed448!FromOpts(opts)
           context == Ed448!ContextOpt(mode, opts)
<1>1. Sizes("Ed448").signature = Ed448!SignatureSize
  BY SizesEach DEF Ed448!SignatureSize
<1>2. Hashed("Ed448", msg, opts) = Ed448!Dom4(mode, context, msg)
  BY DEF Hashed, Ed448Hash
<1>3. Allowed("Ed448", opts) <=> context \notin LongContexts
  BY DEF Allowed
<1>4. Ed448!VerifyInMemory(pk, msg, sig, context, mode)
          <=> /\ sig.form \in LibraryForms
              /\ context \notin LongContexts
              /\ sig.by = pk.point
              /\ sig.hashed = Ed448!Dom4(mode, context, msg)
  BY DEF Ed448!VerifyInMemory
<1>5. Ed448!VerifyViaGoldilocks(pk, msg, sig, context, mode)
          <=> /\ Decodes(sig)
              /\ context \notin LongContexts
              /\ sig.by = pk.point
              /\ sig.hashed = Ed448!Dom4(mode, context, msg)
  BY DEF Ed448!VerifyViaGoldilocks, Ed448!Dom4, Decodes
<1> HIDE DEF mode, context
<1>6. Ed448!VerifySig(pk, msg, sig, opts) <=>
          /\ sig.size = Ed448!SignatureSize
          /\ WellFormed(pk, sig)
          /\ context \notin LongContexts
          /\ sig.by = pk.point
          /\ sig.hashed = Ed448!Dom4(mode, context, msg)
  BY <1>4, <1>5 DEF Ed448!VerifySig, WellFormed, mode, context
<1> QED  BY <1>1, <1>2, <1>3, <1>6 DEF Accepts

LEMMA PlainVerifies ==
    ASSUME NEW pk, NEW msg, NEW sig, NEW opts
    PROVE  /\ MlDsa!VerifyInternal(pk, msg, sig) <=> Accepts("ML-DSA-87", pk.point, msg, sig, opts)
           /\ P521!VerifySig(pk, msg, sig) <=> Accepts("P-521", pk.point, msg, sig, opts)
<1>1. /\ Sizes("ML-DSA-87").signature = MlDsa!SignatureSize
      /\ Sizes("P-521").signature = P521!SignatureSize
  BY SizesEach DEF MlDsa!SignatureSize, P521!SignatureSize
<1>2. /\ Hashed("ML-DSA-87", msg, opts) = [phflag |-> 0, context |-> "", text |-> msg]
      /\ Hashed("P-521", msg, opts) = [phflag |-> 0, context |-> "", text |-> msg]
  BY DEF Hashed, PlainHash
<1>3. MlDsa!VerifyInternal(pk, msg, sig) <=> Accepts("ML-DSA-87", pk.point, msg, sig, opts)
  BY <1>1, <1>2 DEF MlDsa!VerifyInternal, Accepts
<1>4. P521!VerifySig(pk, msg, sig) <=> Accepts("P-521", pk.point, msg, sig, opts)
  BY <1>1, <1>2 DEF P521!VerifySig, Accepts
<1> QED  BY <1>3, <1>4

\* Verifying with a typed key; only Ed448 looks at the options.
LEMMA VerifyTypedForm ==
    ASSUME NEW pk, PublicTyped(pk), NEW msg, NEW sig, NEW opts
    PROVE  VerifyTyped(pk, msg, sig, opts) <=>
               /\ Accepts(pk.scheme, pk.point, msg, sig, opts)
               /\ pk.scheme = "Ed448" => Allowed("Ed448", opts) /\ WellFormed(pk, sig)
<1>1. CASE pk.scheme = "ML-DSA-87"
  <2>1. VerifyTyped(pk, msg, sig, opts) <=> MlDsa!VerifyInternal(pk, msg, sig)
    BY <1>1 DEF VerifyTyped, MlDsa!VerifyTyped
  <2>2. MlDsa!VerifyInternal(pk, msg, sig) <=> Accepts("ML-DSA-87", pk.point, msg, sig, opts)
    BY PlainVerifies
  <2> QED  BY <1>1, <2>1, <2>2
<1>2. CASE pk.scheme = "P-521"
  <2>1. VerifyTyped(pk, msg, sig, opts) <=> P521!VerifySig(pk, msg, sig)
    BY <1>2 DEF VerifyTyped, P521!VerifyTyped
  <2>2. P521!VerifySig(pk, msg, sig) <=> Accepts("P-521", pk.point, msg, sig, opts)
    BY PlainVerifies
  <2> QED  BY <1>2, <2>1, <2>2
<1>3. CASE pk.scheme = "Ed448"
  <2>1. VerifyTyped(pk, msg, sig, opts) <=> Ed448!VerifySig(pk, msg, sig, opts)
    BY <1>3 DEF VerifyTyped, Ed448!VerifyTyped
  <2>2. Ed448!VerifySig(pk, msg, sig, opts) <=>
            /\ Accepts("Ed448", pk.point, msg, sig, opts)
            /\ Allowed("Ed448", opts) /\ WellFormed(pk, sig)
    BY Ed448Verifies
  <2> QED  BY <1>3, <2>1, <2>2
<1>4. pk.scheme \in Schemes
  BY PublicBytesForm
<1> QED  BY <1>1, <1>2, <1>3, <1>4 DEF Schemes

\* Verifying with the bytes of a key object: they have the scheme's size only
\* if the key is of the scheme, and a key read from bytes checks the form.
LEMMA VerifyForm ==
    ASSUME NEW scheme \in Schemes, NEW pk, PublicTyped(pk), NEW msg, NEW sig, NEW opts,
           Verify(scheme, pk, msg, sig, opts)
    PROVE  /\ Accepts(scheme, pk.point, msg, sig, opts)
           /\ MarshalPublic(pk).size = Sizes(scheme).public
           /\ scheme = "Ed448" => Decodes(sig)
<1> DEFINE data == MarshalPublic(pk)
<1>1. pk.scheme \in Schemes /\ data.size = Sizes(pk.scheme).public /\ data.value = pk.point
  BY PublicBytesForm
<1> HIDE DEF data
<1>2. CASE scheme = "ML-DSA-87"
  <2>1. MlDsa!Verify(data, msg, sig, opts)
    BY <1>2 DEF Verify, data
  <2>2. PICK key \in MlDsa!PublicFromBytes(data) : MlDsa!VerifyInternal(key, msg, sig)
    BY <2>1 DEF MlDsa!Verify, MlDsa!TryFromPublic
  <2>3. key.point = data.value /\ data.size = 2592
    BY DEF MlDsa!PublicFromBytes, MlDsa!PublicKeySize, MlDsa!Some, MlDsa!None
  <2>4. Accepts("ML-DSA-87", key.point, msg, sig, opts)
    BY <2>2, PlainVerifies
  <2> QED  BY <1>1, <1>2, <2>3, <2>4, SizesEach DEF data
<1>3. CASE scheme = "P-521"
  <2>1. P521!Verify(data, msg, sig, opts)
    BY <1>3 DEF Verify, data
  <2>2. PICK key \in P521!PublicFromBytes(data) : P521!VerifySig(key, msg, sig)
    BY <2>1 DEF P521!Verify
  <2>3. key.point = data.value /\ data.size \in {133, 67}
    BY DEF P521!PublicFromBytes, P521!PublicKeySize, P521!CompressedSize, P521!Some, P521!None
  <2>4. data.size = 133
    BY <1>1, <2>3, SizesEach DEF Schemes
  <2>5. Accepts("P-521", key.point, msg, sig, opts)
    BY <2>2, PlainVerifies
  <2> QED  BY <1>1, <1>3, <2>3, <2>4, <2>5, SizesEach DEF data
<1>4. CASE scheme = "Ed448"
  <2>1. Ed448!Verify(data, msg, sig, opts)
    BY <1>4 DEF Verify, data
  <2>2. PICK key \in Ed448!PublicFromBytes(data) : Ed448!VerifySig(key, msg, sig, opts)
    BY <2>1 DEF Ed448!Verify, Ed448!TryFromPublic
  <2>3. key.point = data.value /\ data.size = 57 /\ key.trusted = FALSE
    BY DEF Ed448!PublicFromBytes, Ed448!PublicKeySize, Ed448!Some, Ed448!None
  <2>4. Accepts("Ed448", key.point, msg, sig, opts) /\ Decodes(sig)
    BY <2>2, <2>3, Ed448Verifies DEF WellFormed
  <2> QED  BY <1>1, <1>4, <2>3, <2>4, SizesEach DEF data
<1> QED  BY <1>2, <1>3, <1>4 DEF Schemes

---------------------------------------------------------------------------
(* The invariant: every key object is typed, and every signature is the    *)
(* secret's that the scheme read in the bytes of the key.                  *)

SignedBy(e) ==
    \E x : /\ UnmarshalPrivate(e.scheme, MarshalPrivate(e.key)) = {KeyOf(e.scheme, x)}
           /\ e.sig = SignatureOf(e.scheme, x, e.msg, e.opts)
           /\ Allowed(e.scheme, e.opts)

MadeTyped(e) ==
    e.scheme \in Schemes /\ e.msg \in Messages /\ e.opts \in Opts /\ PrivateTyped(e.key)

HeldTyped ==
    /\ \A sk \in privates : PrivateTyped(sk)
    /\ \A pk \in publics : PublicTyped(pk)
    /\ \A e \in made : MadeTyped(e) /\ SignedBy(e)

LEMMA HoldKeeps ==
    ASSUME HeldTyped, NEW newPrivates, NEW newPublics, Hold(newPrivates, newPublics),
           \A sk \in newPrivates : PrivateTyped(sk),
           \A pk \in newPublics : PublicTyped(pk)
    PROVE  HeldTyped'
  BY DEF HeldTyped, Hold

LEMMA PairsKeep ==
    ASSUME HeldTyped, NEW pairs, HoldPair(pairs), \A p \in pairs : PairTyped(p)
    PROVE  HeldTyped'
<1> DEFINE newPrivates == {p.private : p \in pairs}
           newPublics == {p.public : p \in pairs}
<1>1. \A sk \in newPrivates : PrivateTyped(sk)
  BY DEF PairTyped
<1>2. \A pk \in newPublics : PublicTyped(pk)
  BY DEF PairTyped
<1>3. Hold(newPrivates, newPublics)
  BY DEF HoldPair
<1> HIDE DEF newPrivates, newPublics
<1> QED  BY <1>1, <1>2, <1>3, HoldKeeps

LEMMA SignedKeeps ==
    ASSUME HeldTyped, NEW scheme \in Schemes, NEW sk \in privates, NEW msg \in Messages,
           NEW opts \in Opts, NEW result, Signed(scheme, sk, msg, opts, result),
           \A sig \in result :
               \E x : /\ UnmarshalPrivate(scheme, MarshalPrivate(sk)) = {KeyOf(scheme, x)}
                      /\ sig = SignatureOf(scheme, x, msg, opts)
                      /\ Allowed(scheme, opts)
    PROVE  HeldTyped'
<1>1. PrivateTyped(sk)
  BY DEF HeldTyped
<1>2. ASSUME NEW e \in made' PROVE MadeTyped(e) /\ SignedBy(e)
  <2>1. CASE e \in made
    BY <2>1 DEF HeldTyped
  <2>2. CASE e \notin made
    <3>1. PICK sig \in result :
              e = [scheme |-> scheme, key |-> sk, msg |-> msg, opts |-> opts, sig |-> sig]
      BY <2>2 DEF Signed
    <3>2. e.scheme = scheme /\ e.key = sk /\ e.msg = msg /\ e.opts = opts /\ e.sig = sig
      BY <3>1
    <3>3. MadeTyped(e)
      BY <1>1, <3>2 DEF MadeTyped
    <3>4. SignedBy(e)
      BY <3>2 DEF SignedBy
    <3> QED  BY <3>3, <3>4
  <2> QED  BY <2>1, <2>2
<1>3. privates' = privates /\ publics' = publics
  BY DEF Signed
<1> QED  BY <1>2, <1>3 DEF HeldTyped

LEMMA Inductive == ASSUME HeldTyped, [Next]_vars PROVE HeldTyped'
<1>1. CASE UNCHANGED vars
  BY <1>1 DEF vars, HeldTyped
<1>2. ASSUME NEW scheme \in Schemes, NEW seed \in Seeds,
             CallGenerateKey(scheme, seed) \/ CallGenerateKeyTyped(scheme, seed)
      PROVE  HeldTyped'
  <2>3. CASE CallGenerateKey(scheme, seed)
    <3>1. HoldPair(GenerateKey(scheme, seed))
      BY <2>3 DEF CallGenerateKey
    <3> QED  BY <3>1, GeneratedTyped, PairsKeep
  <2>4. CASE CallGenerateKeyTyped(scheme, seed)
    <3>1. HoldPair(GenerateKeyTyped(scheme, seed))
      BY <2>4 DEF CallGenerateKeyTyped
    <3> QED  BY <3>1, GeneratedTyped, PairsKeep
  <2> QED  BY <1>2, <2>3, <2>4
<1>3. ASSUME NEW scheme \in Schemes, NEW data \in SeedStrings,
             CallDeriveKey(scheme, data) \/ CallDeriveKeyTyped(scheme, data)
      PROVE  HeldTyped'
  <2>2. CASE CallDeriveKey(scheme, data)
    <3>1. HoldPair(DeriveKey(scheme, data))
      BY <2>2 DEF CallDeriveKey
    <3> QED  BY <3>1, DerivedTyped, PairsKeep
  <2>3. CASE CallDeriveKeyTyped(scheme, data)
    <3>1. HoldPair(DeriveKeyTyped(scheme, data))
      BY <2>3 DEF CallDeriveKeyTyped
    <3> QED  BY <3>1, DerivedTyped, PairsKeep
  <2> QED  BY <1>3, <2>2, <2>3
<1>4. ASSUME NEW scheme \in Schemes, NEW data \in PublicStrings,
             CallUnmarshalPublic(scheme, data) \/ CallUnmarshalPublicTyped(scheme, data)
      PROVE  HeldTyped'
  <2>1. Hold({}, UnmarshalPublic(scheme, data))
    BY <1>4, TypedPublicSame DEF CallUnmarshalPublic, CallUnmarshalPublicTyped
  <2> QED  BY <2>1, UnmarshalPublicTypes, HoldKeeps
<1>5. ASSUME NEW scheme \in Schemes, NEW data \in SecretStrings,
             CallUnmarshalPrivate(scheme, data) \/ CallUnmarshalPrivateTyped(scheme, data)
      PROVE  HeldTyped'
  <2>1. Hold(UnmarshalPrivate(scheme, data), {})
    BY <1>5, TypedPrivateSame DEF CallUnmarshalPrivate, CallUnmarshalPrivateTyped
  <2>2. \A sk \in UnmarshalPrivate(scheme, data) : PrivateTyped(sk)
    BY Reads
  <2> QED  BY <2>1, <2>2, HoldKeeps
<1>6. ASSUME NEW sk \in privates, CallClone(sk) PROVE HeldTyped'
  <2>1. PrivateTyped(sk)
    BY DEF HeldTyped
  <2>2. Hold({sk}, {})
    BY <1>6, <2>1, ClonesSame DEF CallClone
  <2> QED  BY <2>1, <2>2, HoldKeeps
<1>7. ASSUME NEW sk \in privates, NEW msg \in Messages, NEW opts \in Opts,
             NEW scheme \in Schemes, CallSign(scheme, sk, msg, opts)
      PROVE  HeldTyped'
  <2> DEFINE result == Sign(scheme, sk, msg, opts)
  <2>1. Signed(scheme, sk, msg, opts, result)
    BY <1>7 DEF CallSign
  <2>2. \A sig \in result :
            \E x : /\ UnmarshalPrivate(scheme, MarshalPrivate(sk)) = {KeyOf(scheme, x)}
                   /\ sig = SignatureOf(scheme, x, msg, opts)
                   /\ Allowed(scheme, opts)
    BY SignForm
  <2> HIDE DEF result
  <2> QED  BY <2>1, <2>2, SignedKeeps
<1>8. ASSUME NEW sk \in privates, NEW msg \in Messages, NEW opts \in Opts,
             CallSignTyped(sk, msg, opts)
      PROVE  HeldTyped'
  <2> DEFINE result == SignTyped(sk, msg, opts)
  <2>1. Signed(sk.scheme, sk, msg, opts, result)
    BY <1>8 DEF CallSignTyped
  <2>2. PrivateTyped(sk)
    BY DEF HeldTyped
  <2>3. sk.scheme \in Schemes
    BY <2>2, PrivateBytesForm
  <2>4. \A sig \in result :
            \E x : /\ UnmarshalPrivate(sk.scheme, MarshalPrivate(sk)) = {KeyOf(sk.scheme, x)}
                   /\ sig = SignatureOf(sk.scheme, x, msg, opts)
                   /\ Allowed(sk.scheme, opts)
    BY <2>2, SignTypedForm
  <2> HIDE DEF result
  <2> QED  BY <2>1, <2>3, <2>4, SignedKeeps
<1> QED  BY <1>1, <1>2, <1>3, <1>4, <1>5, <1>6, <1>7, <1>8 DEF Next

(* Whichever calls made them, key objects are typed and a signature is of  *)
(* the secret its scheme read in the bytes of the key (the unmarshal, sign *)
(* and derive methods of sign.rs and the three backends).                  *)
THEOREM AllTyped == Spec => []HeldTyped
<1>1. Init => HeldTyped
  BY DEF Init, HeldTyped
<1>2. HeldTyped /\ [Next]_vars => HeldTyped'
  BY Inductive
<1> QED  BY <1>1, <1>2, PTL DEF Spec

---------------------------------------------------------------------------
(* The properties. *)

\* The parts of a signature that was made.
LEMMA MadeParts ==
    ASSUME NEW e, NEW x, e.sig = SignatureOf(e.scheme, x, e.msg, e.opts)
    PROVE  /\ e.sig.size = Sizes(e.scheme).signature
           /\ e.sig.by = PointOf(e.scheme, x)
           /\ e.sig.hashed = Hashed(e.scheme, e.msg, e.opts)
           /\ e.scheme = "Ed448" => e.sig.form = "as signed"
<1> DEFINE scheme == e.scheme
           msg == e.msg
           opts == e.opts
           sig == e.sig
<1>1. sig = SignatureOf(scheme, x, msg, opts)
  OBVIOUS
<1> HIDE DEF scheme, msg, opts, sig
<1>2. /\ sig.size = Sizes(scheme).signature
      /\ sig.by = PointOf(scheme, x)
      /\ sig.hashed = Hashed(scheme, msg, opts)
      /\ scheme = "Ed448" => sig.form = "as signed"
  BY <1>1 DEF SignatureOf
<1> QED  BY <1>2 DEF scheme, msg, opts, sig

\* What is accepted of a signature that was made, is what was made.
LEMMA AcceptedAnswers ==
    ASSUME HeldTyped, NEW scheme \in Schemes, NEW pk \in publics, NEW e \in made,
           NEW msg \in Messages, NEW opts \in Opts,
           Accepts(scheme, pk.point, msg, e.sig, opts),
           MarshalPublic(pk).size = Sizes(scheme).public
    PROVE  Answers(scheme, MarshalPublic(pk), msg, e.sig, opts)
<1>1. PublicTyped(pk) /\ MadeTyped(e) /\ SignedBy(e)
  BY DEF HeldTyped
<1>2. PICK x : /\ UnmarshalPrivate(e.scheme, MarshalPrivate(e.key)) = {KeyOf(e.scheme, x)}
               /\ e.sig = SignatureOf(e.scheme, x, e.msg, e.opts)
  BY <1>1 DEF SignedBy
<1>3. /\ e.sig.size = Sizes(e.scheme).signature
      /\ e.sig.by = PointOf(e.scheme, x)
      /\ e.sig.hashed = Hashed(e.scheme, e.msg, e.opts)
  BY <1>2, MadeParts
<1>4. e.scheme = scheme
  <2>1. Sizes(e.scheme).signature = Sizes(scheme).signature
    BY <1>3 DEF Accepts
  <2>2. e.scheme \in Schemes
    BY <1>1 DEF MadeTyped
  <2> QED  BY <2>1, <2>2, SizesEach DEF Schemes
<1>5. e.msg = msg /\ (scheme = "Ed448" => ContextOf(e.opts) = ContextOf(opts))
  <2>1. Hashed(scheme, e.msg, e.opts) = Hashed(scheme, msg, opts)
    BY <1>3, <1>4 DEF Accepts
  <2> QED  BY <1>1, <2>1, HashedTells DEF MadeTyped
<1>6. SupportsContext(scheme) => ContextOf(e.opts) = ContextOf(opts)
  <2>1. SupportsContext(scheme) => scheme = "Ed448"
    BY DEF SupportsContext, Schemes, MlDsa!SupportsContext, P521!SupportsContext
  <2> QED  BY <1>5, <2>1
<1>7. PublicKeyBytes(KeyOf(scheme, x)) = MarshalPublic(pk)
  <2>1. pk.point = PointOf(scheme, x)
    BY <1>3, <1>4 DEF Accepts
  <2>2. MarshalPublic(pk) = [size |-> Sizes(pk.scheme).public, value |-> pk.point]
    BY <1>1, PublicBytesForm
  <2>3. Sizes(pk.scheme).public = Sizes(scheme).public
    BY <2>2
  <2> QED  BY <2>1, <2>2, <2>3, PublicKeyBytesForm
<1> QED  BY <1>2, <1>4, <1>5, <1>6, <1>7 DEF Answers

(* What a verify call accepts was returned by a sign call of the same      *)
(* scheme for the same message, under the private half of that key and,    *)
(* where the scheme has contexts, in the same context, for any keys,       *)
(* messages and contexts (the verify and verify_typed methods of the three *)
(* backends).                                                              *)
THEOREM Accepted == Spec => []AcceptedAsSigned
<1>1. HeldTyped => AcceptedAsSigned
  <2> SUFFICES ASSUME HeldTyped, NEW pk \in publics, NEW e \in made,
                      NEW msg \in Messages, NEW opts \in Opts
               PROVE  /\ \A scheme \in Schemes :
                            Verify(scheme, pk, msg, e.sig, opts) =>
                                Answers(scheme, MarshalPublic(pk), msg, e.sig, opts)
                      /\ VerifyTyped(pk, msg, e.sig, opts) =>
                            Answers(pk.scheme, MarshalPublic(pk), msg, e.sig, opts)
    BY DEF AcceptedAsSigned
  <2>1. PublicTyped(pk)
    BY DEF HeldTyped
  <2>2. ASSUME NEW scheme \in Schemes, Verify(scheme, pk, msg, e.sig, opts)
        PROVE  Answers(scheme, MarshalPublic(pk), msg, e.sig, opts)
    BY <2>1, <2>2, VerifyForm, AcceptedAnswers
  <2>3. ASSUME VerifyTyped(pk, msg, e.sig, opts)
        PROVE  Answers(pk.scheme, MarshalPublic(pk), msg, e.sig, opts)
    <3>1. Accepts(pk.scheme, pk.point, msg, e.sig, opts)
      BY <2>1, <2>3, VerifyTypedForm
    <3>2. pk.scheme \in Schemes /\ MarshalPublic(pk).size = Sizes(pk.scheme).public
      BY <2>1, PublicBytesForm
    <3> QED  BY <3>1, <3>2, AcceptedAnswers
  <2> QED  BY <2>2, <2>3
<1> QED  BY <1>1, AllTyped, PTL

(* Two calls that returned the same signature were given the same scheme,  *)
(* message and context, and bytes that the scheme reads as the same key,   *)
(* for any keys, messages and contexts: no context is dropped on the way   *)
(* (the sign and sign_typed methods, SigningMode of ed448.rs).             *)
THEOREM Tell == Spec => []SignaturesTellContexts
<1>1. HeldTyped => SignaturesTellContexts
  <2> SUFFICES ASSUME HeldTyped, NEW e \in made, NEW f \in made, e.sig = f.sig
               PROVE  /\ e.scheme = f.scheme /\ e.msg = f.msg
                      /\ ContextOf(e.opts) = ContextOf(f.opts)
                      /\ UnmarshalPrivate(e.scheme, MarshalPrivate(e.key))
                             = UnmarshalPrivate(f.scheme, MarshalPrivate(f.key))
    BY DEF SignaturesTellContexts
  <2>1. MadeTyped(e) /\ SignedBy(e) /\ MadeTyped(f) /\ SignedBy(f)
    BY DEF HeldTyped
  <2>2. PICK x : /\ UnmarshalPrivate(e.scheme, MarshalPrivate(e.key)) = {KeyOf(e.scheme, x)}
                 /\ e.sig = SignatureOf(e.scheme, x, e.msg, e.opts)
                 /\ Allowed(e.scheme, e.opts)
    BY <2>1 DEF SignedBy
  <2>3. PICK y : /\ UnmarshalPrivate(f.scheme, MarshalPrivate(f.key)) = {KeyOf(f.scheme, y)}
                 /\ f.sig = SignatureOf(f.scheme, y, f.msg, f.opts)
                 /\ Allowed(f.scheme, f.opts)
    BY <2>1 DEF SignedBy
  <2>4. /\ Sizes(e.scheme).signature = Sizes(f.scheme).signature
        /\ PointOf(e.scheme, x) = PointOf(f.scheme, y)
        /\ Hashed(e.scheme, e.msg, e.opts) = Hashed(f.scheme, f.msg, f.opts)
    <3>1. /\ e.sig.size = Sizes(e.scheme).signature
          /\ e.sig.by = PointOf(e.scheme, x)
          /\ e.sig.hashed = Hashed(e.scheme, e.msg, e.opts)
      BY <2>2, MadeParts
    <3>2. /\ f.sig.size = Sizes(f.scheme).signature
          /\ f.sig.by = PointOf(f.scheme, y)
          /\ f.sig.hashed = Hashed(f.scheme, f.msg, f.opts)
      BY <2>3, MadeParts
    <3> QED  BY <3>1, <3>2
  <2>5. e.scheme = f.scheme
    BY <2>1, <2>4, SizesEach DEF MadeTyped, Schemes
  <2>6. x = y
    <3>1. PointOf(e.scheme, x).secret = PointOf(f.scheme, y).secret
      BY <2>4
    <3> QED  BY <3>1 DEF PointOf
  <2>7. e.msg = f.msg /\ (e.scheme = "Ed448" => ContextOf(e.opts) = ContextOf(f.opts))
    BY <2>1, <2>4, <2>5, HashedTells DEF MadeTyped
  <2>8. ContextOf(e.opts) = ContextOf(f.opts)
    <3>1. CASE e.scheme = "Ed448"
      BY <2>7, <3>1
    <3>2. CASE e.scheme # "Ed448"
      BY <2>2, <2>3, <2>5, <3>2 DEF Allowed
    <3> QED  BY <3>1, <3>2
  <2> QED  BY <2>2, <2>3, <2>5, <2>6, <2>7, <2>8
<1> QED  BY <1>1, AllTyped, PTL

\* Written as signing writes it, where the form matters.
FormAsSigned(scheme, sig) == scheme = "Ed448" => sig.form = "as signed"

\* A key object of the scheme accepts what Accepts and Allowed say.
LEMMA VerifyConverse ==
    ASSUME NEW pk, PublicTyped(pk), NEW msg, NEW sig, NEW opts,
           Accepts(pk.scheme, pk.point, msg, sig, opts), Allowed(pk.scheme, opts),
           FormAsSigned(pk.scheme, sig)
    PROVE  Verify(pk.scheme, pk, msg, sig, opts)
<1> DEFINE data == MarshalPublic(pk)
<1>1. data.size = Sizes(pk.scheme).public /\ data.value = pk.point
  BY PublicBytesForm
<1> HIDE DEF data
<1>2. CASE pk.scheme = "ML-DSA-87"
  <2> DEFINE key == [scheme |-> "ML-DSA-87", point |-> data.value]
  <2>1. MlDsa!PublicFromBytes(data) = {key}
    BY <1>1, <1>2, SizesEach
       DEF MlDsa!PublicFromBytes, MlDsa!PublicKeySize, MlDsa!Some, MlDsa!Name
  <2>2. MlDsa!VerifyInternal(key, msg, sig)
    BY <1>1, <1>2, PlainVerifies
  <2>3. ~MlDsa!HasContext(opts)
    BY <1>2, MlDsaSigns
  <2>4. MlDsa!Verify(data, msg, sig, opts)
    BY <2>1, <2>2, <2>3 DEF MlDsa!Verify, MlDsa!TryFromPublic
  <2> QED  BY <1>2, <2>4 DEF Verify, data
<1>3. CASE pk.scheme = "P-521"
  <2> DEFINE key == [scheme |-> "P-521", point |-> data.value]
  <2>0. pk.point.of = "P-521"
    BY <1>3 DEF PublicTyped
  <2>1. P521!PublicFromBytes(data) = {key}
    BY <1>1, <1>3, <2>0, SizesEach
       DEF P521!PublicFromBytes, P521!PublicKeySize, P521!Some, P521!Name
  <2>2. P521!VerifySig(key, msg, sig)
    BY <1>1, <1>3, PlainVerifies
  <2>3. ~P521!HasContext(opts)
    BY <1>3, P521Signs
  <2>4. P521!Verify(data, msg, sig, opts)
    BY <2>1, <2>2, <2>3 DEF P521!Verify
  <2> QED  BY <1>3, <2>4 DEF Verify, data
<1>4. CASE pk.scheme = "Ed448"
  <2> DEFINE key == [scheme |-> "Ed448", point |-> data.value, trusted |-> FALSE]
  <2>0. pk.point.of = "Ed448"
    BY <1>4 DEF PublicTyped
  <2>1. Ed448!PublicFromBytes(data) = {key}
    BY <1>1, <1>4, <2>0, SizesEach
       DEF Ed448!PublicFromBytes, Ed448!PublicKeySize, Ed448!Some, Ed448!Name
  <2>2. WellFormed(key, sig)
    BY <1>4 DEF FormAsSigned, WellFormed, Decodes, Ed448!DecodesR, Ed448!DecodesS
  <2>3. Ed448!VerifySig(key, msg, sig, opts)
    BY <1>1, <1>4, <2>2, Ed448Verifies
  <2>4. Ed448!Verify(data, msg, sig, opts)
    BY <2>1, <2>3 DEF Ed448!Verify, Ed448!TryFromPublic
  <2> QED  BY <1>4, <2>4 DEF Verify, data
<1>5. pk.scheme \in Schemes
  BY PublicBytesForm
<1> QED  BY <1>2, <1>3, <1>4, <1>5 DEF Schemes

\* Whichever library verifies, the form of a signature as made is accepted.
LEMMA AsSigned ==
    ASSUME NEW pk, NEW sig, sig.form = "as signed"
    PROVE  WellFormed(pk, sig)
  BY FormsAssumption DEF WellFormed, Decodes, Ed448!DecodesR, Ed448!DecodesS

\* Bytes tell public key objects up to how they came about.
LEMMA SameBytes ==
    ASSUME NEW pk, PublicTyped(pk), NEW other, PublicTyped(other),
           MarshalPublic(pk) = MarshalPublic(other)
    PROVE  pk.scheme = other.scheme /\ pk.point = other.point
<1>1. /\ MarshalPublic(pk).size = Sizes(pk.scheme).public
      /\ MarshalPublic(pk).value = pk.point
      /\ MarshalPublic(other).size = Sizes(other.scheme).public
      /\ MarshalPublic(other).value = other.point
      /\ pk.scheme \in Schemes /\ other.scheme \in Schemes
  BY PublicBytesForm
<1> QED  BY <1>1, SizesEach DEF Schemes

(* What a scheme returned for a key of its own verifies with the same      *)
(* options under every public key object that is that key's, through       *)
(* dynamic and typed dispatch, for any keys, messages and contexts         *)
(* (sign.rs, Scheme and TypedScheme, and the three backends).              *)
THEOREM Verifies == Spec => []WhatSignsVerifies
<1>1. HeldTyped => WhatSignsVerifies
  <2> SUFFICES ASSUME HeldTyped, NEW e \in made, NEW pk \in publics,
                      e.key.scheme = e.scheme, MarshalPublic(pk) = PublicKeyBytes(e.key)
               PROVE  /\ Verify(e.scheme, pk, e.msg, e.sig, e.opts)
                      /\ VerifyTyped(pk, e.msg, e.sig, e.opts)
    BY DEF WhatSignsVerifies
  <2>1. PublicTyped(pk) /\ MadeTyped(e) /\ SignedBy(e)
    BY DEF HeldTyped
  <2>2. PICK x : /\ UnmarshalPrivate(e.scheme, MarshalPrivate(e.key)) = {KeyOf(e.scheme, x)}
                 /\ e.sig = SignatureOf(e.scheme, x, e.msg, e.opts)
                 /\ Allowed(e.scheme, e.opts)
    BY <2>1 DEF SignedBy
  <2>3. e.key = KeyOf(e.scheme, x)
    BY <2>1, <2>2, ReadBack DEF MadeTyped
  <2>4. MarshalPublic(pk) = [size |-> Sizes(e.scheme).public, value |-> PointOf(e.scheme, x)]
    BY <2>1, <2>3, PublicKeyBytesForm DEF MadeTyped
  <2>5. /\ MarshalPublic(pk).size = Sizes(pk.scheme).public
        /\ MarshalPublic(pk).value = pk.point
        /\ pk.scheme \in Schemes
    BY <2>1, PublicBytesForm
  <2>6. pk.point = PointOf(e.scheme, x) /\ Sizes(pk.scheme).public = Sizes(e.scheme).public
    BY <2>4, <2>5
  <2>7. pk.scheme = e.scheme
    BY <2>1, <2>5, <2>6, SizesEach DEF Schemes, MadeTyped
  <2>8. /\ Accepts(pk.scheme, pk.point, e.msg, e.sig, e.opts)
        /\ pk.scheme = "Ed448" => e.sig.form = "as signed"
    BY <2>2, <2>6, <2>7, MadeParts DEF Accepts
  <2>9. Verify(e.scheme, pk, e.msg, e.sig, e.opts)
    BY <2>1, <2>2, <2>7, <2>8, VerifyConverse DEF FormAsSigned
  <2>10. VerifyTyped(pk, e.msg, e.sig, e.opts)
    BY <2>1, <2>2, <2>7, <2>8, VerifyTypedForm, AsSigned
  <2> QED  BY <2>9, <2>10
<1> QED  BY <1>1, AllTyped, PTL

\* Comparing public key objects compares their bytes.
LEMMA EqualPublicForm ==
    ASSUME NEW pk, PublicTyped(pk), NEW other, PublicTyped(other)
    PROVE  EqualPublic(pk, other) <=> MarshalPublic(other) = MarshalPublic(pk)
<1> DEFINE bytes == MarshalPublic(other)
<1>1. CASE pk.scheme = "ML-DSA-87"
  <2>1. EqualPublic(pk, other) <=> MlDsa!EqualPublic(pk, bytes)
    BY <1>1 DEF EqualPublic
  <2>2. MarshalPublic(pk) = MlDsa!PublicBytes(pk)
    BY <1>1 DEF MarshalPublic
  <2>3. MlDsa!PublicBytes(pk).size = MlDsa!PublicKeySize
    BY DEF MlDsa!PublicBytes
  <2> QED  BY <2>1, <2>2, <2>3 DEF MlDsa!EqualPublic
<1>2. CASE pk.scheme = "P-521"
  <2>1. EqualPublic(pk, other) <=> P521!EqualPublic(pk, bytes)
    BY <1>2 DEF EqualPublic
  <2>2. MarshalPublic(pk) = P521!PublicBytes(pk)
    BY <1>2 DEF MarshalPublic
  <2> QED  BY <2>1, <2>2 DEF P521!EqualPublic
<1>3. CASE pk.scheme = "Ed448"
  <2>1. EqualPublic(pk, other) <=> Ed448!EqualPublic(pk, bytes)
    BY <1>3 DEF EqualPublic
  <2>2. MarshalPublic(pk) = Ed448!PublicBytes(pk)
    BY <1>3 DEF MarshalPublic
  <2>3. Ed448!PublicBytes(pk).size = Ed448!PublicKeySize
    BY DEF Ed448!PublicBytes
  <2> QED  BY <2>1, <2>2, <2>3 DEF Ed448!EqualPublic
<1>4. pk.scheme \in Schemes
  BY PublicBytesForm
<1> QED  BY <1>1, <1>2, <1>3, <1>4 DEF Schemes

LEMMA VerifyTypedBoolean ==
    ASSUME NEW pk, PublicTyped(pk), NEW msg, NEW sig, NEW opts
    PROVE  VerifyTyped(pk, msg, sig, opts) \in BOOLEAN
<1>1. CASE pk.scheme = "ML-DSA-87"
  BY <1>1 DEF VerifyTyped, MlDsa!VerifyTyped, MlDsa!VerifyInternal
<1>2. CASE pk.scheme = "P-521"
  BY <1>2 DEF VerifyTyped, P521!VerifyTyped, P521!VerifySig
<1>3. CASE pk.scheme = "Ed448"
  BY <1>3 DEF VerifyTyped, Ed448!VerifyTyped, Ed448!VerifySig
<1>4. pk.scheme \in Schemes
  BY PublicBytesForm
<1> QED  BY <1>1, <1>2, <1>3, <1>4 DEF Schemes

\* A key read from a public key's bytes is that key, and of Ed448 it checks
\* the form of what it verifies.
LEMMA ReadKey ==
    ASSUME NEW pk, PublicTyped(pk),
           NEW read \in UnmarshalPublic(pk.scheme, MarshalPublic(pk))
    PROVE  /\ PublicTyped(read) /\ read.scheme = pk.scheme
           /\ pk.scheme = "Ed448" => read.trusted = FALSE
<1> DEFINE data == MarshalPublic(pk)
<1>1. pk.scheme \in Schemes
  BY PublicBytesForm
<1>2. PublicTyped(read)
  BY <1>1, UnmarshalPublicTypes
<1>3. CASE pk.scheme = "ML-DSA-87"
  <2>1. read \in MlDsa!PublicFromBytes(data)
    BY <1>3 DEF UnmarshalPublic, MlDsa!UnmarshalPublic
  <2>2. read.scheme = "ML-DSA-87"
    BY <2>1 DEF MlDsa!PublicFromBytes, MlDsa!Some, MlDsa!None, MlDsa!Name
  <2> QED  BY <1>2, <1>3, <2>2
<1>4. CASE pk.scheme = "P-521"
  <2>1. read \in P521!PublicFromBytes(data)
    BY <1>4 DEF UnmarshalPublic, P521!UnmarshalPublic
  <2>2. read.scheme = "P-521"
    BY <2>1 DEF P521!PublicFromBytes, P521!Some, P521!None, P521!Name
  <2> QED  BY <1>2, <1>4, <2>2
<1>5. CASE pk.scheme = "Ed448"
  <2>1. read \in Ed448!PublicFromBytes(data)
    BY <1>5 DEF UnmarshalPublic, Ed448!UnmarshalPublic
  <2>2. read.scheme = "Ed448" /\ read.trusted = FALSE
    BY <2>1 DEF Ed448!PublicFromBytes, Ed448!Some, Ed448!None, Ed448!Name
  <2> QED  BY <1>2, <1>5, <2>2
<1> QED  BY <1>1, <1>3, <1>4, <1>5 DEF Schemes

\* What verifying answers to a signature of another form than those made.
LEMMA CraftedForm ==
    ASSUME HeldTyped, NEW e \in made, NEW sig \in Crafted(e)
    PROVE  sig.size = Sizes("Ed448").signature /\ ~Decodes(sig)
<1>1. /\ e.scheme = "Ed448"
      /\ \E form \in Ed448!Forms \ {"as signed"} : sig = [e.sig EXCEPT !.form = form]
  BY DEF Crafted
<1>2. PICK form \in Ed448!Forms \ {"as signed"} : sig = [e.sig EXCEPT !.form = form]
  BY <1>1
<1>3. PICK x : e.sig = SignatureOf("Ed448", x, e.msg, e.opts)
  BY <1>1 DEF HeldTyped, SignedBy
<1>4. sig.size = Sizes("Ed448").signature /\ sig.form = form
  <2> DEFINE size == Sizes("Ed448").signature
             by == PointOf("Ed448", x)
             hashed == Hashed("Ed448", e.msg, e.opts)
  <2>1. e.sig = [size |-> size, by |-> by, hashed |-> hashed, form |-> "as signed"]
    BY <1>3 DEF SignatureOf
  <2> HIDE DEF size, by, hashed
  <2>2. sig = [[size |-> size, by |-> by, hashed |-> hashed, form |-> "as signed"]
                   EXCEPT !.form = form]
    BY <1>2, <2>1
  <2>3. sig.size = size /\ sig.form = form
    BY <2>2
  <2> QED  BY <2>3 DEF size
<1>5. ~Decodes(sig)
  BY <1>4 DEF Ed448!Forms, Decodes, Ed448!DecodesR, Ed448!DecodesS
<1> QED  BY <1>4, <1>5

(* Public keys that compare equal are of one scheme, compare equal the     *)
(* other way round and with ==, and accept what sign calls returned alike, *)
(* whichever of the two libraries of ed448.rs verifies; and a crafted      *)
(* Ed448 signature, whose R is not canonical or of small order or whose S  *)
(* is not reduced, is accepted by no equal key read from bytes and not by  *)
(* dynamic dispatch.  For any keys, messages and contexts, and whichever   *)
(* crafted forms ed448-rust lets through (equal, verify_sig and            *)
(* verify_via_goldilocks, from_bytes).                                     *)
THEOREM Alike == Spec => []EqualKeysVerifyAlike
<1>1. HeldTyped => EqualKeysVerifyAlike
  <2> SUFFICES ASSUME HeldTyped, NEW pk \in publics,
                      NEW read \in UnmarshalPublic(pk.scheme, MarshalPublic(pk))
               PROVE  /\ \A other \in publics \cup {read} :
                            EqualPublic(pk, other) =>
                                /\ EqualPublic(other, pk)
                                /\ pk.scheme = other.scheme /\ EqPublic(pk, other)
                                /\ \A e \in made, msg \in Messages, opts \in Opts :
                                      VerifyTyped(pk, msg, e.sig, opts)
                                          = VerifyTyped(other, msg, e.sig, opts)
                      /\ \A e \in made, msg \in Messages, opts \in Opts :
                            \A sig \in Crafted(e) :
                                /\ ~VerifyTyped(read, msg, sig, opts)
                                /\ ~Verify(pk.scheme, pk, msg, sig, opts)
    BY DEF EqualKeysVerifyAlike
  <2>1. PublicTyped(pk) /\ pk.scheme \in Schemes
    BY PublicBytesForm DEF HeldTyped
  <2>2. /\ PublicTyped(read) /\ read.scheme = pk.scheme
        /\ pk.scheme = "Ed448" => read.trusted = FALSE
    BY <2>1, ReadKey
  <2>3. ASSUME NEW other \in publics \cup {read}, EqualPublic(pk, other)
        PROVE  /\ EqualPublic(other, pk)
               /\ pk.scheme = other.scheme /\ EqPublic(pk, other)
               /\ \A e \in made, msg \in Messages, opts \in Opts :
                     VerifyTyped(pk, msg, e.sig, opts)
                         = VerifyTyped(other, msg, e.sig, opts)
    <3>1. PublicTyped(other)
      BY <2>2 DEF HeldTyped
    <3>2. MarshalPublic(other) = MarshalPublic(pk)
      BY <2>1, <2>3, <3>1, EqualPublicForm
    <3>3. pk.scheme = other.scheme /\ pk.point = other.point
      BY <2>1, <3>1, <3>2, SameBytes
    <3>4. EqualPublic(other, pk)
      BY <2>1, <3>1, <3>2, EqualPublicForm
    <3>5. EqPublic(pk, other)
      <4>1. MlDsa!EqPublic(pk, other) /\ Ed448!EqPublic(pk, other)
        BY <3>3 DEF MlDsa!EqPublic, Ed448!EqPublic
      <4>2. P521!EqPublic(pk, other)
        BY <3>3 DEF P521!EqPublic, P521!PublicBytes
      <4> QED  BY <2>1, <4>1, <4>2 DEF EqPublic, Schemes
    <3>6. ASSUME NEW e \in made, NEW msg \in Messages, NEW opts \in Opts
          PROVE  VerifyTyped(pk, msg, e.sig, opts) = VerifyTyped(other, msg, e.sig, opts)
      <4>1. /\ VerifyTyped(pk, msg, e.sig, opts) \in BOOLEAN
            /\ VerifyTyped(other, msg, e.sig, opts) \in BOOLEAN
        BY <2>1, <3>1, VerifyTypedBoolean
      <4>2. PICK x : e.sig = SignatureOf(e.scheme, x, e.msg, e.opts)
        BY DEF HeldTyped, SignedBy
      <4>3. e.scheme \in Schemes /\ e.sig.size = Sizes(e.scheme).signature
        BY <4>2, MadeParts DEF HeldTyped, MadeTyped
      <4>4. CASE e.scheme = pk.scheme
        <5>1. pk.scheme = "Ed448" => e.sig.form = "as signed"
          BY <4>2, <4>4, MadeParts
        <5>2. pk.scheme = "Ed448" => WellFormed(pk, e.sig) /\ WellFormed(other, e.sig)
          BY <5>1, AsSigned
        <5>3. VerifyTyped(pk, msg, e.sig, opts) <=> VerifyTyped(other, msg, e.sig, opts)
          BY <2>1, <3>1, <3>3, <5>2, VerifyTypedForm
        <5> QED  BY <4>1, <5>3
      <4>5. CASE e.scheme # pk.scheme
        <5>1. e.sig.size # Sizes(pk.scheme).signature
          BY <2>1, <4>3, <4>5, SizesEach DEF Schemes
        <5>2. /\ ~Accepts(pk.scheme, pk.point, msg, e.sig, opts)
              /\ ~Accepts(other.scheme, other.point, msg, e.sig, opts)
          BY <3>3, <5>1 DEF Accepts
        <5>3. ~VerifyTyped(pk, msg, e.sig, opts) /\ ~VerifyTyped(other, msg, e.sig, opts)
          BY <2>1, <3>1, <5>2, VerifyTypedForm
        <5> QED  BY <4>1, <5>3
      <4> QED  BY <4>4, <4>5
    <3> QED  BY <3>3, <3>4, <3>5, <3>6
  <2>4. ASSUME NEW e \in made, NEW msg \in Messages, NEW opts \in Opts, NEW sig \in Crafted(e)
        PROVE  ~VerifyTyped(read, msg, sig, opts) /\ ~Verify(pk.scheme, pk, msg, sig, opts)
    <3>1. sig.size = Sizes("Ed448").signature /\ ~Decodes(sig)
      BY CraftedForm
    <3>2. CASE pk.scheme = "Ed448"
      <4>1. ~WellFormed(read, sig)
        BY <2>2, <3>1, <3>2 DEF WellFormed
      <4> QED  BY <2>1, <2>2, <3>1, <3>2, <4>1, VerifyTypedForm, VerifyForm
    <3>3. CASE pk.scheme # "Ed448"
      <4>1. sig.size # Sizes(pk.scheme).signature
        BY <2>1, <3>1, <3>3, SizesEach DEF Schemes
      <4>2. /\ ~Accepts(read.scheme, read.point, msg, sig, opts)
            /\ ~Accepts(pk.scheme, pk.point, msg, sig, opts)
        BY <2>2, <4>1 DEF Accepts
      <4> QED  BY <2>1, <2>2, <4>2, VerifyTypedForm, VerifyForm
    <3> QED  BY <3>2, <3>3
  <2> QED  BY <2>3, <2>4
<1> QED  BY <1>1, AllTyped, PTL

\* The bytes of a key of the scheme are read as that key.
LEMMA PointRead ==
    ASSUME NEW scheme \in Schemes, NEW data, data.size = Sizes(scheme).public,
           scheme # "ML-DSA-87" => data.value.of = scheme
    PROVE  \E copy \in UnmarshalPublic(scheme, data) :
               copy.scheme = scheme /\ copy.point = data.value
<1>1. CASE scheme = "ML-DSA-87"
  <2> DEFINE copy == [scheme |-> "ML-DSA-87", point |-> data.value]
  <2>1. MlDsa!PublicFromBytes(data) = {copy}
    BY <1>1, SizesEach
       DEF MlDsa!PublicFromBytes, MlDsa!PublicKeySize, MlDsa!Some, MlDsa!Name
  <2>2. UnmarshalPublic(scheme, data) = MlDsa!PublicFromBytes(data)
    BY <1>1 DEF UnmarshalPublic, MlDsa!UnmarshalPublic
  <2>3. copy.scheme = scheme /\ copy.point = data.value
    BY <1>1
  <2> HIDE DEF copy
  <2> QED  BY <2>1, <2>2, <2>3
<1>2. CASE scheme = "P-521"
  <2> DEFINE copy == [scheme |-> "P-521", point |-> data.value]
  <2>1. P521!PublicFromBytes(data) = {copy}
    BY <1>2, SizesEach
       DEF P521!PublicFromBytes, P521!PublicKeySize, P521!Some, P521!Name
  <2>2. UnmarshalPublic(scheme, data) = P521!PublicFromBytes(data)
    BY <1>2 DEF UnmarshalPublic, P521!UnmarshalPublic
  <2>3. copy.scheme = scheme /\ copy.point = data.value
    BY <1>2
  <2> HIDE DEF copy
  <2> QED  BY <2>1, <2>2, <2>3
<1>3. CASE scheme = "Ed448"
  <2> DEFINE copy == [scheme |-> "Ed448", point |-> data.value, trusted |-> FALSE]
  <2>1. Ed448!PublicFromBytes(data) = {copy}
    BY <1>3, SizesEach
       DEF Ed448!PublicFromBytes, Ed448!PublicKeySize, Ed448!Some, Ed448!Name
  <2>2. UnmarshalPublic(scheme, data) = Ed448!PublicFromBytes(data)
    BY <1>3 DEF UnmarshalPublic, Ed448!UnmarshalPublic
  <2>3. copy.scheme = scheme /\ copy.point = data.value
    BY <1>3
  <2> HIDE DEF copy
  <2> QED  BY <2>1, <2>2, <2>3
<1> QED  BY <1>1, <1>2, <1>3 DEF Schemes

\* A private key object equals itself, both ways.
LEMMA EqualToItself ==
    ASSUME NEW sk, PrivateTyped(sk)
    PROVE  EqualPrivate(sk, sk) /\ EqPrivate(sk, sk)
<1>1. CASE sk.scheme = "ML-DSA-87"
  <2>1. MlDsa!EqualPrivate(sk, MlDsa!PrivateBytes(sk)) /\ MlDsa!EqPrivate(sk, sk)
    BY DEF MlDsa!EqualPrivate, MlDsa!EqPrivate, MlDsa!PrivateBytes
  <2> QED  BY <1>1, <2>1 DEF EqualPrivate, EqPrivate, MarshalPrivate
<1>2. CASE sk.scheme = "P-521"
  <2>1. P521!EqualPrivate(sk, P521!PrivateBytes(sk)) /\ P521!EqPrivate(sk, sk)
    BY DEF P521!EqualPrivate, P521!EqPrivate
  <2> QED  BY <1>2, <2>1 DEF EqualPrivate, EqPrivate, MarshalPrivate
<1>3. CASE sk.scheme = "Ed448"
  <2>1. Ed448!EqualPrivate(sk, Ed448!PrivateBytes(sk)) /\ Ed448!EqPrivate(sk, sk)
    BY DEF Ed448!EqualPrivate, Ed448!EqPrivate, Ed448!PrivateBytes
  <2> QED  BY <1>3, <2>1 DEF EqualPrivate, EqPrivate, MarshalPrivate
<1>4. sk.scheme \in Schemes
  BY PrivateBytesForm
<1> QED  BY <1>1, <1>2, <1>3, <1>4 DEF Schemes

(* A key object can be written, read back and cloned, however it came      *)
(* about: what is read is equal to it, its public half is unchanged and    *)
(* can itself be read, and its bytes are as many as the scheme announces,  *)
(* for any keys (marshal_binary, the unmarshal methods, PartialEq and      *)
(* Clone of the three backends).                                           *)
THEOREM Survive == Spec => []KeysSurviveBytes
<1>1. HeldTyped => KeysSurviveBytes
  <2> SUFFICES ASSUME HeldTyped PROVE KeysSurviveBytes
    OBVIOUS
  <2>1. ASSUME NEW sk \in privates
        PROVE  /\ MarshalPrivate(sk).size = Sizes(sk.scheme).private
               /\ \A copies \in {UnmarshalPrivate(sk.scheme, MarshalPrivate(sk)),
                                  UnmarshalPrivateTyped(sk.scheme, MarshalPrivate(sk)),
                                  Clone(sk)} :
                   \E copy \in copies :
                       /\ EqualPrivate(sk, copy) /\ EqualPrivate(copy, sk) /\ EqPrivate(sk, copy)
                       /\ PublicKeyBytes(copy) = PublicKeyBytes(sk)
                       /\ UnmarshalPublic(sk.scheme, PublicKeyBytes(copy)) # None
    <3>1. PrivateTyped(sk)
      BY DEF HeldTyped
    <3>2. /\ sk.scheme \in Schemes /\ sk = KeyOf(sk.scheme, sk.secret)
          /\ MarshalPrivate(sk).size = Sizes(sk.scheme).private
      BY <3>1, PrivateBytesForm
    <3>3. EqualPrivate(sk, sk) /\ EqPrivate(sk, sk)
      BY <3>1, EqualToItself
    <3>4. UnmarshalPublic(sk.scheme, PublicKeyBytes(sk)) # None
      <4> DEFINE data == PublicKeyBytes(sk)
      <4>1. data = [size |-> Sizes(sk.scheme).public,
                    value |-> PointOf(sk.scheme, sk.secret)]
        BY <3>2, PublicKeyBytesForm
      <4>2. data.size = Sizes(sk.scheme).public /\ data.value.of = sk.scheme
        BY <4>1 DEF PointOf
      <4> HIDE DEF data
      <4>3. \E copy \in UnmarshalPublic(sk.scheme, data) : TRUE
        BY <3>2, <4>2, PointRead
      <4> QED  BY <4>3 DEF data, None
    <3>5. /\ UnmarshalPrivate(sk.scheme, MarshalPrivate(sk)) = {sk}
          /\ UnmarshalPrivateTyped(sk.scheme, MarshalPrivate(sk)) = {sk}
          /\ Clone(sk) = {sk}
      BY <3>1, <3>2, ReadBack, TypedPrivateSame, ClonesSame
    <3> QED  BY <3>2, <3>3, <3>4, <3>5
  <2>2. ASSUME NEW pk \in publics
        PROVE  /\ MarshalPublic(pk).size = Sizes(pk.scheme).public
               /\ \E copy \in UnmarshalPublicTyped(pk.scheme, MarshalPublic(pk)) :
                     EqualPublic(pk, copy)
    <3> DEFINE data == MarshalPublic(pk)
    <3>1. PublicTyped(pk)
      BY DEF HeldTyped
    <3>2. /\ pk.scheme \in Schemes
          /\ data = [size |-> Sizes(pk.scheme).public, value |-> pk.point]
      BY <3>1, PublicBytesForm
    <3>3. pk.scheme # "ML-DSA-87" => pk.point.of = pk.scheme
      BY <3>1 DEF PublicTyped
    <3>4. data.size = Sizes(pk.scheme).public /\ data.value = pk.point
      BY <3>2
    <3> HIDE DEF data
    <3>5. PICK copy \in UnmarshalPublic(pk.scheme, data) :
              copy.scheme = pk.scheme /\ copy.point = pk.point
      BY <3>2, <3>3, <3>4, PointRead
    <3>6. PublicTyped(copy)
      BY <3>2, <3>5, UnmarshalPublicTypes
    <3>7. MarshalPublic(copy) = data
      BY <3>2, <3>5, <3>6, PublicBytesForm
    <3>8. EqualPublic(pk, copy)
      BY <3>1, <3>6, <3>7, EqualPublicForm DEF data
    <3> QED  BY <3>2, <3>4, <3>5, <3>8, TypedPublicSame DEF data
  <2> QED  BY <2>1, <2>2 DEF KeysSurviveBytes
<1> QED  BY <1>1, AllTyped, PTL
=================================================================================
