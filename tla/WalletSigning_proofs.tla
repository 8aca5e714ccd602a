---------------------------- MODULE WalletSigning_proofs ---------------------------
(***************************************************************************)
(* Proofs about Wallet and WalletSigning.                                  *)
(*                                                                         *)
(* Wallet: what every key object holds, whatever calls made it; that its   *)
(* address fixes the seed it was made from; that every account has a path  *)
(* of its own, which is where PathRoundTrip of HdPath_proofs comes in, and *)
(* a phrase that restores it.                                              *)
(*                                                                         *)
(* WalletSigning: the keys of Wallet are whole, so what binds their        *)
(* sub-signatures together belongs to the secrets that make them.          *)
(***************************************************************************)
EXTENDS WalletSigning, HdPath_proofs

\* A seed, from a mnemonic or brought by a caller, after any derivations.
SeedTyped(seed) ==
    \E root, paths :
        /\ seed = [root |-> root, paths |-> paths]
        /\ root.len \in Nat
        /\ paths \in Seq(Paths)

\* What generate returns for a seed of this length.
Whole(key) ==
    \E seed :
        /\ SeedTyped(seed) /\ Length(seed) >= 64
        /\ key = [dil |-> SubKeys(seed).dil, p521 |-> SubKeys(seed).p521,
                  ed448 |-> SubKeys(seed).ed448, seed |-> Some(seed),
                  public |-> Some(PublicOf(SubKeys(seed)))]

\* Every handle holds one key or none, and every key is whole or empty.
HeldWhole ==
    /\ keys = [h \in Handles |-> keys[h]]
    /\ \A h \in Handles : \A key \in keys[h] : Whole(key) \/ key = Zeroized

---------------------------------------------------------------------------
(* Seeds and what generate makes of them. *)

LEMMA RootSeedTyped == ASSUME NEW root, root.len \in Nat PROVE SeedTyped(RootSeed(root))
<1>1. << >> \in Seq(Paths)
  OBVIOUS
<1>2. RootSeed(root) = [root |-> root, paths |-> << >>]
  BY DEF RootSeed
<1> QED  BY <1>1, <1>2 DEF SeedTyped

LEMMA RawSeedTyped == ASSUME NEW seed \in RawSeeds PROVE SeedTyped(seed)
<1>1. PICK root \in RawRoots : seed = RootSeed(root)
  BY DEF RawSeeds
<1>2. root.len \in Nat
  BY DEF RawRoots, RawRoot
<1> QED  BY <1>1, <1>2, RootSeedTyped

LEMMA MnemonicSeedTyped ==
    ASSUME NEW phrase, NEW passphrase, NEW seed \in SeedFromMnemonic(phrase, passphrase)
    PROVE  SeedTyped(seed)
<1>1. PICK words : seed = RootSeed(MnemonicRoot(words, passphrase))
  BY DEF SeedFromMnemonic, None
<1>2. MnemonicRoot(words, passphrase).len \in Nat
  BY DEF MnemonicRoot
<1> QED  BY <1>1, <1>2, RootSeedTyped

LEMMA ChildSeedTyped ==
    ASSUME NEW seed, SeedTyped(seed), NEW path \in Paths, NEW child \in DeriveChildSeed(seed, path)
    PROVE  SeedTyped(child)
<1>1. PICK root, paths : /\ seed = [root |-> root, paths |-> paths]
                         /\ root.len \in Nat /\ paths \in Seq(Paths)
  BY DEF SeedTyped
<1>2. child = [root |-> root, paths |-> Append(paths, path)]
  BY <1>1 DEF DeriveChildSeed, Some, None
<1>3. Append(paths, path) \in Seq(Paths)
  BY <1>1
<1> QED  BY <1>1, <1>2, <1>3 DEF SeedTyped

LEMMA GeneratedWhole ==
    ASSUME NEW seed, SeedTyped(seed), NEW key \in Generate(seed)
    PROVE  Whole(key)
<1>1. Length(seed) \in Nat
  BY DEF SeedTyped, Length
<1>2. Length(seed) >= 64
  BY <1>1 DEF Generate, None
<1> QED  BY <1>2 DEF Generate, Whole, Some, None

LEMMA KeyAtWhole ==
    ASSUME NEW seed, SeedTyped(seed), NEW path \in Paths, NEW key \in KeyAt(seed, path)
    PROVE  Whole(key)
  BY ChildSeedTyped, GeneratedWhole DEF KeyAt

\* The keys of phrases, by the default path and by the path of an index.
LEMMA RestoredKeyWhole ==
    ASSUME NEW phrase, NEW passphrase, NEW key \in RestoredKey(phrase, passphrase)
    PROVE  Whole(key)
<1>1. \A path \in DefaultPath : path \in Paths
  BY DEF Paths
<1> QED  BY <1>1, MnemonicSeedTyped, KeyAtWhole DEF RestoredKey, KeyOfPhrase

LEMMA AccountKeyWhole ==
    ASSUME NEW phrase, NEW passphrase, NEW index \in Indices,
           NEW key \in AccountKey(phrase, passphrase, index)
    PROVE  Whole(key)
<1>1. \A path \in AccountPath[index] : path \in Paths
  BY DEF Paths
<1> QED  BY <1>1, MnemonicSeedTyped, KeyAtWhole DEF AccountKey, KeyOfPhrase

---------------------------------------------------------------------------
(* The steps. *)

LEMMA HeldInit == Init => HeldWhole
  BY DEF Init, HeldWhole, None

\* Putting whole or empty keys into one handle keeps every handle so.
LEMMA HeldPut ==
    ASSUME HeldWhole, NEW h \in Handles, NEW held, keys' = [keys EXCEPT ![h] = held],
           \A key \in held : Whole(key) \/ key = Zeroized
    PROVE  HeldWhole'
  BY DEF HeldWhole

LEMMA HeldOpen ==
    ASSUME HeldWhole, NEW h \in Handles, NEW phrase, NEW passphrase, NEW index,
           NEW key, Whole(key), OpenAccount(h, phrase, passphrase, index, key)
    PROVE  HeldWhole'
<1>1. keys' = [keys EXCEPT ![h] = Some(key)]
  BY DEF OpenAccount
<1> QED  BY <1>1, HeldPut DEF Some

LEMMA HeldNext == ASSUME HeldWhole, [Next]_vars PROVE HeldWhole'
<1>1. ASSUME NEW h \in Handles, NEW passphrase \in Passphrases, CreateWallet(h, passphrase)
      PROVE  HeldWhole'
  <2>0. PICK words : \E key \in RestoredKey(Canonical(words), passphrase) :
                          OpenAccount(h, Canonical(words), passphrase, 0, key)
    BY <1>1 DEF CreateWallet
  <2>1. PICK key \in RestoredKey(Canonical(words), passphrase) :
           OpenAccount(h, Canonical(words), passphrase, 0, key)
    BY <2>0
  <2> QED  BY <2>1, RestoredKeyWhole, HeldOpen
<1>8. ASSUME NEW h \in Handles, NEW phrase \in TypedPhrases, NEW passphrase \in Passphrases,
             RestoreWallet(h, phrase, passphrase)
      PROVE  HeldWhole'
  <2>1. CASE keys' = keys
    BY <2>1 DEF HeldWhole
  <2>2. ASSUME NEW key \in RestoredKey(phrase, passphrase),
               OpenAccount(h, phrase, passphrase, 0, key)
        PROVE  HeldWhole'
    BY <2>2, RestoredKeyWhole, HeldOpen
  <2> QED  BY <1>8, <2>1, <2>2 DEF RestoreWallet
<1>2. ASSUME NEW h \in Handles, NEW phrase \in TypedPhrases, NEW passphrase \in Passphrases,
             NEW index \in Indices, FromMnemonicAt(h, phrase, passphrase, index)
      PROVE  HeldWhole'
  <2>1. CASE keys' = keys
    BY <2>1 DEF HeldWhole
  <2>2. ASSUME NEW key \in AccountKey(phrase, passphrase, index),
               OpenAccount(h, phrase, passphrase, index, key)
        PROVE  HeldWhole'
    BY <2>2, AccountKeyWhole, HeldOpen
  <2> QED  BY <1>2, <2>1, <2>2 DEF FromMnemonicAt
<1>3. ASSUME NEW h \in Handles, NEW seed \in RawSeeds, GenerateFrom(h, seed)
      PROVE  HeldWhole'
  <2>1. CASE keys' = keys
    BY <2>1 DEF HeldWhole
  <2>2. CASE keys' = [keys EXCEPT ![h] = Generate(seed)]
    BY <2>2, RawSeedTyped, GeneratedWhole, HeldPut
  <2> QED  BY <1>3, <2>1, <2>2 DEF GenerateFrom
<1>4. ASSUME NEW h \in Handles, NEW g \in Handles, NEW path \in Paths, DeriveAccount(h, g, path)
      PROVE  HeldWhole'
  <2>1. PICK key \in keys[g] :
           LET made == UNION {KeyAt(seed, path) : seed \in key.seed}
           IN  keys' = IF made # None THEN [keys EXCEPT ![h] = made] ELSE keys
    BY <1>4 DEF DeriveAccount
  <2> DEFINE made == UNION {KeyAt(seed, path) : seed \in key.seed}
  <2>2. CASE keys' = keys
    BY <2>2 DEF HeldWhole
  <2>3. CASE keys' = [keys EXCEPT ![h] = made]
    <3>1. \A seed \in key.seed : SeedTyped(seed)
      BY <2>1 DEF HeldWhole, Whole, Zeroized, Some, None
    <3>2. \A k \in made : Whole(k)
      BY <3>1, KeyAtWhole
    <3> QED  BY <2>3, <3>2, HeldPut
  <2> QED  BY <2>1, <2>2, <2>3
<1>5. ASSUME NEW h \in Handles, NEW g \in Handles, CloneKey(h, g)
      PROVE  HeldWhole'
  <2>1. keys' = [keys EXCEPT ![h] = keys[g]] /\ \A key \in keys[g] : Whole(key) \/ key = Zeroized
    BY <1>5 DEF CloneKey, HeldWhole
  <2> QED  BY <2>1, HeldPut
<1>6. ASSUME NEW h \in Handles, Zeroize(h)
      PROVE  HeldWhole'
  BY <1>6, HeldPut DEF Zeroize, Some
<1>7. ASSUME UNCHANGED vars
      PROVE  HeldWhole'
  BY <1>7 DEF vars, HeldWhole
<1> QED  BY <1>1, <1>2, <1>3, <1>4, <1>5, <1>6, <1>7, <1>8 DEF Next

---------------------------------------------------------------------------
(* The theorems. *)

LEMMA HeldConsistent == HeldWhole => KeysConsistent
<1> SUFFICES ASSUME HeldWhole, NEW h \in Handles, NEW key \in keys[h], key # Zeroized
             PROVE  \E seed \in key.seed :
                       /\ Length(seed) >= 64
                       /\ key.public = Some(DerivePublicKey(seed))
                       /\ key.public = Some(PublicOf(key))
  BY DEF KeysConsistent
<1>1. PICK seed : /\ Length(seed) >= 64
                  /\ key = [dil |-> SubKeys(seed).dil, p521 |-> SubKeys(seed).p521,
                            ed448 |-> SubKeys(seed).ed448, seed |-> Some(seed),
                            public |-> Some(PublicOf(SubKeys(seed)))]
  BY DEF HeldWhole, Whole
<1>2. seed \in key.seed
  BY <1>1 DEF Some
<1>3. key.public = Some(DerivePublicKey(seed))
  BY <1>1 DEF DerivePublicKey
<1>4. key.public = Some(PublicOf(key))
  BY <1>1 DEF PublicOf
<1> QED  BY <1>1, <1>2, <1>3, <1>4

\* The public key is an injective function of the two halves of the seed.
LEMMA PublicFixesHalves ==
    ASSUME NEW s, NEW t, PublicOf(SubKeys(s)) = PublicOf(SubKeys(t))
    PROVE  Low(s) = Low(t) /\ High(s) = High(t)
<1>1. PublicOf(SubKeys(s)).dil = {Low(s)} /\ PublicOf(SubKeys(t)).dil = {Low(t)}
  BY DEF PublicOf, SubKeys, Some
<1>2. /\ PublicOf(SubKeys(s)).p521 = {CurveSeed(High(s), 1)}
      /\ PublicOf(SubKeys(t)).p521 = {CurveSeed(High(t), 1)}
  BY DEF PublicOf, SubKeys, Some
<1>3. CurveSeed(High(s), 1) = CurveSeed(High(t), 1)
  BY <1>2
<1>4. CurveSeed(High(s), 1).master = High(s) /\ CurveSeed(High(t), 1).master = High(t)
  BY DEF CurveSeed
<1> QED  BY <1>1, <1>3, <1>4

LEMMA HeldFixesSeed == HeldWhole => AddressFixesSeed
<1> SUFFICES ASSUME HeldWhole, NEW h \in Handles, NEW g \in Handles,
                    NEW k \in keys[h], NEW l \in keys[g], k.public = l.public,
                    NEW s \in k.seed, NEW t \in l.seed
             PROVE  Low(s) = Low(t) /\ High(s) = High(t)
  BY DEF AddressFixesSeed
<1>1. ASSUME NEW f \in Handles, NEW key \in keys[f], NEW seed \in key.seed
      PROVE  key.public = {PublicOf(SubKeys(seed))}
  <2>1. Whole(key)
    BY <1>1 DEF HeldWhole, Zeroized, None
  <2> QED  BY <2>1, <1>1 DEF Whole, Some
<1>2. PublicOf(SubKeys(s)) = PublicOf(SubKeys(t))
  BY <1>1
<1> QED  BY <1>2, PublicFixesHalves

(* A key object is whole, with the public key of its own secrets, or       *)
(* empty, whatever calls made it (crypto.rs, generate and zeroize).        *)
THEOREM WholeOrEmpty == Spec => []KeysConsistent
<1> QED  BY HeldInit, HeldNext, HeldConsistent, PTL DEF Spec

(* Keys with one address come from seeds with the same first 64 bytes, for *)
(* any seeds, phrases and derivations (crypto.rs, generate).               *)
THEOREM SeedsFixed == Spec => []AddressFixesSeed
<1> QED  BY HeldInit, HeldNext, HeldFixesSeed, PTL DEF Spec

---------------------------------------------------------------------------
(* The texts of the accounts' paths: the literal of the default account    *)
(* and the format of the others write the same five numbers.               *)

\* A text, a separator and a part, character by character.
LEMMA Joined ==
    ASSUME NEW C, NEW s \in Seq(C), NEW x \in C, NEW e \in Seq(C), NEW t \in Seq(C),
           Len(t) = Len(s) + 1 + Len(e),
           \A i \in 1 .. Len(s) : t[i] = s[i],
           t[Len(s) + 1] = x,
           \A i \in 1 .. Len(e) : t[Len(s) + 1 + i] = e[i]
    PROVE  Append(s, x) \o e = t
<1>0. Len(s) \in Nat /\ Len(e) \in Nat
  BY LenProperties
<1>1. PICK a : a = Append(s, x)
  OBVIOUS
<1>2. /\ a \in Seq(C) /\ Len(a) = Len(s) + 1 /\ a[Len(s) + 1] = x
      /\ \A i \in 1 .. Len(s) : a[i] = s[i]
  BY <1>1, AppendProperties
<1>3. PICK u : u = a \o e
  OBVIOUS
<1>4. /\ u \in Seq(C) /\ Len(u) = Len(a) + Len(e)
      /\ \A i \in 1 .. Len(a) : u[i] = a[i]
      /\ \A i \in 1 .. Len(e) : u[Len(a) + i] = e[i]
  <2>1. \A v, w \in Seq(C) :
            /\ v \o w \in Seq(C) /\ Len(v \o w) = Len(v) + Len(w)
            /\ \A i \in 1 .. Len(v) : (v \o w)[i] = v[i]
            /\ \A i \in 1 .. Len(w) : (v \o w)[Len(v) + i] = w[i]
    BY ConcatElements
  <2> QED BY ONLY <1>2, <1>3, e \in Seq(C), <2>1
<1>5. ASSUME NEW i \in 1 .. Len(u) PROVE u[i] = t[i]
  <2>1. CASE i \in 1 .. Len(s)
    BY <1>0, <1>2, <1>4, <2>1
  <2>2. CASE i = Len(s) + 1
    BY <1>0, <1>2, <1>4, <2>2
  <2>3. CASE i > Len(s) + 1
    <3> DEFINE k == i - (Len(s) + 1)
    <3>1. k \in 1 .. Len(e) /\ i = Len(s) + 1 + k
      BY <1>0, <1>2, <1>4, <2>3
    <3> HIDE DEF k
    <3> QED BY <1>2, <1>4, <3>1
  <2> QED BY <1>0, <1>2, <1>4, <2>1, <2>2, <2>3
<1>6. Len(u) = Len(t)
  BY <1>2, <1>4
<1> QED BY <1>1, <1>3, <1>4, <1>5, <1>6, SeqEqual

\* A text with one character more.
LEMMA AppendIs ==
    ASSUME NEW C, NEW s \in Seq(C), NEW x \in C, NEW t \in Seq(C), Len(t) = Len(s) + 1,
           \A i \in 1 .. Len(s) : t[i] = s[i], t[Len(s) + 1] = x
    PROVE  Append(s, x) = t
<1>1. PICK u : u = Append(s, x)
  OBVIOUS
<1>2. /\ u \in Seq(C) /\ Len(u) = Len(s) + 1 /\ u[Len(s) + 1] = x
      /\ \A i \in 1 .. Len(s) : u[i] = s[i]
  BY <1>1, AppendProperties
<1>3. \A i \in 1 .. Len(u) : u[i] = t[i]
  BY <1>2, LenProperties
<1> QED BY <1>1, <1>2, <1>3, SeqEqual

\* Elements appended one after the other.
LEMMA PairPieces ==
    ASSUME NEW C, NEW a \in C, NEW b \in C, NEW c \in C, NEW d \in C
    PROVE  /\ Append(<< a >>, b) = << a, b >>
           /\ Append(<< a, b >>, c) = << a, b, c >>
           /\ Append(<< a, b, c >>, d) = << a, b, c, d >>
<1> DEFINE s1 == << a >>
           s2 == << a, b >>
           s3 == << a, b, c >>
           s4 == << a, b, c, d >>
<1>1. /\ s1 \in Seq(C) /\ s2 \in Seq(C) /\ s3 \in Seq(C) /\ s4 \in Seq(C)
      /\ Len(s1) = 1 /\ Len(s2) = 2 /\ Len(s3) = 3 /\ Len(s4) = 4
  OBVIOUS
<1>2. /\ s2[1] = s1[1] /\ s2[2] = b
      /\ s3[1] = s2[1] /\ s3[2] = s2[2] /\ s3[3] = c
      /\ s4[1] = s3[1] /\ s4[2] = s3[2] /\ s4[3] = s3[3] /\ s4[4] = d
  OBVIOUS
<1> HIDE DEF s1, s2, s3, s4
<1>3. Append(s1, b) = s2
  <2>1. Len(s2) = Len(s1) + 1 /\ s2[Len(s1) + 1] = b /\ \A i \in 1 .. Len(s1) : s2[i] = s1[i]
    BY ONLY <1>1, <1>2
  <2> QED BY ONLY <1>1, <2>1, b \in C, AppendIs
<1>4. Append(s2, c) = s3
  <2>1. Len(s3) = Len(s2) + 1 /\ s3[Len(s2) + 1] = c /\ \A i \in 1 .. Len(s2) : s3[i] = s2[i]
    BY ONLY <1>1, <1>2
  <2> QED BY ONLY <1>1, <2>1, c \in C, AppendIs
<1>5. Append(s3, d) = s4
  <2>1. Len(s4) = Len(s3) + 1 /\ s4[Len(s3) + 1] = d /\ \A i \in 1 .. Len(s3) : s4[i] = s3[i]
    BY ONLY <1>1, <1>2
  <2> QED BY ONLY <1>1, <2>1, d \in C, AppendIs
<1> QED BY <1>3, <1>4, <1>5 DEF s1, s2, s3, s4

\* The digits of the numbers in them.
LEMMA PathDigits ==
    /\ {0, 44, 60} \subseteq U32
    /\ Marked(44) = << "4", "4", "'" >>
    /\ Marked(60) = << "6", "0", "'" >>
    /\ Marked(0) = << "0", "'" >>
<1>1. {0, 4, 6, 44, 60} \subseteq U32
  BY TextsAssumption, HardenedBitAssumption DEF U32
<1>2. DigitSymbols[1] = "0" /\ DigitSymbols[5] = "4" /\ DigitSymbols[7] = "6"
  BY DEF DigitSymbols
<1> DEFINE D(n) == DigitSymbols[n + 1]
           d == Decimal
<1>3. \A n \in U32 : d[n] = IF n < Radix THEN << D(n) >> ELSE Append(d[n \div Radix], D(n % Radix))
  BY DecimalProperty
<1>4. D(0) = "0" /\ D(4) = "4" /\ D(6) = "6"
  BY <1>2
<1> HIDE DEF D, d
<1>5. \A n \in U32 : d[n] = IF n < 10 THEN << D(n) >> ELSE Append(d[n \div 10], D(n % 10))
  BY <1>3, TextsAssumption
<1>6. 44 \div 10 = 4 /\ 44 % 10 = 4 /\ 60 \div 10 = 6 /\ 60 % 10 = 0
  OBVIOUS
<1>6a. /\ \A n \in U32 : n < 10 => d[n] = << D(n) >>
       /\ \A n \in U32 : ~(n < 10) => d[n] = Append(d[n \div 10], D(n % 10))
  BY <1>5
<1>7. d[0] = << D(0) >> /\ d[4] = << D(4) >> /\ d[6] = << D(6) >>
  <2>1. 0 \in U32 /\ 4 \in U32 /\ 6 \in U32 /\ 0 < 10 /\ 4 < 10 /\ 6 < 10
    BY <1>1
  <2>2. d[0] = << D(0) >>
    BY ONLY <1>6a, <2>1
  <2>3. d[4] = << D(4) >>
    BY ONLY <1>6a, <2>1
  <2>4. d[6] = << D(6) >>
    BY ONLY <1>6a, <2>1
  <2> QED BY <2>2, <2>3, <2>4
<1>8. d[44] = Append(d[4], D(4)) /\ d[60] = Append(d[6], D(0))
  <2>1. 44 \in U32 /\ 60 \in U32 /\ ~(44 < 10) /\ ~(60 < 10)
    BY <1>1
  <2>2. d[44] = Append(d[44 \div 10], D(44 % 10))
    BY ONLY <1>6a, <2>1
  <2>3. d[60] = Append(d[60 \div 10], D(60 % 10))
    BY ONLY <1>6a, <2>1
  <2> QED BY <1>6, <2>2, <2>3
<1>9. d[0] = << "0" >> /\ d[44] = Append(<< "4" >>, "4") /\ d[60] = Append(<< "6" >>, "0")
  BY ONLY <1>4, <1>7, <1>8
<1> DEFINE C == {"0", "4", "6", "'"}
<1>10. "0" \in C /\ "4" \in C /\ "6" \in C /\ "'" \in C
  OBVIOUS
<1> HIDE DEF C
<1>11. d[44] = << "4", "4" >> /\ d[60] = << "6", "0" >>
  BY <1>9, <1>10, PairPieces
<1>12. /\ Append(<< "0" >>, "'") = << "0", "'" >>
       /\ Append(<< "4", "4" >>, "'") = << "4", "4", "'" >>
       /\ Append(<< "6", "0" >>, "'") = << "6", "0", "'" >>
  BY <1>10, PairPieces
<1> QED BY <1>1, <1>9, <1>11, <1>12 DEF Marked, d

\* The numbers both texts start with.
AccountPrefix == << 44, 60, 0, 0 >>

\* They are indices, and none is hardened already.
LEMMA PrefixTyped ==
    /\ AccountPrefix \in Seq(U32) /\ Len(AccountPrefix) = 4
    /\ \A k \in 1 .. Len(AccountPrefix) : AccountPrefix[k] < HardenedBit
<1>1. 44 \in U32 /\ 60 \in U32 /\ 0 \in U32
  BY PathDigits
<1>2. AccountPrefix \in Seq(U32) /\ Len(AccountPrefix) = 4
  BY <1>1 DEF AccountPrefix
<1>3. \A k \in 1 .. 4 : AccountPrefix[k] \in {0, 44, 60}
  BY DEF AccountPrefix
<1> QED BY <1>2, <1>3, TextsAssumption, HardenedBitAssumption

\* The text of the four, and of five.
LEMMA PrefixText ==
    /\ Append(FormatPath(AccountPrefix), "/")
           = << "m", "/", "4", "4", "'", "/", "6", "0", "'", "/", "0", "'", "/", "0", "'", "/" >>
    /\ FormatPath(Append(AccountPrefix, 0)) = DefaultAccountPath
<1>1. PICK m, x, q, f, g, z : m = "m" /\ x = "/" /\ q = "'" /\ f = "4" /\ g = "6" /\ z = "0"
  OBVIOUS
<1>2. PICK u, v, w : u = 44 /\ v = 60 /\ w = 0
  OBVIOUS
<1>3. u \in U32 /\ v \in U32 /\ w \in U32
  BY <1>2, PathDigits
<1>4. Marked(u) = << f, f, q >> /\ Marked(v) = << g, z, q >> /\ Marked(w) = << z, q >>
  BY <1>1, <1>2, PathDigits
<1> DEFINE C == {m, x, q, f, g, z}
           F(ns) == FormatPath(ns)
           n1 == << u >>
           n2 == << u, v >>
           n3 == << u, v, w >>
           n4 == << u, v, w, w >>
<1>5. /\ n1 \in Seq(U32) /\ n2 \in Seq(U32) /\ n3 \in Seq(U32) /\ n4 \in Seq(U32)
      /\ << >> \in Seq(U32)
  BY <1>3
<1>6. Append(n1, v) = n2 /\ Append(n2, w) = n3 /\ Append(n3, w) = n4
  BY ONLY <1>3, PairPieces
<1>7. Append(<< >>, u) = n1
  OBVIOUS
<1>8. n4 = AccountPrefix
  BY <1>2 DEF AccountPrefix
<1>9. m \in C /\ x \in C /\ q \in C /\ f \in C /\ g \in C /\ z \in C
  OBVIOUS
<1> HIDE DEF C, n1, n2, n3, n4, F
<1>10. ASSUME NEW ns \in Seq(U32), NEW n \in U32
       PROVE  F(Append(ns, n)) = Append(F(ns), x) \o Marked(n)
  BY <1>1, FormatPathAppend DEF F
<1>11. F(<< >>) = << m >>
  BY <1>1, FormatPathEmpty DEF F
<1>12. F(n1) = Append(<< m >>, x) \o << f, f, q >>
  BY ONLY <1>3, <1>4, <1>5, <1>7, <1>10, <1>11
<1>13. F(n2) = Append(F(n1), x) \o << g, z, q >>
  BY ONLY <1>3, <1>4, <1>5, <1>6, <1>10
<1>14. F(n3) = Append(F(n2), x) \o << z, q >>
  BY ONLY <1>3, <1>4, <1>5, <1>6, <1>10
<1>15. F(n4) = Append(F(n3), x) \o << z, q >>
  BY ONLY <1>3, <1>4, <1>5, <1>6, <1>10
<1>16. F(Append(n4, w)) = Append(F(n4), x) \o << z, q >>
  BY ONLY <1>3, <1>4, <1>5, <1>10
<1>17. /\ Append(F(n4), x) = << m, x, f, f, q, x, g, z, q, x, z, q, x, z, q, x >>
       /\ F(Append(n4, w)) = << m, x, f, f, q, x, g, z, q, x, z, q, x, z, q, x, z, q >>
  <2>1. PICK t1, t2, t3, t4, t5 :
            /\ t1 = F(n1) /\ t2 = F(n2) /\ t3 = F(n3) /\ t4 = F(n4) /\ t5 = F(Append(n4, w))
    OBVIOUS
  <2>2. /\ t1 = Append(<< m >>, x) \o << f, f, q >>
        /\ t2 = Append(t1, x) \o << g, z, q >>
        /\ t3 = Append(t2, x) \o << z, q >>
        /\ t4 = Append(t3, x) \o << z, q >>
        /\ t5 = Append(t4, x) \o << z, q >>
    BY ONLY <1>12, <1>13, <1>14, <1>15, <1>16, <2>1
  <2> DEFINE s1 == << m >>
             s2 == << m, x, f, f, q >>
             s3 == << m, x, f, f, q, x, g, z, q >>
             s4 == << m, x, f, f, q, x, g, z, q, x, z, q >>
             s5 == << m, x, f, f, q, x, g, z, q, x, z, q, x, z, q >>
             s6 == << m, x, f, f, q, x, g, z, q, x, z, q, x, z, q, x, z, q >>
             s7 == << m, x, f, f, q, x, g, z, q, x, z, q, x, z, q, x >>
             e1 == << f, f, q >>
             e2 == << g, z, q >>
             e3 == << z, q >>
  <2>3. /\ s1 \in Seq(C) /\ s2 \in Seq(C) /\ s3 \in Seq(C) /\ s4 \in Seq(C)
        /\ s5 \in Seq(C) /\ s6 \in Seq(C) /\ s7 \in Seq(C)
        /\ e1 \in Seq(C) /\ e2 \in Seq(C) /\ e3 \in Seq(C)
    BY <1>9
  <2>4. /\ Len(s1) = 1 /\ Len(s2) = 5 /\ Len(s3) = 9 /\ Len(s4) = 12
        /\ Len(s5) = 15 /\ Len(s6) = 18 /\ Len(s7) = 16
        /\ Len(e1) = 3 /\ Len(e2) = 3 /\ Len(e3) = 2
    OBVIOUS
  <2>5. /\ \A i \in 1 .. 1 : s2[i] = s1[i]
        /\ \A i \in 1 .. 5 : s3[i] = s2[i]
        /\ \A i \in 1 .. 9 : s4[i] = s3[i]
    OBVIOUS
  <2>6. \A i \in 1 .. 12 : s5[i] = s4[i]
    OBVIOUS
  <2>7. (\A i \in 1 .. 15 : s6[i] = s5[i]) /\ (\A i \in 1 .. 15 : s7[i] = s5[i])
    OBVIOUS
  <2>8. s2[2] = x /\ s3[6] = x /\ s4[10] = x /\ s5[13] = x /\ s6[16] = x /\ s7[16] = x
    OBVIOUS
  <2>9. /\ \A i \in 1 .. 3 : s2[2 + i] = e1[i]
        /\ \A i \in 1 .. 3 : s3[6 + i] = e2[i]
        /\ \A i \in 1 .. 2 : s4[10 + i] = e3[i] /\ s5[13 + i] = e3[i] /\ s6[16 + i] = e3[i]
    OBVIOUS
  <2> HIDE DEF s1, s2, s3, s4, s5, s6, s7, e1, e2, e3
  <2>13. Append(s1, x) \o e1 = s2
    <3>1. /\ Len(s2) = Len(s1) + 1 + Len(e1)
          /\ \A i \in 1 .. Len(s1) : s2[i] = s1[i]
          /\ s2[Len(s1) + 1] = x
          /\ \A i \in 1 .. Len(e1) : s2[Len(s1) + 1 + i] = e1[i]
      BY ONLY <2>4, <2>5, <2>8, <2>9
    <3>2. s1 \in Seq(C) /\ e1 \in Seq(C) /\ s2 \in Seq(C)
      BY <2>3
    <3> QED BY ONLY <3>1, <3>2, <1>9, Joined
  <2>14. Append(s2, x) \o e2 = s3
    <3>1. /\ Len(s3) = Len(s2) + 1 + Len(e2)
          /\ \A i \in 1 .. Len(s2) : s3[i] = s2[i]
          /\ s3[Len(s2) + 1] = x
          /\ \A i \in 1 .. Len(e2) : s3[Len(s2) + 1 + i] = e2[i]
      BY ONLY <2>4, <2>5, <2>8, <2>9
    <3>2. s2 \in Seq(C) /\ e2 \in Seq(C) /\ s3 \in Seq(C)
      BY <2>3
    <3> QED BY ONLY <3>1, <3>2, <1>9, Joined
  <2>15. Append(s3, x) \o e3 = s4
    <3>1. /\ Len(s4) = Len(s3) + 1 + Len(e3)
          /\ \A i \in 1 .. Len(s3) : s4[i] = s3[i]
          /\ s4[Len(s3) + 1] = x
          /\ \A i \in 1 .. Len(e3) : s4[Len(s3) + 1 + i] = e3[i]
      BY ONLY <2>4, <2>5, <2>8, <2>9
    <3>2. s3 \in Seq(C) /\ e3 \in Seq(C) /\ s4 \in Seq(C)
      BY <2>3
    <3> QED BY ONLY <3>1, <3>2, <1>9, Joined
  <2>16. Append(s4, x) \o e3 = s5
    <3>1. /\ Len(s5) = Len(s4) + 1 + Len(e3)
          /\ \A i \in 1 .. Len(s4) : s5[i] = s4[i]
          /\ s5[Len(s4) + 1] = x
          /\ \A i \in 1 .. Len(e3) : s5[Len(s4) + 1 + i] = e3[i]
      BY ONLY <2>4, <2>6, <2>8, <2>9
    <3>2. s4 \in Seq(C) /\ e3 \in Seq(C) /\ s5 \in Seq(C)
      BY <2>3
    <3> QED BY ONLY <3>1, <3>2, <1>9, Joined
  <2>17. Append(s5, x) \o e3 = s6
    <3>1. /\ Len(s6) = Len(s5) + 1 + Len(e3)
          /\ \A i \in 1 .. Len(s5) : s6[i] = s5[i]
          /\ s6[Len(s5) + 1] = x
          /\ \A i \in 1 .. Len(e3) : s6[Len(s5) + 1 + i] = e3[i]
      BY ONLY <2>4, <2>7, <2>8, <2>9
    <3>2. s5 \in Seq(C) /\ e3 \in Seq(C) /\ s6 \in Seq(C)
      BY <2>3
    <3> QED BY ONLY <3>1, <3>2, <1>9, Joined
  <2>18. Append(s5, x) = s7
    <3>1. /\ Len(s7) = Len(s5) + 1 /\ s7[Len(s5) + 1] = x
          /\ \A i \in 1 .. Len(s5) : s7[i] = s5[i]
      BY ONLY <2>4, <2>7, <2>8
    <3> QED BY ONLY <2>3, <3>1, <1>9, AppendIs
  <2>19. /\ t1 = Append(s1, x) \o e1 /\ t2 = Append(t1, x) \o e2 /\ t3 = Append(t2, x) \o e3
         /\ t4 = Append(t3, x) \o e3 /\ t5 = Append(t4, x) \o e3
    BY <2>2 DEF s1, e1, e2, e3
  <2>20. Append(t4, x) = s7 /\ t5 = s6
    BY ONLY <2>13, <2>14, <2>15, <2>16, <2>17, <2>18, <2>19
  <2> QED BY <2>1, <2>20 DEF s6, s7
<1>18. << m, x, f, f, q, x, g, z, q, x, z, q, x, z, q, x, z, q >> = DefaultAccountPath
  BY <1>1 DEF DefaultAccountPath
<1>19. << m, x, f, f, q, x, g, z, q, x, z, q, x, z, q, x >>
         = << "m", "/", "4", "4", "'", "/", "6", "0", "'", "/", "0", "'", "/", "0", "'", "/" >>
  BY <1>1
<1>20. Append(F(n4), "/") = Append(F(n4), x) /\ Append(n4, 0) = Append(n4, w)
  BY <1>1, <1>2
<1> QED BY <1>8, <1>17, <1>18, <1>19, <1>20 DEF F

\* The text of an account is the path of five numbers, written out.
LEMMA AccountTextIs ==
    ASSUME NEW index \in U32
    PROVE  AccountText(index) = FormatPath(Append(AccountPrefix, index))
<1> DEFINE p == << "m", "/", "4", "4", "'", "/", "6", "0", "'", "/", "0", "'", "/", "0", "'", "/" >>
           d == Decimal[index]
           C == PathCharacters
<1>1. p = Append(FormatPath(AccountPrefix), "/")
  BY PrefixText
<1>2. p \in Seq(C) /\ d \in Seq(C) /\ "'" \in C
  <2>1. FormatPath(AccountPrefix) \in Seq(C) /\ "/" \in C /\ "'" \in C
    BY PrefixTyped, FormatPathAppend DEF PathCharacters
  <2>2. d \in Seq(C)
    <3>1. d \in Seq(Digits) /\ Digits \subseteq C
      BY DecimalReads DEF Writes, PathCharacters
    <3> HIDE DEF d, C
    <3> QED BY <3>1, SeqMonotonic
  <2> HIDE DEF p, d, C
  <2> QED BY <1>1, <2>1, <2>2, AppendProperties
<1>3. AccountText(index) = p \o d \o << "'" >>
  BY DEF AccountText
<1> HIDE DEF p, d, C
<1>4. (p \o d) \o << "'" >> = Append(p \o d, "'") /\ p \o Append(d, "'") = Append(p \o d, "'")
  BY <1>2, ConcatAppend, ConcatProperties, AppendIsConcat
<1>5. FormatPath(Append(AccountPrefix, index)) = p \o Marked(index)
  BY <1>1, PrefixTyped, FormatPathAppend
<1> QED BY <1>3, <1>4, <1>5 DEF Marked, d

---------------------------------------------------------------------------
(* Accounts: the paths of two are different, and so are their seeds.       *)

\* The path of an account, read from its text.
HardenedPath(index) ==
    [k \in 1 .. Len(AccountPrefix) + 1 |-> Append(AccountPrefix, index)[k] + HardenedBit]

\* The seed of an account and the key that is made of it.
AccountSeed(words, passphrase, index) ==
    [root |-> MnemonicRoot(words, passphrase), paths |-> << HardenedPath(index) >>]

KeyOf(seed) ==
    [dil |-> SubKeys(seed).dil, p521 |-> SubKeys(seed).p521, ed448 |-> SubKeys(seed).ed448,
     seed |-> Some(seed), public |-> Some(PublicOf(SubKeys(seed)))]

\* Every account that was opened has a phrase that restores it, and the
\* address of its seed.
AccountsDerived ==
    \A a \in accounts :
        /\ ValidateMnemonic(a.mnemonic)
        /\ a.index \in Indices /\ a.index < HardenedBit
        /\ a.address = DeriveAddress(PublicOf(SubKeys(
                           AccountSeed(a.mnemonic.words, a.passphrase, a.index))))

\* The path written of an index: one more number than the prefix has, all
\* hardened.
LEMMA WrittenPathIs ==
    ASSUME NEW index \in U32
    PROVE  ParseHardenedPath(FormatPath(Append(AccountPrefix, index)))
               = IF index < HardenedBit THEN {HardenedPath(index)} ELSE {}
<1> DEFINE ns == Append(AccountPrefix, index)
<1>1. ns \in Seq(U32) /\ Len(ns) = 5 /\ ns[5] = index /\ \A k \in 1 .. 4 : ns[k] < HardenedBit
  <2>1. /\ ns \in Seq(U32) /\ Len(ns) = Len(AccountPrefix) + 1
        /\ ns[Len(AccountPrefix) + 1] = index
        /\ \A k \in 1 .. Len(AccountPrefix) : ns[k] = AccountPrefix[k]
    <3> DEFINE p == AccountPrefix
    <3>1. p \in Seq(U32)
      BY PrefixTyped
    <3> HIDE DEF p
    <3>2. /\ Append(p, index) \in Seq(U32) /\ Len(Append(p, index)) = Len(p) + 1
          /\ Append(p, index)[Len(p) + 1] = index
          /\ \A k \in 1 .. Len(p) : Append(p, index)[k] = p[k]
      BY <3>1, AppendProperties
    <3>3. QED BY <3>2 DEF p
  <2> HIDE DEF ns
  <2>2. QED BY <2>1, PrefixTyped
<1>2. HardenedPath(index) = [k \in 1 .. Len(ns) |-> ns[k] + HardenedBit]
  BY <1>1, PrefixTyped DEF HardenedPath
<1> HIDE DEF ns
<1>3. (\A k \in 1 .. Len(ns) : ns[k] < HardenedBit) <=> index < HardenedBit
  BY <1>1
<1>4. ns \in Seq(U32) \ {<< >>}
  <2>1. Len(<< >>) = 0
    OBVIOUS
  <2>2. QED BY <1>1, <2>1
<1>5. ParseHardenedPath(FormatPath(ns)) =
          IF \A k \in 1 .. Len(ns) : ns[k] < HardenedBit
          THEN Some([k \in 1 .. Len(ns) |-> ns[k] + HardenedBit])
          ELSE None
  BY <1>4, PathRoundTrip
<1>6. ParseHardenedPath(FormatPath(ns)) = IF index < HardenedBit THEN {HardenedPath(index)} ELSE {}
  BY <1>2, <1>3, <1>5 DEF Some, None
<1> QED BY <1>6 DEF ns

LEMMA AccountPathIs ==
    ASSUME NEW index \in Indices
    PROVE  AccountPath[index] = IF index < HardenedBit THEN {HardenedPath(index)} ELSE {}
<1>1. index \in U32
  BY IndicesAssumption
<1> QED BY <1>1, AccountTextIs, WrittenPathIs DEF AccountPath

\* The default account is that of index 0.
LEMMA DefaultPathIs == DefaultPath = {HardenedPath(0)}
<1>1. 0 \in U32 /\ 0 < HardenedBit
  BY HardenedBitAssumption DEF U32
<1> QED BY <1>1, PrefixText, WrittenPathIs DEF DefaultPath

\* Its numbers are hardened.
LEMMA HardenedPathHardened ==
    ASSUME NEW index \in U32
    PROVE  \A k \in DOMAIN HardenedPath(index) : HardenedPath(index)[k] >= HardenedBit
<1>1. AccountPrefix \in Seq(Nat) /\ index \in Nat
  BY HardenedBitAssumption DEF AccountPrefix, U32
<1> DEFINE ns == Append(AccountPrefix, index)
<1>2. ns \in Seq(Nat) /\ Len(ns) = Len(AccountPrefix) + 1
  BY <1>1, AppendProperties
<1>3. \A k \in 1 .. Len(AccountPrefix) + 1 : ns[k] \in Nat
  BY <1>2, ElementOfSeq
<1> HIDE DEF ns
<1>4. \A k \in 1 .. Len(AccountPrefix) + 1 : ns[k] + HardenedBit >= HardenedBit
  BY <1>3, HardenedBitAssumption
<1>5. HardenedPath(index) = [k \in 1 .. Len(AccountPrefix) + 1 |-> ns[k] + HardenedBit]
  BY DEF HardenedPath, ns
<1>6. QED BY <1>4, <1>5

\* What the calls that open accounts make of a phrase and the path of an index.
LEMMA KeyOfPhraseIs ==
    ASSUME NEW phrase, NEW passphrase, NEW index \in U32, NEW paths,
           paths = IF index < HardenedBit THEN {HardenedPath(index)} ELSE {}
    PROVE  KeyOfPhrase(phrase, passphrase, paths) =
               IF ValidateMnemonic(phrase) /\ index < HardenedBit
               THEN {KeyOf(AccountSeed(phrase.words, passphrase, index))}
               ELSE {}
<1> DEFINE roots == SeedFromMnemonic(phrase, passphrase)
<1>1. KeyOfPhrase(phrase, passphrase, paths) = UNION {KeyAt(r, p) : r \in roots, p \in paths}
  BY DEF KeyOfPhrase
<1>2. paths = IF index < HardenedBit THEN {HardenedPath(index)} ELSE {}
  OBVIOUS
<1>3. roots = IF ValidateMnemonic(phrase)
              THEN {RootSeed(MnemonicRoot(phrase.words, passphrase))} ELSE {}
  <2>1. CASE ValidateMnemonic(phrase)
    <3>1. MnemonicParse(phrase) = {phrase.words} /\ phrase.count = MnemonicWordCount
      BY <2>1 DEF ValidateMnemonic, MnemonicParse, Some, None
    <3>2. QED BY <2>1, <3>1 DEF SeedFromMnemonic
  <2>2. CASE ~ ValidateMnemonic(phrase)
    <3>1. phrase.count # MnemonicWordCount \/ MnemonicParse(phrase) = {}
      BY <2>2 DEF ValidateMnemonic, None
    <3>2. QED BY <2>2, <3>1 DEF SeedFromMnemonic, None
  <2>3. QED BY <2>1, <2>2
<1> HIDE DEF roots
<1>4. CASE ~(ValidateMnemonic(phrase) /\ index < HardenedBit)
  <2>1. roots = {} \/ paths = {}
    BY <1>2, <1>3, <1>4
  <2>2. QED BY <1>1, <1>4, <2>1
<1>5. CASE ValidateMnemonic(phrase) /\ index < HardenedBit
  <2> DEFINE root == RootSeed(MnemonicRoot(phrase.words, passphrase))
             path == HardenedPath(index)
             child == AccountSeed(phrase.words, passphrase, index)
  <2>1. KeyOfPhrase(phrase, passphrase, paths) = KeyAt(root, path)
    <3> DEFINE K(r, p) == KeyAt(r, p)
    <3>1. roots = {root} /\ paths = {path}
      BY <1>2, <1>3, <1>5
    <3> HIDE DEF K, root, path
    <3>2. UNION {K(r, p) : r \in roots, p \in paths} = K(root, path)
      BY <3>1
    <3>3. QED BY <1>1, <3>2 DEF K
  <2>2. DeriveChildSeed(root, path) = {child}
    <3>1. root = [root |-> MnemonicRoot(phrase.words, passphrase), paths |-> << >>]
      BY DEF RootSeed
    <3>2. Length(root) = 64
      BY <3>1 DEF Length, MnemonicRoot
    <3>3. [root EXCEPT !.paths = Append(@, path)] = child
      BY <3>1 DEF AccountSeed
    <3>4. \A k \in DOMAIN path : path[k] >= HardenedBit
      BY HardenedPathHardened
    <3> HIDE DEF root, path, child
    <3>5. QED BY <3>2, <3>3, <3>4 DEF DeriveChildSeed, Some
  <2>3. Generate(child) = {KeyOf(child)}
    <3>1. Length(child) = 64
      BY DEF AccountSeed, Length
    <3> HIDE DEF child
    <3>2. QED BY <3>1 DEF Generate, KeyOf, Some
  <2>4. KeyAt(root, path) = {KeyOf(child)}
    <3> DEFINE G(c) == Generate(c)
    <3> HIDE DEF child, root, path, G
    <3>1. UNION {G(c) : c \in {child}} = G(child)
      OBVIOUS
    <3>2. QED BY <2>2, <2>3, <3>1 DEF KeyAt, G
  <2>5. QED BY <1>5, <2>1, <2>4
<1>6. QED BY <1>4, <1>5

LEMMA AccountKeyIs ==
    ASSUME NEW phrase, NEW passphrase, NEW index \in Indices
    PROVE  AccountKey(phrase, passphrase, index) =
               IF ValidateMnemonic(phrase) /\ index < HardenedBit
               THEN {KeyOf(AccountSeed(phrase.words, passphrase, index))}
               ELSE {}
<1>1. index \in U32
  BY IndicesAssumption
<1> QED BY <1>1, AccountPathIs, KeyOfPhraseIs DEF AccountKey

LEMMA RestoredKeyIs ==
    ASSUME NEW phrase, NEW passphrase
    PROVE  RestoredKey(phrase, passphrase) =
               IF ValidateMnemonic(phrase)
               THEN {KeyOf(AccountSeed(phrase.words, passphrase, 0))}
               ELSE {}
<1>1. 0 \in U32 /\ 0 < HardenedBit
  BY HardenedBitAssumption DEF U32
<1> QED BY <1>1, DefaultPathIs, KeyOfPhraseIs DEF RestoredKey

\* Opening an account keeps all of them so.
LEMMA DerivedOpen ==
    ASSUME AccountsDerived, NEW h, NEW phrase, NEW passphrase, NEW index \in Indices,
           ValidateMnemonic(phrase), index < HardenedBit,
           NEW key, key = KeyOf(AccountSeed(phrase.words, passphrase, index)),
           OpenAccount(h, phrase, passphrase, index, key)
    PROVE  AccountsDerived'
<1> DEFINE seed == AccountSeed(phrase.words, passphrase, index)
           new == [mnemonic |-> phrase, passphrase |-> passphrase, index |-> index,
                   address |-> DeriveAddress(PublicOf(SubKeys(seed)))]
<1>1. accounts' = accounts \cup
          {[mnemonic |-> phrase, passphrase |-> passphrase, index |-> index,
            address |-> DeriveAddress(pub)] : pub \in key.public}
  BY DEF OpenAccount
<1>2. ValidateMnemonic(phrase) /\ index < HardenedBit /\ key = KeyOf(seed)
  OBVIOUS
<1>3. key.public = {PublicOf(SubKeys(seed))}
  BY <1>2 DEF KeyOf, Some
<1>4. accounts' = accounts \cup {new}
  <2> DEFINE R(pub) == [mnemonic |-> phrase, passphrase |-> passphrase, index |-> index,
                        address |-> DeriveAddress(pub)]
             P == PublicOf(SubKeys(seed))
  <2>1. accounts' = accounts \cup {R(pub) : pub \in key.public} /\ new = R(P) /\ key.public = {P}
    BY <1>1, <1>3
  <2> HIDE DEF R, P, new
  <2>2. QED BY <2>1
<1>5. /\ new.mnemonic = phrase /\ new.passphrase = passphrase /\ new.index = index
      /\ new.address = DeriveAddress(PublicOf(SubKeys(seed)))
  OBVIOUS
<1> HIDE DEF new
<1>6. \A a \in accounts' : a \in accounts \/ a = new
  BY <1>4
<1>7. QED BY <1>2, <1>5, <1>6 DEF AccountsDerived

LEMMA DerivedNext == ASSUME AccountsDerived, [Next]_vars PROVE AccountsDerived'
<1>1. ASSUME accounts' = accounts PROVE AccountsDerived'
  BY <1>1 DEF AccountsDerived
<1>0. 0 \in Indices /\ 0 < HardenedBit
  BY IndicesAssumption, HardenedBitAssumption
<1>2. ASSUME NEW h \in Handles, NEW p \in Passphrases, CreateWallet(h, p)
      PROVE  AccountsDerived'
  <2>0. PICK words : \E key \in RestoredKey(Canonical(words), p) :
                          OpenAccount(h, Canonical(words), p, 0, key)
    BY <1>2 DEF CreateWallet
  <2>1. PICK key \in RestoredKey(Canonical(words), p) :
           OpenAccount(h, Canonical(words), p, 0, key)
    BY <2>0
  <2> DEFINE phrase == Canonical(words)
  <2> HIDE DEF phrase
  <2>2. ValidateMnemonic(phrase) /\ key = KeyOf(AccountSeed(phrase.words, p, 0))
    BY <2>1, RestoredKeyIs DEF phrase
  <2>3. OpenAccount(h, phrase, p, 0, key)
    BY <2>1 DEF phrase
  <2> QED BY <1>0, <2>2, <2>3, DerivedOpen
<1>10. ASSUME NEW h \in Handles, NEW phrase \in TypedPhrases, NEW p \in Passphrases,
              RestoreWallet(h, phrase, p)
       PROVE  AccountsDerived'
  <2>1. ASSUME NEW key \in RestoredKey(phrase, p), OpenAccount(h, phrase, p, 0, key)
        PROVE  AccountsDerived'
    <3>1. ValidateMnemonic(phrase) /\ key = KeyOf(AccountSeed(phrase.words, p, 0))
      BY <2>1, RestoredKeyIs
    <3> QED BY <1>0, <2>1, <3>1, DerivedOpen
  <2> QED BY <1>1, <1>10, <2>1 DEF RestoreWallet
<1>3. ASSUME NEW h \in Handles, NEW phrase \in TypedPhrases, NEW p \in Passphrases,
             NEW i \in Indices, FromMnemonicAt(h, phrase, p, i)
      PROVE  AccountsDerived'
  <2>1. ASSUME NEW key \in AccountKey(phrase, p, i), OpenAccount(h, phrase, p, i, key)
        PROVE  AccountsDerived'
    <3>1. /\ ValidateMnemonic(phrase) /\ i < HardenedBit
          /\ key = KeyOf(AccountSeed(phrase.words, p, i))
      BY <2>1, AccountKeyIs
    <3> QED BY <2>1, <3>1, DerivedOpen
  <2> QED BY <1>1, <1>3, <2>1 DEF FromMnemonicAt
<1>4. ASSUME NEW h \in Handles, NEW seed \in RawSeeds, GenerateFrom(h, seed)
      PROVE  AccountsDerived'
  BY <1>1, <1>4 DEF GenerateFrom
<1>5. ASSUME NEW h \in Handles, NEW g \in Handles, NEW path \in Paths, DeriveAccount(h, g, path)
      PROVE  AccountsDerived'
  BY <1>1, <1>5 DEF DeriveAccount
<1>6. ASSUME NEW h \in Handles, NEW g \in Handles, CloneKey(h, g)
      PROVE  AccountsDerived'
  BY <1>1, <1>6 DEF CloneKey
<1>7. ASSUME NEW h \in Handles, Zeroize(h)
      PROVE  AccountsDerived'
  BY <1>1, <1>7 DEF Zeroize
<1>8. ASSUME UNCHANGED vars
      PROVE  AccountsDerived'
  BY <1>1, <1>8 DEF vars
<1>9. QED BY <1>2, <1>3, <1>4, <1>5, <1>6, <1>7, <1>8, <1>10 DEF Next

LEMMA DerivedInit == Init => AccountsDerived
  BY DEF Init, AccountsDerived

\* Different accounts have different seeds, and these have different halves.
LEMMA AccountSeedFixes ==
    ASSUME NEW v, NEW p, NEW i \in U32, NEW w, NEW q, NEW j \in U32,
           PublicOf(SubKeys(AccountSeed(v, p, i))) = PublicOf(SubKeys(AccountSeed(w, q, j)))
    PROVE  v = w /\ p = q /\ i = j
<1> DEFINE s == AccountSeed(v, p, i)
           t == AccountSeed(w, q, j)
<1>1. ASSUME NEW x, NEW y, NEW k PROVE Low(AccountSeed(x, y, k)) = [part |-> 1, of |-> AccountSeed(x, y, k)]
  <2>1. AccountSeed(x, y, k).paths = << HardenedPath(k) >>
    BY DEF AccountSeed
  <2>2. \A r \in RawSeeds : r.paths = << >>
    BY DEF RawSeeds, RootSeed
  <2>3. << HardenedPath(k) >> # << >>
    OBVIOUS
  <2>4. AccountSeed(x, y, k) \notin RawSeeds
    BY <2>1, <2>2, <2>3
  <2>5. QED BY <2>4 DEF Low
<1>2. Low(s) = Low(t)
  BY PublicFixesHalves
<1>3. s = t
  <2>1. [part |-> 1, of |-> s] = [part |-> 1, of |-> t]
    BY <1>1, <1>2
  <2> HIDE DEF s, t
  <2>2. [part |-> 1, of |-> s].of = [part |-> 1, of |-> t].of
    BY <2>1
  <2>3. QED BY <2>2
<1>4. MnemonicRoot(v, p) = MnemonicRoot(w, q) /\ << HardenedPath(i) >> = << HardenedPath(j) >>
  <2>1. s.root = t.root /\ s.paths = t.paths
    BY <1>3
  <2>2. QED BY <2>1 DEF AccountSeed
<1>5. v = w /\ p = q
  BY <1>4 DEF MnemonicRoot
<1>6. HardenedPath(i) = HardenedPath(j)
  <2> DEFINE a == HardenedPath(i)
             b == HardenedPath(j)
  <2> HIDE DEF a, b
  <2>1. << a >> = << b >>
    BY <1>4 DEF a, b
  <2>2. a = b
    BY <2>1
  <2>3. QED BY <2>2 DEF a, b
<1>7. \A k \in U32 : HardenedPath(k)[Len(AccountPrefix) + 1] = k + HardenedBit
  <2>1. TAKE k \in U32
  <2>2. k \in Nat /\ AccountPrefix \in Seq(Nat) /\ Len(AccountPrefix) \in Nat
    BY HardenedBitAssumption, PrefixTyped DEF AccountPrefix, U32
  <2>3. Append(AccountPrefix, k)[Len(AccountPrefix) + 1] = k
    BY <2>2, AppendProperties
  <2>4. Len(AccountPrefix) + 1 \in 1 .. Len(AccountPrefix) + 1
    BY <2>2
  <2>5. QED BY <2>3, <2>4 DEF HardenedPath
<1>8. i + HardenedBit = j + HardenedBit
  BY <1>6, <1>7
<1>9. i = j
  BY <1>8, HardenedBitAssumption DEF U32
<1>10. QED BY <1>5, <1>9

LEMMA DerivedDistinct == AccountsDerived => AccountsDistinct
<1>1. SUFFICES ASSUME AccountsDerived, NEW a \in accounts, NEW b \in accounts
               PROVE  a.address = b.address <=>
                        /\ a.mnemonic.words = b.mnemonic.words
                        /\ a.passphrase = b.passphrase /\ a.index = b.index
  BY DEF AccountsDistinct
<1> DEFINE P(c) == PublicOf(SubKeys(AccountSeed(c.mnemonic.words, c.passphrase, c.index)))
<1>2. a.address = DeriveAddress(P(a)) /\ b.address = DeriveAddress(P(b))
  BY <1>1 DEF AccountsDerived
<1>3. a.address = b.address => P(a) = P(b)
  <2> HIDE DEF P
  <2> QED BY <1>2 DEF DeriveAddress
<1>4. a.index \in U32 /\ b.index \in U32
  BY <1>1, IndicesAssumption DEF AccountsDerived
<1>5. P(a) = P(b) => /\ a.mnemonic.words = b.mnemonic.words
                     /\ a.passphrase = b.passphrase /\ a.index = b.index
  BY <1>4, AccountSeedFixes
<1>6. QED BY <1>2, <1>3, <1>5

LEMMA DerivedRestores == AccountsDerived => BackupRestores
<1>1. ASSUME AccountsDerived, NEW a \in accounts
      PROVE  /\ ValidateMnemonic(a.mnemonic)
             /\ \E key \in AccountKey(a.mnemonic, a.passphrase, a.index) :
                   key.public = Some(a.address.address)
  <2> DEFINE seed == AccountSeed(a.mnemonic.words, a.passphrase, a.index)
  <2>1. /\ ValidateMnemonic(a.mnemonic) /\ a.index \in Indices /\ a.index < HardenedBit
        /\ a.address = DeriveAddress(PublicOf(SubKeys(seed)))
    BY <1>1 DEF AccountsDerived
  <2>2. AccountKey(a.mnemonic, a.passphrase, a.index) = {KeyOf(seed)}
    BY <2>1, AccountKeyIs
  <2> HIDE DEF seed
  <2>3. KeyOf(seed).public = Some(a.address.address)
    BY <2>1 DEF KeyOf, DeriveAddress
  <2>4. QED BY <2>1, <2>2, <2>3
<1>2. ASSUME NEW phrase, NEW p
      PROVE  /\ ValidateMnemonic(phrase) <=> RestoredKey(phrase, p) # None
             /\ ValidateMnemonic(phrase) <=> AccountKey(phrase, p, 0) # None
  <2>1. 0 \in Indices /\ 0 < HardenedBit
    BY IndicesAssumption, HardenedBitAssumption
  <2>2. QED BY <2>1, AccountKeyIs, RestoredKeyIs DEF None
<1>3. QED BY <1>1, <1>2 DEF BackupRestores

(* Two accounts have one address exactly if they are one account of the    *)
(* same words, for any indices of any width of more than six bits: the     *)
(* text of the path of every index is read back as a path of its own, and  *)
(* the literal path of the default account as that of index 0 (api.rs,     *)
(* wasm.rs, derivation.rs).                                                *)
THEOREM AccountsDistinctHolds == Spec => []AccountsDistinct
<1> QED  BY DerivedInit, DerivedNext, DerivedDistinct, PTL DEF Spec

(* The phrase of every account that was opened restores it, and a phrase   *)
(* is accepted by the calls that open wallets exactly if validation        *)
(* accepts it (bip39.rs, api.rs, wasm.rs).                                 *)
THEOREM BackupRestoresHolds == Spec => []BackupRestores
<1> QED  BY DerivedInit, DerivedNext, DerivedRestores, PTL DEF Spec

---------------------------------------------------------------------------
(* Keys and accounts by their three parts. *)

\* Serialised public keys, and composite signatures, of these parts.
Bytes(d, q, e) == [dil |-> Some(d), p521 |-> Some(q), ed448 |-> Some(e)]

Composite(d, q, e, hash, bound, salt) ==
    [dil   |-> Some(Tx!DilSign(d, hash)),
     p521  |-> Some(Tx!P521Sign(q, hash, bound, salt)),
     ed448 |-> Some(Tx!Ed448Sign(e, hash, bound))]

\* Accepted by the browser binding: no error, and true.
Accepts(msg, sig, bytes) == VerifyMessage(msg, sig, bytes) = Some(TRUE)

\* What sign_message returns for a key of these parts.
OfMessage(d, q, e, msg, salt) ==
    Composite(d, q, e, Tx!Keccak256(msg), Tx!HCombined(Bytes(d, q, e), Tx!ZeroNonce), salt)

\* A key of these secrets, which are those of the seed.
HasParts(key, seed, d, q, e) ==
    /\ key.dil = Some(d) /\ key.p521 = Some(q) /\ key.ed448 = Some(e)
    /\ key.seed = Some(seed)
    /\ PublicKeyBytes(key) = Bytes(d, q, e)
    /\ d = Low(seed) /\ q = CurveSeed(High(seed), 1) /\ e = CurveSeed(High(seed), 2)

LEMMA UnwrapSome == ASSUME NEW x, NEW y PROVE UnwrapOr(Some(x), y) = x
  BY DEF UnwrapOr, Some, None

LEMMA WholeHasParts ==
    ASSUME NEW key, Whole(key)
    PROVE  \E seed, d, q, e : HasParts(key, seed, d, q, e)
<1>1. PICK seed : key = [dil |-> SubKeys(seed).dil, p521 |-> SubKeys(seed).p521,
                         ed448 |-> SubKeys(seed).ed448, seed |-> Some(seed),
                         public |-> Some(PublicOf(SubKeys(seed)))]
  BY DEF Whole
<1> DEFINE d == Low(seed)
           q == CurveSeed(High(seed), 1)
           e == CurveSeed(High(seed), 2)
<1>2. SubKeys(seed) = Bytes(d, q, e)
  BY DEF SubKeys, Bytes
<1>3. PublicOf(SubKeys(seed)) = Bytes(d, q, e)
  BY <1>2 DEF PublicOf, Bytes
<1>4. PublicKeyBytes(key) = Bytes(d, q, e)
  BY <1>1, <1>3, UnwrapSome DEF PublicKeyBytes
<1>5. key.dil = Some(d) /\ key.p521 = Some(q) /\ key.ed448 = Some(e) /\ key.seed = Some(seed)
  BY <1>1, <1>2 DEF Bytes
<1>6. HasParts(key, seed, d, q, e)
  BY <1>4, <1>5 DEF HasParts
<1> QED  BY <1>6

LEMMA ZeroizedSignsNone ==
    ASSUME NEW hash, NEW bound, NEW salt
    PROVE  SubSignatures(Zeroized, hash, bound, salt) = None
  BY DEF SubSignatures, Zeroized

LEMMA PartsSign ==
    ASSUME NEW key, NEW seed, NEW d, NEW q, NEW e, HasParts(key, seed, d, q, e),
           NEW hash, NEW bound, NEW salt
    PROVE  SubSignatures(key, hash, bound, salt) = Some(Composite(d, q, e, hash, bound, salt))
<1>1. key.dil = {d} /\ key.p521 = {q} /\ key.ed448 = {e}
  BY DEF HasParts, Some
<1>2. /\ {Tx!DilSign(k, hash) : k \in key.dil} = Some(Tx!DilSign(d, hash))
      /\ {Tx!P521Sign(k, hash, bound, salt) : k \in key.p521} = Some(Tx!P521Sign(q, hash, bound, salt))
      /\ {Tx!Ed448Sign(k, hash, bound) : k \in key.ed448} = Some(Tx!Ed448Sign(e, hash, bound))
  BY <1>1 DEF Some
<1> QED  BY <1>1, <1>2 DEF SubSignatures, Composite, None

\* A composite verifies for the parts, the hash and the binding it was made
\* with, and for no others.
LEMMA VerifiesAsMade ==
    ASSUME NEW d, NEW q, NEW e, NEW hash, NEW bound, NEW salt,
           NEW d2, NEW q2, NEW e2, NEW hash2, NEW bound2
    PROVE  Tx!CompositeVerify(Bytes(d2, q2, e2), hash2, bound2,
                              Composite(d, q, e, hash, bound, salt)) <=>
               d = d2 /\ q = q2 /\ e = e2 /\ hash = hash2 /\ bound = bound2
<1>1. /\ Tx!DilVerify(d2, hash2, Tx!DilSign(d, hash)) <=> d = d2 /\ hash = hash2
      /\ Tx!P521Verify(q2, hash2, bound2, Tx!P521Sign(q, hash, bound, salt)) <=>
             q = q2 /\ hash = hash2 /\ bound = bound2
      /\ Tx!Ed448Verify(e2, hash2, bound2, Tx!Ed448Sign(e, hash, bound)) <=>
             e = e2 /\ hash = hash2 /\ bound = bound2
  BY DEF Tx!DilVerify, Tx!DilSign, Tx!P521Verify, Tx!P521Sign, Tx!Ed448Verify, Tx!Ed448Sign
<1>2. Tx!Complete(Bytes(d2, q2, e2)) /\ Tx!Complete(Composite(d, q, e, hash, bound, salt))
  BY DEF Tx!Complete, Bytes, Composite, Some, Tx!None
<1>3. /\ Bytes(d2, q2, e2).dil = {d2} /\ Bytes(d2, q2, e2).p521 = {q2}
      /\ Bytes(d2, q2, e2).ed448 = {e2}
      /\ Composite(d, q, e, hash, bound, salt).dil = {Tx!DilSign(d, hash)}
      /\ Composite(d, q, e, hash, bound, salt).p521 = {Tx!P521Sign(q, hash, bound, salt)}
      /\ Composite(d, q, e, hash, bound, salt).ed448 = {Tx!Ed448Sign(e, hash, bound)}
  BY DEF Bytes, Composite, Some
<1> QED  BY <1>1, <1>2, <1>3 DEF Tx!CompositeVerify

---------------------------------------------------------------------------
(* Messages. *)

\* Verification of what these parts signed, under these other parts.
LEMMA MessageVerifies ==
    ASSUME NEW d, NEW q, NEW e, NEW msg, NEW salt,
           NEW d2, NEW q2, NEW e2, NEW m
    PROVE  Accepts(m, OfMessage(d, q, e, msg, salt), Bytes(d2, q2, e2)) <=>
               m = msg /\ Bytes(d, q, e) = Bytes(d2, q2, e2)
<1> DEFINE sig == OfMessage(d, q, e, msg, salt)
           bytes == Bytes(d2, q2, e2)
<1>1. Tx!Complete(bytes)
  BY DEF Tx!Complete, Bytes, Some, Tx!None
<1>2. VerifyMessage(m, sig, bytes) = Some(TRUE) <=> Tx!VerifyMessage(bytes, m, sig)
  <2>1. VerifyMessage(m, sig, bytes) = {Tx!VerifyMessage(bytes, m, sig)}
    BY <1>1 DEF VerifyMessage, Some
  <2>2. Tx!VerifyMessage(bytes, m, sig) \in BOOLEAN
    BY DEF Tx!VerifyMessage, Tx!CompositeVerify, Tx!Complete
  <2> HIDE DEF sig, bytes
  <2> QED  BY <2>1, <2>2 DEF Some
<1>3. Tx!Keccak256(msg) = Tx!Keccak256(m) <=> m = msg
  BY DEF Tx!Keccak256
<1>4. Bytes(d, q, e) = Bytes(d2, q2, e2) <=> d = d2 /\ q = q2 /\ e = e2
  BY DEF Bytes, Some
<1>5. Tx!HCombined(Bytes(d, q, e), Tx!ZeroNonce) = Tx!HCombined(bytes, Tx!ZeroNonce) <=>
          Bytes(d, q, e) = bytes
  BY DEF Tx!HCombined
<1>6. Tx!VerifyMessage(bytes, m, sig) <=>
          /\ d = d2 /\ q = q2 /\ e = e2 /\ Tx!Keccak256(msg) = Tx!Keccak256(m)
          /\ Tx!HCombined(Bytes(d, q, e), Tx!ZeroNonce) = Tx!HCombined(bytes, Tx!ZeroNonce)
  BY VerifiesAsMade DEF Tx!VerifyMessage, OfMessage
<1> QED  BY <1>2, <1>3, <1>4, <1>5, <1>6 DEF Accepts

\* The public keys of accounts are those of seeds.
AccountsHaveParts ==
    \A a \in accounts : \E d, q, e : a.address = DeriveAddress(Bytes(d, q, e))

LEMMA OpenedHasParts ==
    ASSUME AccountsHaveParts, NEW h \in Handles, NEW phrase, NEW passphrase, NEW index,
           NEW key, Whole(key), OpenAccount(h, phrase, passphrase, index, key)
    PROVE  AccountsHaveParts'
<1>1. accounts' = accounts \cup
          {[mnemonic |-> phrase, passphrase |-> passphrase, index |-> index,
            address |-> DeriveAddress(pub)] : pub \in key.public}
  BY DEF OpenAccount
<1>2. PICK seed : key.public = {PublicOf(SubKeys(seed))}
  BY DEF Whole, Some
<1>3. PublicOf(SubKeys(seed)) = Bytes(Low(seed), CurveSeed(High(seed), 1), CurveSeed(High(seed), 2))
  BY DEF PublicOf, SubKeys, Bytes
<1>4. ASSUME NEW a \in accounts' \ accounts
      PROVE  a.address = DeriveAddress(Bytes(Low(seed), CurveSeed(High(seed), 1),
                                             CurveSeed(High(seed), 2)))
  BY <1>1, <1>2, <1>3, <1>4
<1> QED  BY <1>4 DEF AccountsHaveParts

LEMMA AccountsNext == ASSUME AccountsHaveParts, [Next]_vars PROVE AccountsHaveParts'
<1>1. CASE accounts' = accounts
  BY <1>1 DEF AccountsHaveParts
<1>2. ASSUME NEW h \in Handles, NEW passphrase \in Passphrases, CreateWallet(h, passphrase)
      PROVE  AccountsHaveParts'
  <2>0. PICK words : \E key \in RestoredKey(Canonical(words), passphrase) :
                          OpenAccount(h, Canonical(words), passphrase, 0, key)
    BY <1>2 DEF CreateWallet
  <2>1. PICK key \in RestoredKey(Canonical(words), passphrase) :
           OpenAccount(h, Canonical(words), passphrase, 0, key)
    BY <2>0
  <2> QED  BY <2>1, RestoredKeyWhole, OpenedHasParts
<1>3. ASSUME NEW h \in Handles, NEW phrase \in TypedPhrases, NEW passphrase \in Passphrases,
             RestoreWallet(h, phrase, passphrase)
      PROVE  AccountsHaveParts'
  BY <1>1, <1>3, RestoredKeyWhole, OpenedHasParts DEF RestoreWallet
<1>4. ASSUME NEW h \in Handles, NEW phrase \in TypedPhrases, NEW passphrase \in Passphrases,
             NEW index \in Indices, FromMnemonicAt(h, phrase, passphrase, index)
      PROVE  AccountsHaveParts'
  BY <1>1, <1>4, AccountKeyWhole, OpenedHasParts DEF FromMnemonicAt
<1> QED  BY <1>1, <1>2, <1>3, <1>4
         DEF Next, GenerateFrom, DeriveAccount, CloneKey, Zeroize, vars

LEMMA ProveAccounts == HeldWhole /\ AccountsHaveParts => MessagesProveAccounts
<1> SUFFICES ASSUME HeldWhole, AccountsHaveParts,
                    NEW h \in Handles, NEW key \in keys[h], NEW msg \in Messages,
                    NEW sig \in SignMessage(key, msg, 0), NEW m \in Messages
             PROVE  /\ \A g \in Handles : \A other \in keys[g] :
                          VerifyMessage(m, sig, PublicKeyBytes(other)) = Some(TRUE) <=>
                              /\ m = msg
                              /\ \E s \in key.seed, t \in other.seed :
                                    Low(s) = Low(t) /\ High(s) = High(t)
                    /\ \A a \in accounts :
                          VerifyMessage(m, sig, a.address.address) = Some(TRUE) <=>
                              m = msg /\ Address(key) = a.address
  BY DEF MessagesProveAccounts
<1>1. Whole(key)
  BY ZeroizedSignsNone DEF HeldWhole, SignMessage, None
<1>2. PICK seed, d, q, e : HasParts(key, seed, d, q, e)
  BY <1>1, WholeHasParts
<1>3. sig = OfMessage(d, q, e, msg, 0)
  BY <1>2, PartsSign DEF SignMessage, Some, HasParts, OfMessage
<1>6. ASSUME NEW d2, NEW q2, NEW e2
      PROVE  Accepts(m, sig, Bytes(d2, q2, e2)) <=>
                 m = msg /\ Bytes(d, q, e) = Bytes(d2, q2, e2)
  BY <1>3, MessageVerifies
<1>4. ASSUME NEW g \in Handles, NEW other \in keys[g]
      PROVE  VerifyMessage(m, sig, PublicKeyBytes(other)) = Some(TRUE) <=>
                 /\ m = msg
                 /\ \E s \in key.seed, t \in other.seed : Low(s) = Low(t) /\ High(s) = High(t)
  <2>1. CASE other = Zeroized
    <3>1. PublicKeyBytes(other) = Tx!NoParts /\ other.seed = {}
      BY <2>1 DEF PublicKeyBytes, UnwrapOr, Zeroized, None
    <3>2. VerifyMessage(m, sig, Tx!NoParts) = {}
      BY DEF VerifyMessage, Tx!Complete, Tx!NoParts, None, Tx!None
    <3> QED  BY <3>1, <3>2 DEF Some
  <2>2. CASE Whole(other)
    <3>1. PICK seed2, d2, q2, e2 : HasParts(other, seed2, d2, q2, e2)
      BY <2>2, WholeHasParts
    <3>2. VerifyMessage(m, sig, PublicKeyBytes(other)) = Some(TRUE) <=>
              m = msg /\ Bytes(d, q, e) = Bytes(d2, q2, e2)
      <4>1. PublicKeyBytes(other) = Bytes(d2, q2, e2)
        BY <3>1 DEF HasParts
      <4> QED  BY <1>6, <4>1 DEF Accepts
    <3>3. Bytes(d, q, e) = Bytes(d2, q2, e2) <=> d = d2 /\ q = q2 /\ e = e2
      BY DEF Bytes, Some
    <3>4. d = d2 /\ q = q2 /\ e = e2 <=> Low(seed) = Low(seed2) /\ High(seed) = High(seed2)
      BY <1>2, <3>1 DEF HasParts, CurveSeed
    <3>5. key.seed = {seed} /\ other.seed = {seed2}
      BY <1>2, <3>1 DEF HasParts, Some
    <3> QED  BY <3>2, <3>3, <3>4, <3>5
  <2> QED  BY <2>1, <2>2 DEF HeldWhole
<1>5. ASSUME NEW a \in accounts
      PROVE  VerifyMessage(m, sig, a.address.address) = Some(TRUE) <=>
                 m = msg /\ Address(key) = a.address
  <2>1. PICK d2, q2, e2 : a.address = DeriveAddress(Bytes(d2, q2, e2))
    BY DEF AccountsHaveParts
  <2>2. a.address.address = Bytes(d2, q2, e2)
    BY <2>1 DEF DeriveAddress
  <2>3. VerifyMessage(m, sig, a.address.address) = Some(TRUE) <=>
            m = msg /\ Bytes(d, q, e) = Bytes(d2, q2, e2)
    BY <1>6, <2>2 DEF Accepts
  <2>4. Address(key) = a.address <=> Bytes(d, q, e) = Bytes(d2, q2, e2)
    BY <1>2, <2>1 DEF Address, DeriveAddress, Tx!DeriveAddress, HasParts
  <2> QED  BY <2>3, <2>4
<1> QED  BY <1>4, <1>5

(* For any seeds, messages and accounts, a message signature verifies      *)
(* under the keys of its own account and under no others (wasm.rs,         *)
(* signMessage and verifyMessage).                                         *)
THEOREM MessagesProve == Spec => []MessagesProveAccounts
<1>1. Init => AccountsHaveParts
  BY DEF Init, AccountsHaveParts
<1>2. Spec => []AccountsHaveParts
  BY <1>1, AccountsNext, PTL DEF Spec
<1>3. Spec => []HeldWhole
  BY HeldInit, HeldNext, PTL DEF Spec
<1> QED  BY <1>2, <1>3, ProveAccounts, PTL

---------------------------------------------------------------------------
(* Transactions. *)

\* A transaction with every signature field.
Filled(chain, body, v, r, s, pqc, pk) ==
    [chain |-> chain, body |-> body, v |-> Some(v), r |-> Some(r), s |-> Some(s),
     pqc |-> Some(pqc), pk |-> Some(pk)]

\* What sign_transaction leaves for a key of these parts.
OfTransaction(d, q, e, chain, body, salt) ==
    Filled(chain, body, Tx!PlaceholderV(chain), 0, 0,
           Composite(d, q, e, Tx!Keccak256(Tx!Encode(Tx!NewTx(chain, body))),
                     Tx!Binding(Bytes(d, q, e), chain), salt),
           Bytes(d, q, e))

\* A filled transaction comes back from JSON as it went in, zeros included.
LEMMA JsonKeeps ==
    ASSUME NEW chain, NEW body, NEW v, NEW r, NEW s, NEW pqc, NEW pk
    PROVE  FromJson(ToJson(Filled(chain, body, v, r, s, pqc, pk)))
               = Filled(chain, body, v, r, s, pqc, pk)
<1> DEFINE t == Filled(chain, body, v, r, s, pqc, pk)
           given == ToJson(t).given
<1>1. /\ t["v"] = Some(v) /\ t["r"] = Some(r) /\ t["s"] = Some(s)
      /\ t["pqc"] = Some(pqc) /\ t["pk"] = Some(pk)
  BY DEF Filled
<1>2. given = [f \in {g \in TxFields : t[g] # None} |-> UnwrapOr(t[f], 0)]
  BY DEF ToJson
<1>3. {g \in TxFields : t[g] # None} = TxFields
  BY <1>1 DEF TxFields, Some, None
<1>4. /\ DOMAIN given = TxFields
      /\ given["v"] = v /\ given["r"] = r /\ given["s"] = s
      /\ given["pqc"] = pqc /\ given["pk"] = pk
  <2>1. DOMAIN given = TxFields /\ \A f \in TxFields : given[f] = UnwrapOr(t[f], 0)
    BY <1>2, <1>3
  <2> HIDE DEF t, given
  <2> QED  BY <2>1, <1>1, UnwrapSome DEF TxFields
<1>5. ToJson(t).chain = chain /\ ToJson(t).body = body
  BY DEF ToJson, Filled
<1> HIDE DEF t, given
<1>6. FromJson(ToJson(t)) = Filled(chain, body, v, r, s, pqc, pk)
  BY <1>4, <1>5 DEF FromJson, Filled, TxFields, given
<1> QED  BY <1>6 DEF t

LEMMA SignedFilled ==
    ASSUME NEW key, NEW seed, NEW d, NEW q, NEW e, HasParts(key, seed, d, q, e),
           NEW doc, NEW salt
    PROVE  SignTransaction(key, doc, salt)
               = {ToJson(OfTransaction(d, q, e, doc.chain, doc.body, salt))}
<1> DEFINE t == FromJson(doc)
           sig == Composite(d, q, e, Tx!SignatureHash(t),
                            Tx!Binding(Bytes(d, q, e), t.chain), salt)
<1>1. t.chain = doc.chain /\ t.body = doc.body
  BY DEF FromJson
<1>2. PublicKeyBytes(key) = Bytes(d, q, e)
  BY DEF HasParts
<1>3. SubSignatures(key, Tx!SignatureHash(t), Tx!Binding(Bytes(d, q, e), t.chain), salt) = {sig}
  BY PartsSign DEF Some
<1>4. Tx!SignatureHash(t) = Tx!Keccak256(Tx!Encode(Tx!NewTx(doc.chain, doc.body)))
  BY <1>1 DEF Tx!SignatureHash, Tx!Preimage
<1>5. Filled(t.chain, t.body, Tx!PlaceholderV(t.chain), 0, 0, sig, Bytes(d, q, e))
          = OfTransaction(d, q, e, doc.chain, doc.body, salt)
  BY <1>1, <1>4 DEF OfTransaction
<1> HIDE DEF t, sig
<1>6. Signed(key, t, salt) = {OfTransaction(d, q, e, doc.chain, doc.body, salt)}
  BY <1>2, <1>3, <1>5 DEF Signed, Filled
<1> QED  BY <1>6 DEF SignTransaction, t

\* The peer reads what was encoded: nothing is absent that could be filled in.
LEMMA FilledRelays ==
    ASSUME NEW d, NEW q, NEW e, NEW chain, NEW body, NEW salt
    PROVE  Tx!Relayed(OfTransaction(d, q, e, chain, body, salt))
               = OfTransaction(d, q, e, chain, body, salt)
<1> DEFINE t == OfTransaction(d, q, e, chain, body, salt)
           sig == Composite(d, q, e, Tx!Keccak256(Tx!Encode(Tx!NewTx(chain, body))),
                            Tx!Binding(Bytes(d, q, e), chain), salt)
           v == Tx!PlaceholderV(chain)
           bytes == Bytes(d, q, e)
<1>1. t = Filled(chain, body, v, 0, 0, sig, bytes)
  BY DEF OfTransaction
<1>2. bytes # Tx!NoParts
  BY DEF Bytes, Tx!NoParts, Some, Tx!None
<1>3. \A x, y : Tx!UnwrapOr(Some(x), y) = x
  BY DEF Tx!UnwrapOr, Some, Tx!None
<1> HIDE DEF t, sig, v, bytes
<1>4. Tx!Encode(t) = [chain |-> chain, body |-> body, tail |-> << v, 0, 0, sig, bytes >>]
  <2>1. Tx!HasSignature(t)
    BY <1>1 DEF Tx!HasSignature, Filled, Some, Tx!None
  <2>2. t.chain = chain /\ t.body = body /\ t.v = Some(v) /\ t.r = Some(0) /\ t.s = Some(0)
        /\ t.pqc = Some(sig) /\ t.pk = Some(bytes)
    BY <1>1 DEF Filled
  <2>3. Tx!UnwrapOr(t.v, 0) = v /\ Tx!UnwrapOr(t.r, 0) = 0 /\ Tx!UnwrapOr(t.s, 0) = 0
        /\ Tx!UnwrapOr(t.pqc, Tx!NoParts) = sig /\ Tx!UnwrapOr(t.pk, Tx!NoParts) = bytes
    BY <2>2, <1>3
  <2> QED  BY <2>1, <2>2, <2>3 DEF Tx!Encode
<1>5. Tx!DecodePubKey(<< v, 0, 0, sig, bytes >>) = Some(bytes)
  BY <1>2 DEF Tx!DecodePubKey, Some, Tx!Some
<1>6. Tx!Decode([chain |-> chain, body |-> body, tail |-> << v, 0, 0, sig, bytes >>])
          = Filled(chain, body, v, 0, 0, sig, bytes)
  BY <1>5 DEF Tx!Decode, Filled, Some, Tx!Some
<1> QED  BY <1>1, <1>4, <1>6 DEF Tx!Relayed, t

LEMMA FilledRecovers ==
    ASSUME NEW d, NEW q, NEW e, NEW chain, NEW body, NEW salt
    PROVE  Tx!RecoverSender(OfTransaction(d, q, e, chain, body, salt))
               = Some(Tx!DeriveAddress(Bytes(d, q, e)))
<1> DEFINE t == OfTransaction(d, q, e, chain, body, salt)
           hash == Tx!Keccak256(Tx!Encode(Tx!NewTx(chain, body)))
           bound == Tx!Binding(Bytes(d, q, e), chain)
           sig == Composite(d, q, e, hash, bound, salt)
<1>1. /\ t.chain = chain /\ t.body = body
      /\ t.v = Some(Tx!PlaceholderV(chain)) /\ t.r = Some(0) /\ t.s = Some(0)
      /\ t.pqc = Some(sig) /\ t.pk = Some(Bytes(d, q, e))
  BY DEF OfTransaction, Filled
<1> HIDE DEF t
<1>2. Tx!CanonicalEnvelope(t)
  BY <1>1 DEF Tx!CanonicalEnvelope, Some, Tx!Some
<1>3. Tx!SignatureHash(t) = hash
  BY <1>1 DEF Tx!SignatureHash, Tx!Preimage
<1>4. Tx!CompositeVerify(Bytes(d, q, e), hash, bound, sig)
  BY VerifiesAsMade
<1> HIDE DEF sig
<1>5. Tx!VerifySignature(hash, chain, Bytes(d, q, e), sig) = Some(Tx!DeriveAddress(Bytes(d, q, e)))
  BY <1>4 DEF Tx!VerifySignature, Some, Tx!Some
<1> HIDE DEF hash, bound
<1>6. Tx!RecoverSender(t) = Tx!VerifySignature(hash, chain, Bytes(d, q, e), sig)
  BY <1>1, <1>2, <1>3 DEF Tx!RecoverSender, Some
<1> QED  BY <1>5, <1>6 DEF t

LEMMA ShowRecovered == HeldWhole => ShownAddressIsRecovered
<1> SUFFICES ASSUME HeldWhole, NEW h \in Handles, NEW key \in keys[h], NEW doc \in Offered
             PROVE  /\ SignTransaction(key, doc, 1) = None <=> key = Zeroized
                    /\ \A out \in SignTransaction(key, doc, 1) :
                          /\ out.chain = doc.chain /\ out.body = doc.body
                          /\ RecoverSender(out) = Some(Address(key))
                          /\ Tx!RecoverSender(Tx!Relayed(FromJson(out))) = Some(Address(key))
  BY DEF ShownAddressIsRecovered
<1>1. CASE key = Zeroized
  <2>1. Signed(key, FromJson(doc), 1) = {}
    BY <1>1, ZeroizedSignsNone DEF Signed, None
  <2> QED  BY <1>1, <2>1 DEF SignTransaction, None
<1>2. CASE Whole(key)
  <2>1. PICK seed, d, q, e : HasParts(key, seed, d, q, e)
    BY <1>2, WholeHasParts
  <2> DEFINE t == OfTransaction(d, q, e, doc.chain, doc.body, 1)
  <2>2. SignTransaction(key, doc, 1) = {ToJson(t)}
    BY <2>1, SignedFilled
  <2>3. key # Zeroized
    BY <2>1 DEF HasParts, Zeroized, Some, None
  <2>4. FromJson(ToJson(t)) = t
    BY JsonKeeps DEF OfTransaction
  <2>5. ToJson(t).chain = doc.chain /\ ToJson(t).body = doc.body
    BY DEF ToJson, OfTransaction, Filled
  <2>6. Address(key) = Tx!DeriveAddress(Bytes(d, q, e))
    BY <2>1 DEF Address, HasParts
  <2>7. Tx!RecoverSender(t) = Some(Address(key))
    BY <2>6, FilledRecovers
  <2>8. Tx!Relayed(t) = t
    BY FilledRelays
  <2> HIDE DEF t
  <2> QED  BY <2>2, <2>3, <2>4, <2>5, <2>7, <2>8 DEF RecoverSender, None
<1> QED  BY <1>1, <1>2 DEF HeldWhole

(* For any seeds, chains and bodies, whatever transaction a wallet is      *)
(* given to sign recovers to the address it shows, by JSON and over the    *)
(* wire, and a zeroized key signs none (wasm.rs, signTransaction and       *)
(* recoverSender).                                                         *)
THEOREM ShownRecovered == Spec => []ShownAddressIsRecovered
<1> QED  BY HeldInit, HeldNext, ShowRecovered, PTL DEF Spec
===================================================================================
