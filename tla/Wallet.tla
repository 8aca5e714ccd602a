--------------------------------- MODULE Wallet ----------------------------------
(***************************************************************************)
(* From a mnemonic to a composite key and back: hdwallet/bip39.rs,         *)
(* derive_child_seed and the path texts (hdwallet/derivation.rs, HdPath),  *)
(* BlackChainPrivateKey::generate, clone and zeroize (crypto.rs), and the  *)
(* wallet calls of api.rs and wasm.rs that put them together.              *)
(*                                                                         *)
(* Seeds are symbolic: a seed is its root and the paths derived from it,   *)
(* one after the other; every derivation function is injective.  The path  *)
(* texts are those of the code, character by character, since two of them  *)
(* are literals that have to meet; an index is a u32 whose upper half,     *)
(* from HardenedBit on, is hardened.  A phrase is what a user types:       *)
(* [words, count, known, checksum, spaced], that is, which words and how   *)
(* many, whether all are in the word list, whether the checksum is right,  *)
(* and whether there are more spaces than one between them.                *)
(***************************************************************************)
EXTENDS Naturals, Sequences, HdPath, Options

CONSTANTS Handles,        \* variables that hold a BlackChainPrivateKey
          Words,          \* 24-word phrases of 256 bits of entropy
          TypedPhrases,   \* phrases users type, valid or not
          Passphrases,
          Halves,         \* 32-byte halves of seeds callers bring themselves
          Indices,        \* indices callers ask for: of accounts, and in paths
          MaxCalls        \* bound: calls of the library

ASSUME IndicesAssumption == Indices \subseteq U32 /\ 0 \in Indices

\* The texts are decimal, and none of their numbers is a hardened index.
ASSUME TextsAssumption == Radix = 10 /\ HardenedBit > 60

VARIABLES keys,           \* the key in each handle
          generated,      \* the words create_wallet has returned
          accounts,       \* [mnemonic, passphrase, index, address]: every account
                          \* a wallet call has opened, and the phrase it keeps
          calls

vars == << keys, generated, accounts, calls >>

---------------------------------------------------------------------------
(* Phrases. *)

\* Mnemonic::from_entropy, to_string
Canonical(words) ==
    [words |-> words, count |-> 24, known |-> TRUE, checksum |-> TRUE, spaced |-> FALSE]

\* Mnemonic::parse: any of the word counts of BIP-39, any spacing.
MnemonicParse(phrase) ==
    IF phrase.count \in {12, 15, 18, 21, 24} /\ phrase.known /\ phrase.checksum
    THEN Some(phrase.words)
    ELSE None

MnemonicWordCount == 24

\* Mutant of ValidateMnemonic: the number of words is not looked at.
ValidateMnemonic_AnyLength(phrase) == MnemonicParse(phrase) # None

\* validate_mnemonic
ValidateMnemonic(phrase) == phrase.count = MnemonicWordCount /\ MnemonicParse(phrase) # None

---------------------------------------------------------------------------
(* Seeds. *)

\* Mnemonic::to_seed
MnemonicRoot(words, passphrase) ==
    [words |-> words, passphrase |-> passphrase, len |-> 64]
RawRoot(low, high, len) == [low |-> low, high |-> high, len |-> len]

RawRoots == {RawRoot(l, h, n) : l \in Halves, h \in Halves, n \in {32, 64, 96}}

RootSeed(root) == [root |-> root, paths |-> << >>]

RawSeeds == {RootSeed(r) : r \in RawRoots}

Length(seed) == IF seed.paths = << >> THEN seed.root.len ELSE 64

\* Bytes 0..32 and 32..64.
Low(seed) == IF seed \in RawSeeds THEN [raw |-> seed.root.low]
                                  ELSE [part |-> 1, of |-> seed]
High(seed) == IF seed \in RawSeeds THEN [raw |-> seed.root.high]
                                   ELSE [part |-> 2, of |-> seed]

\* seed_from_mnemonic
SeedFromMnemonic(phrase, passphrase) ==
    IF phrase.count # MnemonicWordCount THEN None
    ELSE {RootSeed(MnemonicRoot(words, passphrase)) : words \in MnemonicParse(phrase)}

\* derive_child_seed.  XPrv::new takes 16, 32 or 64 bytes.
DeriveChildSeed(seed, path) ==
    IF (\A i \in DOMAIN path : path[i] >= HardenedBit) /\ Length(seed) \in {16, 32, 64}
    THEN Some([seed EXCEPT !.paths = Append(@, path)])
    ELSE None

---------------------------------------------------------------------------
(* Keys. *)

\* derive_mdecc_curve_seed
CurveSeed(master, curve) == [master |-> master, curve |-> curve]

\* BlackChainPrivateKey: the three secret sub-keys, the seed and the cached
\* public key.  Zeroizing empties every vector.
Zeroized == [dil |-> None, p521 |-> None, ed448 |-> None, seed |-> None, public |-> None]

\* Mutant of PublicOf: the two curves are put in the other order.
PublicOf_Swapped(key) == [dil |-> key.dil, p521 |-> key.ed448, ed448 |-> key.p521]

PublicOf(key) == [dil |-> key.dil, p521 |-> key.p521, ed448 |-> key.ed448]

DeriveAddress(public) == [address |-> public]

\* Mutant of SubKeys: both curves are seeded from the first half of the seed.
SubKeys_LowHalf(seed) ==
    [dil   |-> Some(Low(seed)),
     p521  |-> Some(CurveSeed(Low(seed), 1)),
     ed448 |-> Some(CurveSeed(Low(seed), 2))]

\* The three key pairs derived from the first 64 bytes of the seed.
SubKeys(seed) ==
    [dil   |-> Some(Low(seed)),
     p521  |-> Some(CurveSeed(High(seed), 1)),
     ed448 |-> Some(CurveSeed(High(seed), 2))]

\* BlackChainPrivateKey::generate
Generate(seed) ==
    IF Length(seed) < 64
    THEN None
    ELSE LET sub == SubKeys(seed)
         IN  Some([dil |-> sub.dil, p521 |-> sub.p521, ed448 |-> sub.ed448,
                   seed |-> Some(seed), public |-> Some(PublicOf(sub))])

\* derive_public_key of a key that holds this seed.
DerivePublicKey(seed) == PublicOf(SubKeys(seed))

---------------------------------------------------------------------------
(* The paths of accounts. *)

\* Mutant of DefaultAccountPath: the last number is left out.
DefaultAccountPath_Short ==
    << "m", "/", "4", "4", "'", "/", "6", "0", "'", "/", "0", "'", "/", "0", "'" >>

\* DEFAULT_ACCOUNT_PATH
DefaultAccountPath ==
    << "m", "/", "4", "4", "'", "/", "6", "0", "'", "/", "0", "'", "/", "0", "'",
       "/", "0", "'" >>

\* The text from_mnemonic_at writes: m/44'/60'/0'/0'/{index}'.
AccountText(index) ==
    << "m", "/", "4", "4", "'", "/", "6", "0", "'", "/", "0", "'", "/", "0", "'", "/" >>
        \o Decimal[index] \o << "'" >>

\* What parse_hardened_path reads from the two: Some(path), or None.
DefaultPath == ParseHardenedPath(DefaultAccountPath)
AccountPath == [index \in Indices |-> ParseHardenedPath(AccountText(index))]

\* derive_child_seed, then generate: Some(key), or None for any error.
KeyAt(seed, path) == UNION {Generate(child) : child \in DeriveChildSeed(seed, path)}

KeyOfPhrase(phrase, passphrase, parsed) ==
    UNION {KeyAt(root, path) :
               root \in SeedFromMnemonic(phrase, passphrase), path \in parsed}

\* restore_wallet, and from_mnemonic_at.
RestoredKey(phrase, passphrase) == KeyOfPhrase(phrase, passphrase, DefaultPath)
AccountKey(phrase, passphrase, index) == KeyOfPhrase(phrase, passphrase, AccountPath[index])

---------------------------------------------------------------------------
Init ==
    /\ keys = [h \in Handles |-> None]
    /\ generated = {}
    /\ accounts = {}
    /\ calls = 0

Called == calls < MaxCalls /\ calls' = calls + 1

\* A wallet call returned this key for an account: handle h holds it.
OpenAccount(h, phrase, passphrase, index, key) ==
    /\ keys' = [keys EXCEPT ![h] = Some(key)]
    /\ accounts' = accounts \cup
          {[mnemonic |-> phrase, passphrase |-> passphrase, index |-> index,
            address |-> DeriveAddress(pub)] : pub \in key.public}

\* create_wallet: restore_wallet of a new phrase.  The RNG never repeats one.
CreateWallet(h, passphrase) ==
    /\ Called
    /\ \E words \in Words \ generated :
          /\ generated' = generated \cup {words}
          /\ \E key \in RestoredKey(Canonical(words), passphrase) :
                OpenAccount(h, Canonical(words), passphrase, 0, key)

\* restore_wallet, which from_mnemonic calls: the account of index 0.  Returns
\* Err for a phrase that does not parse.
RestoreWallet(h, phrase, passphrase) ==
    /\ Called
    /\ UNCHANGED generated
    /\ \/ \E key \in RestoredKey(phrase, passphrase) :
             OpenAccount(h, phrase, passphrase, 0, key)
       \/ /\ RestoredKey(phrase, passphrase) = None
          /\ UNCHANGED << keys, accounts >>

\* from_mnemonic_at.  Returns Err for a phrase that does not parse and for an
\* index that is not below HardenedBit.
FromMnemonicAt(h, phrase, passphrase, index) ==
    /\ Called
    /\ UNCHANGED generated
    /\ \/ \E key \in AccountKey(phrase, passphrase, index) :
             OpenAccount(h, phrase, passphrase, index, key)
       \/ /\ AccountKey(phrase, passphrase, index) = None
          /\ UNCHANGED << keys, accounts >>

\* generate with a seed the caller brings.
GenerateFrom(h, seed) ==
    /\ Called
    /\ keys' = IF Generate(seed) # None THEN [keys EXCEPT ![h] = Generate(seed)] ELSE keys
    /\ UNCHANGED << generated, accounts >>

\* derive_child_seed(key.seed(), path) and generate, the use crypto.rs keeps
\* the seed for.  The seed of a zeroized key is empty: XPrv::new refuses it.
DeriveAccount(h, g, path) ==
    /\ Called
    /\ \E key \in keys[g] :
          LET made == UNION {KeyAt(seed, path) : seed \in key.seed}
          IN  keys' = IF made # None THEN [keys EXCEPT ![h] = made] ELSE keys
    /\ UNCHANGED << generated, accounts >>

CloneKey(h, g) ==
    /\ Called
    /\ keys[g] # None
    /\ keys' = [keys EXCEPT ![h] = keys[g]]
    /\ UNCHANGED << generated, accounts >>

\* Mutant of Zeroize: the seed is skipped.
Zeroize_KeepsSeed(h) ==
    /\ Called
    /\ \E key \in keys[h] :
          keys' = [keys EXCEPT ![h] = Some([Zeroized EXCEPT !.seed = key.seed])]
    /\ UNCHANGED << generated, accounts >>

\* zeroize(): every field of this key.
Zeroize(h) ==
    /\ Called
    /\ keys[h] # None
    /\ keys' = [keys EXCEPT ![h] = Some(Zeroized)]
    /\ UNCHANGED << generated, accounts >>

\* The paths callers derive keys with: one index of any kind, or an account's.
Paths == {<< i >> : i \in Indices} \cup DefaultPath \cup UNION {AccountPath[i] : i \in Indices}

Next ==
    \/ \E h \in Handles, p \in Passphrases : CreateWallet(h, p)
    \/ \E h \in Handles, phrase \in TypedPhrases, p \in Passphrases :
          RestoreWallet(h, phrase, p)
    \/ \E h \in Handles, phrase \in TypedPhrases, p \in Passphrases, i \in Indices :
          FromMnemonicAt(h, phrase, p, i)
    \/ \E h \in Handles, seed \in RawSeeds : GenerateFrom(h, seed)
    \/ \E h, g \in Handles, path \in Paths : DeriveAccount(h, g, path)
    \/ \E h, g \in Handles : CloneKey(h, g)
    \/ \E h \in Handles : Zeroize(h)

Spec == Init /\ [][Next]_vars

---------------------------------------------------------------------------
(* Properties. *)

(* A key is whole or empty.  A whole key caches the public key of its own  *)
(* sub-keys, which is the one derive_public_key computes from its seed; a  *)
(* zeroized key keeps no field, the seed included (crypto.rs, generate,    *)
(* derive_public_key and the Zeroize derive).                              *)
KeysConsistent ==
    \A h \in Handles : \A key \in keys[h] :
        \/ key = Zeroized
        \/ \E seed \in key.seed :
              /\ Length(seed) >= 64
              /\ key.public = Some(DerivePublicKey(seed))
              /\ key.public = Some(PublicOf(key))

(* Two accounts opened by wallet calls have the same address exactly if    *)
(* they are the same account of the same words.  create_wallet and         *)
(* restore_wallet, by their literal path, meet from_mnemonic_at, by its    *)
(* formatted one, at index 0, however the words were spaced; nothing else  *)
(* meets, hardened indices included (api.rs, wasm.rs,                      *)
(* parse_hardened_path).                                                   *)
AccountsDistinct ==
    \A a, b \in accounts :
        a.address = b.address <=>
            /\ a.mnemonic.words = b.mnemonic.words
            /\ a.passphrase = b.passphrase /\ a.index = b.index

(* The phrase a wallet keeps for the user to back up passes validation,    *)
(* and typing it into fromMnemonicAt opens the same account, also if it    *)
(* was opened by its default path; no phrase that validation passes, or    *)
(* fails, is treated otherwise by the calls that open wallets (bip39.rs,   *)
(* validate_mnemonic and seed_from_mnemonic; wasm.rs, mnemonic and         *)
(* fromMnemonicAt; api.rs, restore_wallet).                                *)
BackupRestores ==
    /\ \A a \in accounts :
          /\ ValidateMnemonic(a.mnemonic)
          /\ \E key \in AccountKey(a.mnemonic, a.passphrase, a.index) :
                key.public = Some(a.address.address)
    /\ \A phrase \in TypedPhrases, p \in Passphrases :
          /\ ValidateMnemonic(phrase) <=> RestoredKey(phrase, p) # None
          /\ ValidateMnemonic(phrase) <=> AccountKey(phrase, p, 0) # None

(* Keys with the same address come from seeds that agree on all of their   *)
(* first 64 bytes: no region of the seed is left unused (crypto.rs,        *)
(* generate).                                                              *)
AddressFixesSeed ==
    \A h, g \in Handles : \A k \in keys[h], l \in keys[g] :
        k.public = l.public =>
            \A s \in k.seed, t \in l.seed : Low(s) = Low(t) /\ High(s) = High(t)

(* What the documentation of seed() says: the seed a wallet key keeps is   *)
(* the root seed, from which the other accounts of the wallet can be       *)
(* derived without its mnemonic (crypto.rs, BlackChainPrivateKey).         *)
SeedReachesAccounts ==
    \A h \in Handles : \A key \in keys[h], a \in accounts :
        key.public = Some(a.address.address) =>
            \A seed \in key.seed, i \in {j \in Indices : j < HardenedBit} :
                UNION {KeyAt(seed, path) : path \in AccountPath[i]}
                    = AccountKey(a.mnemonic, a.passphrase, i)
=================================================================================
