# BlackChain crypto library: TLA+ models and proofs

This directory models `blackchain-crypto-lib-rust`, a library that derives
composite keys (ML-DSA-87, P-521 and Ed448 together) from a mnemonic, signs
transactions and messages with all three schemes at once, and encodes signed
transactions as RLP. TLC checks the models on small instances. TLAPS proves the
safety properties of every component for every value of the constants.

All modules are in this directory. `tlc -config X.cfg M` runs one of the model
checks listed below and `tlapm M.tla` checks the proofs of a `*_proofs` module.
`PROJECT.json` lists the runs, the mutants, the source lines behind every
definition, the hazards, the findings and the theorems.

## The system

The library is sequential Rust: every operation is one synchronous call. It has
no thread, no background task, no timer and no storage. The only state is in
the values that callers hold, and the difficulty is in what callers do with
those values *between* calls: the fields of a transaction are public, its
public key and signature travel with it, keys can be cloned and zeroized, and
bytes can be decoded that nobody encoded.

| Component | State | Operations | Hard behaviour |
|---|---|---|---|
| Transactions (`transaction/signing.rs`, `types.rs`) | chain and economic fields; optional `v`, `r`, `s`, `pqc_sig`, `pub_key` | `sign_transaction`, `signature_hash`, `recover_sender`, `verify_signature`, assignment of any field | fields outside the hash; sub-signatures recombined across transactions, messages and keys; key objects that are cloned, emptied and made anew |
| Composite keys (`crypto.rs`) | three secret sub-keys, the seed, a cached public key | `generate`, `derive_public_key`, `sign_message`, `verify_message`, clone, zeroize | fields that must change together; the zero nonce of messages against the bound nonce of transactions |
| RLP (`transaction/rlp.rs`) | a byte buffer that calls advance | `encode`, `decode`, `payload_length` | frames back to back; two versions of the format; truncation; declared lengths |
| HD wallet (`hdwallet/*`) | none | mnemonic to seed, seed to child seed, path text to indices | a lenient parser, hardening of indices, seed regions, meeting of the create and restore paths |
| API and browser bindings (`api.rs`, `wasm.rs`) | a wallet's key and phrase | `create_wallet`, `restore_wallet`, `from_mnemonic_at`, `validate_mnemonic`, signing and verifying with wallet keys, transactions as JSON | three ways to the same account; phrases typed badly; fields that are missing or null |
| Signature traits (`sign.rs`) over three backends (`dilithium/`, `mdecc/`) | key objects | generate, derive, sign, verify, marshal, unmarshal, compare, clone; dynamic and typed | key objects of another scheme, contexts a scheme cannot use, the `PREHASHED` sentinel |
| Ed448 (`mdecc/ed448.rs`) | a key's bytes | point and scalar decoding, verification of keys read from bytes | cofactor 4, unreduced encodings, two libraries that must agree |
| P-521 (`mdecc/p521.rs`) | a key | signing with a fresh nonce, the low-S rule, derivation by trial, zeroize | two `s` for one approval, a retry loop with an eight-bit counter, a key that stays usable after zeroize |

The calls go one way. `api` and `wasm` call `crypto` and `hdwallet`;
`signing.rs` and `crypto.rs` call the three backends directly, each with the
key bytes; `signing.rs` calls `rlp.rs` for the preimage of the hash. Nothing
calls back.

What makes each component correct:

- **Transactions.** A recovered address belongs to a key that signed exactly
  this transaction; a signed transaction survives transport; an emptied key
  object signs nothing, and its clones go on.
- **Messages.** A signature that verifies was returned for this message by this
  key, and no part of a transaction's signature passes for one.
- **RLP.** Frames do not influence each other, truncation is noticed, and there
  is one encoding per transaction (two where the old format applies).
- **Wallet.** A key is whole or empty, distinct accounts have distinct
  addresses, and the address fixes all the entropy that goes in.
- **Wallet keys at work.** What a wallet signs is recovered to the address it
  shows, through JSON and RLP, and a backup of its phrase restores it.
- **Paths.** A text of the documented grammar is read as its numbers; what is
  accepted beyond it is such a text with decorations.
- **Dispatch.** What is accepted was signed in the same way, no context is
  dropped, equal keys treat returned signatures alike, crafted ones are
  refused, and a key survives its bytes.
- **P-521.** Derivation ends, with a key that its seed alone fixes; one `s` is
  accepted per hash and `r`; zeroizing reaches one object and no clone.
- **Ed448.** Points and scalars have one encoding, and an accepted signature is
  bound to one challenge.

## Modules

| Module | Models |
|---|---|
| `Options` | `Option` and `Result`, as the empty set or a singleton |
| `HybridCrypto` | the symbolic algebra of composite keys, hashes, nonces and sub-signatures |
| `TxEnvelope` | `BlackChainTxType`: what encoding, decoding, signing and recovery do to its fields |
| `TxSigning` | slots that hold transactions, key objects, signing calls, callers' assignments, relaying |
| `SenderAuth` | the abstract specification of `TxSigning`: approvals by agents, no signatures |
| `TxSigning_proofs` | the proofs |
| `TxStream` | RLP frames in one buffer that can be cut and altered |
| `TxQueue` | the abstract specification of `TxStream`: a queue between two peers |
| `TxStream_proofs` | the proofs |
| `HdPath` | the text of a derivation path and its parser |
| `HdPathTexts` | every text up to a length, and the grammar to compare with |
| `HdPath_proofs` | the proofs of `HdPath` and `HdPathTexts` |
| `Wallet` | phrase, seed, path, key, address; clones and zeroizing |
| `WalletSigning` | wallet keys that sign and verify messages and transactions |
| `WalletSigning_proofs` | the proofs of `Wallet` and `WalletSigning` |
| `SchemeDispatch` | a program that holds key objects and signatures, and all trait calls |
| `MlDsaBackend`, `P521Backend`, `Ed448Backend` | the calls of each scheme behind the traits |
| `SchemeDispatch_proofs` | the proofs |
| `P521` | derivation, zeroize and ECDSA over a small curve |
| `P521_proofs` | the proofs |
| `Ed448` | decoding and verification over a small curve |
| `Ed448_proofs` | the proofs |
| `BasicLemmas` | lemmas for the proofs: sequences, recursive functions, residues, groups |
| `MC*` | the instances for TLC |

`TxSigning` EXTENDS `TxEnvelope`, which EXTENDS `HybridCrypto`; `Auth` in it is
`SenderAuth` under the refinement mapping. `WalletSigning` EXTENDS `Wallet`,
which EXTENDS `HdPath`, and takes what transactions and verification do from
`TxEnvelope`. `Queue` in `TxStream` is `TxQueue` under the refinement mapping.
`SchemeDispatch` has one instance of each backend. `Ed448` and `P521` stand
alone: they look at a layer that the others abstract (`HybridCrypto` takes a
sub-signature to be ideal, they show what that rests on).

### Transactions

One slot of `tx` is a variable of type `BlackChainTxType`. The seven fields
after `chain_id` that the hash covers are one value, `body`, as each of them is
hashed, encoded and decoded alike. `SignTransaction` is the whole of
`sign_transaction`: the fields are written after the last step that can fail,
and a zeroized object, whose ML-DSA-87 seed no longer parses, fails at the first.
The later steps, which parse bytes that `generate` wrote, do not fail for an
object that holds its secrets.

A `BlackChainPrivateKey` is an object apart from the key pair in it, since the
type is `Clone` and `generate` makes the same pair from the same seed again.
`pair` says which key pair each object was made from and `zeroized` which
objects have been emptied since. `GenerateKey` makes a pair in an object,
`CloneKey` copies one over another, emptied or not, and `ZeroizeKey` empties one
object and no other. In `SenderAuth` an object is an agent that acts for a
sender or for nobody: what it promises is that a transaction shows as coming from
a sender only if an agent of that sender approved it while it was one. Emptying
an object dismisses that agent; a sender approves nothing more only when all its
agents are dismissed and none is appointed.

`EditTerms`, `EditPlaceholders`, `EditPubKey` and `EditSignature` are the
assignments that public fields allow a caller: any number it holds, any mix of
sub-keys, any sub-signature taken out of any composite that a call returned,
the high-S twin of every P-521 part, or nothing. `Relay` encodes one slot and
decodes it into another. `signed` and `messages` are history: what the signing
calls returned.

The three schemes are ideal in `HybridCrypto`: hashes are injective, a
sub-signature verifies for the key and bytes it was made with and for no
others, and only signing makes one, up to the high-S twin. That is the
assumption under which the properties hold, and the construction around it is
what they check: which bytes each scheme signs, which nonce binds them, which
fields recovery compares.

### Streams

A stream is a sequence of cells: a list header with its declared length, or an
item of one of six kinds, chosen as the kinds the field decoders tell apart
(empty, the byte zero, another byte, 20 bytes, up to 32 bytes, more than 32).
Long items take two cells, so that a stream can end inside one. `Send` appends
a frame, `Receive` decodes one and stops at the first error. `Cut`, `Replace`,
`Insert` and `SetLength` alter the stream. The model-only variables `whole`,
`open` and `altered` say how much of the stream is as it was sent. Under the
refinement mapping the frames that are whole are the queue: a `Cut` tears it, an
alteration keeps some of its front, and only bytes that were altered can yield a
transaction that nobody put in.

### Wallet

A seed is its root and the paths applied to it, so derivation is injective. A
root is a mnemonic with a passphrase, or two halves and a length (32, 64, 96)
for a seed that a caller brings to `generate`. Keys are five optional fields;
zeroizing empties them. A phrase is what a user typed: its words, their number,
whether they are all known, the checksum and the spacing. `create_wallet` and
`restore_wallet` open the account of the literal `DEFAULT_ACCOUNT_PATH`,
`from_mnemonic_at` that of the text it formats with its index. Both texts are
those of the code, character by character, and are read by the parser of
`HdPath`: that they meet at index 0 is checked and proved. `accounts` records
what was opened and the phrase the wallet keeps.

`HdPath` has the parser of `derivation.rs` as composed `str` operations over a
sequence of characters (`trim`, `trim_start_matches`, `split`,
`trim_end_matches`, `parse::<u32>`), with a radix and a hardened bit that can
be small.

`WalletSigning` adds no variable. In every state of `Wallet` its operators say
what each key would sign and what others would make of it. Here a composite key
has its three parts, where `TxSigning` has one name for it: whether the parts
belong together is what is checked. A JSON transaction is the set of fields
that are present with their values.

### Dispatch and backends

A program holds key objects (`privates`, `publics`) and the signatures it was
given (`made`). An object is got by generating, deriving, reading bytes or
cloning, and is handed to any scheme. A dynamic call sees only its bytes, so
only the length tells key types apart; a typed call has been checked by the
compiler. Sizes are the real ones in bytes; secrets and messages are symbolic,
with the scalars of P-521 as numbers because `from_slice` looks at their range.
P-521 parses secrets of 24 to 66 bytes, because the `p521` crate pads them.
`Ed448Backend` has both ways of verifying, by `ed448-rust` for a key made in
memory and by the code of `ed448.rs` for one read from bytes, each with its own
construction of what is hashed. The second decodes R and S before it does
anything else and refuses an R that is not canonical or of small order and an S
that is not reduced. A signature has a `form`, that says whether R and S are as
signing writes them or one of these; only its key's owner can make the others,
and no sign call returns them. What `ed448-rust` does with them is not in this
repository: `LibraryForms` is the set of forms it accepts, any set that has the
one of signing. `EqualKeysVerifyAlike` therefore says of returned signatures
that equal keys agree, and of crafted ones that a key read from bytes, and
dynamic dispatch with any key, refuse them.

### P-521

The prime, the coefficient, the order and the generator are constants, and named
ASSUMEs say that the numbers are prime and that the points are a group in which
the generator has the order. The instance is `y^2 = x^3 - 3x + 15` over the field
of 23 elements, which has 17 points: as in P-521 there is no cofactor and the
order is below the field prime, so that an `x` can wrap when it is reduced to
`r`. Here that is common (21 becomes 4, and 17 becomes a zero `r`, which is
drawn again), in P-521 hardly ever seen. `OneS` leaves out the `r` that two `x`
have, fewer than 1 in 2^260 of those of P-521: such an `r` can belong to two
nonces, with one low `s` each, so ECDSA itself does not promise more.
A derivation is one action per turn of the loop: the SHA-512 of a seed and a
counter is any number, chosen once per behaviour, and `from_slice` refuses zero.
Other calls may come between two turns, as another thread may make them. A handle
remembers in `owner` what it was last given.

### Ed448

The curve is `x^2 + y^2 = 1 + 7 x^2 y^2` over the field of 23 elements:
untwisted, with a coefficient that is not a square, 28 = 4 * 7 points, and 23 =
3^3 - 3 - 1 in base 3 has the digits of Ed448's prime, all of them the largest
but one. So there are encodings of `y` beyond the prime, two of them of points
of full order, and a group with cofactor 4. Point arithmetic and decompression
are those of `ed448-goldilocks`, which reduces `y`, ignores the padding bits
and, on the y axis, the sign; the code adds the checks. The SHAKE-256 challenge
is any scalar, the same for signer and verifier, since both hash the same
bytes. Verification with a key that was generated in memory is a call to
`ed448-rust` and is in `Ed448Backend`. The named ASSUMEs say that the constants
are a prime whose digits are given, a coefficient that is not a square, and a
group in which the generator, and four times any point, have prime order.

## Runs

| Run | Shows | Bounds |
|---|---|---|
| `tx_signing` | `TypeOK`, `RecoveredWasSigned`, `MessageWasSigned`, `SignedTravels`, `RelayKeepsMeaning` | 2 key pairs, 1 key object, 2 chains, 1 body, 1 slot, 3 messages, 2 signing calls, 2 assignments |
| `tx_auth` | `TxSigning` implements `SenderAuth` | 2 key pairs, 2 key objects, 2 chains, 1 body, 2 slots, 2 messages, 2 signing calls, 1 assignment |
| `tx_stream` | `FramesApart`, `ReceivedWasSent`, `CanonicalFrames`; `TxStream` implements `TxQueue` | 3 kinds of transaction, 2 frames, 2 alterations, lengths off by 1 and 2 |
| `wallet` | `KeysConsistent`, `AccountsDistinct`, `AddressFixesSeed`, `BackupRestores`, `ShownAddressIsRecovered`, `MessagesProveAccounts` | 2 handles, 4 calls, 1 phrase typed in 5 ways, 2 passphrases, decimal paths, indices 0, 63, 64 and 127 with the hardened bit at 64, 2 messages, chains 1 and 7, 1 body |
| `hd_path` | `ReadAsDocumented`, `AcceptedIsDecorated`, `AcceptedDerives` | every text of up to 6 characters out of 8 (299,593), radix 2, hardened bit 4 |
| `p521` | `DerivedAsSpecified`, `SignsAsOwner`, `SignedVerifies`, `OneS`, `DeriveReturns` | 2 handles, 1 seed, 3 counters, 2 digests, 2 hashes, 4 nonces, 4 calls |
| `ed448` | `OneEncoding`, `MadeVerifies`, `OneScalar`, `OneChallenge` | one key, one signature, every one of 108 encodings, 15 values of S and 7 challenges |
| `dispatch` | `AcceptedAsSigned`, `WhatSignsVerifies`, `SignaturesTellContexts`, `EqualKeysVerifyAlike`, `KeysSurviveBytes` | 2 private and 2 public key objects of any scheme, 2 seeds, 3 messages, 5 options, 2 signatures and 3 crafted forms of each Ed448 one, a library that accepts small-order R, group order 3 |
| `wallet_seed`, `dispatch_context`, `dispatch_sign_type`, `dispatch_verify_panic` | findings, below | as above, fewer calls or objects |

Why the bounds are enough:

- **`tx_signing`.** To mix sub-signatures one needs two composites, made by two
  calls: of one key or two, for one chain or two, of a transaction or a
  message. The messages include the preimages of both transactions, the case
  in which a message has a transaction's hash. A splice of one part and a
  change of one other field take two assignments; a third signing call adds a
  third source for parts that each come from one call. `Words` has 37, the
  placeholder of chain 1 and of no other. One object is enough for these
  properties, which do not name objects: it holds one pair, then the other, and
  is emptied between two calls. The proofs remove these bounds.
- **`tx_auth`.** Two slots let whole transactions and parts move between them,
  and two objects let a clone, or a second object of the same seed, sign after
  the first was emptied. The messages are the preimages of the transactions,
  those that could pass for one.
- **`tx_stream`.** What decoding does depends on one frame and on whether
  something follows; two frames and two alterations cover an alteration of
  either, of both, and of a header together with an item, which keeps the
  length right. A fourth kind of transaction was checked too (2.1 million
  states) and only makes the run longer.
- **`wallet`.** The paths are the real texts, so the radix is 10 and the hardened
  bit is above the coin type, 60. At 64 it has the lowest and the highest index on
  either side of it, with one digit, two and three. Four calls open two accounts,
  derive from one and clone or zeroize. The ways to type a phrase are the
  canonical one, more spaces, 12 words, an unknown word and a wrong checksum.
  Chain 1 has the placeholder `v` 37 and chain 7 another. A signed transaction
  that is offered to another wallet covers signing twice.
- **`hd_path`.** The parser looks at a part through its first character, its
  trailing marks and its digits. Six characters hold a root with two parts and a
  mark, a repeated root, a repeated mark, leading zeros, a sign, spaces
  on either side, an empty part, and numbers below, at and beyond both the
  hardened bit (4) and the width of a `u32` (8).
- **`p521`.** The digests are refused or accepted, in every order over three
  counters, so the loop ends in its first, second or last turn or panics. The
  scalars include 1 less than the order, the order and zero. Of the nonces, one
  gives a zero `r`, one an `x` that wraps, and two give `s` on both sides of the
  middle; one hash is zero. `OneS` tries every `r` and every pair of `s`.
- **`ed448`.** The run is exhaustive over its curve. Each property quantifies
  over the alternatives to the one signature a state holds.
- **`dispatch`.** Every property relates two objects and two signatures at
  most. The strings to be read include secrets of zero and of the group's order,
  byte lengths of every scheme, the compressed form of P-521 and points that are
  on no curve. The library's forms include one crafted form and leave two out, so
  a derived key and its copy do treat some crafted signature differently. One
  message is the SHAKE-256 of another, the case in which a
  prehashed signature could pass for a pure one.

`CHECK_DEADLOCK FALSE` stands where calls are bounded: a behaviour that has
used its calls stops, as a program that makes no further call does. Symmetry is
used in `tx_signing` and `tx_auth`, over key pairs, objects and slots, which
neither their initial states and properties nor `SenderAuth` tell apart.

The one liveness property is `DeriveReturns`: a derivation that was begun
returns or panics. It needs `WF_vars(Attempt)`, that a turn of the loop which
can be taken is taken. The code justifies it: the loop runs on the thread of its
caller, and nothing in it waits, locks or yields. Weak fairness is enough
because no other call can disable a turn. Everything else in the library is one
straight call that returns before anything else happens, with no queue, timer or
waiting, and needs no fairness.

Every property of a passing run has a mutant: a definition changed the way a bug
in that code would change it, named `Definition_WhatIsWrong` in the module and
listed in `PROJECT.json`. TLC finds the property violated under it.

## Proofs

Seven groups of theorems, each for any values of the constants that satisfy the
named ASSUMEs of its modules: chain ids and words are naturals (`TxSigning`),
transactions are values of `BlackChainTxType` (`TxStream`), the radix is from 2 to
10 and the hardened bit is above 0 (`HdPath`), the radix is 10 and the hardened
bit above 60, the coin type, and the indices are `u32`s with 0 among them
(`Wallet`), scalars derived from seeds are in range, a message is a record with a
hash count and `ed448-rust` accepts the form that signing writes
(`SchemeDispatch`), digests are below the order (`P521`). The schemes are ideal as
`HybridCrypto` and the backends say. The two modules that look inside a scheme
assume the algebra of its curve, which is not this code's: that the field prime
and the order are prime, that point addition is associative, commutative and
closed (for `Ed448` also that negation inverts), and the order of the generator.
TLC evaluates every one of these assumptions on the instance.

What a recursive function computes for every input is proved without induction
theorems that take a predicate. `BasicLemmas` has induction for a *set* of naturals
or of sequences (the counterexamples would have a least element, as strict
inclusion of finite sets is well-founded), the existence of a function that is
defined step by step, and that what holds at the start and is kept by each step
holds at the end. `FlattenSeq`, `Strings`, `Split`, `NumberOf`, `Decimal`,
`FormatPath` and `NumbersIn` are given their equations that way, then a lemma on
`Append`, then, where it is needed, one on concatenation. `BasicLemmas` also
has what the curves need: remainders and inverses modulo a prime, and in any
abelian group the multiples of an element, which are added and multiplied like
their factors modulo its order.

### Transactions

| Theorem | States |
|---|---|
| `TypeCorrect` | `Spec => []TypeOK` |
| `Inductive` | `Spec => []IndInv` |
| `Unforgeable` | `Spec => []RecoveredWasSigned` |
| `MessagesApart` | `Spec => []MessageWasSigned` |
| `Travels` | `Spec => []SignedTravels` |
| `RelaysSafely` | `Spec => []RelayKeepsMeaning` |
| `Implements` | `Spec => AuthSpec`: `TxSigning` implements `SenderAuth` |

`RecoveredWasSigned` is not inductive: it speaks of slots that recover, and
says nothing of the parts in a slot that does not *yet*, which one assignment
could complete. The strengthening `IndInv` adds to `TypeOK` that

- `SignedForm`: a recorded transaction is what `SignedTx` writes for its terms,
  with some salt;
- `MessageForm`: a recorded message signature is what `sign_message` assembles;
- `PartsAreHeld`: every sub-signature in a slot is a part of a recorded
  composite, or the high-S twin of one.

Editing, signing and relaying keep `PartsAreHeld` because callers have no other
source of parts. `RecoveredWasSigned` follows through the P-521 part
(`HeldP521Meaning`): it must be low-S, so it is no twin, so a signing call made
it; its nonce is bound to a chain and an address, so that call was no
`sign_message`; its hash fixes chain and body and its binding fixes the public
key; the two other parts are then determined by what they must verify, and the
three placeholders by the canonical check. `MessageWasSigned` is the same
argument from the zero nonce. Without the low-S rule, without the nonce in
`h_combined`, or without the pinned `r` and `s`, one of those steps fails; the
mutants do just that.

`Implements` maps a slot to the fact that it proves, and a key object to the
sender whose secrets it holds. A successful signing is `Approve` by that object,
generating or cloning into an object is `Appoint` (a clone of an emptied one
`Dismiss`), zeroizing is `Dismiss`, and each of these leaves every other object
as it was (`OneObjectImplements`). Every assignment or relay is `Present`, because
after it the slot proves an approved fact or none. That last point is
`RecoveredWasSigned` again.

### Streams

| Theorem | States |
|---|---|
| `InvHolds` | `Spec => []Inv` |
| `ReceivedWasSentHolds` | `Spec => []ReceivedWasSent` |
| `FramesApartHolds` | `Spec => []FramesApart` |
| `QueueImplemented` | `Spec => QueueSpec`: `TxStream` implements `TxQueue` |
| `WellCelledHolds` | `Spec => []WellCelled` |
| `CanonicalFramesHolds` | `Spec => []CanonicalFrames` |

They hold for any set of transactions and any number of frames, losses and
alterations. None of the three properties is inductive. `ReceivedWasSent` looks
at what was received and not at the cells that the next call will decode;
`FramesApart` and `CanonicalFrames` look at one stream and not at how it came
about. `Inv` is `TypeOK` with

- `Framing`: the stream is the frames of `whole`, and a remainder;
- `Accounting`: unless bytes were altered, what was received and what is whole
  are together the beginning of what was sent, and the remainder is nothing or
  the beginning of a frame that is not all of it.

It rests on two facts about the codec. `FrameDecodes`: a frame with anything
behind it decodes to its transaction and leaves just that; the strings of a
written payload are the values that were written (`PayloadRoundTrip`), each read
through the kinds of item, and the declared length bounds the payload. And half a
frame fails (`HalfFails`). A loss inside the frames takes them back to a shorter
`whole` and one half frame (`FramesSplit`, `HalfPrefix`).

`CanonicalFrames` needs in addition that no string is ever taken apart
(`WellCelled`): the first cell of a long string is followed by its rest, except
where the end of the stream was lost. A decoder that stops with an error must
leave a stream in which that is still so; it moves on by whole headers or whole
frames (`DecodeRest`). A payload of whole strings is the cells of its strings
(`PayloadIsCells`), and the field decoders then leave one way to write them
(`DecodesCanonically`).

`QueueImplemented` takes `Framing` and `Accounting` through the refinement
mapping: encoding is a put, decoding a whole frame a take, `Cut` a tear, an
alteration keeps some of the front, and only altered bytes forge. TLC checked
`Framing`, `Accounting` and `WellCelled` as invariants on the instance of
`tx_stream` before they were proved.

### Paths

| Theorem | States |
|---|---|
| `PathRoundTrip` | `ParseHardenedPath(FormatPath(ns))` is `ns` hardened, or an error if a number of it is hardened already, for any `ns` of `u32`s that is not empty |
| `AcceptedDerivesHolds` | `TextSpec => []AcceptedDerives` |
| `ReadAsDocumentedHolds` | `TextSpec => []ReadAsDocumented` |
| `AcceptedIsDecoratedHolds` | `TextSpec => []AcceptedIsDecorated` |

These hold for every length of text and number of indices, any radix from 2 to
10 and any hardened bit, the real 10 and 2^31 among them. `Split` of a text
`a/b` is `Split(a)` followed by `Split(b)` (`SplitConcat`), and the digits that
`Decimal` writes are read back as the number (`DecimalReads`, by induction over
`n \div Radix`), so a written path has one part for each number
(`FormatPathSplits`), and trimming takes just the root and the mark off
(`TrimOneRoot`, `TrimMarked`).

A documented text is read by the model of the parser in phases (trim, split, then
parse each part) and by the grammar's `NumbersIn` in one pass. `ReadSoFar` relates
the two after any number of characters: all parts but the last are finished and
match the numbers but the last, and the last part matches as far as the last
character tells (nothing, digits, or digits with a mark). `ReadStep` keeps it
for one character more, and `ChainedReads` carries it through the text. The only
invariant of `TextSpec` they need is that the text is made of its characters.

`AcceptedIsDecorated` compares two parses of different texts: the one accepted,
and what `Kept` leaves of it without spaces, plus signs, marks and roots. `Kept` of
a text and of its parts agree (`KeptSplit`), and the two trims take off nothing
that `Kept` leaves (`KeptTrim`, `KeptTrimStartRoot`). A part that parses is a sign,
digits and marks (`AcceptedPart`), so what is left of it are its digits, with the
same number. A text whose parts are digits is in the grammar
(`DigitPartsSpell`), and `ReadAsDocumented` then says how it is read.

### Wallets

| Theorem | States |
|---|---|
| `WholeOrEmpty` | `Spec => []KeysConsistent` |
| `SeedsFixed` | `Spec => []AddressFixesSeed` |
| `AccountsDistinctHolds` | `Spec => []AccountsDistinct` |
| `BackupRestoresHolds` | `Spec => []BackupRestores` |
| `MessagesProve` | `Spec => []MessagesProveAccounts` |
| `ShownRecovered` | `Spec => []ShownAddressIsRecovered` |

The inductive invariant is `HeldWhole`: a handle holds no key, a zeroized one,
or exactly what `generate` returns for some seed of at least 64 bytes.
`KeysConsistent` says less than that (it does not fix the sub-keys by the
seed), so a clone or a derivation could not be followed with it alone.
`SeedsFixed` takes the halves of the seed out of the address: the ML-DSA-87
part is the first half and the P-521 part is made of the second.
`MessagesProve` and `ShownRecovered` rest on `HeldWhole` and on
`AccountsHaveParts`, that an opened account's address has three parts: the
sub-signatures verify under exactly those parts, and `h_combined` or the
binding is computed from the cached public key, which `HeldWhole` ties to the
secrets. `ShownRecovered` follows a signed transaction through JSON and RLP,
which may only write an absent `r` or `s` as zero, and signing leaves neither
absent.

`AccountsDistinct` compares the addresses of any two accounts and says nothing of
what one of them is, so a new account could have any address as far as it goes.
`AccountsDerived` says of each that its phrase passes validation and that its
address is the one of the seed that phrase, passphrase and index come to
(`AccountKeyIs`, `RestoredKeyIs`). That needs the text of an account's path to be
read back as its index, hardened. The characters of the code are put in the form
that `FormatPath` writes (`PrefixText` for the fixed part, `AccountTextIs` with
the index), and `PathRoundTrip` says how it is read (`AccountPathIs`); the literal
is that text for index 0 (`DefaultPathIs`). Seeds differ for different accounts
(`AccountSeedFixes`) and addresses for different seeds, which gives
`AccountsDistinct`; and the phrase that a wallet keeps goes through the same steps
again, which gives `BackupRestores`.

### Dispatch

| Theorem | States |
|---|---|
| `Accepted` | `Spec => []AcceptedAsSigned` |
| `Verifies` | `Spec => []WhatSignsVerifies` |
| `Tell` | `Spec => []SignaturesTellContexts` |
| `Alike` | `Spec => []EqualKeysVerifyAlike` |
| `Survive` | `Spec => []KeysSurviveBytes` |

The inductive invariant is `HeldTyped`: every key object has the shape its
scheme gives it, and every recorded signature is the one of the secret that the
scheme read in the bytes of the object it was handed, with options the scheme
signs with. It quantifies over all secrets, so TLC does not evaluate it. Three
facts carry the rest. The sizes of signatures (4627, 132, 114) and of public keys
(2592, 133, 57) tell the schemes apart (`SizesEach`), so a signature is never
tried by another scheme's rule. What Ed448 hashes determines the message and the
context (`HashedTells`), since the flag separates prehashed from pure. And a
scheme reads its own key object back as it was (`ReadBack`, `PointRead`). For
`Alike`, a signature that was made has the form that both libraries accept
(`AsSigned`); a crafted one has the size of an Ed448 signature and a form that
does not decode (`CraftedForm`), and a key that was read is never one of
`ed448-rust` (`ReadKey`), so no other answer than a refusal is left, whatever
`LibraryForms` is.

### P-521

| Theorem | States |
|---|---|
| `Derivation` | `Spec => []DerivedAsSpecified` |
| `Zeroizing` | `Spec => []SignsAsOwner` |
| `SignaturesVerify` | `Spec => []SignedVerifies` |
| `NoSecondS` | `Spec => []OneS` |

`AttemptsRefused` adds to the first that every counter below the current one was
refused; `HeldAsOwned` adds to the second that a handle holds what it was given
or, once zeroized, the dummy, which `from_slice` takes for any order above 1. The
curve stays unexpanded in both.

The other two say nothing of which key made the last signature. The invariant
`SignedWithKey` does: a public key is that of a scalar in range, and the
signature is one that `SignMsg` returns for it and some nonce. That needs
`ScalarsHeld`, that a handle holds nothing else, the dummy included. Then
ECDSA is reckoned in the group: verification comes to one multiple `t` of the
generator, with `t * s = hash + r * k` modulo the order (`VerifiedPoint`). If the
low-S rule kept `s`, `t` is the nonce; if it negated `s`, `t` is the nonce's
opposite, and a point and its opposite have the same `x` (`SameX`), so the
signature verifies still. Conversely two accepted `s` of one `r` belong to two
points of the same `x` (`XOfR`), so their multiples are equal or opposite, so the
two `s` are equal or add up to the order, and both cannot be low. That a
compressed key is read back as itself rests on the two roots of one `x` having
different parities (`OppositeParity`).

### Ed448

| Theorem | States |
|---|---|
| `KeysHaveOneEncoding` | `Spec => []OneEncoding` |
| `MadeSignaturesVerify` | `Spec => []MadeVerifies` |
| `AcceptedScalarIsUnique` | `Spec => []OneScalar` |
| `AcceptedChallengeIsUnique` | `Spec => []OneChallenge` |

They hold for every curve, prime and base of digits that the ASSUMEs admit, and
for the encodings of every `y` that the bytes can hold. The invariant
`KeyAndSignature` says that a generated key is the encoding of its scalar's
point, that a signature that was made has the form `sign_msg` gives it, and that
one that was only checked verified.

- `OneEncoding`. The comparison of bytes from the most significant down is one
  of numbers (`BelowPrimeIsLess`, through `HighestByteDecides`: the byte that
  differs outweighs all below it), so `y` is below the prime and is not reduced.
  The curve equation has at most two `x` for a `y`, opposite and so of different
  parity, and a sign tells them apart (`DecompressOnce`). Where decompression
  ignores the sign, on the y axis, the points are of small order
  (`YAxisIsSmall`) and are rejected. Padding bits are rejected as such. Without
  any of the three checks there would be a second encoding.
- `MadeVerifies`. The equation of what was made is `s B = R + k A` with
  `s = nonce + k * secret`, in the group; and no multiple of the generator by a
  scalar that is not 0 is of small order (`MultipleOrder`), so its encoding is
  read back.
- `OneScalar` and `OneChallenge`. Subtract two accepted equations
  (`AcceptedTwice`): four times a difference of multiples is the identity. Four
  times the generator, and four times a key that is not of small order, have
  order `L` (`FourOrder`), so the factors are equal modulo `L`; and both are below
  it, `S` because of `from_canonical_bytes`.

### What is checked by TLC only

`DeriveReturns`, that a derivation ends. It is liveness under fairness, which is
out of the prover's reach. Every other property of a passing run is stated by a
theorem; the refinements are too.

## Findings

Each is a place where a comment and the code disagree; the run named finds a
behaviour of the model that contradicts the comment.

1. `wallet_seed`. `crypto.rs:223` says a key retains the root seed, so that child
   accounts can be derived from it. A key that `create_wallet` or `restore_wallet`
   returns retains the *child* seed of its account (`api.rs:33`): deriving account
   paths from it gives other accounts than the wallet's.
2. `dispatch_context`. `sign.rs:21` says a context fails when the scheme does
   not support it. `verify_typed` of ML-DSA-87 and P-521 ignores it.
3. `dispatch_sign_type`. `sign.rs:183` says `sign` panics for a key of another
   scheme. P-521 pads the 57 bytes of an Ed448 secret to a scalar and signs.
4. `dispatch_verify_panic`. `sign.rs:192` says `verify` panics for a key of
   another scheme and for an unsupported context. It returns false.

Smaller disagreements that no run is made for: `types.rs:11` gives a DER length
for P-521 signatures, which are 132 fixed bytes; the nonce in the header
comment of `signing.rs` lacks the chain id; `derive_public_key` of a zeroized
key slices an empty vector, and so panics where a caller would expect an error;
the comment on `parse_hardened_path` allows one optional `m/` and one optional
mark per index, and the code takes any number of either, a plus sign, leading
zeros and spaces around the text (`AcceptedIsDecorated` says that nothing more is
skipped).

## What is not modelled

- The arithmetic of ML-DSA-87, the P-521 curve and the hash functions, which
  are in other crates: `HybridCrypto` states what is assumed of them.
- The arithmetic of `ed448-rust`, which verifies with keys made in memory:
  `Ed448Backend` has what it is asked and what it answers, not how it computes.
  Whether it accepts a crafted R or S, and so whether a key made in memory and
  its copy read from bytes can disagree on a signature that no sign call
  returned, is not decided here.
- A signing call that fails after its first sub-signature: the bytes it parses
  were written by `generate`, and the code assigns no field before the end.
- Randomness: mnemonics never repeat and every P-521 signature has a fresh
  salt.
- How JSON writes numbers and JavaScript reads them; serde of
  `BlackChainPublicKey`, which could make one without the checks of `from_bytes`
  and which nothing in the repository uses; Debug output and error texts.
- Demonstration programs, benchmarks, fuzz targets and tests. They were read
  for what they expect of the library.
- Memory: zeroizing is modelled as what later calls see, not as what remains
  of a secret in memory.

## Plan

Done: the transaction core with its abstract specification; the stream and its
queue; the wallet, its path texts and its keys at work; dispatch over the three
backends; P-521 and Ed448 over small curves; proofs of both refinements and of
every safety property of the passing runs.

Left, none of them needed for what is claimed above:

1. The number formats of the JSON forms of `wasm.rs`.
2. The group laws of the two curves from their addition formulas, which are
   assumed here by name.
