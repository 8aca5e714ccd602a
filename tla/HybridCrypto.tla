------------------------------ MODULE HybridCrypto ------------------------------
(***************************************************************************)
(* The symbolic algebra of the hybrid scheme (src/crypto.rs and            *)
(* src/transaction/signing.rs): composite public keys, addresses, the      *)
(* entanglement nonce, h_combined, and the three sub-signatures.           *)
(*                                                                         *)
(* Cryptographic assumptions, all of them in this module: hashes are       *)
(* injective (a hash is a record that holds its preimage), sub-keys of     *)
(* different key pairs differ, and a sub-signature verifies only for the   *)
(* key and the bytes it was made with (a signature is a record of both).   *)
(***************************************************************************)
EXTENDS Naturals, Options

CONSTANT Keys          \* names of the composite key pairs

(***************************************************************************)
(* A byte string that should be three fixed-width parts, in this order.    *)
(* A part is None when the string has not the length of the three together *)
(* or when that slice does not parse as what should stand there; NoParts   *)
(* is the empty string.                                                    *)
(***************************************************************************)
Parts(D, P, E) == [dil : Option(D), p521 : Option(P), ed448 : Option(E)]
NoParts == [dil |-> None, p521 |-> None, ed448 |-> None]
Complete(b) == b.dil # None /\ b.p521 # None /\ b.ed448 # None

KeyBytes == Parts(Keys, Keys, Keys)

\* BlackChainPublicKey of the key pair `key`, to_bytes() of it.
PublicKey(key) == [dil |-> Some(key), p521 |-> Some(key), ed448 |-> Some(key)]

\* Keccak256(dil_pk || p521_pk || ed448_pk)[12..32]
DeriveAddress(pk) == [address |-> pk]

Keccak256(bytes) == [keccak |-> bytes]

\* SHAKE256("entangle" || ALGO_ID || VERSION || chain_id || address)[0..16]
EntanglementNonce(chain, address) ==
    Some([chain |-> chain, address |-> address])

\* The zeroed nonce that sign_message and verify_message use.
ZeroNonce == None

\* Mutant of HCombined: the nonce is left out of the hash.
HCombined_NoNonce(pk, nonce) == [pk |-> pk, nonce |-> None]

\* SHAKE256(dil_pk || p521_pk || ed448_pk || entg_nonce)[0..32]
HCombined(pk, nonce) == [pk |-> pk, nonce |-> nonce]

---------------------------------------------------------------------------
(* Sub-signatures.  ML-DSA-87 signs the hash alone; the two curves sign    *)
(* the hash and h_combined.  P-521 draws a fresh nonce for every signature *)
(* (`salt`) and has a high-S twin of each; ML-DSA-87 and Ed448 signing is  *)
(* deterministic.                                                          *)

DilSign(key, hash) == [signer |-> key, hash |-> hash]

P521Sign(key, hash, bound, salt) ==
    [signer |-> key, hash |-> hash, bound |-> bound, salt |-> salt, highS |-> FALSE]

Ed448Sign(key, hash, bound) == [signer |-> key, hash |-> hash, bound |-> bound]

\* The other root of the same ECDSA signature: (r, n - s).
Twin(g) == [g EXCEPT !.highS = ~g.highS]

DilVerify(key, hash, g) == g.signer = key /\ g.hash = hash

P521Verify(key, hash, bound, g) ==
    /\ ~g.highS
    /\ g.signer = key /\ g.hash = hash /\ g.bound = bound

Ed448Verify(key, hash, bound, g) ==
    g.signer = key /\ g.hash = hash /\ g.bound = bound

\* dil_sig || p521_sig || ed448_sig, as both signing operations assemble it.
CompositeSign(key, hash, bound, salt) ==
    [dil   |-> Some(DilSign(key, hash)),
     p521  |-> Some(P521Sign(key, hash, bound, salt)),
     ed448 |-> Some(Ed448Sign(key, hash, bound))]

\* The checks both verifying operations make: public key parsed, exact length
\* of the composite, then ML-DSA-87, P-521 and Ed448 in turn.
CompositeVerify(pk, hash, bound, sig) ==
    /\ Complete(pk)
    /\ Complete(sig)
    /\ \E key \in pk.dil, g \in sig.dil : DilVerify(key, hash, g)
    /\ \E key \in pk.p521, g \in sig.p521 : P521Verify(key, hash, bound, g)
    /\ \E key \in pk.ed448, g \in sig.ed448 : Ed448Verify(key, hash, bound, g)

---------------------------------------------------------------------------
(* BlackChainPrivateKey::sign_message, BlackChainPublicKey::verify_message *)

SignMessageBytes(key, msg, salt) ==
    CompositeSign(key, Keccak256(msg), HCombined(PublicKey(key), ZeroNonce), salt)

VerifyMessage(pk, msg, sig) ==
    CompositeVerify(pk, Keccak256(msg), HCombined(pk, ZeroNonce), sig)
=================================================================================
