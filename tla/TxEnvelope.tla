------------------------------- MODULE TxEnvelope -------------------------------
(***************************************************************************)
(* BlackChainTxType (src/transaction/types.rs), its RLP encoding           *)
(* (src/transaction/rlp.rs) and the pure parts of signing and sender       *)
(* recovery (src/transaction/signing.rs).                                  *)
(*                                                                         *)
(* The seven economic fields after chain_id are one value, the body: each  *)
(* of them is encoded, decoded and hashed the same way.                    *)
(***************************************************************************)
EXTENDS HybridCrypto, Sequences

CONSTANTS Chains,      \* chain ids (u64)
          Bodies       \* nonce, fees, gas limit, to, value and data together

ASSUME ChainsAssumption == Chains \subseteq Nat

NewTx(chain, body) ==
    [chain |-> chain, body |-> body, v |-> None, r |-> None, s |-> None,
     pqc |-> None, pk |-> None]

---------------------------------------------------------------------------
(* RLP.  A wire transaction is the list of the body's items and then the   *)
(* signature's items: none, four (no pub_key: the first version of the     *)
(* format) or five.                                                        *)

HasSignature(t) == t.v # None \/ t.pqc # None

Encode(t) ==
    [chain |-> t.chain, body |-> t.body,
     tail |-> IF HasSignature(t)
              THEN << UnwrapOr(t.v, 0), UnwrapOr(t.r, 0), UnwrapOr(t.s, 0),
                      UnwrapOr(t.pqc, NoParts), UnwrapOr(t.pk, NoParts) >>
              ELSE << >>]

\* Mutant of DecodePubKey: the first version's decoder, which knows no pub_key.
DecodePubKey_FirstVersion(tail) == None

\* An empty pub_key item, or none at all, decodes to None; every other item
\* that is there decodes to Some.
DecodePubKey(tail) ==
    IF Len(tail) = 5 /\ tail[5] # NoParts THEN Some(tail[5]) ELSE None

\* Mutant of Decode: a zero r or s is taken for an absent one, as an empty
\* pub_key is.
Decode_ZeroIsAbsent(w) ==
    IF w.tail = << >>
    THEN NewTx(w.chain, w.body)
    ELSE [chain |-> w.chain, body |-> w.body,
          v |-> Some(w.tail[1]),
          r |-> IF w.tail[2] = 0 THEN None ELSE Some(w.tail[2]),
          s |-> IF w.tail[3] = 0 THEN None ELSE Some(w.tail[3]),
          pqc |-> Some(w.tail[4]), pk |-> DecodePubKey(w.tail)]

\* Every item of the wire becomes a field; only pub_key may be missing.
Decode(w) ==
    IF w.tail = << >>
    THEN NewTx(w.chain, w.body)
    ELSE [chain |-> w.chain, body |-> w.body,
          v |-> Some(w.tail[1]), r |-> Some(w.tail[2]), s |-> Some(w.tail[3]),
          pqc |-> Some(w.tail[4]), pk |-> DecodePubKey(w.tail)]

\* The transaction a peer holds after receiving t over the wire.
Relayed(t) == Decode(Encode(t))

---------------------------------------------------------------------------
(* Signing and recovery.                                                   *)

\* TX_TYPE || RLP of a copy without the five signature fields.
Preimage(t) == Encode(NewTx(t.chain, t.body))

SignatureHash(t) == Keccak256(Preimage(t))

\* Mutant of PlaceholderV: the offset is taken away.
PlaceholderV_Minus(chain) == chain * 2 - 35

\* The EIP-155-shaped placeholder, computed in U256: a u64 chain id cannot
\* make it wrap.
PlaceholderV(chain) == chain * 2 + 35

Binding(pk, chain) == HCombined(pk, EntanglementNonce(chain, DeriveAddress(pk)))

\* What a successful sign_transaction leaves in the transaction.
SignedTx(t, key, salt) ==
    [chain |-> t.chain, body |-> t.body,
     v |-> Some(PlaceholderV(t.chain)), r |-> Some(0), s |-> Some(0),
     pqc |-> Some(CompositeSign(key, SignatureHash(t),
                                Binding(PublicKey(key), t.chain), salt)),
     pk |-> Some(PublicKey(key))]

\* Mutant of CanonicalEnvelope: r and s are not looked at.
CanonicalEnvelope_VOnly(t) == t.v = Some(PlaceholderV(t.chain))

\* recover_sender pins v, r and s to the values sign_transaction writes.
CanonicalEnvelope(t) ==
    t.v = Some(PlaceholderV(t.chain)) /\ t.r = Some(0) /\ t.s = Some(0)

\* verify_signature: Some(address), or None for any of its errors.
VerifySignature(hash, chain, pk, sig) ==
    IF CompositeVerify(pk, hash, Binding(pk, chain), sig)
    THEN Some(DeriveAddress(pk))
    ELSE None

\* recover_sender: Some(address), or None for any of its errors.
RecoverSender(t) ==
    IF CanonicalEnvelope(t)
    THEN UNION {VerifySignature(SignatureHash(t), t.chain, pk, sig) :
                    pk \in t.pk, sig \in t.pqc}
    ELSE None
=================================================================================
