------------------------------- MODULE WalletSigning ------------------------------
(***************************************************************************)
(* Wallet keys at work: the keys that Wallet derives sign messages and     *)
(* transactions, and others verify them, through api.rs and the browser    *)
(* bindings of wasm.rs.  Signing and verifying change no key.              *)
(*                                                                         *)
(* Where TxSigning has one name for a composite key, this module has its   *)
(* parts: the three secrets sign, and what binds them together is computed *)
(* from the cached public key.  A public sub-key is named by its secret.   *)
(***************************************************************************)
EXTENDS Wallet

CONSTANTS Messages,      \* byte strings
          Chains,        \* of transactions
          Bodies

Tx == INSTANCE TxEnvelope WITH Keys <- {}

---------------------------------------------------------------------------
(* What a wallet shows. *)

\* publicKey(): to_bytes of the cached key, whose vectors are empty once it
\* has been zeroized.
PublicKeyBytes(key) == UnwrapOr(key.public, Tx!NoParts)

\* address()
Address(key) == Tx!DeriveAddress(PublicKeyBytes(key))

---------------------------------------------------------------------------
(* Messages. *)

\* The three sub-signatures of sign_message and of sign_transaction: an error
\* unless every secret parses.
SubSignatures(key, hash, bound, salt) ==
    IF key.dil = None \/ key.p521 = None \/ key.ed448 = None
    THEN None
    ELSE Some([dil   |-> {Tx!DilSign(k, hash) : k \in key.dil},
               p521  |-> {Tx!P521Sign(k, hash, bound, salt) : k \in key.p521},
               ed448 |-> {Tx!Ed448Sign(k, hash, bound) : k \in key.ed448}])

\* signMessage
SignMessage(key, msg, salt) ==
    SubSignatures(key, Tx!Keccak256(msg),
                  Tx!HCombined(PublicKeyBytes(key), Tx!ZeroNonce), salt)

\* verifyMessage: None is an error, for bytes that are no public key.
VerifyMessage(msg, sig, bytes) ==
    IF Tx!Complete(bytes) THEN Some(Tx!VerifyMessage(bytes, msg, sig)) ELSE None

---------------------------------------------------------------------------
(* Transactions, which come and go as JSON objects.  A field that is null  *)
(* and one that is not there are read alike.                               *)

TxFields == {"v", "r", "s", "pqc", "pk"}

\* Mutant of ToJson: r and s, which are zero once signed, are not written.
ToJson_SkipsZero(t) ==
    [chain |-> t.chain, body |-> t.body,
     given |-> [f \in {g \in TxFields \ {"r", "s"} : t[g] # None} |-> UnwrapOr(t[f], 0)]]

\* serde_json::to_string
ToJson(t) ==
    [chain |-> t.chain, body |-> t.body,
     given |-> [f \in {g \in TxFields : t[g] # None} |-> UnwrapOr(t[f], 0)]]

\* serde_json::from_str
FromJson(doc) ==
    LET field(f) == IF f \in DOMAIN doc.given THEN Some(doc.given[f]) ELSE None
    IN  [chain |-> doc.chain, body |-> doc.body, v |-> field("v"), r |-> field("r"),
         s |-> field("s"), pqc |-> field("pqc"), pk |-> field("pk")]

\* sign_transaction of a parsed transaction.
Signed(key, t, salt) ==
    {[chain |-> t.chain, body |-> t.body,
      v |-> Some(Tx!PlaceholderV(t.chain)), r |-> Some(0), s |-> Some(0),
      pqc |-> Some(sig), pk |-> Some(PublicKeyBytes(key))] :
        sig \in SubSignatures(key, Tx!SignatureHash(t),
                              Tx!Binding(PublicKeyBytes(key), t.chain), salt)}

\* signTransaction
SignTransaction(key, doc, salt) == {ToJson(t) : t \in Signed(key, FromJson(doc), salt)}

\* recoverSender
RecoverSender(doc) == Tx!RecoverSender(FromJson(doc))

---------------------------------------------------------------------------
(* Properties. *)

Drafts == {ToJson(Tx!NewTx(c, b)) : c \in Chains, b \in Bodies}

\* What a page may ask a wallet to sign: a draft, or what a wallet has signed.
Offered ==
    Drafts \cup UNION {UNION {SignTransaction(key, doc, 0) : key \in keys[g], doc \in Drafts} :
                           g \in Handles}

(* A transaction that a wallet signs, a new one or one that another wallet *)
(* has signed before, recovers to the address that this wallet shows, as   *)
(* JSON and after RLP, with its terms unchanged; a zeroized key signs      *)
(* none (wasm.rs, signTransaction, recoverSender and address).             *)
ShownAddressIsRecovered ==
    \A h \in Handles : \A key \in keys[h], doc \in Offered :
        LET signed == SignTransaction(key, doc, 1)
        IN  /\ signed = None <=> key = Zeroized
            /\ \A out \in signed :
                  /\ out.chain = doc.chain /\ out.body = doc.body
                  /\ RecoverSender(out) = Some(Address(key))
                  /\ Tx!RecoverSender(Tx!Relayed(FromJson(out))) = Some(Address(key))

(* A message signature verifies under the public key of another wallet, or *)
(* of an account opened earlier, exactly if both keys come from the same   *)
(* 64 bytes of seed: restoring keeps it valid, no other account shares it  *)
(* (wasm.rs, signMessage and verifyMessage; crypto.rs).                    *)
MessagesProveAccounts ==
    \A h \in Handles : \A key \in keys[h], msg \in Messages :
        \A sig \in SignMessage(key, msg, 0), m \in Messages :
            /\ \A g \in Handles : \A other \in keys[g] :
                  VerifyMessage(m, sig, PublicKeyBytes(other)) = Some(TRUE) <=>
                      /\ m = msg
                      /\ \E s \in key.seed, t \in other.seed :
                            Low(s) = Low(t) /\ High(s) = High(t)
            /\ \A a \in accounts :
                  VerifyMessage(m, sig, a.address.address) = Some(TRUE) <=>
                      m = msg /\ Address(key) = a.address
=================================================================================
