-------------------------------- MODULE TxSigning --------------------------------
(***************************************************************************)
(* Transactions in memory, the private key objects that sign them and the  *)
(* callers that hold both.  Every field of BlackChainTxType is public:     *)
(* between two calls of the library a caller may assign any of them, with  *)
(* the values it holds (any number, any sub-key, any part of a signature   *)
(* the library returned), and may send the transaction to a peer.          *)
(*                                                                         *)
(* `signed` and `messages` record what signing calls returned; no action   *)
(* of the library reads them.  They are what callers can splice from, and  *)
(* what the properties compare with.                                       *)
(***************************************************************************)
EXTENDS TxEnvelope

CONSTANTS Slots,       \* variables of type BlackChainTxType
          Objects,     \* variables of type BlackChainPrivateKey
          Messages,    \* byte strings given to sign_message
          Words,       \* numbers callers put in v, r and s
          MaxCalls,    \* bound: signing calls
          MaxEdits     \* bound: assignments of a field by a caller

VARIABLES tx,          \* the transaction in each slot
          pair,        \* the key pair each object was last made from, if any
          zeroized,    \* the objects whose vectors have been emptied since
          signed,      \* [key, tx]: the transactions sign_transaction wrote
          messages,    \* [key, msg, sig]: what sign_message returned
          calls,       \* signing calls so far; the salt of the next one
          edits        \* assignments so far

vars == << tx, pair, zeroized, signed, messages, calls, edits >>

ASSUME WordsAssumption == Words \subseteq Nat /\ 0 \in Words
ASSUME BoundsAssumption == MaxCalls \in Nat /\ MaxEdits \in Nat

---------------------------------------------------------------------------
(* The sub-signatures callers hold: parts of composite signatures they     *)
(* were given, and the high-S twin of each P-521 part.                     *)

Composites ==
    (UNION {e.tx.pqc : e \in signed}) \cup {e.sig : e \in messages}

HeldDil == UNION {c.dil : c \in Composites}
HeldP521 == LET made == UNION {c.p521 : c \in Composites}
            IN  made \cup {Twin(g) : g \in made}
HeldEd448 == UNION {c.ed448 : c \in Composites}

---------------------------------------------------------------------------
Init ==
    /\ tx \in [Slots -> {NewTx(c, b) : c \in Chains, b \in Bodies}]
    /\ pair = [o \in Objects |-> None]
    /\ zeroized = {}
    /\ signed = {}
    /\ messages = {}
    /\ calls = 0
    /\ edits = 0

\* BlackChainPrivateKey::generate, from the seed of the key pair `key`, into
\* the variable o.  Seeds stay with their owners: it can be called at any time.
GenerateKey(o, key) ==
    /\ pair' = [pair EXCEPT ![o] = Some(key)]
    /\ zeroized' = zeroized \ {o}
    /\ UNCHANGED << tx, signed, messages, calls, edits >>

\* clone() of object o into the variable q: a deep copy, so that the copy of
\* an emptied object is empty too.
CloneKey(o, q) ==
    /\ pair[o] # None
    /\ pair' = [pair EXCEPT ![q] = pair[o]]
    /\ zeroized' = IF o \in zeroized THEN zeroized \cup {q} ELSE zeroized \ {q}
    /\ UNCHANGED << tx, signed, messages, calls, edits >>

\* zeroize() on one object (also what dropping it does).  Its clones, and
\* objects generated from the same seed, keep their vectors.
ZeroizeKey(o) ==
    /\ pair[o] # None
    /\ zeroized' = zeroized \cup {o}
    /\ UNCHANGED << tx, pair, signed, messages, calls, edits >>

\* Mutant of SignTransaction: zeroizing the object left its sub-keys in place.
SignTransaction_Zeroized(o, s) ==
    \E key \in pair[o] :
        /\ calls < MaxCalls
        /\ calls' = calls + 1
        /\ tx' = [tx EXCEPT ![s] = SignedTx(tx[s], key, calls)]
        /\ signed' = signed \cup {[key |-> key, tx |-> SignedTx(tx[s], key, calls)]}
        /\ UNCHANGED << pair, zeroized, messages, edits >>

\* sign_transaction.  Zeroizing empties the object's vectors, so its ML-DSA-87
\* seed no longer has the right size: the call returns Err before it has
\* written any field.
SignTransaction(o, s) ==
    \E key \in pair[o] :
        /\ calls < MaxCalls
        /\ calls' = calls + 1
        /\ IF o \notin zeroized
           THEN /\ tx' = [tx EXCEPT ![s] = SignedTx(tx[s], key, calls)]
                /\ signed' = signed \cup {[key |-> key, tx |-> SignedTx(tx[s], key, calls)]}
           ELSE UNCHANGED << tx, signed >>
        /\ UNCHANGED << pair, zeroized, messages, edits >>

\* sign_message: Err for an emptied object, whose ML-DSA-87 seed does not parse.
SignMessage(o, m) ==
    \E key \in pair[o] :
        /\ calls < MaxCalls
        /\ calls' = calls + 1
        /\ messages' = IF o \notin zeroized
                       THEN messages \cup
                            {[key |-> key, msg |-> m, sig |-> SignMessageBytes(key, m, calls)]}
                       ELSE messages
        /\ UNCHANGED << tx, pair, zeroized, signed, edits >>

---------------------------------------------------------------------------
(* Assignments of the public fields.                                       *)

Assign(s, t) ==
    /\ edits < MaxEdits
    /\ edits' = edits + 1
    /\ tx' = [tx EXCEPT ![s] = t]
    /\ UNCHANGED << pair, zeroized, signed, messages, calls >>

EditTerms(s) ==
    \E c \in Chains, b \in Bodies :
        Assign(s, [tx[s] EXCEPT !.chain = c, !.body = b])

EditPlaceholders(s) ==
    \E o \in Option(Words) :
        \/ Assign(s, [tx[s] EXCEPT !.v = o])
        \/ Assign(s, [tx[s] EXCEPT !.r = o])
        \/ Assign(s, [tx[s] EXCEPT !.s = o])

EditPubKey(s) ==
    \E o \in {None} \cup {Some(b) : b \in KeyBytes} :
        Assign(s, [tx[s] EXCEPT !.pk = o])

\* A whole composite, or one part of the composite replaced or cut off.
EditSignature(s) ==
    \/ \E o \in {None} \cup {Some(c) : c \in Composites} :
          Assign(s, [tx[s] EXCEPT !.pqc = o])
    \/ \E c \in tx[s].pqc :
          \/ \E o \in {None} \cup {Some(g) : g \in HeldDil} :
                Assign(s, [tx[s] EXCEPT !.pqc = Some([c EXCEPT !.dil = o])])
          \/ \E o \in {None} \cup {Some(g) : g \in HeldP521} :
                Assign(s, [tx[s] EXCEPT !.pqc = Some([c EXCEPT !.p521 = o])])
          \/ \E o \in {None} \cup {Some(g) : g \in HeldEd448} :
                Assign(s, [tx[s] EXCEPT !.pqc = Some([c EXCEPT !.ed448 = o])])

\* Slot s is encoded, and slot d decoded from the bytes.
Relay(s, d) ==
    /\ tx' = [tx EXCEPT ![d] = Relayed(tx[s])]
    /\ UNCHANGED << pair, zeroized, signed, messages, calls, edits >>

Next ==
    \/ \E o \in Objects, key \in Keys : GenerateKey(o, key)
    \/ \E o, q \in Objects : CloneKey(o, q)
    \/ \E o \in Objects : ZeroizeKey(o)
    \/ \E o \in Objects, s \in Slots : SignTransaction(o, s)
    \/ \E o \in Objects, m \in Messages : SignMessage(o, m)
    \/ \E s \in Slots : EditTerms(s)
    \/ \E s \in Slots : EditPlaceholders(s)
    \/ \E s \in Slots : EditPubKey(s)
    \/ \E s \in Slots : EditSignature(s)
    \/ \E s, d \in Slots : Relay(s, d)

Spec == Init /\ [][Next]_vars

---------------------------------------------------------------------------
(* Types. *)

HCombineds == [pk : KeyBytes,
               nonce : Option([chain : Chains, address : [address : KeyBytes]])]
Hashes == [keccak : Messages \cup {Preimage(NewTx(c, b)) : c \in Chains, b \in Bodies}]
DilSigs == [signer : Keys, hash : Hashes]
P521Sigs == [signer : Keys, hash : Hashes, bound : HCombineds, salt : Nat, highS : BOOLEAN]
Ed448Sigs == [signer : Keys, hash : Hashes, bound : HCombineds]
SigBytes == Parts(DilSigs, P521Sigs, Ed448Sigs)

Transactions ==
    [chain : Chains, body : Bodies, v : Option(Nat), r : Option(Nat), s : Option(Nat),
     pqc : Option(SigBytes), pk : Option(KeyBytes)]

(* Every slot holds a well-formed transaction, and what signing calls      *)
(* returned is of the type the code declares (types.rs, signing.rs).       *)
TypeOK ==
    /\ tx \in [Slots -> Transactions]
    /\ pair \in [Objects -> Option(Keys)]
    /\ zeroized \in SUBSET Objects
    /\ signed \in SUBSET [key : Keys, tx : Transactions]
    /\ messages \in SUBSET [key : Keys, msg : Messages, sig : SigBytes]
    /\ calls \in Nat
    /\ edits \in Nat

---------------------------------------------------------------------------
(* Safety. *)

(* A transaction from which recover_sender recovers an address is, field   *)
(* for field, one that sign_transaction wrote with the key of that         *)
(* address: whatever callers assign, splice or relay, no other envelope,   *)
(* chain, body, key or signature is accepted (signing.rs, recover_sender). *)
RecoveredWasSigned ==
    \A s \in Slots : \A a \in RecoverSender(tx[s]) :
        \E e \in signed : e.tx = tx[s] /\ a = DeriveAddress(PublicKey(e.key))

(* What verify_message accepts under some public key is exactly what       *)
(* sign_message returned for that message and that key: no part of a       *)
(* transaction's signature, and no mix of parts, passes for one            *)
(* (crypto.rs, verify_message).                                            *)
MessageWasSigned ==
    \A s \in Slots : \A sig \in tx[s].pqc, pk \in tx[s].pk, m \in Messages :
        VerifyMessage(pk, m, sig) =>
            \E e \in messages : e.msg = m /\ e.sig = sig /\ PublicKey(e.key) = pk

(* A transaction that was signed arrives at a peer as it was sent, and the *)
(* peer recovers the signer's address, whatever became of the key          *)
(* (rlp.rs encode and decode, signing.rs recover_sender).                  *)
SignedTravels ==
    \A e \in signed :
        /\ Relayed(e.tx) = e.tx
        /\ RecoverSender(Relayed(e.tx)) = Some(DeriveAddress(PublicKey(e.key)))

(* Encoding is lossy for a half-filled envelope: absent fields arrive as   *)
(* zero or empty, lone r, s or pub_key fields not at all.  It never        *)
(* changes the hash to be signed, never makes a transaction that recovers  *)
(* stop, and makes one recover that did not only by filling in an absent r *)
(* or s.                                                                   *)
RelayKeepsMeaning ==
    \A s \in Slots :
        LET t == tx[s]
        IN  /\ SignatureHash(Relayed(t)) = SignatureHash(t)
            /\ RecoverSender(t) # None => Relayed(t) = t
            /\ RecoverSender(Relayed(t)) # RecoverSender(t) => t.r = None \/ t.s = None

---------------------------------------------------------------------------
(* The inductive invariant behind the three invariants above.              *)

\* What sign_transaction wrote is what it writes for those terms.
SignedForm ==
    \A e \in signed : \E c \in e.tx.pqc : \E g \in c.p521 :
        e.tx = SignedTx(e.tx, e.key, g.salt)

MessageForm ==
    \A e \in messages : \E g \in e.sig.p521 :
        e.sig = SignMessageBytes(e.key, e.msg, g.salt)

\* Nobody makes a sub-signature but the signing calls.
PartsHeld(t) ==
    \A c \in t.pqc :
        c.dil \subseteq HeldDil /\ c.p521 \subseteq HeldP521 /\ c.ed448 \subseteq HeldEd448

PartsAreHeld == \A s \in Slots : PartsHeld(tx[s])

IndInv == TypeOK /\ SignedForm /\ MessageForm /\ PartsAreHeld

---------------------------------------------------------------------------
(* Refinement: the slots show approved facts only. *)

ProvenFact(t) ==
    {[sender |-> a, chain |-> t.chain, body |-> t.body] : a \in RecoverSender(t)}

\* The senders an object can sign for: the one of its key pair, or none.
SignsFor(o) ==
    {DeriveAddress(PublicKey(key)) : key \in IF o \in zeroized THEN None ELSE pair[o]}

Auth == INSTANCE SenderAuth WITH
    Senders  <- {DeriveAddress(PublicKey(key)) : key \in Keys},
    Agents   <- Objects,
    approved <- {[sender |-> DeriveAddress(PublicKey(e.key)),
                  chain |-> e.tx.chain, body |-> e.tx.body] : e \in signed},
    acting   <- [o \in Objects |-> SignsFor(o)],
    shown    <- [s \in Slots |-> ProvenFact(tx[s])]

(* Signing and recovery keep SenderAuth's promise: slots show as coming    *)
(* from a sender only what a key object of that sender signed while it     *)
(* held its secrets; zeroizing one object takes the power to sign from it  *)
(* and from no clone and no regenerated object (crypto.rs zeroize, clone   *)
(* and generate; signing.rs sign_transaction and recover_sender).          *)
AuthSpec == Auth!Spec
=================================================================================
