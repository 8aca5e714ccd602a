----------------------------- MODULE TxSigning_proofs -----------------------------
(***************************************************************************)
(* Proofs about TxSigning, for every set of keys, chains, bodies, messages,*)
(* key objects, slots and every bound: who is recovered from a transaction,*)
(* what sending it does to it, and that TxSigning implements SenderAuth.   *)
(***************************************************************************)
EXTENDS TxSigning, TLAPS

---------------------------------------------------------------------------
(* Options and the records built from them.                                *)

LEMMA SomeIsOption == ASSUME NEW S, NEW x \in S PROVE Some(x) \in Option(S)
  BY DEF Some, Option

LEMMA NoneIsOption == ASSUME NEW S PROVE None \in Option(S)
  BY DEF None, Option

LEMMA OptionElement ==
  ASSUME NEW S, NEW o \in Option(S), NEW x \in o
  PROVE  x \in S /\ o = Some(x)
  BY DEF Option, Some

LEMMA PublicKeyType == ASSUME NEW k \in Keys PROVE PublicKey(k) \in KeyBytes
  BY SomeIsOption DEF PublicKey, KeyBytes, Parts

LEMMA SignatureHashType ==
  ASSUME NEW t \in Transactions
  PROVE  SignatureHash(t) \in Hashes
<1>1. t.chain \in Chains /\ t.body \in Bodies
  BY DEF Transactions
<1>2. Preimage(t) = Preimage(NewTx(t.chain, t.body))
  BY DEF Preimage, NewTx
<1> DEFINE p == Preimage(NewTx(t.chain, t.body))
<1>3. SignatureHash(t) = [keccak |-> p]
  BY <1>2 DEF SignatureHash, Keccak256
<1>4. p \in {Preimage(NewTx(c, b)) : c \in Chains, b \in Bodies}
  BY <1>1
<1> HIDE DEF p
<1> QED
  BY <1>3, <1>4 DEF Hashes

LEMMA BindingType ==
  ASSUME NEW k \in Keys, NEW c \in Chains
  PROVE  Binding(PublicKey(k), c) \in HCombineds
<1>1. PublicKey(k) \in KeyBytes
  BY PublicKeyType
<1>2. [chain |-> c, address |-> [address |-> PublicKey(k)]]
        \in [chain : Chains, address : [address : KeyBytes]]
  BY <1>1
<1> QED
  BY <1>1, <1>2, SomeIsOption
  DEF Binding, HCombined, HCombineds, EntanglementNonce, DeriveAddress

LEMMA MessageBindingType ==
  ASSUME NEW k \in Keys
  PROVE  HCombined(PublicKey(k), ZeroNonce) \in HCombineds
  BY PublicKeyType, NoneIsOption DEF HCombined, HCombineds, ZeroNonce, None

LEMMA CompositeSignType ==
  ASSUME NEW k \in Keys, NEW h \in Hashes, NEW bd \in HCombineds, NEW n \in Nat
  PROVE  CompositeSign(k, h, bd, n) \in SigBytes
<1>1. DilSign(k, h) \in DilSigs
  BY DEF DilSign, DilSigs
<1>2. P521Sign(k, h, bd, n) \in P521Sigs
  BY DEF P521Sign, P521Sigs
<1>3. Ed448Sign(k, h, bd) \in Ed448Sigs
  BY DEF Ed448Sign, Ed448Sigs
<1> QED
  BY <1>1, <1>2, <1>3, SomeIsOption DEF CompositeSign, SigBytes, Parts

(* A signed transaction is a transaction. *)
LEMMA SignedTxType ==
  ASSUME NEW t \in Transactions, NEW k \in Keys, NEW n \in Nat
  PROVE  SignedTx(t, k, n) \in Transactions
<1> DEFINE sig == CompositeSign(k, SignatureHash(t), Binding(PublicKey(k), t.chain), n)
<1>1. t.chain \in Chains /\ t.chain \in Nat
  BY ChainsAssumption DEF Transactions
<1>2. sig \in SigBytes
  BY <1>1, SignatureHashType, BindingType, CompositeSignType
<1>3. PlaceholderV(t.chain) \in Nat
  BY <1>1 DEF PlaceholderV
<1>4. /\ Some(sig) \in Option(SigBytes)
      /\ Some(PublicKey(k)) \in Option(KeyBytes)
      /\ Some(PlaceholderV(t.chain)) \in Option(Nat)
      /\ Some(0) \in Option(Nat)
  BY <1>2, <1>3, PublicKeyType, SomeIsOption
<1> HIDE DEF sig
<1> QED
  BY <1>1, <1>4 DEF SignedTx, Transactions, sig

LEMMA SignMessageType ==
  ASSUME NEW k \in Keys, NEW m \in Messages, NEW n \in Nat
  PROVE  SignMessageBytes(k, m, n) \in SigBytes
<1>1. Keccak256(m) \in Hashes
  BY DEF Keccak256, Hashes
<1> QED
  BY <1>1, MessageBindingType, CompositeSignType DEF SignMessageBytes

LEMMA NewTxType ==
  ASSUME NEW c \in Chains, NEW b \in Bodies
  PROVE  NewTx(c, b) \in Transactions
  BY NoneIsOption DEF NewTx, Transactions

LEMMA NoPartsType == NoParts \in KeyBytes /\ NoParts \in SigBytes
  BY NoneIsOption DEF NoParts, KeyBytes, SigBytes, Parts

LEMMA UnwrapOrType ==
  ASSUME NEW S, NEW o \in Option(S), NEW d \in S
  PROVE  UnwrapOr(o, d) \in S
<1>1. CASE o = None
  BY <1>1 DEF UnwrapOr
<1>2. CASE o # None
  <2>1. PICK x \in o : TRUE
    BY <1>2 DEF None
  <2>2. (CHOOSE y \in o : TRUE) \in o
    BY <2>1
  <2> QED
    BY <1>2, <2>2, OptionElement DEF UnwrapOr
<1> QED
  BY <1>1, <1>2

LEMMA UnwrapOrSome == ASSUME NEW x, NEW d PROVE UnwrapOr(Some(x), d) = x
<1>1. Some(x) # None
  BY DEF Some, None
<1>2. (CHOOSE y \in Some(x) : TRUE) \in Some(x)
  BY DEF Some
<1> QED
  BY <1>1, <1>2 DEF UnwrapOr, Some

(* What a peer decodes is a transaction. *)
LEMMA RelayedType ==
  ASSUME NEW t \in Transactions
  PROVE  Relayed(t) \in Transactions
<1> DEFINE w == Encode(t)
<1>0. /\ t.chain \in Chains /\ t.body \in Bodies
      /\ t.v \in Option(Nat) /\ t.r \in Option(Nat) /\ t.s \in Option(Nat)
      /\ t.pqc \in Option(SigBytes) /\ t.pk \in Option(KeyBytes)
  BY DEF Transactions
<1>1. CASE ~HasSignature(t)
  <2>1. w.chain = t.chain /\ w.body = t.body /\ w.tail = << >>
    BY <1>1 DEF Encode
  <2> QED
    BY <2>1, <1>0, NewTxType DEF Relayed, Decode
<1>2. CASE HasSignature(t)
  <2> DEFINE tail == << UnwrapOr(t.v, 0), UnwrapOr(t.r, 0), UnwrapOr(t.s, 0),
                        UnwrapOr(t.pqc, NoParts), UnwrapOr(t.pk, NoParts) >>
  <2>1. w.chain = t.chain /\ w.body = t.body /\ w.tail = tail
    BY <1>2 DEF Encode
  <2>2. tail # << >> /\ Len(tail) = 5
    OBVIOUS
  <2>3. /\ tail[1] \in Nat /\ tail[2] \in Nat /\ tail[3] \in Nat
        /\ tail[4] \in SigBytes /\ tail[5] \in KeyBytes
    BY <1>0, UnwrapOrType, NoPartsType
  <2> HIDE DEF tail
  <2>4. /\ Some(tail[1]) \in Option(Nat) /\ Some(tail[2]) \in Option(Nat)
        /\ Some(tail[3]) \in Option(Nat) /\ Some(tail[4]) \in Option(SigBytes)
    BY <2>3, SomeIsOption
  <2>5. DecodePubKey(tail) \in Option(KeyBytes)
    BY <2>3, SomeIsOption, NoneIsOption DEF DecodePubKey
  <2>6. Decode(w) = [chain |-> t.chain, body |-> t.body,
                     v |-> Some(tail[1]), r |-> Some(tail[2]), s |-> Some(tail[3]),
                     pqc |-> Some(tail[4]), pk |-> DecodePubKey(tail)]
    BY <2>1, <2>2 DEF Decode
  <2> QED
    BY <2>4, <2>5, <2>6, <1>0 DEF Relayed, Transactions
<1> QED
  BY <1>1, <1>2

(* The sub-signatures callers hold have the types of sub-signatures. *)
LEMMA HeldTypes ==
  ASSUME TypeOK
  PROVE  /\ Composites \subseteq SigBytes
         /\ HeldDil \subseteq DilSigs
         /\ HeldP521 \subseteq P521Sigs
         /\ HeldEd448 \subseteq Ed448Sigs
<1>1. ASSUME NEW c \in Composites PROVE c \in SigBytes
  <2>1. CASE \E e \in signed : c \in e.tx.pqc
    BY <2>1, OptionElement DEF TypeOK, Transactions
  <2>2. CASE \E e \in messages : c = e.sig
    BY <2>2 DEF TypeOK
  <2> QED
    BY <2>1, <2>2 DEF Composites
<1>2. ASSUME NEW c \in Composites
      PROVE  /\ c.dil \subseteq DilSigs
             /\ c.p521 \subseteq P521Sigs
             /\ c.ed448 \subseteq Ed448Sigs
  BY <1>1, <1>2 DEF SigBytes, Parts, Option
<1>3. ASSUME NEW g \in P521Sigs PROVE Twin(g) \in P521Sigs
  BY <1>3 DEF Twin, P521Sigs
<1> QED
  BY <1>1, <1>2, <1>3 DEF HeldDil, HeldP521, HeldEd448

LEMMA AssignKeepsType ==
  ASSUME TypeOK, NEW s \in Slots, NEW t \in Transactions, Assign(s, t)
  PROVE  TypeOK'
  BY DEF TypeOK, Assign

LEMMA EditTermsKeepsType ==
  ASSUME TypeOK, NEW s \in Slots, EditTerms(s)
  PROVE  TypeOK'
<1>1. PICK c \in Chains, b \in Bodies :
          Assign(s, [tx[s] EXCEPT !.chain = c, !.body = b])
  BY DEF EditTerms
<1>2. [tx[s] EXCEPT !.chain = c, !.body = b] \in Transactions
  BY DEF TypeOK, Transactions
<1> QED
  BY <1>1, <1>2, AssignKeepsType

LEMMA EditPlaceholdersKeepsType ==
  ASSUME TypeOK, NEW s \in Slots, EditPlaceholders(s)
  PROVE  TypeOK'
<1>1. PICK o \in Option(Words) :
        \/ Assign(s, [tx[s] EXCEPT !.v = o])
        \/ Assign(s, [tx[s] EXCEPT !.r = o])
        \/ Assign(s, [tx[s] EXCEPT !.s = o])
  BY DEF EditPlaceholders
<1>2. o \in Option(Nat)
  BY WordsAssumption DEF Option
<1>3. /\ [tx[s] EXCEPT !.v = o] \in Transactions
      /\ [tx[s] EXCEPT !.r = o] \in Transactions
      /\ [tx[s] EXCEPT !.s = o] \in Transactions
  BY <1>2 DEF TypeOK, Transactions
<1> QED
  BY <1>1, <1>3, AssignKeepsType

LEMMA EditPubKeyKeepsType ==
  ASSUME TypeOK, NEW s \in Slots, EditPubKey(s)
  PROVE  TypeOK'
<1>1. PICK o \in {None} \cup {Some(b) : b \in KeyBytes} :
          Assign(s, [tx[s] EXCEPT !.pk = o])
  BY DEF EditPubKey
<1>2. o \in Option(KeyBytes)
  BY SomeIsOption, NoneIsOption
<1>3. [tx[s] EXCEPT !.pk = o] \in Transactions
  BY <1>2 DEF TypeOK, Transactions
<1> QED
  BY <1>1, <1>3, AssignKeepsType

LEMMA EditSignatureKeepsType ==
  ASSUME TypeOK, NEW s \in Slots, EditSignature(s)
  PROVE  TypeOK'
<1>1. ASSUME NEW o \in Option(SigBytes), Assign(s, [tx[s] EXCEPT !.pqc = o])
      PROVE  TypeOK'
  <2>1. [tx[s] EXCEPT !.pqc = o] \in Transactions
    BY DEF TypeOK, Transactions
  <2> QED
    BY <1>1, <2>1, AssignKeepsType
<1>2. CASE \E o \in {None} \cup {Some(c) : c \in Composites} :
              Assign(s, [tx[s] EXCEPT !.pqc = o])
  BY <1>1, <1>2, HeldTypes, SomeIsOption, NoneIsOption
<1>3. ASSUME NEW c \in tx[s].pqc,
             \/ \E o \in {None} \cup {Some(g) : g \in HeldDil} :
                  Assign(s, [tx[s] EXCEPT !.pqc = Some([c EXCEPT !.dil = o])])
             \/ \E o \in {None} \cup {Some(g) : g \in HeldP521} :
                  Assign(s, [tx[s] EXCEPT !.pqc = Some([c EXCEPT !.p521 = o])])
             \/ \E o \in {None} \cup {Some(g) : g \in HeldEd448} :
                  Assign(s, [tx[s] EXCEPT !.pqc = Some([c EXCEPT !.ed448 = o])])
      PROVE  TypeOK'
  <2>1. c \in SigBytes
    BY OptionElement DEF TypeOK, Transactions
  <2>2. ASSUME NEW o \in {None} \cup {Some(g) : g \in HeldDil}
        PROVE  Some([c EXCEPT !.dil = o]) \in Option(SigBytes)
    <3>1. o \in Option(DilSigs)
      BY HeldTypes, SomeIsOption, NoneIsOption
    <3>2. [c EXCEPT !.dil = o] \in SigBytes
      BY <2>1, <3>1 DEF SigBytes, Parts
    <3> QED
      BY <3>2, SomeIsOption
  <2>3. ASSUME NEW o \in {None} \cup {Some(g) : g \in HeldP521}
        PROVE  Some([c EXCEPT !.p521 = o]) \in Option(SigBytes)
    <3>1. o \in Option(P521Sigs)
      BY HeldTypes, SomeIsOption, NoneIsOption
    <3>2. [c EXCEPT !.p521 = o] \in SigBytes
      BY <2>1, <3>1 DEF SigBytes, Parts
    <3> QED
      BY <3>2, SomeIsOption
  <2>4. ASSUME NEW o \in {None} \cup {Some(g) : g \in HeldEd448}
        PROVE  Some([c EXCEPT !.ed448 = o]) \in Option(SigBytes)
    <3>1. o \in Option(Ed448Sigs)
      BY HeldTypes, SomeIsOption, NoneIsOption
    <3>2. [c EXCEPT !.ed448 = o] \in SigBytes
      BY <2>1, <3>1 DEF SigBytes, Parts
    <3> QED
      BY <3>2, SomeIsOption
  <2> QED
    BY <1>1, <1>3, <2>2, <2>3, <2>4
<1> QED
  BY <1>2, <1>3 DEF EditSignature

---------------------------------------------------------------------------
(* Objects and the calls made through them.                                *)

LEMMA PairOfObject ==
  ASSUME TypeOK, NEW o \in Objects, NEW key \in pair[o]
  PROVE  key \in Keys /\ pair[o] = Some(key)
  BY OptionElement DEF TypeOK

(* What sign_transaction does through an object: all of it or nothing.     *)
LEMMA SignTransactionEffect ==
  ASSUME TypeOK, NEW o \in Objects, NEW s \in Slots, SignTransaction(o, s)
  PROVE  \E key \in Keys :
           /\ pair[o] = Some(key)
           /\ calls' = calls + 1
           /\ UNCHANGED << pair, zeroized, messages, edits >>
           /\ \/ o \in zeroized /\ UNCHANGED << tx, signed >>
              \/ /\ o \notin zeroized
                 /\ tx' = [tx EXCEPT ![s] = SignedTx(tx[s], key, calls)]
                 /\ signed' = signed \cup
                                {[key |-> key, tx |-> SignedTx(tx[s], key, calls)]}
<1>1. PICK key \in pair[o] :
           /\ calls' = calls + 1
           /\ IF o \notin zeroized
              THEN /\ tx' = [tx EXCEPT ![s] = SignedTx(tx[s], key, calls)]
                   /\ signed' = signed \cup
                                  {[key |-> key, tx |-> SignedTx(tx[s], key, calls)]}
              ELSE UNCHANGED << tx, signed >>
           /\ UNCHANGED << pair, zeroized, messages, edits >>
  BY DEF SignTransaction
<1>2. key \in Keys /\ pair[o] = Some(key)
  BY PairOfObject
<1> QED
  BY <1>1, <1>2

(* What sign_message does through an object.                               *)
LEMMA SignMessageEffect ==
  ASSUME TypeOK, NEW o \in Objects, NEW m \in Messages, SignMessage(o, m)
  PROVE  \E key \in Keys :
           /\ calls' = calls + 1
           /\ UNCHANGED << tx, pair, zeroized, signed, edits >>
           /\ \/ messages' = messages
              \/ messages' = messages \cup
                    {[key |-> key, msg |-> m, sig |-> SignMessageBytes(key, m, calls)]}
<1>1. PICK key \in pair[o] :
           /\ calls' = calls + 1
           /\ messages' = IF o \notin zeroized
                          THEN messages \cup
                               {[key |-> key, msg |-> m,
                                 sig |-> SignMessageBytes(key, m, calls)]}
                          ELSE messages
           /\ UNCHANGED << tx, pair, zeroized, signed, edits >>
  BY DEF SignMessage
<1>2. key \in Keys
  BY PairOfObject
<1> QED
  BY <1>1, <1>2

(* Making, copying and emptying objects changes nothing but the objects.   *)
LEMMA ObjectsEffect ==
  ASSUME TypeOK, NEW o \in Objects,
         \/ \E key \in Keys : GenerateKey(o, key)
         \/ \E q \in Objects : CloneKey(o, q)
         \/ ZeroizeKey(o)
  PROVE  /\ UNCHANGED << tx, signed, messages, calls, edits >>
         /\ pair' \in [Objects -> Option(Keys)]
         /\ zeroized' \in SUBSET Objects
<1>1. CASE \E key \in Keys : GenerateKey(o, key)
  BY <1>1, SomeIsOption DEF GenerateKey, TypeOK
<1>2. CASE \E q \in Objects : CloneKey(o, q)
  BY <1>2 DEF CloneKey, TypeOK
<1>3. CASE ZeroizeKey(o)
  BY <1>3 DEF ZeroizeKey, TypeOK
<1> QED
  BY <1>1, <1>2, <1>3

---------------------------------------------------------------------------
(* TypeOK is an invariant: every call and every assignment leaves          *)
(* well-formed transactions and signatures.                                *)
THEOREM TypeCorrect == Spec => []TypeOK
<1>1. Init => TypeOK
  BY NewTxType, NoneIsOption DEF Init, TypeOK
<1>2. TypeOK /\ [Next]_vars => TypeOK'
  <2> SUFFICES ASSUME TypeOK, [Next]_vars PROVE TypeOK'
    OBVIOUS
  <2>1. ASSUME NEW o \in Objects, NEW s \in Slots, SignTransaction(o, s)
        PROVE  TypeOK'
    <3>1. PICK key \in Keys :
             /\ calls' = calls + 1
             /\ UNCHANGED << pair, zeroized, messages, edits >>
             /\ \/ UNCHANGED << tx, signed >>
                \/ /\ tx' = [tx EXCEPT ![s] = SignedTx(tx[s], key, calls)]
                   /\ signed' = signed \cup
                                  {[key |-> key, tx |-> SignedTx(tx[s], key, calls)]}
      BY <2>1, SignTransactionEffect
    <3>2. SignedTx(tx[s], key, calls) \in Transactions
      BY SignedTxType DEF TypeOK
    <3>3. [key |-> key, tx |-> SignedTx(tx[s], key, calls)]
            \in [key : Keys, tx : Transactions]
      BY <3>2
    <3> QED
      BY <3>1, <3>2, <3>3 DEF TypeOK
  <2>2. ASSUME NEW o \in Objects, NEW m \in Messages, SignMessage(o, m)
        PROVE  TypeOK'
    <3>1. PICK key \in Keys :
             /\ calls' = calls + 1
             /\ UNCHANGED << tx, pair, zeroized, signed, edits >>
             /\ \/ messages' = messages
                \/ messages' = messages \cup
                      {[key |-> key, msg |-> m, sig |-> SignMessageBytes(key, m, calls)]}
      BY <2>2, SignMessageEffect
    <3>2. [key |-> key, msg |-> m, sig |-> SignMessageBytes(key, m, calls)]
            \in [key : Keys, msg : Messages, sig : SigBytes]
      BY SignMessageType DEF TypeOK
    <3> QED
      BY <3>1, <3>2 DEF TypeOK
  <2>3. ASSUME NEW o \in Objects,
               \/ \E key \in Keys : GenerateKey(o, key)
               \/ \E q \in Objects : CloneKey(o, q)
               \/ ZeroizeKey(o)
        PROVE  TypeOK'
    BY <2>3, ObjectsEffect DEF TypeOK
  <2>4. ASSUME NEW s \in Slots, NEW d \in Slots, Relay(s, d)
        PROVE  TypeOK'
    <3>1. Relayed(tx[s]) \in Transactions
      BY RelayedType DEF TypeOK
    <3> QED
      BY <2>4, <3>1 DEF Relay, TypeOK
  <2>5. CASE UNCHANGED vars
    BY <2>5 DEF vars, TypeOK
  <2> QED
    BY <2>1, <2>2, <2>3, <2>4, <2>5, EditTermsKeepsType, EditPlaceholdersKeepsType,
       EditPubKeyKeepsType, EditSignatureKeepsType DEF Next
<1> QED
  BY <1>1, <1>2, PTL DEF Spec

---------------------------------------------------------------------------
(* The inductive invariant.                                                *)

LEMMA HeldOnlyGrows ==
  ASSUME signed \subseteq signed', messages \subseteq messages'
  PROVE  /\ HeldDil \subseteq HeldDil'
         /\ HeldP521 \subseteq HeldP521'
         /\ HeldEd448 \subseteq HeldEd448'
<1>1. Composites \subseteq Composites'
  BY DEF Composites
<1> QED
  BY <1>1 DEF HeldDil, HeldP521, HeldEd448

(* What sign_transaction writes has the form SignedForm asks for: writing   *)
(* it again with the same salt changes nothing.                            *)
LEMMA SignedTxForm ==
  ASSUME NEW t, NEW k, NEW n
  PROVE  LET u == SignedTx(t, k, n)
             g == P521Sign(k, SignatureHash(t), Binding(PublicKey(k), t.chain), n)
         IN  /\ \E c \in u.pqc : g \in c.p521
             /\ g.salt = n
             /\ SignedTx(u, k, n) = u
<1> DEFINE u == SignedTx(t, k, n)
           c == CompositeSign(k, SignatureHash(t), Binding(PublicKey(k), t.chain), n)
           g == P521Sign(k, SignatureHash(t), Binding(PublicKey(k), t.chain), n)
<1>1. u.chain = t.chain /\ u.body = t.body /\ u.pqc = Some(c)
  BY DEF SignedTx
<1>2. SignatureHash(u) = SignatureHash(t)
  BY <1>1 DEF SignatureHash, Preimage
<1>3. SignedTx(u, k, n) = u
  BY <1>1, <1>2 DEF SignedTx
<1>4. c \in u.pqc /\ g \in c.p521
  BY <1>1 DEF CompositeSign, Some
<1>5. g.salt = n
  BY DEF P521Sign
<1> QED
  BY <1>3, <1>4, <1>5

LEMMA SignMessageForm ==
  ASSUME NEW k, NEW m, NEW n
  PROVE  \E g \in SignMessageBytes(k, m, n).p521 : g.salt = n
<1> DEFINE g == P521Sign(k, Keccak256(m), HCombined(PublicKey(k), ZeroNonce), n)
<1>1. g \in SignMessageBytes(k, m, n).p521
  BY DEF SignMessageBytes, CompositeSign, Some
<1>2. g.salt = n
  BY DEF P521Sign
<1> QED
  BY <1>1, <1>2

(* The parts of a composite that was returned are held. *)
LEMMA CompositePartsHeld ==
  ASSUME NEW c \in Composites
  PROVE  c.dil \subseteq HeldDil /\ c.p521 \subseteq HeldP521 /\ c.ed448 \subseteq HeldEd448
  BY DEF HeldDil, HeldP521, HeldEd448

(* Assigning a transaction whose parts are held keeps the invariant. *)
LEMMA AssignKeepsHeld ==
  ASSUME IndInv, NEW s \in Slots, NEW t, Assign(s, t), PartsHeld(t)
  PROVE  (SignedForm /\ MessageForm /\ PartsAreHeld)'
<1>1. UNCHANGED << signed, messages >>
  BY DEF Assign
<1>2. SignedForm' /\ MessageForm'
  BY <1>1 DEF IndInv, SignedForm, MessageForm
<1>3. HeldDil' = HeldDil /\ HeldP521' = HeldP521 /\ HeldEd448' = HeldEd448
  BY <1>1 DEF HeldDil, HeldP521, HeldEd448, Composites
<1>4. ASSUME NEW z \in Slots PROVE PartsHeld(tx[z])'
  <2>1. tx'[z] = IF z = s THEN t ELSE tx[z]
    BY DEF Assign, IndInv, TypeOK
  <2> QED
    BY <1>3, <2>1 DEF PartsHeld, IndInv, PartsAreHeld
<1> QED
  BY <1>2, <1>4 DEF PartsAreHeld

(* A caller's assignment keeps the invariant. *)
LEMMA EditsKeepHeld ==
  ASSUME IndInv, NEW s \in Slots,
         EditTerms(s) \/ EditPlaceholders(s) \/ EditPubKey(s) \/ EditSignature(s)
  PROVE  (SignedForm /\ MessageForm /\ PartsAreHeld)'
<1>0. tx[s] \in Transactions /\ PartsHeld(tx[s])
  BY DEF IndInv, TypeOK, PartsAreHeld
<1>1. ASSUME NEW t, t.pqc = tx[s].pqc, Assign(s, t)
      PROVE  (SignedForm /\ MessageForm /\ PartsAreHeld)'
  <2>1. PartsHeld(t)
    BY <1>0, <1>1 DEF PartsHeld
  <2> QED
    BY <1>1, <2>1, AssignKeepsHeld
<1>2. CASE EditTerms(s)
  <2>1. PICK c \in Chains, b \in Bodies :
            Assign(s, [tx[s] EXCEPT !.chain = c, !.body = b])
    BY <1>2 DEF EditTerms
  <2>2. [tx[s] EXCEPT !.chain = c, !.body = b].pqc = tx[s].pqc
    BY <1>0 DEF Transactions
  <2> QED
    BY <1>1, <2>1, <2>2
<1>3. CASE EditPlaceholders(s)
  <2>1. PICK o \in Option(Words) :
          \/ Assign(s, [tx[s] EXCEPT !.v = o])
          \/ Assign(s, [tx[s] EXCEPT !.r = o])
          \/ Assign(s, [tx[s] EXCEPT !.s = o])
    BY <1>3 DEF EditPlaceholders
  <2>2. /\ [tx[s] EXCEPT !.v = o].pqc = tx[s].pqc
        /\ [tx[s] EXCEPT !.r = o].pqc = tx[s].pqc
        /\ [tx[s] EXCEPT !.s = o].pqc = tx[s].pqc
    BY <1>0 DEF Transactions
  <2> QED
    BY <1>1, <2>1, <2>2
<1>4. CASE EditPubKey(s)
  <2>1. PICK o \in {None} \cup {Some(b) : b \in KeyBytes} :
            Assign(s, [tx[s] EXCEPT !.pk = o])
    BY <1>4 DEF EditPubKey
  <2>2. [tx[s] EXCEPT !.pk = o].pqc = tx[s].pqc
    BY <1>0 DEF Transactions
  <2> QED
    BY <1>1, <2>1, <2>2
<1>5. CASE EditSignature(s)
  <2>1. ASSUME NEW o, Assign(s, [tx[s] EXCEPT !.pqc = o]),
               \A c \in o : /\ c.dil \subseteq HeldDil
                            /\ c.p521 \subseteq HeldP521
                            /\ c.ed448 \subseteq HeldEd448
        PROVE  (SignedForm /\ MessageForm /\ PartsAreHeld)'
    <3>1. [tx[s] EXCEPT !.pqc = o].pqc = o
      BY <1>0 DEF Transactions
    <3>2. PartsHeld([tx[s] EXCEPT !.pqc = o])
      BY <2>1, <3>1 DEF PartsHeld
    <3> QED
      BY <2>1, <3>2, AssignKeepsHeld
  <2>2. ASSUME NEW o \in {None} \cup {Some(c) : c \in Composites},
               Assign(s, [tx[s] EXCEPT !.pqc = o])
        PROVE  (SignedForm /\ MessageForm /\ PartsAreHeld)'
    BY <2>1, <2>2, CompositePartsHeld DEF None, Some
  <2>3. ASSUME NEW c \in tx[s].pqc
        PROVE  /\ c \in SigBytes
               /\ c.dil \subseteq HeldDil
               /\ c.p521 \subseteq HeldP521
               /\ c.ed448 \subseteq HeldEd448
    BY <1>0, OptionElement DEF PartsHeld, Transactions
  <2>4. ASSUME NEW c \in tx[s].pqc, NEW o \in {None} \cup {Some(g) : g \in HeldDil},
               Assign(s, [tx[s] EXCEPT !.pqc = Some([c EXCEPT !.dil = o])])
        PROVE  (SignedForm /\ MessageForm /\ PartsAreHeld)'
    <3> DEFINE d == [c EXCEPT !.dil = o]
    <3>1. d.dil = o /\ d.p521 = c.p521 /\ d.ed448 = c.ed448
      BY <2>3 DEF SigBytes, Parts
    <3>2. o \subseteq HeldDil
      BY DEF None, Some
    <3> HIDE DEF d
    <3>3. \A x \in Some(d) : /\ x.dil \subseteq HeldDil
                             /\ x.p521 \subseteq HeldP521
                             /\ x.ed448 \subseteq HeldEd448
      BY <2>3, <3>1, <3>2 DEF Some
    <3> QED
      BY <2>1, <2>4, <3>3 DEF d
  <2>5. ASSUME NEW c \in tx[s].pqc, NEW o \in {None} \cup {Some(g) : g \in HeldP521},
               Assign(s, [tx[s] EXCEPT !.pqc = Some([c EXCEPT !.p521 = o])])
        PROVE  (SignedForm /\ MessageForm /\ PartsAreHeld)'
    <3> DEFINE d == [c EXCEPT !.p521 = o]
    <3>1. d.dil = c.dil /\ d.p521 = o /\ d.ed448 = c.ed448
      BY <2>3 DEF SigBytes, Parts
    <3>2. o \subseteq HeldP521
      BY DEF None, Some
    <3> HIDE DEF d
    <3>3. \A x \in Some(d) : /\ x.dil \subseteq HeldDil
                             /\ x.p521 \subseteq HeldP521
                             /\ x.ed448 \subseteq HeldEd448
      BY <2>3, <3>1, <3>2 DEF Some
    <3> QED
      BY <2>1, <2>5, <3>3 DEF d
  <2>6. ASSUME NEW c \in tx[s].pqc, NEW o \in {None} \cup {Some(g) : g \in HeldEd448},
               Assign(s, [tx[s] EXCEPT !.pqc = Some([c EXCEPT !.ed448 = o])])
        PROVE  (SignedForm /\ MessageForm /\ PartsAreHeld)'
    <3> DEFINE d == [c EXCEPT !.ed448 = o]
    <3>1. d.dil = c.dil /\ d.p521 = c.p521 /\ d.ed448 = o
      BY <2>3 DEF SigBytes, Parts
    <3>2. o \subseteq HeldEd448
      BY DEF None, Some
    <3> HIDE DEF d
    <3>3. \A x \in Some(d) : /\ x.dil \subseteq HeldDil
                             /\ x.p521 \subseteq HeldP521
                             /\ x.ed448 \subseteq HeldEd448
      BY <2>3, <3>1, <3>2 DEF Some
    <3> QED
      BY <2>1, <2>6, <3>3 DEF d
  <2> QED
    BY <1>5, <2>2, <2>4, <2>5, <2>6 DEF EditSignature
<1> QED
  BY <1>2, <1>3, <1>4, <1>5

(* Sending a transaction to a peer makes no new sub-signature. *)
LEMMA RelayedPartsHeld ==
  ASSUME NEW t \in Transactions, PartsHeld(t)
  PROVE  PartsHeld(Relayed(t))
<1>1. CASE ~HasSignature(t)
  <2>1. Relayed(t) = NewTx(t.chain, t.body)
    BY <1>1 DEF Relayed, Encode, Decode
  <2> QED
    BY <2>1 DEF NewTx, None, PartsHeld
<1>2. CASE HasSignature(t)
  <2>1. Relayed(t).pqc = Some(UnwrapOr(t.pqc, NoParts))
    BY <1>2 DEF Relayed, Encode, Decode
  <2>2. CASE t.pqc = None
    BY <2>1, <2>2 DEF UnwrapOr, NoParts, None, Some, PartsHeld
  <2>3. CASE t.pqc # None
    <3>1. UnwrapOr(t.pqc, NoParts) \in t.pqc
      BY <2>3 DEF UnwrapOr, None
    <3> QED
      BY <2>1, <3>1 DEF Some, PartsHeld
  <2> QED
    BY <2>2, <2>3
<1> QED
  BY <1>1, <1>2

LEMMA SignTransactionKeepsHeld ==
  ASSUME IndInv, NEW o \in Objects, NEW s \in Slots, SignTransaction(o, s)
  PROVE  (SignedForm /\ MessageForm /\ PartsAreHeld)'
<1>0. PICK key \in Keys :
         /\ UNCHANGED messages
         /\ \/ UNCHANGED << tx, signed >>
            \/ /\ tx' = [tx EXCEPT ![s] = SignedTx(tx[s], key, calls)]
               /\ signed' = signed \cup {[key |-> key, tx |-> SignedTx(tx[s], key, calls)]}
  BY SignTransactionEffect DEF IndInv
<1>1. CASE UNCHANGED << tx, signed >>
  <2>1. UNCHANGED << tx, signed, messages >>
    BY <1>0, <1>1
  <2> QED
    BY <2>1 DEF IndInv, SignedForm, MessageForm, PartsAreHeld, PartsHeld,
                HeldDil, HeldP521, HeldEd448, Composites
<1>2. CASE /\ tx' = [tx EXCEPT ![s] = SignedTx(tx[s], key, calls)]
           /\ signed' = signed \cup {[key |-> key, tx |-> SignedTx(tx[s], key, calls)]}
  <2>0. PICK u : u = SignedTx(tx[s], key, calls)
    OBVIOUS
  <2>1. /\ tx' = [tx EXCEPT ![s] = u]
        /\ signed' = signed \cup {[key |-> key, tx |-> u]}
        /\ UNCHANGED messages
    BY <1>0, <1>2, <2>0
  <2>2. \E c \in u.pqc : \E g \in c.p521 : u = SignedTx(u, key, g.salt)
    BY <2>0, SignedTxForm
  <2>3. SignedForm' /\ MessageForm'
    BY <2>1, <2>2 DEF IndInv, SignedForm, MessageForm
  <2>4. /\ HeldDil \subseteq HeldDil'
        /\ HeldP521 \subseteq HeldP521'
        /\ HeldEd448 \subseteq HeldEd448'
    BY <2>1, HeldOnlyGrows
  <2>5. PartsHeld(u)'
    <3>1. ASSUME NEW c \in u.pqc PROVE c \in Composites'
      <4>1. PICK e : e = [key |-> key, tx |-> u]
        OBVIOUS
      <4>2. e \in signed' /\ c \in e.tx.pqc
        BY <2>1, <4>1
      <4> QED
        BY <4>2 DEF Composites
    <3>2. ASSUME NEW c \in u.pqc
          PROVE  /\ c.dil \subseteq HeldDil'
                 /\ c.p521 \subseteq HeldP521'
                 /\ c.ed448 \subseteq HeldEd448'
      BY <3>1 DEF HeldDil, HeldP521, HeldEd448
    <3> QED
      BY <3>2 DEF PartsHeld
  <2>6. ASSUME NEW z \in Slots PROVE PartsHeld(tx[z])'
    <3>1. tx'[z] = IF z = s THEN u ELSE tx[z]
      BY <2>1 DEF IndInv, TypeOK
    <3> QED
      BY <2>4, <2>5, <3>1 DEF PartsHeld, IndInv, PartsAreHeld
  <2> QED
    BY <2>3, <2>6 DEF PartsAreHeld
<1> QED
  BY <1>0, <1>1, <1>2

LEMMA SignMessageKeepsHeld ==
  ASSUME IndInv, NEW o \in Objects, NEW m \in Messages, SignMessage(o, m)
  PROVE  (SignedForm /\ MessageForm /\ PartsAreHeld)'
<1>0. PICK key \in Keys :
         /\ UNCHANGED << tx, signed >>
         /\ \/ messages' = messages
            \/ messages' = messages \cup
                  {[key |-> key, msg |-> m, sig |-> SignMessageBytes(key, m, calls)]}
  BY SignMessageEffect DEF IndInv
<1> DEFINE e == [key |-> key, msg |-> m, sig |-> SignMessageBytes(key, m, calls)]
<1>1. /\ UNCHANGED << tx, signed >>
      /\ messages' = messages \/ messages' = messages \cup {e}
  BY <1>0
<1>2. \E g \in e.sig.p521 : e.sig = SignMessageBytes(e.key, e.msg, g.salt)
  BY SignMessageForm
<1> HIDE DEF e
<1>3. SignedForm' /\ MessageForm'
  BY <1>1, <1>2 DEF IndInv, SignedForm, MessageForm
<1>4. /\ HeldDil \subseteq HeldDil'
      /\ HeldP521 \subseteq HeldP521'
      /\ HeldEd448 \subseteq HeldEd448'
  BY <1>1, HeldOnlyGrows
<1>5. PartsAreHeld'
  BY <1>1, <1>4 DEF IndInv, PartsAreHeld, PartsHeld
<1> QED
  BY <1>3, <1>5

LEMMA RelayKeepsHeld ==
  ASSUME IndInv, NEW s \in Slots, NEW d \in Slots, Relay(s, d)
  PROVE  (SignedForm /\ MessageForm /\ PartsAreHeld)'
<1>1. UNCHANGED << signed, messages >>
  BY DEF Relay
<1>2. SignedForm' /\ MessageForm'
  BY <1>1 DEF IndInv, SignedForm, MessageForm
<1>3. HeldDil' = HeldDil /\ HeldP521' = HeldP521 /\ HeldEd448' = HeldEd448
  BY <1>1 DEF HeldDil, HeldP521, HeldEd448, Composites
<1>4. PartsHeld(Relayed(tx[s]))
  BY RelayedPartsHeld DEF IndInv, TypeOK, PartsAreHeld
<1>5. ASSUME NEW z \in Slots PROVE PartsHeld(tx[z])'
  <2>1. tx'[z] = IF z = d THEN Relayed(tx[s]) ELSE tx[z]
    BY DEF Relay, IndInv, TypeOK
  <2> QED
    BY <1>3, <1>4, <2>1 DEF PartsHeld, IndInv, PartsAreHeld
<1> QED
  BY <1>2, <1>5 DEF PartsAreHeld

(* IndInv is inductive. *)
THEOREM Inductive == Spec => []IndInv
<1>1. Init => IndInv
  <2> SUFFICES ASSUME Init PROVE IndInv
    OBVIOUS
  <2>1. TypeOK
    BY NewTxType, NoneIsOption DEF Init, TypeOK
  <2>2. SignedForm /\ MessageForm
    BY DEF Init, SignedForm, MessageForm
  <2>3. ASSUME NEW s \in Slots PROVE PartsHeld(tx[s])
    <3>1. tx[s].pqc = None
      BY DEF Init, NewTx
    <3> QED
      BY <3>1 DEF PartsHeld, None
  <2> QED
    BY <2>1, <2>2, <2>3 DEF IndInv, PartsAreHeld
<1>2. IndInv /\ TypeOK' /\ [Next]_vars => IndInv'
  <2> SUFFICES ASSUME IndInv, TypeOK', [Next]_vars
               PROVE  (SignedForm /\ MessageForm /\ PartsAreHeld)'
    BY DEF IndInv
  <2>1. ASSUME NEW o \in Objects,
               \/ \E key \in Keys : GenerateKey(o, key)
               \/ \E q \in Objects : CloneKey(o, q)
               \/ ZeroizeKey(o)
        PROVE  (SignedForm /\ MessageForm /\ PartsAreHeld)'
    <3>1. UNCHANGED << tx, signed, messages >>
      BY <2>1, ObjectsEffect DEF IndInv
    <3> QED
      BY <3>1 DEF IndInv, SignedForm, MessageForm, PartsAreHeld, PartsHeld,
                  HeldDil, HeldP521, HeldEd448, Composites
  <2>2. CASE UNCHANGED vars
    BY <2>2 DEF vars, IndInv, SignedForm, MessageForm, PartsAreHeld, PartsHeld,
                HeldDil, HeldP521, HeldEd448, Composites
  <2> QED
    BY <2>1, <2>2, SignTransactionKeepsHeld, SignMessageKeepsHeld, EditsKeepHeld,
       RelayKeepsHeld DEF Next
<1> QED
  BY <1>1, <1>2, TypeCorrect, PTL DEF Spec

---------------------------------------------------------------------------
(* What the invariant implies.                                             *)

(* The fields of a signed transaction, and of the composite in it.         *)
LEMMA SignedTxFields ==
  ASSUME NEW t, NEW u, NEW key, NEW n, u = SignedTx(t, key, n)
  PROVE  /\ u.chain = t.chain /\ u.body = t.body
         /\ u.v = Some(PlaceholderV(t.chain)) /\ u.r = Some(0) /\ u.s = Some(0)
         /\ u.pk = Some(PublicKey(key))
         /\ u.pqc = Some(CompositeSign(key, SignatureHash(t),
                                       Binding(PublicKey(key), t.chain), n))
  BY DEF SignedTx

LEMMA CompositeP521 ==
  ASSUME NEW key, NEW hash, NEW bound, NEW n,
         NEW g \in CompositeSign(key, hash, bound, n).p521
  PROVE  /\ g = P521Sign(key, hash, bound, n)
         /\ g.signer = key /\ g.hash = hash /\ g.bound = bound
         /\ g.salt = n /\ g.highS = FALSE
<1>1. g = P521Sign(key, hash, bound, n)
  BY DEF CompositeSign, Some
<1> QED
  BY <1>1 DEF P521Sign

(* A low-S P-521 sub-signature a caller holds was made by a signing call.  *)
LEMMA HeldP521Origin ==
  ASSUME IndInv, NEW g \in HeldP521, ~g.highS
  PROVE  \/ \E e \in signed : \E c \in e.tx.pqc : g \in c.p521
         \/ \E e \in messages : g \in e.sig.p521
<1>1. ASSUME NEW c \in Composites, NEW h \in c.p521
      PROVE  h.highS = FALSE
  <2>1. CASE \E e \in signed : c \in e.tx.pqc
    <3>1. PICK e \in signed : c \in e.tx.pqc
      BY <2>1
    <3>2. PICK n : e.tx = SignedTx(e.tx, e.key, n)
      BY <3>1 DEF IndInv, SignedForm
    <3>3. e.tx.pqc = Some(CompositeSign(e.key, SignatureHash(e.tx),
                                        Binding(PublicKey(e.key), e.tx.chain), n))
      BY <3>2, SignedTxFields
    <3>4. h \in CompositeSign(e.key, SignatureHash(e.tx),
                            Binding(PublicKey(e.key), e.tx.chain), n).p521
      BY <3>1, <3>3 DEF Some
    <3>5. h = P521Sign(e.key, SignatureHash(e.tx), Binding(PublicKey(e.key), e.tx.chain), n)
      BY <3>4 DEF CompositeSign, Some
    <3> QED
      BY <3>5 DEF P521Sign
  <2>2. CASE \E e \in messages : c = e.sig
    <3>1. PICK e \in messages : c = e.sig
      BY <2>2
    <3>2. PICK n : e.sig = SignMessageBytes(e.key, e.msg, n)
      BY <3>1 DEF IndInv, MessageForm
    <3>3. c = CompositeSign(e.key, Keccak256(e.msg),
                            HCombined(PublicKey(e.key), ZeroNonce), n)
      BY <3>1, <3>2 DEF SignMessageBytes
    <3>4. h \in CompositeSign(e.key, Keccak256(e.msg),
                            HCombined(PublicKey(e.key), ZeroNonce), n).p521
      BY <3>3
    <3>5. h = P521Sign(e.key, Keccak256(e.msg), HCombined(PublicKey(e.key), ZeroNonce), n)
      BY <3>4 DEF CompositeSign, Some
    <3> QED
      BY <3>5 DEF P521Sign
  <2> QED
    BY <2>1, <2>2 DEF Composites
<1>2. ASSUME NEW c \in Composites, NEW h \in c.p521, g = Twin(h)
      PROVE  FALSE
  <2>1. h \in P521Sigs
    BY HeldTypes DEF IndInv, SigBytes, Parts, Option
  <2>2. Twin(h).highS = TRUE
    BY <1>1, <2>1 DEF Twin, P521Sigs
  <2> QED
    BY <1>2, <2>2
<1>3. \E c \in Composites : g \in c.p521
  BY <1>2 DEF HeldP521
<1> QED
  BY <1>3 DEF Composites

(* A low-S P-521 sub-signature a caller holds says which call made it.     *)
LEMMA HeldP521Meaning ==
  ASSUME IndInv, NEW g \in HeldP521, ~g.highS
  PROVE  \/ \E e \in signed :
              /\ g = P521Sign(e.key, SignatureHash(e.tx),
                              Binding(PublicKey(e.key), e.tx.chain), g.salt)
              /\ e.tx = SignedTx(e.tx, e.key, g.salt)
         \/ \E e \in messages :
              /\ g = P521Sign(e.key, Keccak256(e.msg),
                              HCombined(PublicKey(e.key), ZeroNonce), g.salt)
              /\ e.sig = SignMessageBytes(e.key, e.msg, g.salt)
<1>1. CASE \E e \in signed : \E c \in e.tx.pqc : g \in c.p521
  <2>1. PICK e \in signed : \E c \in e.tx.pqc : g \in c.p521
    BY <1>1
  <2>2. PICK n : e.tx = SignedTx(e.tx, e.key, n)
    BY DEF IndInv, SignedForm
  <2>3. e.tx.pqc = Some(CompositeSign(e.key, SignatureHash(e.tx),
                                      Binding(PublicKey(e.key), e.tx.chain), n))
    BY <2>2, SignedTxFields
  <2>4. g \in CompositeSign(e.key, SignatureHash(e.tx),
                            Binding(PublicKey(e.key), e.tx.chain), n).p521
    BY <2>1, <2>3 DEF Some
  <2>5. g = P521Sign(e.key, SignatureHash(e.tx), Binding(PublicKey(e.key), e.tx.chain), n)
    BY <2>4 DEF CompositeSign, Some
  <2>6. g.salt = n
    BY <2>5 DEF P521Sign
  <2> QED
    BY <2>2, <2>5, <2>6
<1>2. CASE \E e \in messages : g \in e.sig.p521
  <2>1. PICK e \in messages : g \in e.sig.p521
    BY <1>2
  <2>2. PICK n : e.sig = SignMessageBytes(e.key, e.msg, n)
    BY DEF IndInv, MessageForm
  <2>3. g = P521Sign(e.key, Keccak256(e.msg), HCombined(PublicKey(e.key), ZeroNonce), n)
    BY <2>1, <2>2 DEF SignMessageBytes, CompositeSign, Some
  <2>4. g.salt = n
    BY <2>3 DEF P521Sign
  <2> QED
    BY <2>2, <2>3, <2>4
<1> QED
  BY <1>1, <1>2, HeldP521Origin

(* A composite that verifies under one key's public key, and whose P-521   *)
(* part that key made, is as a whole what that key makes.                  *)
LEMMA VerifiedComposite ==
  ASSUME NEW sig \in SigBytes, NEW key, NEW hash, NEW bound, NEW n,
         CompositeVerify(PublicKey(key), hash, bound, sig),
         P521Sign(key, hash, bound, n) \in sig.p521
  PROVE  sig = CompositeSign(key, hash, bound, n)
<1>1. /\ sig = [dil |-> sig.dil, p521 |-> sig.p521, ed448 |-> sig.ed448]
      /\ sig.dil \in Option(DilSigs) /\ sig.p521 \in Option(P521Sigs)
      /\ sig.ed448 \in Option(Ed448Sigs)
  BY DEF SigBytes, Parts
<1>2. /\ PublicKey(key).dil = {key} /\ PublicKey(key).p521 = {key}
      /\ PublicKey(key).ed448 = {key}
  BY DEF PublicKey, Some
<1>3. PICK d \in sig.dil : DilVerify(key, hash, d)
  BY <1>2 DEF CompositeVerify
<1>4. d = DilSign(key, hash) /\ sig.dil = Some(d)
  <2>1. d \in DilSigs /\ sig.dil = Some(d)
    BY <1>1, <1>3, OptionElement
  <2> QED
    BY <1>3, <2>1 DEF DilVerify, DilSign, DilSigs
<1>5. PICK x \in sig.ed448 : Ed448Verify(key, hash, bound, x)
  BY <1>2 DEF CompositeVerify
<1>6. x = Ed448Sign(key, hash, bound) /\ sig.ed448 = Some(x)
  <2>1. x \in Ed448Sigs /\ sig.ed448 = Some(x)
    BY <1>1, <1>5, OptionElement
  <2> QED
    BY <1>5, <2>1 DEF Ed448Verify, Ed448Sign, Ed448Sigs
<1>7. sig.p521 = Some(P521Sign(key, hash, bound, n))
  BY <1>1, OptionElement
<1> QED
  BY <1>1, <1>4, <1>6, <1>7 DEF CompositeSign

(* The hash that is signed determines the terms.                           *)
LEMMA SignatureHashInjective ==
  ASSUME NEW t, NEW u, SignatureHash(t) = SignatureHash(u)
  PROVE  t.chain = u.chain /\ t.body = u.body
<1>1. Preimage(t) = Preimage(u)
  <2>1. Keccak256(Preimage(t)).keccak = Keccak256(Preimage(u)).keccak
    BY DEF SignatureHash
  <2> QED
    BY <2>1 DEF Keccak256
<1>2. /\ Preimage(t).chain = t.chain /\ Preimage(t).body = t.body
      /\ Preimage(u).chain = u.chain /\ Preimage(u).body = u.body
  BY DEF Preimage, Encode, NewTx
<1> QED
  BY <1>1, <1>2

(* What recover_sender accepts is what a signing call wrote. *)
LEMMA RecoveredOrigin ==
  ASSUME IndInv, NEW t \in Transactions, PartsHeld(t), NEW a \in RecoverSender(t)
  PROVE  \E e \in signed : /\ e.tx = t
                           /\ a = DeriveAddress(PublicKey(e.key))
<1>1. PICK pk \in t.pk, sig \in t.pqc :
          a \in VerifySignature(SignatureHash(t), t.chain, pk, sig)
  BY DEF RecoverSender, None
<1>2. /\ CompositeVerify(pk, SignatureHash(t), Binding(pk, t.chain), sig)
      /\ a = DeriveAddress(pk)
  BY <1>1 DEF VerifySignature, None, Some
<1>3. CanonicalEnvelope(t)
  BY DEF RecoverSender, None
<1>4. /\ sig \in SigBytes
      /\ t.pk = Some(pk) /\ t.pqc = Some(sig)
      /\ sig.p521 \in Option(P521Sigs)
  <2>1. t.pk \in Option(KeyBytes) /\ t.pqc \in Option(SigBytes)
    BY DEF Transactions
  <2>2. sig \in SigBytes /\ t.pk = Some(pk) /\ t.pqc = Some(sig)
    BY <1>1, <2>1, OptionElement
  <2> QED
    BY <2>2 DEF SigBytes, Parts
<1>5. PICK g \in sig.p521 :
          ~g.highS /\ g.hash = SignatureHash(t) /\ g.bound = Binding(pk, t.chain)
  BY <1>2 DEF CompositeVerify, P521Verify
<1>6. g \in HeldP521
  BY <1>1, <1>5 DEF PartsHeld
<1>7. ASSUME NEW e \in messages,
             g = P521Sign(e.key, Keccak256(e.msg),
                          HCombined(PublicKey(e.key), ZeroNonce), g.salt)
      PROVE  FALSE
  <2>1. HCombined(PublicKey(e.key), ZeroNonce) = Binding(pk, t.chain)
    BY <1>5, <1>7 DEF P521Sign
  <2>2. ZeroNonce = EntanglementNonce(t.chain, DeriveAddress(pk))
    BY <2>1 DEF Binding, HCombined
  <2> QED
    BY <2>2 DEF ZeroNonce, EntanglementNonce, None, Some
<1>8. PICK e \in signed :
        /\ g = P521Sign(e.key, SignatureHash(e.tx),
                        Binding(PublicKey(e.key), e.tx.chain), g.salt)
        /\ e.tx = SignedTx(e.tx, e.key, g.salt)
  BY <1>5, <1>6, <1>7, HeldP521Meaning
<1>9. /\ SignatureHash(t) = SignatureHash(e.tx)
      /\ Binding(pk, t.chain) = Binding(PublicKey(e.key), e.tx.chain)
  <2>1. /\ g.hash = SignatureHash(e.tx)
        /\ g.bound = Binding(PublicKey(e.key), e.tx.chain)
    BY <1>8 DEF P521Sign
  <2> QED
    BY <1>5, <2>1
<1>10. t.chain = e.tx.chain /\ t.body = e.tx.body
  BY <1>9, SignatureHashInjective
<1>11. pk = PublicKey(e.key)
  BY <1>9 DEF Binding, HCombined
<1>12. sig = CompositeSign(e.key, SignatureHash(e.tx),
                           Binding(PublicKey(e.key), e.tx.chain), g.salt)
  BY <1>2, <1>4, <1>5, <1>8, <1>9, <1>11, VerifiedComposite
<1>13. t = e.tx
  <2>1. t = [chain |-> t.chain, body |-> t.body, v |-> t.v, r |-> t.r, s |-> t.s,
             pqc |-> t.pqc, pk |-> t.pk]
    BY DEF Transactions
  <2>2. t.v = Some(PlaceholderV(t.chain)) /\ t.r = Some(0) /\ t.s = Some(0)
    BY <1>3 DEF CanonicalEnvelope
  <2>3. t = SignedTx(e.tx, e.key, g.salt)
    BY <1>4, <1>10, <1>11, <1>12, <2>1, <2>2 DEF SignedTx
  <2> QED
    BY <1>8, <2>3
<1> QED
  BY <1>2, <1>11, <1>13

---------------------------------------------------------------------------
(* Whatever callers assign, splice or relay, an address is recovered only   *)
(* from a transaction that sign_transaction wrote with that address's key  *)
(* (signing.rs, recover_sender).                                           *)
THEOREM Unforgeable == Spec => []RecoveredWasSigned
<1>1. IndInv => RecoveredWasSigned
  BY RecoveredOrigin DEF IndInv, TypeOK, PartsAreHeld, RecoveredWasSigned
<1> QED
  BY <1>1, Inductive, PTL

(* verify_message accepts only what sign_message returned for that message *)
(* and key: transaction signatures never pass for message signatures       *)
(* (crypto.rs, verify_message).                                            *)
THEOREM MessagesApart == Spec => []MessageWasSigned
<1>1. IndInv => MessageWasSigned
  <2> SUFFICES ASSUME IndInv, NEW s \in Slots, NEW sig \in tx[s].pqc,
                      NEW pk \in tx[s].pk, NEW m \in Messages, VerifyMessage(pk, m, sig)
               PROVE  \E e \in messages :
                        e.msg = m /\ e.sig = sig /\ PublicKey(e.key) = pk
    BY DEF MessageWasSigned
  <2>1. CompositeVerify(pk, Keccak256(m), HCombined(pk, ZeroNonce), sig)
    BY DEF VerifyMessage
  <2>2. sig \in SigBytes /\ sig.p521 \in Option(P521Sigs) /\ PartsHeld(tx[s])
    <3>1. tx[s].pqc \in Option(SigBytes) /\ PartsHeld(tx[s])
      BY DEF IndInv, TypeOK, PartsAreHeld, Transactions
    <3>2. sig \in SigBytes
      BY <3>1, OptionElement
    <3> QED
      BY <3>1, <3>2 DEF SigBytes, Parts
  <2>3. PICK g \in sig.p521 :
            ~g.highS /\ g.hash = Keccak256(m) /\ g.bound = HCombined(pk, ZeroNonce)
    BY <2>1 DEF CompositeVerify, P521Verify
  <2>4. g \in HeldP521
    BY <2>2, <2>3 DEF PartsHeld
  <2>5. ASSUME NEW e \in signed,
               g = P521Sign(e.key, SignatureHash(e.tx),
                            Binding(PublicKey(e.key), e.tx.chain), g.salt)
        PROVE  FALSE
    <3>1. HCombined(pk, ZeroNonce) = Binding(PublicKey(e.key), e.tx.chain)
      BY <2>3, <2>5 DEF P521Sign
    <3>2. ZeroNonce = EntanglementNonce(e.tx.chain, DeriveAddress(PublicKey(e.key)))
      BY <3>1 DEF Binding, HCombined
    <3> QED
      BY <3>2 DEF ZeroNonce, EntanglementNonce, None, Some
  <2>6. PICK e \in messages :
          /\ g = P521Sign(e.key, Keccak256(e.msg),
                          HCombined(PublicKey(e.key), ZeroNonce), g.salt)
          /\ e.sig = SignMessageBytes(e.key, e.msg, g.salt)
    BY <2>3, <2>4, <2>5, HeldP521Meaning
  <2>7. /\ Keccak256(m) = Keccak256(e.msg)
        /\ HCombined(pk, ZeroNonce) = HCombined(PublicKey(e.key), ZeroNonce)
    <3>1. /\ g.hash = Keccak256(e.msg)
          /\ g.bound = HCombined(PublicKey(e.key), ZeroNonce)
      BY <2>6 DEF P521Sign
    <3> QED
      BY <2>3, <3>1
  <2>8. m = e.msg /\ pk = PublicKey(e.key)
    BY <2>7 DEF Keccak256, HCombined
  <2>9. sig = CompositeSign(e.key, Keccak256(e.msg),
                            HCombined(PublicKey(e.key), ZeroNonce), g.salt)
    BY <2>1, <2>2, <2>3, <2>6, <2>8, VerifiedComposite
  <2> QED
    BY <2>6, <2>8, <2>9 DEF SignMessageBytes
<1> QED
  BY <1>1, Inductive, PTL

---------------------------------------------------------------------------
(* Recovery, by the fields that it reads.                                  *)

LEMMA RecoverBoth ==
  ASSUME NEW t, NEW pk, NEW sig, t.pk = Some(pk), t.pqc = Some(sig)
  PROVE  RecoverSender(t) =
           IF CanonicalEnvelope(t)
           THEN VerifySignature(SignatureHash(t), t.chain, pk, sig)
           ELSE None
<1> DEFINE V(p, g) == VerifySignature(SignatureHash(t), t.chain, p, g)
<1>1. {V(p, g) : p \in t.pk, g \in t.pqc} = {V(pk, sig)}
  <2> HIDE DEF V
  <2> QED
    BY DEF Some
<1>2. UNION {V(pk, sig)} = V(pk, sig)
  <2> HIDE DEF V
  <2> QED
    OBVIOUS
<1> QED
  BY <1>1, <1>2 DEF RecoverSender

LEMMA RecoverNeither ==
  ASSUME NEW t, t.pk = None \/ t.pqc = None \/ ~CanonicalEnvelope(t)
  PROVE  RecoverSender(t) = None
<1> DEFINE V(p, g) == VerifySignature(SignatureHash(t), t.chain, p, g)
<1>1. CASE ~CanonicalEnvelope(t)
  BY <1>1 DEF RecoverSender
<1>2. CASE t.pk = None \/ t.pqc = None
  <2>1. UNION {V(p, g) : p \in t.pk, g \in t.pqc} = {}
    <3> HIDE DEF V
    <3> QED
      BY <1>2 DEF None
  <2> QED
    BY <2>1 DEF RecoverSender, None
<1> QED
  BY <1>1, <1>2

(* A byte string that is not three whole parts verifies nothing.           *)
LEMMA NoPartsNothing ==
  ASSUME NEW hash, NEW chain, NEW pk, NEW sig, pk = NoParts \/ sig = NoParts
  PROVE  VerifySignature(hash, chain, pk, sig) = None
<1>1. ~Complete(NoParts)
  BY DEF Complete, NoParts
<1>2. ~CompositeVerify(pk, hash, Binding(pk, chain), sig)
  BY <1>1 DEF CompositeVerify
<1> QED
  BY <1>2 DEF VerifySignature

---------------------------------------------------------------------------
(* A signed transaction. *)

(* What a key signs verifies under its public key. *)
LEMMA SignedVerifies ==
  ASSUME NEW key, NEW hash, NEW bound, NEW n
  PROVE  CompositeVerify(PublicKey(key), hash, bound, CompositeSign(key, hash, bound, n))
<1> DEFINE sig == CompositeSign(key, hash, bound, n)
<1>1. /\ key \in PublicKey(key).dil /\ key \in PublicKey(key).p521
      /\ key \in PublicKey(key).ed448
  BY DEF PublicKey, Some
<1>2. /\ DilSign(key, hash) \in sig.dil
      /\ P521Sign(key, hash, bound, n) \in sig.p521
      /\ Ed448Sign(key, hash, bound) \in sig.ed448
  BY DEF CompositeSign, Some
<1>3. Complete(PublicKey(key)) /\ Complete(sig)
  BY <1>1, <1>2 DEF Complete, None
<1>4. /\ DilVerify(key, hash, DilSign(key, hash))
      /\ P521Verify(key, hash, bound, P521Sign(key, hash, bound, n))
      /\ Ed448Verify(key, hash, bound, Ed448Sign(key, hash, bound))
  BY DEF DilVerify, DilSign, P521Verify, P521Sign, Ed448Verify, Ed448Sign
<1> HIDE DEF sig
<1>5. CompositeVerify(PublicKey(key), hash, bound, sig)
  BY <1>1, <1>2, <1>3, <1>4 DEF CompositeVerify
<1> QED
  BY <1>5 DEF sig

(* The signer's address is recovered from what sign_transaction wrote. *)
LEMMA SignedRecovers ==
  ASSUME NEW t, NEW key, NEW n
  PROVE  RecoverSender(SignedTx(t, key, n)) = Some(DeriveAddress(PublicKey(key)))
<1>0. PICK u : u = SignedTx(t, key, n)
  OBVIOUS
<1> DEFINE sig == CompositeSign(key, SignatureHash(t), Binding(PublicKey(key), t.chain), n)
<1>1. /\ u.chain = t.chain /\ u.body = t.body
      /\ u.v = Some(PlaceholderV(t.chain)) /\ u.r = Some(0) /\ u.s = Some(0)
      /\ u.pk = Some(PublicKey(key)) /\ u.pqc = Some(sig)
  BY <1>0, SignedTxFields
<1>2. SignatureHash(u) = SignatureHash(t)
  BY <1>1 DEF SignatureHash, Preimage
<1>3. CanonicalEnvelope(u)
  BY <1>1 DEF CanonicalEnvelope
<1>4. CompositeVerify(PublicKey(key), SignatureHash(t), Binding(PublicKey(key), t.chain), sig)
  BY SignedVerifies
<1> HIDE DEF sig
<1>5. VerifySignature(SignatureHash(u), u.chain, PublicKey(key), sig)
        = Some(DeriveAddress(PublicKey(key)))
  BY <1>1, <1>2, <1>4 DEF VerifySignature
<1>6. RecoverSender(u) = VerifySignature(SignatureHash(u), u.chain, PublicKey(key), sig)
  BY <1>1, <1>3, RecoverBoth
<1> QED
  BY <1>0, <1>5, <1>6

(* What decoding makes of an encoded transaction that has a signature. *)
LEMMA RelayedFields ==
  ASSUME NEW t, HasSignature(t)
  PROVE  /\ Relayed(t) = [chain |-> t.chain, body |-> t.body,
                          v |-> Some(UnwrapOr(t.v, 0)), r |-> Some(UnwrapOr(t.r, 0)),
                          s |-> Some(UnwrapOr(t.s, 0)),
                          pqc |-> Some(UnwrapOr(t.pqc, NoParts)),
                          pk |-> IF UnwrapOr(t.pk, NoParts) # NoParts
                                 THEN Some(UnwrapOr(t.pk, NoParts)) ELSE None]
<1> DEFINE tail == << UnwrapOr(t.v, 0), UnwrapOr(t.r, 0), UnwrapOr(t.s, 0),
                      UnwrapOr(t.pqc, NoParts), UnwrapOr(t.pk, NoParts) >>
           w == Encode(t)
<1>1. w.chain = t.chain /\ w.body = t.body /\ w.tail = tail
  BY DEF Encode
<1>2. /\ tail # << >> /\ Len(tail) = 5
      /\ tail[1] = UnwrapOr(t.v, 0) /\ tail[2] = UnwrapOr(t.r, 0)
      /\ tail[3] = UnwrapOr(t.s, 0) /\ tail[4] = UnwrapOr(t.pqc, NoParts)
      /\ tail[5] = UnwrapOr(t.pk, NoParts)
  OBVIOUS
<1> HIDE DEF tail, w
<1>3. DecodePubKey(tail) = IF UnwrapOr(t.pk, NoParts) # NoParts
                           THEN Some(UnwrapOr(t.pk, NoParts)) ELSE None
  BY <1>2 DEF DecodePubKey
<1>4. Decode(w) = [chain |-> t.chain, body |-> t.body,
                   v |-> Some(tail[1]), r |-> Some(tail[2]), s |-> Some(tail[3]),
                   pqc |-> Some(tail[4]), pk |-> DecodePubKey(tail)]
  BY <1>1, <1>2 DEF Decode
<1> QED
  BY <1>2, <1>3, <1>4 DEF Relayed, w

(* A signed transaction arrives as it was sent. *)
LEMMA SignedRelayed ==
  ASSUME NEW t, NEW key, NEW n
  PROVE  Relayed(SignedTx(t, key, n)) = SignedTx(t, key, n)
<1>0. PICK u : u = SignedTx(t, key, n)
  OBVIOUS
<1> DEFINE sig == CompositeSign(key, SignatureHash(t), Binding(PublicKey(key), t.chain), n)
<1>1. u = [chain |-> t.chain, body |-> t.body,
           v |-> Some(PlaceholderV(t.chain)), r |-> Some(0), s |-> Some(0),
           pqc |-> Some(sig), pk |-> Some(PublicKey(key))]
  BY <1>0 DEF SignedTx
<1> HIDE DEF sig
<1>2. /\ u.chain = t.chain /\ u.body = t.body
      /\ u.v = Some(PlaceholderV(t.chain)) /\ u.r = Some(0) /\ u.s = Some(0)
      /\ u.pqc = Some(sig) /\ u.pk = Some(PublicKey(key))
  BY <1>1
<1>3. HasSignature(u)
  BY <1>2 DEF HasSignature, Some, None
<1>4. PublicKey(key) # NoParts
  BY DEF PublicKey, NoParts, Some, None
<1>5. Relayed(u) = [chain |-> t.chain, body |-> t.body,
                    v |-> Some(PlaceholderV(t.chain)), r |-> Some(0), s |-> Some(0),
                    pqc |-> Some(sig), pk |-> Some(PublicKey(key))]
  BY <1>2, <1>3, <1>4, RelayedFields, UnwrapOrSome
<1> QED
  BY <1>0, <1>1, <1>5

---------------------------------------------------------------------------
(* A signed transaction arrives at a peer as it was sent, and the peer     *)
(* recovers its signer (rlp.rs encode and decode, signing.rs               *)
(* recover_sender).                                                        *)
THEOREM Travels == Spec => []SignedTravels
<1>1. IndInv => SignedTravels
  <2> SUFFICES ASSUME IndInv, NEW e \in signed
               PROVE  /\ Relayed(e.tx) = e.tx
                      /\ RecoverSender(Relayed(e.tx)) = Some(DeriveAddress(PublicKey(e.key)))
    BY DEF SignedTravels
  <2>1. PICK n : e.tx = SignedTx(e.tx, e.key, n)
    BY DEF IndInv, SignedForm
  <2> QED
    BY <2>1, SignedRelayed, SignedRecovers
<1> QED
  BY <1>1, Inductive, PTL

---------------------------------------------------------------------------
(* Half-filled envelopes. *)

LEMMA UnsignedRelayed ==
  ASSUME NEW t, ~HasSignature(t)
  PROVE  Relayed(t) = NewTx(t.chain, t.body)
  BY DEF Relayed, Encode, Decode

LEMMA RelayKeepsHash ==
  ASSUME NEW t
  PROVE  SignatureHash(Relayed(t)) = SignatureHash(t)
<1>1. Relayed(t).chain = t.chain /\ Relayed(t).body = t.body
  <2>1. CASE HasSignature(t)
    BY <2>1, RelayedFields
  <2>2. CASE ~HasSignature(t)
    BY <2>2, UnsignedRelayed DEF NewTx
  <2> QED
    BY <2>1, <2>2
<1> QED
  BY <1>1 DEF SignatureHash, Preimage

(* No EIP-155 placeholder is zero, the value that stands for an absent v.  *)
LEMMA NotCanonical ==
  ASSUME NEW t, t.chain \in Nat, t.v = None \/ t.v = Some(0)
  PROVE  ~CanonicalEnvelope(t)
<1>1. PlaceholderV(t.chain) # 0
  BY DEF PlaceholderV
<1> QED
  BY <1>1 DEF CanonicalEnvelope, Some, None

(* Sending recovers what was not recoverable only by writing a zero r or s. *)
LEMMA RelayKeepsRecovery ==
  ASSUME NEW t \in Transactions, t.r # None, t.s # None
  PROVE  RecoverSender(Relayed(t)) = RecoverSender(t)
<1>0. /\ t.chain \in Nat
      /\ t.v \in Option(Nat) /\ t.r \in Option(Nat) /\ t.s \in Option(Nat)
      /\ t.pqc \in Option(SigBytes) /\ t.pk \in Option(KeyBytes)
  BY ChainsAssumption DEF Transactions
<1>1. PICK u : u = Relayed(t)
  OBVIOUS
<1>2. CASE t.v = None
  <2>1. RecoverSender(t) = None
    BY <1>0, <1>2, NotCanonical, RecoverNeither
  <2>2. u.chain = t.chain /\ (u.v = None \/ u.v = Some(0))
    <3>1. CASE HasSignature(t)
      <4>1. UnwrapOr(t.v, 0) = 0
        BY <1>2 DEF UnwrapOr
      <4>2. u.chain = t.chain /\ u.v = Some(UnwrapOr(t.v, 0))
        BY <1>1, <3>1, RelayedFields
      <4> QED
        BY <4>1, <4>2
    <3>2. CASE ~HasSignature(t)
      BY <1>1, <3>2, UnsignedRelayed DEF NewTx
    <3> QED
      BY <3>1, <3>2
  <2>3. RecoverSender(u) = None
    BY <1>0, <2>2, NotCanonical, RecoverNeither
  <2> QED
    BY <1>1, <2>1, <2>3
<1>3. CASE t.v # None
  <2>1. HasSignature(t)
    BY <1>3 DEF HasSignature
  <2>2. PICK v \in t.v, r \in t.r, z \in t.s : TRUE
    BY <1>3 DEF None
  <2>3. t.v = Some(v) /\ t.r = Some(r) /\ t.s = Some(z)
    BY <1>0, <2>2, OptionElement
  <2>4. /\ u.chain = t.chain /\ u.body = t.body
        /\ u.v = t.v /\ u.r = t.r /\ u.s = t.s
        /\ u.pqc = Some(UnwrapOr(t.pqc, NoParts))
        /\ u.pk = IF UnwrapOr(t.pk, NoParts) # NoParts
                  THEN Some(UnwrapOr(t.pk, NoParts)) ELSE None
    BY <1>1, <2>1, <2>3, RelayedFields, UnwrapOrSome
  <2>5. /\ CanonicalEnvelope(u) <=> CanonicalEnvelope(t)
        /\ SignatureHash(u) = SignatureHash(t)
    BY <1>1, <2>4, RelayKeepsHash DEF CanonicalEnvelope
  <2>6. CASE t.pk = None
    <3>1. u.pk = None
      BY <2>4, <2>6 DEF UnwrapOr
    <3> QED
      BY <1>1, <2>6, <3>1, RecoverNeither
  <2>7. CASE t.pqc = None
    <3>1. u.pqc = Some(NoParts)
      BY <2>4, <2>7 DEF UnwrapOr
    <3>2. CASE u.pk = None
      BY <1>1, <2>7, <3>2, RecoverNeither
    <3>3. CASE u.pk # None
      <4>1. PICK pk : u.pk = Some(pk)
        BY <2>4, <3>3
      <4>2. RecoverSender(u) = None
        BY <3>1, <4>1, RecoverBoth, NoPartsNothing
      <4> QED
        BY <1>1, <2>7, <4>2, RecoverNeither
    <3> QED
      BY <3>2, <3>3
  <2>8. CASE t.pk # None /\ t.pqc # None
    <3>1. PICK pk \in t.pk, sig \in t.pqc : TRUE
      BY <2>8 DEF None
    <3>2. t.pk = Some(pk) /\ t.pqc = Some(sig)
      BY <1>0, <3>1, OptionElement
    <3>3. /\ u.pqc = Some(sig)
          /\ u.pk = IF pk # NoParts THEN Some(pk) ELSE None
      BY <2>4, <3>2, UnwrapOrSome
    <3>4. CASE pk = NoParts
      <4>1. RecoverSender(u) = None
        BY <3>3, <3>4, RecoverNeither
      <4>2. RecoverSender(t) = None
        BY <3>2, <3>4, RecoverBoth, NoPartsNothing
      <4> QED
        BY <1>1, <4>1, <4>2
    <3>5. CASE pk # NoParts
      <4>1. u.pk = Some(pk)
        BY <3>3, <3>5
      <4> QED
        BY <1>1, <2>4, <2>5, <3>2, <3>3, <4>1, RecoverBoth
    <3> QED
      BY <3>4, <3>5
  <2> QED
    BY <2>6, <2>7, <2>8
<1> QED
  BY <1>2, <1>3

(* Encoding is lossy for half-filled envelopes, but changes neither the    *)
(* hash to be signed nor a transaction that recovers, and no transaction   *)
(* recovers because of it unless r or s was absent (rlp.rs encode).        *)
THEOREM RelaysSafely == Spec => []RelayKeepsMeaning
<1>1. IndInv => RelayKeepsMeaning
  <2> SUFFICES ASSUME IndInv, NEW s \in Slots
               PROVE  LET t == tx[s]
                      IN  /\ SignatureHash(Relayed(t)) = SignatureHash(t)
                          /\ RecoverSender(t) # None => Relayed(t) = t
                          /\ RecoverSender(Relayed(t)) # RecoverSender(t)
                               => t.r = None \/ t.s = None
    BY DEF RelayKeepsMeaning
  <2>1. tx[s] \in Transactions /\ PartsHeld(tx[s])
    BY DEF IndInv, TypeOK, PartsAreHeld
  <2>2. ASSUME RecoverSender(tx[s]) # None PROVE Relayed(tx[s]) = tx[s]
    <3>1. PICK a \in RecoverSender(tx[s]) : TRUE
      BY <2>2 DEF None
    <3>2. PICK e \in signed : e.tx = tx[s]
      BY <2>1, <3>1, RecoveredOrigin
    <3>3. PICK n : e.tx = SignedTx(e.tx, e.key, n)
      BY DEF IndInv, SignedForm
    <3> QED
      BY <3>2, <3>3, SignedRelayed
  <2> QED
    BY <2>1, <2>2, RelayKeepsHash, RelayKeepsRecovery
<1> QED
  BY <1>1, Inductive, PTL

---------------------------------------------------------------------------
(* TxSigning implements SenderAuth: every call and assignment is a step of *)
(* the abstract specification or leaves its variables alone.               *)

SenderOf(key) == DeriveAddress(PublicKey(key))
FactOf(e) == [sender |-> SenderOf(e.key), chain |-> e.tx.chain, body |-> e.tx.body]
Approved == {FactOf(e) : e \in signed}
Acting == [o \in Objects |-> SignsFor(o)]
Shown == [s \in Slots |-> ProvenFact(tx[s])]

---------------------------------------------------------------------------
(* Facts. *)

LEMMA SenderInjective ==
  ASSUME NEW k, NEW l, SenderOf(k) = SenderOf(l)
  PROVE  k = l
<1>1. PublicKey(k) = PublicKey(l)
  BY DEF SenderOf, DeriveAddress
<1>2. Some(k) = Some(l)
  BY <1>1 DEF PublicKey
<1> QED
  BY <1>2 DEF Some

(* What a transaction that no key signed proves: nothing. *)
LEMMA NewTxProves ==
  ASSUME NEW c, NEW b
  PROVE  ProvenFact(NewTx(c, b)) = {}
<1>1. RecoverSender(NewTx(c, b)) = None
  <2>1. PICK u : u = NewTx(c, b)
    OBVIOUS
  <2>2. u.pk = None
    BY <2>1 DEF NewTx
  <2> QED
    BY <2>1, <2>2, RecoverNeither
<1> QED
  BY <1>1 DEF ProvenFact, None

(* What a transaction that a key has just signed proves. *)
LEMMA SignedTxProves ==
  ASSUME NEW t, NEW key, NEW n
  PROVE  ProvenFact(SignedTx(t, key, n))
           = {[sender |-> SenderOf(key), chain |-> t.chain, body |-> t.body]}
<1>1. PICK u : u = SignedTx(t, key, n)
  OBVIOUS
<1>2. u.chain = t.chain /\ u.body = t.body
  BY <1>1, SignedTxFields
<1>3. RecoverSender(u) = {SenderOf(key)}
  BY <1>1, SignedRecovers DEF Some, SenderOf
<1> QED
  BY <1>1, <1>2, <1>3 DEF ProvenFact

(* Whatever is in a slot proves one approved fact, or none. *)
LEMMA SlotProvesApproved ==
  ASSUME IndInv, NEW t \in Transactions, PartsHeld(t)
  PROVE  ProvenFact(t) = {} \/ \E f \in Approved : ProvenFact(t) = {f}
<1>1. CASE RecoverSender(t) = None
  BY <1>1 DEF ProvenFact, None
<1>2. CASE RecoverSender(t) # None
  <2>1. PICK a \in RecoverSender(t) : TRUE
    BY <1>2 DEF None
  <2>2. PICK e \in signed : e.tx = t
    BY <2>1, RecoveredOrigin
  <2>3. PICK n : e.tx = SignedTx(e.tx, e.key, n)
    BY DEF IndInv, SignedForm
  <2>4. ProvenFact(t) = {FactOf(e)}
    BY <2>2, <2>3, SignedTxProves DEF FactOf
  <2>5. FactOf(e) \in Approved
    BY DEF Approved
  <2> QED
    BY <2>4, <2>5
<1> QED
  BY <1>1, <1>2

---------------------------------------------------------------------------
(* The steps. *)

(* What Acting says of each object. *)
LEMMA ActingIs ==
  ASSUME NEW o \in Objects
  PROVE  /\ o \in zeroized => SignsFor(o) = {}
         /\ pair[o] = None => SignsFor(o) = {}
         /\ \A key : o \notin zeroized /\ pair[o] = Some(key)
                       => SignsFor(o) = {SenderOf(key)}
<1>1. o \in zeroized => SignsFor(o) = {}
  BY DEF SignsFor, None
<1>2. pair[o] = None => SignsFor(o) = {}
  BY DEF SignsFor, None
<1>3. ASSUME NEW key, o \notin zeroized, pair[o] = Some(key)
      PROVE  SignsFor(o) = {SenderOf(key)}
  BY <1>3 DEF SignsFor, Some, SenderOf
<1> QED
  BY <1>1, <1>2, <1>3

LEMMA StutterImplements ==
  ASSUME UNCHANGED << tx, signed, pair, zeroized >>
  PROVE  UNCHANGED Auth!vars
<1>1. Approved' = Approved /\ Acting' = Acting
  BY DEF Approved, Acting, SignsFor
<1>2. Shown' = Shown
  BY DEF Shown
<1> QED
  BY <1>1, <1>2 DEF Auth!vars, Approved, Acting, Shown, FactOf, SenderOf

LEMMA SignTransactionImplements ==
  ASSUME IndInv, NEW o \in Objects, NEW s \in Slots, SignTransaction(o, s)
  PROVE  (\E f \in Auth!Facts : Auth!Approve(f, o, s)) \/ UNCHANGED Auth!vars
<1>0. PICK key \in Keys :
         /\ pair[o] = Some(key)
         /\ UNCHANGED << pair, zeroized >>
         /\ \/ UNCHANGED << tx, signed >>
            \/ /\ o \notin zeroized
               /\ tx' = [tx EXCEPT ![s] = SignedTx(tx[s], key, calls)]
               /\ signed' = signed \cup {[key |-> key, tx |-> SignedTx(tx[s], key, calls)]}
  BY SignTransactionEffect DEF IndInv
<1>1. CASE UNCHANGED << tx, signed >>
  BY <1>0, <1>1, StutterImplements
<1>2. CASE /\ o \notin zeroized
           /\ tx' = [tx EXCEPT ![s] = SignedTx(tx[s], key, calls)]
           /\ signed' = signed \cup {[key |-> key, tx |-> SignedTx(tx[s], key, calls)]}
  <2>1. PICK u : u = SignedTx(tx[s], key, calls)
    OBVIOUS
  <2>2. PICK e : e = [key |-> key, tx |-> u]
    OBVIOUS
  <2>3. PICK f : f = [sender |-> SenderOf(key), chain |-> tx[s].chain, body |-> tx[s].body]
    OBVIOUS
  <2>4. /\ tx' = [tx EXCEPT ![s] = u]
        /\ signed' = signed \cup {e}
    BY <1>2, <2>1, <2>2
  <2>5. /\ u.chain = tx[s].chain /\ u.body = tx[s].body
        /\ ProvenFact(u) = {f}
    BY <2>1, <2>3, SignedTxFields, SignedTxProves
  <2>6. FactOf(e) = f
    BY <2>2, <2>3, <2>5 DEF FactOf
  <2>7. Approved' = Approved \cup {f}
    BY <2>4, <2>6 DEF Approved
  <2>8. Acting[o] = {f.sender}
    BY <1>0, <1>2, <2>3, ActingIs DEF Acting
  <2>9. Acting' = Acting
    BY <1>0 DEF Acting, SignsFor
  <2>10. Shown' = [Shown EXCEPT ![s] = {f}]
    <3>1. ASSUME NEW z \in Slots
          PROVE  tx'[z] = IF z = s THEN u ELSE tx[z]
      BY <2>4 DEF IndInv, TypeOK
    <3> QED
      BY <2>5, <3>1 DEF Shown
  <2>11. f \in Auth!Facts
    <3>1. tx[s].chain \in Chains /\ tx[s].body \in Bodies
      BY DEF IndInv, TypeOK, Transactions
    <3> QED
      BY <2>3, <3>1 DEF Auth!Facts, SenderOf
  <2>12. Auth!Approve(f, o, s)
    BY <2>7, <2>8, <2>9, <2>10
    DEF Auth!Approve, Approved, Acting, Shown, FactOf, SenderOf
  <2> QED
    BY <2>11, <2>12
<1> QED
  BY <1>0, <1>1, <1>2

(* A step on the objects that leaves every object but one as it was makes  *)
(* that one act for somebody or for nobody.                                *)
LEMMA OneObjectImplements ==
  ASSUME UNCHANGED << tx, signed >>, NEW o \in Objects,
         \A z \in Objects \ {o} : SignsFor(z)' = SignsFor(z),
         SignsFor(o)' = {} \/ \E key \in Keys : SignsFor(o)' = {SenderOf(key)}
  PROVE  Auth!Next
<1>1. Approved' = Approved /\ Shown' = Shown
  BY DEF Approved, Shown
<1>2. PICK x : x = SignsFor(o)'
  OBVIOUS
<1>3. Acting' = [Acting EXCEPT ![o] = x]
  <2>1. Acting' = [z \in Objects |-> SignsFor(z)']
    BY DEF Acting
  <2>2. \A z \in Objects : SignsFor(z)' = IF z = o THEN x ELSE SignsFor(z)
    BY <1>2
  <2> QED
    BY <2>1, <2>2 DEF Acting
<1>4. CASE x = {}
  <2>1. Auth!Dismiss(o)
    BY <1>1, <1>3, <1>4 DEF Auth!Dismiss, Approved, Acting, Shown, FactOf, SenderOf
  <2> QED
    BY <2>1 DEF Auth!Next
<1>5. CASE \E key \in Keys : x = {SenderOf(key)}
  <2>1. PICK key \in Keys : x = {SenderOf(key)}
    BY <1>5
  <2>2. Auth!Appoint(o, SenderOf(key))
    BY <1>1, <1>3, <2>1 DEF Auth!Appoint, Approved, Acting, Shown, FactOf, SenderOf
  <2>3. SenderOf(key) \in {DeriveAddress(PublicKey(k)) : k \in Keys}
    BY DEF SenderOf
  <2> QED
    BY <2>2, <2>3 DEF Auth!Next
<1> QED
  BY <1>2, <1>4, <1>5

LEMMA GenerateImplements ==
  ASSUME IndInv, NEW o \in Objects, NEW key \in Keys, GenerateKey(o, key)
  PROVE  Auth!Next
<1>1. /\ UNCHANGED << tx, signed >>
      /\ pair' = [pair EXCEPT ![o] = Some(key)]
      /\ zeroized' = zeroized \ {o}
  BY DEF GenerateKey
<1>2. \A z \in Objects : pair'[z] = IF z = o THEN Some(key) ELSE pair[z]
  BY <1>1 DEF IndInv, TypeOK
<1>3. \A z \in Objects \ {o} : SignsFor(z)' = SignsFor(z)
  BY <1>1, <1>2 DEF SignsFor
<1>4. SignsFor(o)' = {SenderOf(key)}
  BY <1>1, <1>2 DEF SignsFor, SenderOf, Some
<1> QED
  BY <1>1, <1>3, <1>4, OneObjectImplements

LEMMA CloneImplements ==
  ASSUME IndInv, NEW o \in Objects, NEW q \in Objects, CloneKey(o, q)
  PROVE  Auth!Next
<1>1. /\ UNCHANGED << tx, signed >>
      /\ pair' = [pair EXCEPT ![q] = pair[o]]
      /\ zeroized' = IF o \in zeroized THEN zeroized \cup {q} ELSE zeroized \ {q}
  BY DEF CloneKey
<1>2. \A z \in Objects : pair'[z] = IF z = q THEN pair[o] ELSE pair[z]
  BY <1>1 DEF IndInv, TypeOK
<1>3. \A z \in Objects \ {q} : SignsFor(z)' = SignsFor(z)
  BY <1>1, <1>2 DEF SignsFor
<1>4. SignsFor(q)' = SignsFor(o)
  BY <1>1, <1>2 DEF SignsFor
<1>5. SignsFor(o) = {} \/ \E key \in Keys : SignsFor(o) = {SenderOf(key)}
  <2>1. CASE o \in zeroized \/ pair[o] = None
    BY <2>1, ActingIs
  <2>2. CASE o \notin zeroized /\ pair[o] # None
    <3>1. PICK key \in pair[o] : TRUE
      BY <2>2 DEF None
    <3>2. key \in Keys /\ pair[o] = Some(key)
      BY <3>1, PairOfObject DEF IndInv
    <3> QED
      BY <2>2, <3>2, ActingIs
  <2> QED
    BY <2>1, <2>2
<1> QED
  BY <1>1, <1>3, <1>4, <1>5, OneObjectImplements

LEMMA ZeroizeImplements ==
  ASSUME NEW o \in Objects, ZeroizeKey(o)
  PROVE  Auth!Next
<1>1. UNCHANGED << tx, pair, signed >> /\ zeroized' = zeroized \cup {o}
  BY DEF ZeroizeKey
<1>2. \A z \in Objects \ {o} : SignsFor(z)' = SignsFor(z)
  BY <1>1 DEF SignsFor
<1>3. SignsFor(o)' = {}
  BY <1>1 DEF SignsFor, None
<1> QED
  BY <1>1, <1>2, <1>3, OneObjectImplements

(* A step that gives one slot another content and signs nothing. *)
LEMMA RewriteImplements ==
  ASSUME IndInv, IndInv', UNCHANGED << signed, messages, pair, zeroized >>,
         NEW s \in Slots, NEW t, tx' = [tx EXCEPT ![s] = t]
  PROVE  Auth!Present(s)
<1>1. HeldDil' = HeldDil /\ HeldP521' = HeldP521 /\ HeldEd448' = HeldEd448
  BY DEF HeldDil, HeldP521, HeldEd448, Composites
<1>2. ASSUME NEW z \in Slots PROVE tx'[z] = IF z = s THEN t ELSE tx[z]
  BY DEF IndInv, TypeOK
<1>3. t \in Transactions /\ PartsHeld(t)
  <2>1. tx'[s] = t
    BY <1>2
  <2>2. tx'[s] \in Transactions /\ PartsHeld(tx[s])'
    BY DEF IndInv, TypeOK, PartsAreHeld
  <2> QED
    BY <1>1, <2>1, <2>2 DEF PartsHeld
<1>4. PICK o : o = ProvenFact(t)
  OBVIOUS
<1>5. o = {} \/ \E f \in Approved : o = {f}
  BY <1>3, <1>4, SlotProvesApproved
<1>6. Shown' = [Shown EXCEPT ![s] = o]
  <2>1. Shown' = [z \in Slots |-> ProvenFact(tx'[z])]
    BY DEF Shown
  <2>2. ASSUME NEW z \in Slots
        PROVE  ProvenFact(tx'[z]) = IF z = s THEN o ELSE ProvenFact(tx[z])
    BY <1>2, <1>4
  <2>3. Shown' = [z \in Slots |-> IF z = s THEN o ELSE ProvenFact(tx[z])]
    BY <2>1, <2>2
  <2> QED
    BY <2>3 DEF Shown
<1>7. Approved' = Approved /\ Acting' = Acting
  BY DEF Approved, Acting, SignsFor
<1>8. o \in Auth!AtMostOne(Approved)
  BY <1>5 DEF Auth!AtMostOne
<1> QED
  BY <1>6, <1>7, <1>8
  DEF Auth!Present, Approved, Acting, Shown, FactOf, SenderOf

(* Every assignment of a caller writes one slot and nothing else. *)
LEMMA EditsRewrite ==
  ASSUME NEW s \in Slots,
         EditTerms(s) \/ EditPlaceholders(s) \/ EditPubKey(s) \/ EditSignature(s)
  PROVE  /\ UNCHANGED << signed, messages, pair, zeroized >>
         /\ \E t : tx' = [tx EXCEPT ![s] = t]
<1>1. \E t : Assign(s, t)
  <2>1. CASE EditTerms(s)
    BY <2>1 DEF EditTerms
  <2>2. CASE EditPlaceholders(s)
    BY <2>2 DEF EditPlaceholders
  <2>3. CASE EditPubKey(s)
    BY <2>3 DEF EditPubKey
  <2>4. CASE EditSignature(s)
    BY <2>4 DEF EditSignature
  <2> QED
    BY <2>1, <2>2, <2>3, <2>4
<1> QED
  BY <1>1 DEF Assign

---------------------------------------------------------------------------
(* Signing and recovery implement SenderAuth: a transaction proves only    *)
(* what an object holding the sender's secrets signed, and zeroizing takes *)
(* the power to sign from one object and from no other (signing.rs         *)
(* sign_transaction and recover_sender, crypto.rs generate, clone and      *)
(* zeroize).                                                               *)
THEOREM Implements == Spec => AuthSpec
<1>1. Init => Auth!Init
  <2> SUFFICES ASSUME Init PROVE Auth!Init
    OBVIOUS
  <2>1. Approved = {} /\ Acting = [o \in Objects |-> {}]
    <3>1. ASSUME NEW o \in Objects PROVE SignsFor(o) = {}
      BY ActingIs DEF Init
    <3> QED
      BY <3>1 DEF Init, Approved, Acting
  <2>2. ASSUME NEW s \in Slots PROVE ProvenFact(tx[s]) = {}
    BY NewTxProves DEF Init
  <2>3. Shown = [s \in Slots |-> {}]
    BY <2>2 DEF Shown
  <2> QED
    BY <2>1, <2>3 DEF Auth!Init, Approved, Acting, Shown, FactOf, SenderOf
<1>2. IndInv /\ IndInv' /\ [Next]_vars => [Auth!Next]_(Auth!vars)
  <2> SUFFICES ASSUME IndInv, IndInv', [Next]_vars
               PROVE  Auth!Next \/ UNCHANGED Auth!vars
    OBVIOUS
  <2>1. ASSUME NEW o \in Objects, NEW s \in Slots, SignTransaction(o, s)
        PROVE  Auth!Next \/ UNCHANGED Auth!vars
    BY <2>1, SignTransactionImplements DEF Auth!Next
  <2>2. ASSUME UNCHANGED << tx, signed, pair, zeroized >>
        PROVE  UNCHANGED Auth!vars
    BY <2>2, StutterImplements
  <2>3. ASSUME NEW o \in Objects, NEW m \in Messages, SignMessage(o, m)
        PROVE  UNCHANGED Auth!vars
    BY <2>2, <2>3 DEF SignMessage
  <2>4. ASSUME NEW o \in Objects,
               \/ \E key \in Keys : GenerateKey(o, key)
               \/ \E q \in Objects : CloneKey(o, q)
               \/ ZeroizeKey(o)
        PROVE  Auth!Next
    BY <2>4, GenerateImplements, CloneImplements, ZeroizeImplements
  <2>5. ASSUME NEW s \in Slots,
               EditTerms(s) \/ EditPlaceholders(s) \/ EditPubKey(s) \/ EditSignature(s)
        PROVE  Auth!Next
    <3>1. Auth!Present(s)
      BY <2>5, EditsRewrite, RewriteImplements
    <3> QED
      BY <3>1 DEF Auth!Next
  <2>6. ASSUME NEW s \in Slots, NEW d \in Slots, Relay(s, d)
        PROVE  Auth!Next
    <3>1. /\ tx' = [tx EXCEPT ![d] = Relayed(tx[s])]
          /\ UNCHANGED << signed, messages, pair, zeroized >>
      BY <2>6 DEF Relay
    <3>2. PICK t : t = Relayed(tx[s])
      OBVIOUS
    <3>3. Auth!Present(d)
      BY <3>1, <3>2, RewriteImplements
    <3> QED
      BY <3>3 DEF Auth!Next
  <2>7. CASE UNCHANGED vars
    BY <2>2, <2>7 DEF vars
  <2> QED
    BY <2>1, <2>3, <2>4, <2>5, <2>6, <2>7 DEF Next
<1> QED
  BY <1>1, <1>2, Inductive, PTL DEF Spec, AuthSpec, Auth!Spec
===================================================================================
