------------------------------- MODULE MCTxSigning -------------------------------
(* A small instance of TxSigning for TLC: see README.md for the bounds.    *)
EXTENDS TxSigning, TLC

CONSTANT plain

\* Messages chosen to pass for transactions, and one that could not.
MCPreimages == {Preimage(NewTx(c, body)) : c \in Chains, body \in Bodies}
MCMessages == {plain} \cup MCPreimages

Symmetric == Permutations(Keys) \cup Permutations(Objects) \cup Permutations(Slots)
=================================================================================
