------------------------------- MODULE MCTxStream --------------------------------
(* A small instance of TxStream for TLC: see README.md for the bounds.     *)
EXTENDS TxStream, TLC

Call == << "small", "empty", "word", "empty", "small", "addr", "small", "long" >>
Create == << "empty", "small", "empty", "addr", "empty", "empty", "word", "empty" >>

\* Unsigned; signed; half filled, with an empty public key.
MCTxs == {Tx(Call, None, None, None, None, None),
          Tx(Create, Some("small"), Some("empty"), Some("empty"), Some("long"), Some("long")),
          Tx(Create, None, Some("small"), None, Some("long"), Some("empty"))}
=================================================================================
