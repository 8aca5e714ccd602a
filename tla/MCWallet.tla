--------------------------------- MODULE MCWallet --------------------------------
(* A small instance of WalletSigning for TLC: see README.md for the bounds. *)
EXTENDS WalletSigning, TLC

MCChains == {1, 7}

\* The words as create_wallet writes them, with more spaces, as 12 words, with
\* one word that is in no list, and with a wrong checksum.
Typed(words) ==
    LET canonical == Canonical(words)
    IN  {canonical, [canonical EXCEPT !.spaced = TRUE], [canonical EXCEPT !.count = 12],
         [canonical EXCEPT !.known = FALSE], [canonical EXCEPT !.checksum = FALSE]}

MCTypedPhrases == UNION {Typed(words) : words \in Words}
=================================================================================
