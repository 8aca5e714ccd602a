---------------------------------- MODULE MCEd448 ----------------------------------
(* A small instance of Ed448 for TLC: see README.md for the curve.         *)
EXTENDS Ed448, TLC

\* 23 = 3^3 - 3 - 1, in base 3.
MCFieldPrimeLE == << 2, 1, 2 >>

MCGenerator == CHOOSE p \in Points :
    /\ p # Identity
    /\ Add(ScalarMul(L - 1, p), p) = Identity

MCScalarValues == 0 .. 2 * L
====================================================================================
