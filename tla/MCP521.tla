---------------------------------- MODULE MCP521 ----------------------------------
(* A small instance of P521 for TLC: see README.md for the curve.          *)
EXTENDS P521, FiniteSets, TLC

\* The generator spans the curve: it has no cofactor.
ASSUME NoCofactor == Cardinality(CurvePoints) = Order

MCGenerator == << 1, 6 >>
=================================================================================
