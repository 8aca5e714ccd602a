----------------------------- MODULE MCSchemeDispatch ----------------------------
(* A small instance of SchemeDispatch for TLC: see README.md.              *)
EXTENDS SchemeDispatch, TLC

MCAppContexts == {"app"}
MCLongContexts == {"256 bytes"}

\* A library that decodes R by the letter of the encoding only.
MCLibraryForms == {"as signed", "R of small order"}

Plain(m) == [of |-> m, depth |-> 0]
MCMessages == {Plain("m1"), Plain("m2"), Ed448!Prehash(Plain("m1"))}

MCSeedScalar == << 2, 1 >>

\* Zero and the order of P-521 are numbers a caller may hold; the second does
\* not fit into fewer bytes.
MCSecretStrings ==
    [size : {32, 57, 66}, value : {1}] \cup [size : {66}, value : {0, Order}]

MCPublicStrings ==
    UNION {[size : {57, 67, 133, 2592}, value : [of : {s, "no point"}, secret : {1}]] :
               s \in Schemes}
=================================================================================
