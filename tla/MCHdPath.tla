--------------------------------- MODULE MCHdPath ---------------------------------
(* A small instance of HdPathTexts for TLC: see README.md.                 *)
EXTENDS HdPathTexts, TLC

\* One character of each kind: root, separator, digits, mark, sign, space, other.
MCCharacters == {"m", "/", "0", "1", "'", "+", " ", "x"}
=================================================================================
