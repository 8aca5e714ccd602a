--------------------------------- MODULE Options ---------------------------------
(***************************************************************************)
(* Rust's Option<T>, and Result<T, E> where which error it is does not     *)
(* matter: the empty set, or a singleton.                                  *)
(***************************************************************************)

None == {}
Some(x) == {x}
Option(S) == {o \in SUBSET S : \A x, y \in o : x = y}

\* Option::unwrap_or
UnwrapOr(o, default) == IF o = None THEN default ELSE CHOOSE x \in o : TRUE
=================================================================================
