-------------------------------- MODULE HdPathTexts -------------------------------
(***************************************************************************)
(* Every text up to a length, typed character by character, and what       *)
(* parse_hardened_path of hdwallet/derivation.rs makes of it: compared     *)
(* with the grammar that its comment gives and with what derive_child_seed *)
(* takes.                                                                  *)
(***************************************************************************)
EXTENDS HdPath

CONSTANTS Characters,   \* of the texts
          MaxLength     \* bound: characters in a text

ASSUME MaxLengthAssumption == MaxLength \in Nat

VARIABLE text

TextInit == text = << >>

Type(c) == Len(text) < MaxLength /\ text' = Append(text, c)

TextNext == \E c \in Characters : Type(c)

TextSpec == TextInit /\ [][TextNext]_text

---------------------------------------------------------------------------
(* The grammar of the comment: an optional m/, then numbers with at most   *)
(* one mark each, with a slash between them.                               *)

WithoutRoot(s) == IF Len(s) >= 2 /\ SubSeq(s, 1, 2) = << "m", "/" >> THEN SubSeq(s, 3, Len(s)) ELSE s

Documented(s) ==
    LET body == WithoutRoot(s)
        n == Len(body)
    IN  /\ n > 0 /\ body[1] \in Digits /\ body[n] # "/"
        /\ \A i \in 1 .. n : body[i] \in Digits \cup Marks \cup {"/"}
        /\ \A i \in 1 .. n - 1 : body[i] = "/" => body[i + 1] \in Digits
        /\ \A i \in 1 .. n - 1 : body[i] \in Marks => body[i + 1] = "/"

\* The numbers of such a text, read from left to right.
NumbersIn(body) ==
    LET numbers[n \in 0 .. Len(body)] ==
            IF n = 0 THEN << 0 >>
            ELSE LET before == numbers[n - 1]
                 IN  IF body[n] = "/" THEN Append(before, 0)
                     ELSE IF body[n] \in Marks THEN before
                     ELSE [before EXCEPT ![Len(before)] = Radix * @ + ValueOf[body[n]]]
    IN  numbers[Len(body)]

Numbers(s) == NumbersIn(WithoutRoot(s))

\* What the parser skips: spaces, plus signs, marks and the letter of a root.
Skipped == {" ", "+", "m"} \cup Marks

Kept(s) == FlattenSeq([i \in DOMAIN s |-> IF s[i] \in Skipped THEN << >> ELSE << s[i] >>])

\* The text without what is skipped, and without the slashes of the roots.
Plain(s) ==
    LET kept == Kept(s)
        first == {i \in DOMAIN kept : kept[i] # "/"}
    IN  IF first = {} THEN << >> ELSE SubSeq(kept, Min(first), Len(kept))

---------------------------------------------------------------------------
(* Properties. *)

(* A text of the documented grammar is read as its numbers, each of them   *)
(* hardened, and is an error exactly when one of them does not fit into 31 *)
(* bits (parse_hardened_path).                                             *)
ReadAsDocumented ==
    Documented(text) =>
        ParseHardenedPath(text) =
            IF \A k \in DOMAIN Numbers(text) : Numbers(text)[k] < HardenedBit
            THEN Some([k \in DOMAIN Numbers(text) |-> Numbers(text)[k] + HardenedBit])
            ELSE None

(* What is accepted beyond the grammar is a documented text with           *)
(* decorations: no digit and no separator of it is lost, and nothing that  *)
(* is no number is skipped (trim_start_matches, trim_end_matches, split    *)
(* and parse of parse_hardened_path).                                      *)
AcceptedIsDecorated ==
    ParseHardenedPath(text) # None =>
        /\ Documented(Plain(text))
        /\ ParseHardenedPath(Plain(text)) = ParseHardenedPath(text)

(* An accepted path is one that derive_child_seed does not refuse, and the *)
(* text that the wallets would write for it is read as the same path       *)
(* (parse_hardened_path, from_mnemonic_at).                                *)
AcceptedDerives ==
    \A path \in ParseHardenedPath(text) :
        /\ path # << >>
        /\ \A k \in DOMAIN path : path[k] \in U32 /\ path[k] >= HardenedBit
        /\ ParseHardenedPath(FormatPath([k \in DOMAIN path |-> path[k] - HardenedBit]))
               = Some(path)
=================================================================================
