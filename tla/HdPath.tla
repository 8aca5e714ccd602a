---------------------------------- MODULE HdPath ----------------------------------
(***************************************************************************)
(* The text of a derivation path and the indices read from it:             *)
(* parse_hardened_path of hdwallet/derivation.rs, and the path texts that  *)
(* api.rs and wasm.rs write.  A text is a sequence of characters.  Numbers *)
(* are written in base Radix and hardened by HardenedBit (10 and 2^31 in   *)
(* the code): a u32 is below twice that.                                   *)
(***************************************************************************)
EXTENDS Naturals, Sequences, SequencesExt, Options

CONSTANTS Radix,
          HardenedBit

ASSUME HardenedBitAssumption == HardenedBit \in Nat \ {0}
ASSUME RadixAssumption == Radix \in 2 .. 10

U32 == 0 .. 2 * HardenedBit - 1

DigitSymbols == << "0", "1", "2", "3", "4", "5", "6", "7", "8", "9" >>
Digits == {DigitSymbols[d + 1] : d \in 0 .. Radix - 1}
ValueOf == [c \in Digits |-> CHOOSE d \in 0 .. Radix - 1 : DigitSymbols[d + 1] = c]

Marks == {"'", "h", "H"}

---------------------------------------------------------------------------
(* What Rust's str methods do. *)

\* trim
Trim(s) ==
    LET solid == {i \in DOMAIN s : s[i] # " "}
    IN  IF solid = {} THEN << >> ELSE SubSeq(s, Min(solid), Max(solid))

\* trim_start_matches("m/")
TrimStartRoot(s) ==
    LET roots == {k \in 0 .. Len(s) \div 2 :
                      \A i \in 1 .. k : s[2 * i - 1] = "m" /\ s[2 * i] = "/"}
    IN  SubSeq(s, 2 * Max(roots) + 1, Len(s))

\* trim_end_matches(['\'', 'h', 'H'])
TrimEndMarks(s) == SubSeq(s, 1, Max({0} \cup {i \in DOMAIN s : s[i] \notin Marks}))

\* Mutant of Split: a separator that ends an empty part is skipped.
Split_SkipsEmpty(s) ==
    LET parts[n \in 0 .. Len(s)] ==
            IF n = 0 THEN << << >> >>
            ELSE LET before == parts[n - 1]
                 IN  IF s[n] = "/"
                     THEN IF Last(before) = << >> THEN before ELSE Append(before, << >>)
                     ELSE [before EXCEPT ![Len(before)] = Append(@, s[n])]
    IN  parts[Len(s)]

\* split('/'): one part more than there are separators.
Split(s) ==
    LET parts[n \in 0 .. Len(s)] ==
            IF n = 0 THEN << << >> >>
            ELSE LET before == parts[n - 1]
                 IN  IF s[n] = "/" THEN Append(before, << >>)
                     ELSE [before EXCEPT ![Len(before)] = Append(@, s[n])]
    IN  parts[Len(s)]

\* The number that digits are, from the most significant one.
NumberOf(digits) ==
    LET number[n \in 0 .. Len(digits)] ==
            IF n = 0 THEN 0 ELSE Radix * number[n - 1] + ValueOf[digits[n]]
    IN  number[Len(digits)]

\* parse::<u32>: a plus sign may stand in front, and zeros may.
ParseU32(s) ==
    LET digits == IF s # << >> /\ s[1] = "+" THEN Tail(s) ELSE s
    IN  IF digits # << >> /\ ToSet(digits) \subseteq Digits /\ NumberOf(digits) \in U32
        THEN Some(NumberOf(digits))
        ELSE None

---------------------------------------------------------------------------
(* parse_hardened_path *)

\* Mutant of Harden: an index that is hardened already is accepted.
Harden_Masks(number) == Some((number % HardenedBit) + HardenedBit)

\* The index that a number stands for.
Harden(number) == IF number < HardenedBit THEN Some(number + HardenedBit) ELSE None

\* Mutant of ParseIndex: the marks are not stripped.
ParseIndex_MarkedOnly(part) == UNION {Harden(number) : number \in ParseU32(part)}

ParseIndex(part) == UNION {Harden(number) : number \in ParseU32(TrimEndMarks(part))}

\* The first part that is no index makes it an error; so does an empty text.
ParseHardenedPath(text) ==
    LET parts == Split(TrimStartRoot(Trim(text)))
    IN  IF \A k \in DOMAIN parts : ParseIndex(parts[k]) # None
        THEN Some([k \in DOMAIN parts |-> CHOOSE i \in ParseIndex(parts[k]) : TRUE])
        ELSE None

---------------------------------------------------------------------------
(* The paths api.rs and wasm.rs write: m/44'/60'/0'/0'/{index}'. *)

\* Display of a u32.
Decimal[n \in U32] ==
    IF n < Radix THEN << DigitSymbols[n + 1] >>
    ELSE Append(Decimal[n \div Radix], DigitSymbols[(n % Radix) + 1])

FormatPath(numbers) ==
    LET text[k \in 0 .. Len(numbers)] ==
            IF k = 0 THEN << "m" >>
            ELSE text[k - 1] \o << "/" >> \o Decimal[numbers[k]] \o << "'" >>
    IN  text[Len(numbers)]
=================================================================================
