-------------------------------- MODULE HdPath_proofs ------------------------------
(***************************************************************************)
(* Proofs about HdPath and HdPathTexts: what Split, NumberOf, Decimal and  *)
(* FormatPath compute for every text and every number; that                *)
(* parse_hardened_path of hdwallet/derivation.rs reads the texts that the  *)
(* wallets write; how it reads the documented grammar, and what it accepts *)
(* beyond it, for texts of any characters and length.                      *)
(***************************************************************************)
EXTENDS HdPathTexts, BasicLemmas

---------------------------------------------------------------------------
(* Split.                                                                  *)

\* The parts, with a character more.
Put(parts, c) == IF c = "/" THEN Append(parts, << >>)
                 ELSE [parts EXCEPT ![Len(parts)] = Append(@, c)]

\* The recursive function of Split.
PartsTo(s) ==
    CHOOSE f : f = [n \in 0 .. Len(s) |->
                       IF n = 0 THEN << << >> >>
                       ELSE IF s[n] = "/" THEN Append(f[n - 1], << >>)
                            ELSE [f[n - 1] EXCEPT ![Len(f[n - 1])] = Append(@, s[n])]]

\* Split is the last value of its recursive function.
LEMMA SplitDef == \A s : Split(s) = PartsTo(s)[Len(s)]
BY DEF Split, PartsTo

\* A character more leaves parts, one or more.
LEMMA PutType ==
    ASSUME NEW S, NEW parts \in Seq(Seq(S)) \ {<< >>}, NEW c \in S
    PROVE  Put(parts, c) \in Seq(Seq(S)) \ {<< >>}
<1>1. CASE c = "/"
  <2>1. << >> \in Seq(S)
    BY EmptySeq
  <2>2. Append(parts, << >>) \in Seq(Seq(S)) /\ Append(parts, << >>) # << >>
    BY <2>1, AppendProperties
  <2>3. QED BY <1>1, <2>2 DEF Put
<1>2. CASE c # "/"
  <2> DEFINE last == Append(parts[Len(parts)], c)
             new == [parts EXCEPT ![Len(parts)] = last]
  <2>1. Len(parts) \in 1 .. Len(parts) /\ Len(parts) \in Nat
    BY LenProperties, EmptySeq
  <2>2. last \in Seq(S)
    BY <2>1, ElementOfSeq, AppendProperties
  <2>3. new \in Seq(Seq(S)) /\ Len(new) = Len(parts)
    BY <2>1, <2>2, ExceptSeq
  <2>4. new # << >>
    BY <2>1, <2>3, EmptySeq
  <2>5. QED BY <1>2, <2>3, <2>4 DEF Put
<1>3. QED BY <1>1, <1>2

\* The recursive function exists, and satisfies its equation.
LEMMA PartsToProperty ==
    ASSUME NEW S, NEW s \in Seq(S)
    PROVE  /\ \A n \in 0 .. Len(s) : PartsTo(s)[n] \in Seq(Seq(S)) \ {<< >>}
           /\ PartsTo(s)[0] = << << >> >>
           /\ \A n \in 1 .. Len(s) : PartsTo(s)[n] = Put(PartsTo(s)[n - 1], s[n])
<1> DEFINE V == Seq(Seq(S)) \ {<< >>}
           N == Len(s)
           start == << << >> >>
           G == [n \in 1 .. N |-> [x \in V |-> Put(x, s[n])]]
<1>1. N \in Nat /\ start \in V
  <2>1. << >> \in Seq(S)
    BY EmptySeq
  <2>2. QED BY <2>1, LenProperties
<1>2. \A n \in 1 .. N : s[n] \in S
  BY ElementOfSeq
<1>3. G \in [1 .. N -> [V -> V]]
  <2>1. \A n \in 1 .. N, x \in V : Put(x, s[n]) \in V
    BY <1>2, PutType
  <2> HIDE DEF V
  <2>2. QED BY <2>1
<1>4. PICK f \in [0 .. N -> V] : f[0] = start /\ \A n \in 1 .. N : f[n] = G[n][f[n - 1]]
  <2> HIDE DEF V, N, G, start
  <2> QED BY <1>1, <1>3, RecursionExists
<1> DEFINE Step(g, n) == IF n = 0 THEN << << >> >>
                         ELSE IF s[n] = "/" THEN Append(g[n - 1], << >>)
                              ELSE [g[n - 1] EXCEPT ![Len(g[n - 1])] = Append(@, s[n])]
<1>5. \A g : \A n \in 0 .. N : Step(g, n) = IF n = 0 THEN start ELSE Put(g[n - 1], s[n])
  BY DEF Put
<1>6. \A n \in 0 .. N : f[n] = Step(f, n)
  <2>1. TAKE n \in 0 .. N
  <2> HIDE DEF V
  <2>2. n # 0 => n \in 1 .. N /\ f[n - 1] \in V
    BY <1>1
  <2>3. n # 0 => f[n] = Put(f[n - 1], s[n])
    BY <1>4, <2>2
  <2> HIDE DEF start, Step
  <2>4. QED BY <1>4, <1>5, <2>3
<1>7. f = [n \in 0 .. N |-> Step(f, n)]
  <2> HIDE DEF V, Step
  <2> QED BY <1>6
<1>8. PartsTo(s) = [n \in 0 .. N |-> Step(PartsTo(s), n)]
  BY <1>7 DEF PartsTo
<1> DEFINE h == PartsTo(s)
<1> HIDE DEF h, Step
<1>9. \A n \in 0 .. N : h[n] = IF n = 0 THEN start ELSE Put(h[n - 1], s[n])
  <2>1. h = [n \in 0 .. N |-> Step(h, n)]
    BY <1>8 DEF h
  <2> HIDE DEF start
  <2>2. QED BY <2>1, <1>5
<1> HIDE DEF V, start
<1>10. h[0] \in V
  BY <1>1, <1>9
<1>11. \A n \in 1 .. N : h[n - 1] \in V => h[n] \in V
  <2>1. \A n \in 1 .. N, x \in V : Put(x, s[n]) \in V
    BY <1>2, PutType DEF V
  <2>2. QED BY <2>1, <1>9, <1>1
<1>12. \A n \in 0 .. N : h[n] \in V
  BY <1>1, <1>10, <1>11, StepsType
<1>13. QED BY <1>1, <1>9, <1>12 DEF h, V, start

\* There is one part at least.
LEMMA SplitType ==
    ASSUME NEW S, NEW s \in Seq(S)
    PROVE  Split(s) \in Seq(Seq(S)) /\ Split(s) # << >>
<1>1. Len(s) \in 0 .. Len(s)
  BY LenProperties
<1>2. QED BY <1>1, SplitDef, PartsToProperty

\* An empty text is one empty part.
LEMMA SplitEmpty == Split(<< >>) = << << >> >>
<1>1. << >> \in Seq({}) /\ Len(<< >>) = 0
  BY EmptySeq
<1>2. QED BY <1>1, SplitDef, PartsToProperty

\* A character more.
LEMMA SplitAppend ==
    ASSUME NEW S, NEW s \in Seq(S), NEW c \in S
    PROVE  Split(Append(s, c)) = Put(Split(s), c)
<1> DEFINE q == Append(s, c)
<1>1. q \in Seq(S) /\ Len(q) = Len(s) + 1 /\ q[Len(s) + 1] = c /\ Len(s) \in Nat
  BY AppendProperties, LenProperties
<1>2. \A i \in 1 .. Len(s) : q[i] = s[i]
  BY AppendProperties
<1> HIDE DEF q
<1> DEFINE h == PartsTo(q)
           k == PartsTo(s)
<1>3. h[0] = k[0]
  BY <1>1, PartsToProperty
<1>4. \A n \in 1 .. Len(s) : h[n] = Put(h[n - 1], q[n]) /\ k[n] = Put(k[n - 1], s[n])
  <2>1. \A n \in 1 .. Len(q) : h[n] = Put(h[n - 1], q[n])
    BY <1>1, PartsToProperty
  <2>2. \A n \in 1 .. Len(s) : k[n] = Put(k[n - 1], s[n])
    BY PartsToProperty
  <2>3. \A n \in 1 .. Len(s) : n \in 1 .. Len(q)
    BY <1>1
  <2> HIDE DEF h, k
  <2>4. QED BY <2>1, <2>2, <2>3
<1>5. h[Len(s) + 1] = Put(h[(Len(s) + 1) - 1], q[Len(s) + 1])
  <2>1. Len(s) + 1 \in 1 .. Len(q)
    BY <1>1
  <2>2. QED BY <1>1, <2>1, PartsToProperty
<1> HIDE DEF h, k
<1>6. \A n \in 1 .. Len(s) : h[n - 1] = k[n - 1] => h[n] = k[n]
  BY <1>2, <1>4
<1>7. h[Len(s)] = k[Len(s)]
  <2>1. Len(s) \in Nat /\ h[0] = k[0]
    BY <1>1, <1>3
  <2>2. \A n \in 0 .. Len(s) : h[n] = k[n]
    BY <2>1, <1>6, StepsAgree
  <2>3. QED BY <2>1, <2>2
<1>8. h[Len(q)] = Put(k[Len(s)], c)
  BY <1>1, <1>5, <1>7
<1>9. Split(q) = h[Len(q)] /\ Split(s) = k[Len(s)]
  BY SplitDef DEF h, k
<1>10. QED BY <1>8, <1>9 DEF q

---------------------------------------------------------------------------
(* Splitting what was put together.                                        *)

\* A text without separators is one part.
LEMMA SplitOne ==
    ASSUME NEW S, NEW s \in Seq(S), \A i \in 1 .. Len(s) : s[i] # "/"
    PROVE  Split(s) = << s >>
<1> DEFINE T == {d \in Seq(S) : (\A i \in 1 .. Len(d) : d[i] # "/") => Split(d) = << d >>}
<1>1. << >> \in T
  BY SplitEmpty, EmptySeq
<1>2. ASSUME NEW d \in Seq(S), NEW c \in S, d \in T PROVE Append(d, c) \in T
  <2>1. /\ Append(d, c) \in Seq(S) /\ Len(Append(d, c)) = Len(d) + 1 /\ Len(d) \in Nat
        /\ Append(d, c)[Len(d) + 1] = c /\ \A i \in 1 .. Len(d) : Append(d, c)[i] = d[i]
    BY AppendProperties, LenProperties
  <2>2. SUFFICES ASSUME \A i \in 1 .. Len(Append(d, c)) : Append(d, c)[i] # "/"
                 PROVE  Split(Append(d, c)) = << Append(d, c) >>
    BY <2>1
  <2>3. c # "/" /\ \A i \in 1 .. Len(d) : d[i] # "/"
    BY <2>1, <2>2
  <2>4. Split(d) = << d >>
    BY <1>2, <2>3
  <2>5. Split(Append(d, c)) = Put(<< d >>, c)
    BY <2>4, SplitAppend
  <2>6. Put(<< d >>, c) = << Append(d, c) >>
    BY <2>3 DEF Put
  <2>7. QED BY <2>5, <2>6
<1>3. Seq(S) \subseteq T
  <2> HIDE DEF T
  <2> QED BY <1>1, <1>2, SequenceInduction
<1>4. QED BY <1>3

\* A character goes to the last part of a concatenation.
LEMMA PutConcat ==
    ASSUME NEW S, NEW a \in Seq(Seq(S)), NEW b \in Seq(Seq(S)), b # << >>, NEW c \in S
    PROVE  a \o Put(b, c) = Put(a \o b, c)
<1>1. << >> \in Seq(S)
  BY EmptySeq
<1>2. CASE c = "/"
  <2>1. a \o Append(b, << >>) = Append(a \o b, << >>)
    BY <1>1, ConcatAppend
  <2>2. QED BY <1>2, <2>1 DEF Put
<1>3. CASE c # "/"
  <2>1. PICK r \in Seq(Seq(S)), y \in Seq(S) : b = Append(r, y)
    BY SequenceEmptyOrAppend
  <2> DEFINE e == Append(y, c)
  <2>2. e \in Seq(S) /\ a \o r \in Seq(Seq(S))
    BY AppendProperties, ConcatProperties
  <2>3. b[Len(b)] = y
    BY <2>1, AppendProperties
  <2>4. Put(b, c) = Append(r, e)
    <3>1. Put(b, c) = [b EXCEPT ![Len(b)] = e]
      BY <1>3, <2>3 DEF Put
    <3> HIDE DEF e
    <3>2. QED BY <2>1, <2>2, <3>1, ReplaceLast
  <2>5. a \o b = Append(a \o r, y)
    BY <2>1, ConcatAppend
  <2>6. (a \o b)[Len(a \o b)] = y
    BY <2>2, <2>5, AppendProperties
  <2>7. Put(a \o b, c) = Append(a \o r, e)
    <3>1. Put(a \o b, c) = [a \o b EXCEPT ![Len(a \o b)] = e]
      BY <1>3, <2>6 DEF Put
    <3> DEFINE ar == a \o r
    <3>2. ar \in Seq(Seq(S)) /\ a \o b = Append(ar, y)
      BY <2>2, <2>5
    <3> HIDE DEF e, ar
    <3>3. [Append(ar, y) EXCEPT ![Len(Append(ar, y))] = e] = Append(ar, e)
      BY <2>2, <3>2, ReplaceLast
    <3>4. Put(a \o b, c) = Append(ar, e)
      BY <3>1, <3>2, <3>3, Zenon
    <3>5. QED BY <3>4 DEF ar
  <2>8. a \o Append(r, e) = Append(a \o r, e)
    <3>1. e \in Seq(S)
      BY <2>2
    <3> HIDE DEF e
    <3>2. QED BY <3>1, ConcatAppend, SMTT(60)
  <2>9. QED BY <2>4, <2>7, <2>8, Zenon
<1>4. QED BY <1>2, <1>3

\* A separator stands between the parts of what is before it and after it.
LEMMA SplitConcat ==
    ASSUME NEW S, "/" \in S, NEW a \in Seq(S), NEW b \in Seq(S)
    PROVE  Split(Append(a, "/") \o b) = Split(a) \o Split(b)
<1> DEFINE start == Append(a, "/")
           T == {t \in Seq(S) : Split(start \o t) = Split(a) \o Split(t)}
<1>1. start \in Seq(S) /\ Split(a) \in Seq(Seq(S)) /\ << >> \in Seq(S)
  BY AppendProperties, SplitType, EmptySeq
<1>2. << >> \in T
  <2>1. Split(start) = Append(Split(a), << >>)
    BY SplitAppend DEF Put
  <2>2. Append(Split(a), << >>) = Split(a) \o << << >> >>
    BY <1>1, AppendIsConcat
  <2>3. start \o << >> = start
    BY <1>1, ConcatEmptySeq
  <2>4. QED BY <1>1, <2>1, <2>2, <2>3, SplitEmpty
<1>3. ASSUME NEW t \in Seq(S), NEW c \in S, t \in T PROVE Append(t, c) \in T
  <2>1. start \o Append(t, c) = Append(start \o t, c) /\ start \o t \in Seq(S)
    <3> HIDE DEF start
    <3> QED BY <1>1, ConcatAppend, ConcatProperties
  <2>2. Split(start \o Append(t, c)) = Put(Split(a) \o Split(t), c)
    <3> HIDE DEF start
    <3>1. Split(start \o t) = Split(a) \o Split(t)
      BY <1>3
    <3>2. QED BY <2>1, <3>1, SplitAppend
  <2>3. Split(t) \in Seq(Seq(S)) /\ Split(t) # << >>
    BY SplitType
  <2>4. Split(a) \o Put(Split(t), c) = Put(Split(a) \o Split(t), c)
    BY <1>1, <2>3, PutConcat
  <2>5. Split(Append(t, c)) = Put(Split(t), c) /\ Append(t, c) \in Seq(S)
    BY SplitAppend, AppendProperties
  <2>6. QED BY <2>2, <2>4, <2>5
<1>4. Seq(S) \subseteq T
  <2> HIDE DEF T
  <2> QED BY <1>2, <1>3, SequenceInduction
<1>5. QED BY <1>4

---------------------------------------------------------------------------
(* Numbers and their digits.                                               *)

\* Ten symbols, all different, none of them another character of a path.
LEMMA DigitSymbolFacts ==
    /\ \A i, j \in 1 .. 10 : DigitSymbols[i] = DigitSymbols[j] => i = j
    /\ \A i \in 1 .. 10 :
          DigitSymbols[i] \notin Marks /\ DigitSymbols[i] \notin {"/", "m", " ", "+"}
BY SMTT(60) DEF DigitSymbols, Marks

\* A digit has its value.
LEMMA DigitFacts ==
    /\ \A d \in 0 .. Radix - 1 : DigitSymbols[d + 1] \in Digits /\ ValueOf[DigitSymbols[d + 1]] = d
    /\ \A c \in Digits : /\ ValueOf[c] \in 0 .. Radix - 1
                         /\ c \notin Marks /\ c \notin {"/", "m", " ", "+"}
<1>1. ASSUME NEW d \in 0 .. Radix - 1
      PROVE  DigitSymbols[d + 1] \in Digits /\ ValueOf[DigitSymbols[d + 1]] = d
  <2>1. DigitSymbols[d + 1] \in Digits
    BY DEF Digits
  <2>2. ValueOf[DigitSymbols[d + 1]]
            = CHOOSE e \in 0 .. Radix - 1 : DigitSymbols[e + 1] = DigitSymbols[d + 1]
    BY <2>1 DEF ValueOf
  <2>3. \A e \in 0 .. Radix - 1 : DigitSymbols[e + 1] = DigitSymbols[d + 1] => e = d
    <3>1. TAKE e \in 0 .. Radix - 1
    <3>2. e + 1 \in 1 .. 10 /\ d + 1 \in 1 .. 10
      BY RadixAssumption
    <3>3. HAVE DigitSymbols[e + 1] = DigitSymbols[d + 1]
    <3>4. e + 1 = d + 1
      BY <3>2, <3>3, DigitSymbolFacts
    <3>5. QED BY <3>4, RadixAssumption
  <2>4. QED BY <2>1, <2>2, <2>3
<1>2. ASSUME NEW c \in Digits
      PROVE  /\ ValueOf[c] \in 0 .. Radix - 1
             /\ c \notin Marks /\ c \notin {"/", "m", " ", "+"}
  <2>1. PICK d \in 0 .. Radix - 1 : c = DigitSymbols[d + 1]
    BY DEF Digits
  <2>2. d + 1 \in 1 .. 10
    BY RadixAssumption
  <2>3. ValueOf[c] = d
    BY <2>1, <1>1
  <2>4. QED BY <2>1, <2>2, <2>3, DigitSymbolFacts
<1>3. QED BY <1>1, <1>2

\* The recursive function of NumberOf.
NumberTo(digits) ==
    CHOOSE f : f = [n \in 0 .. Len(digits) |->
                       IF n = 0 THEN 0 ELSE Radix * f[n - 1] + ValueOf[digits[n]]]

\* NumberOf is the last value of its recursive function.
LEMMA NumberDef == \A s : NumberOf(s) = NumberTo(s)[Len(s)]
BY DEF NumberOf, NumberTo

\* A digit more leaves a number.
LEMMA ShiftType ==
    ASSUME NEW x \in Nat, NEW c \in Digits
    PROVE  Radix * x + ValueOf[c] \in Nat
<1>0. ValueOf[c] \in 0 .. Radix - 1
  BY DigitFacts
<1> DEFINE v == ValueOf[c]
<1> HIDE DEF v
<1>1. v \in Nat /\ Radix \in Nat
  BY <1>0, RadixAssumption DEF v
<1>2. Radix * x \in Nat
  BY <1>1
<1>3. QED BY <1>1, <1>2 DEF v

\* The recursive function exists, and satisfies its equation.
LEMMA NumberToProperty ==
    ASSUME NEW s \in Seq(Digits)
    PROVE  /\ \A n \in 0 .. Len(s) : NumberTo(s)[n] \in Nat
           /\ NumberTo(s)[0] = 0
           /\ \A n \in 1 .. Len(s) :
                 NumberTo(s)[n] = Radix * NumberTo(s)[n - 1] + ValueOf[s[n]]
<1> DEFINE N == Len(s)
           V == Nat
           zero == 0
           Shift(x, n) == Radix * x + ValueOf[s[n]]
           G == [n \in 1 .. N |-> [x \in V |-> Shift(x, n)]]
<1>1. N \in Nat
  BY LenProperties
<1>2. \A n \in 1 .. N, x \in Nat : Shift(x, n) \in Nat
  <2>1. \A n \in 1 .. N : s[n] \in Digits
    BY ElementOfSeq
  <2>2. QED BY <2>1, ShiftType
<1> HIDE DEF Shift
<1>3. G \in [1 .. N -> [V -> V]] /\ zero \in V
  BY <1>2
<1>4. PICK f \in [0 .. N -> V] : f[0] = zero /\ \A n \in 1 .. N : f[n] = G[n][f[n - 1]]
  <2> HIDE DEF N, G, V, zero
  <2> QED BY <1>1, <1>3, RecursionExists
<1> DEFINE Step(g, n) == IF n = 0 THEN 0 ELSE Shift(g[n - 1], n)
<1>5. \A n \in 0 .. N : f[n] = Step(f, n)
  <2>1. TAKE n \in 0 .. N
  <2>2. n # 0 => n \in 1 .. N /\ f[n - 1] \in Nat
    BY <1>1
  <2>3. n # 0 => f[n] = Shift(f[n - 1], n)
    BY <1>4, <2>2
  <2>4. QED BY <1>4, <2>3
<1>6. f = [n \in 0 .. N |-> Step(f, n)]
  <2> HIDE DEF Step
  <2> QED BY <1>5
<1>7. NumberTo(s) = [n \in 0 .. N |-> Step(NumberTo(s), n)]
  BY <1>6 DEF NumberTo, Shift
<1> DEFINE h == NumberTo(s)
<1> HIDE DEF h
<1>8. \A n \in 0 .. N : h[n] = IF n = 0 THEN 0 ELSE Shift(h[n - 1], n)
  <2>1. h = [n \in 0 .. N |-> Step(h, n)]
    BY <1>7 DEF h
  <2>2. QED BY <2>1
<1>9. \A n \in 1 .. N : h[n - 1] \in Nat => h[n] \in Nat
  <2>1. TAKE n \in 1 .. N
  <2>2. HAVE h[n - 1] \in Nat
  <2>3. Shift(h[n - 1], n) \in Nat
    BY <1>2, <2>2
  <2>4. h[n] = Shift(h[n - 1], n)
    <3>1. n \in 0 .. N /\ n # 0
      BY <1>1
    <3>2. QED BY <1>8, <3>1
  <2>5. QED BY <2>3, <2>4
<1>10. \A n \in 0 .. N : h[n] \in Nat
  <2>1. h[0] \in Nat
    BY <1>1, <1>8
  <2>2. \A n \in 1 .. N : h[n - 1] \in V => h[n] \in V
    BY <1>9
  <2>3. h[0] \in V
    BY <2>1
  <2> HIDE DEF V, N
  <2>4. \A n \in 0 .. N : h[n] \in V
    BY <1>1, <2>2, <2>3, StepsType
  <2>5. QED BY <2>4 DEF V
<1>11. QED BY <1>1, <1>8, <1>10 DEF h, Shift

\* No digits are zero.
LEMMA NumberEmpty == NumberOf(<< >>) = 0
<1>1. << >> \in Seq(Digits) /\ Len(<< >>) = 0
  BY EmptySeq
<1>2. QED BY <1>1, NumberDef, NumberToProperty

\* A digit more.
LEMMA NumberAppend ==
    ASSUME NEW s \in Seq(Digits), NEW c \in Digits
    PROVE  /\ NumberOf(s) \in Nat
           /\ NumberOf(Append(s, c)) = Radix * NumberOf(s) + ValueOf[c]
<1> DEFINE q == Append(s, c)
           h == NumberTo(q)
           k == NumberTo(s)
<1>1. q \in Seq(Digits) /\ Len(q) = Len(s) + 1 /\ q[Len(s) + 1] = c /\ Len(s) \in Nat
  BY AppendProperties, LenProperties
<1>2. \A i \in 1 .. Len(s) : q[i] = s[i]
  BY AppendProperties
<1> HIDE DEF q
<1>3. h[0] = k[0] /\ k[Len(s)] \in Nat
  BY <1>1, NumberToProperty
<1>4. \A n \in 1 .. Len(q) : h[n] = Radix * h[n - 1] + ValueOf[q[n]]
  BY <1>1, NumberToProperty
<1>5. \A n \in 1 .. Len(s) : k[n] = Radix * k[n - 1] + ValueOf[s[n]]
  BY NumberToProperty
<1> HIDE DEF h, k
<1>6. \A n \in 1 .. Len(s) : h[n - 1] = k[n - 1] => h[n] = k[n]
  <2>1. \A n \in 1 .. Len(s) : n \in 1 .. Len(q)
    BY <1>1
  <2>2. QED BY <1>2, <1>4, <1>5, <2>1
<1>7. h[Len(s)] = k[Len(s)]
  <2>1. Len(s) \in Nat /\ h[0] = k[0]
    BY <1>1, <1>3
  <2>2. \A n \in 0 .. Len(s) : h[n] = k[n]
    BY <2>1, <1>6, StepsAgree
  <2>3. QED BY <2>1, <2>2
<1>8. h[Len(q)] = Radix * k[Len(s)] + ValueOf[c]
  <2>1. Len(q) \in 1 .. Len(q) /\ Len(q) - 1 = Len(s)
    BY <1>1
  <2>2. QED BY <1>1, <1>4, <1>7, <2>1
<1>9. NumberOf(q) = h[Len(q)] /\ NumberOf(s) = k[Len(s)]
  BY NumberDef DEF h, k
<1>10. QED BY <1>3, <1>8, <1>9 DEF q

\* The decimal digits of a number are digits, and one or more.
Writes(d, n) == d \in Seq(Digits) /\ d # << >> /\ NumberOf(d) = n

\* The recursive function of Decimal exists, and satisfies its equation.
LEMMA DecimalProperty ==
    \A n \in U32 : Decimal[n] = IF n < Radix THEN << DigitSymbols[n + 1] >>
                                ELSE Append(Decimal[n \div Radix], DigitSymbols[(n % Radix) + 1])
<1> DEFINE Step(f, n) == IF n < Radix THEN << DigitSymbols[n + 1] >>
                         ELSE Append(f[n \div Radix], DigitSymbols[(n % Radix) + 1])
           T == {m \in Nat : \E f : DOMAIN f = 0 .. m /\ \A n \in 0 .. m : f[n] = Step(f, n)}
<1>1. 0 \in T
  <2> DEFINE f == [n \in 0 .. 0 |-> << DigitSymbols[n + 1] >>]
  <2>1. DOMAIN f = 0 .. 0 /\ \A n \in 0 .. 0 : f[n] = Step(f, n)
    BY RadixAssumption
  <2> HIDE DEF f, Step
  <2>2. QED BY <2>1
<1>2. \A n \in Nat : n >= Radix => n \div Radix \in 0 .. n - 1
  BY RadixAssumption
<1>3. ASSUME NEW m \in Nat, m \in T PROVE m + 1 \in T
  <2>1. PICK f : DOMAIN f = 0 .. m /\ \A n \in 0 .. m : f[n] = Step(f, n)
    <3> HIDE DEF Step
    <3> QED BY <1>3
  <2> DEFINE g == [n \in 0 .. m + 1 |-> IF n <= m THEN f[n] ELSE Step(f, n)]
  <2>2. ASSUME NEW n \in 0 .. m + 1 PROVE g[n] = Step(g, n)
    <3>1. g[n] = Step(f, n)
      <4> HIDE DEF Step
      <4> QED BY <2>1
    <3>2. n >= Radix => g[n \div Radix] = f[n \div Radix]
      <4>1. SUFFICES ASSUME n >= Radix PROVE g[n \div Radix] = f[n \div Radix]
        OBVIOUS
      <4>2. n \div Radix \in 0 .. n - 1
        BY <1>2, <4>1
      <4> DEFINE q == n \div Radix
      <4> HIDE DEF q, Step
      <4>3. q \in 0 .. m + 1 /\ q <= m
        BY <4>2 DEF q
      <4>4. QED BY <4>3 DEF q
    <3> HIDE DEF g
    <3>3. Step(f, n) = Step(g, n)
      BY <3>2, RadixAssumption
    <3>4. QED BY <3>1, <3>3
  <2>3. DOMAIN g = 0 .. m + 1
    OBVIOUS
  <2> HIDE DEF g, Step
  <2>4. QED BY <2>2, <2>3
<1>4. Nat \subseteq T
  <2> HIDE DEF T
  <2> QED BY <1>1, <1>3, Induction
<1>5. PICK f : DOMAIN f = U32 /\ \A n \in U32 : f[n] = Step(f, n)
  <2>1. 2 * HardenedBit - 1 \in Nat
    BY HardenedBitAssumption
  <2> HIDE DEF Step
  <2>2. QED BY <1>4, <2>1 DEF U32
<1> DEFINE fd == [n \in U32 |-> f[n]]
<1>6. fd = [n \in U32 |-> Step(fd, n)]
  <2>1. ASSUME NEW n \in U32 PROVE fd[n] = Step(fd, n)
    <3>1. n >= Radix => n \div Radix \in U32
      BY <1>2, HardenedBitAssumption DEF U32
    <3>2. n \in Nat
      BY HardenedBitAssumption DEF U32
    <3>3. n >= Radix => fd[n \div Radix] = f[n \div Radix]
      BY <3>1
    <3>4. fd[n] = Step(f, n)
      <4> HIDE DEF Step
      <4> QED BY <1>5
    <3> HIDE DEF fd
    <3>5. QED BY <3>2, <3>3, <3>4, RadixAssumption
  <2> HIDE DEF Step
  <2>2. QED BY <2>1
<1>7. Decimal = [n \in U32 |-> Step(Decimal, n)]
  <2> HIDE DEF fd
  <2> QED BY <1>6 DEF Decimal
<1>8. \A n \in U32 : Decimal[n] = Step(Decimal, n)
  <2> DEFINE D == Decimal
  <2>1. D = [n \in U32 |-> Step(D, n)]
    BY <1>7
  <2> HIDE DEF D, Step
  <2>2. \A n \in U32 : D[n] = Step(D, n)
    BY <2>1
  <2>3. QED BY <2>2 DEF D
<1>9. QED BY <1>8

\* What Display writes is read back.
LEMMA DecimalReads == \A n \in U32 : Writes(Decimal[n], n)
<1> DEFINE T == {m \in Nat : \A n \in U32 : n <= m => Writes(Decimal[n], n)}
<1>1. ASSUME NEW n \in U32, n < Radix PROVE Writes(Decimal[n], n)
  <2>1. n \in 0 .. Radix - 1 /\ Decimal[n] = << DigitSymbols[n + 1] >>
    <3>1. n \in Nat
      BY HardenedBitAssumption DEF U32
    <3>2. n \in 0 .. Radix - 1
      BY <1>1, <3>1, RadixAssumption
    <3>3. Decimal[n] = << DigitSymbols[n + 1] >>
      BY <1>1, DecimalProperty
    <3>4. QED BY <3>2, <3>3
  <2> DEFINE c == DigitSymbols[n + 1]
  <2>2. c \in Digits /\ ValueOf[c] = n
    BY <2>1, DigitFacts
  <2> HIDE DEF c
  <2>3. << c >> = Append(<< >>, c) /\ << >> \in Seq(Digits)
    BY EmptySeq
  <2>4. NumberOf(<< c >>) = Radix * 0 + n
    BY <2>2, <2>3, NumberAppend, NumberEmpty
  <2>5. Radix * 0 + n = n
    BY <2>1, RadixAssumption
  <2>6. QED BY <2>1, <2>2, <2>4, <2>5 DEF Writes, c
<1>2. 0 \in T
  BY <1>1, RadixAssumption, HardenedBitAssumption DEF U32
<1>3. ASSUME NEW m \in Nat, m \in T PROVE m + 1 \in T
  <2>1. SUFFICES ASSUME NEW n \in U32, n <= m + 1, ~(n < Radix) PROVE Writes(Decimal[n], n)
    BY <1>1
  <2> DEFINE q == n \div Radix
             r == n % Radix
  <2>2. n \in Nat /\ Radix \in Nat \ {0} /\ n >= Radix
    BY <2>1, RadixAssumption, HardenedBitAssumption DEF U32
  <2>3. q \in U32 /\ q <= m /\ r \in 0 .. Radix - 1 /\ n = Radix * q + r
    <3>1. q \in 0 .. n - 1
      BY <2>2, RadixAssumption
    <3>2. r \in 0 .. Radix - 1
      BY <2>2, RadixAssumption
    <3>3. n = Radix * q + r
      BY <2>2, RadixAssumption
    <3> HIDE DEF q, r
    <3>4. q \in U32
      BY <2>1, <2>2, <3>1, HardenedBitAssumption DEF U32
    <3>5. q <= m
      BY <2>1, <2>2, <3>1
    <3>6. QED BY <3>2, <3>3, <3>4, <3>5
  <2>4. Decimal[n] = Append(Decimal[q], DigitSymbols[r + 1])
    BY <2>1, DecimalProperty
  <2> DEFINE c == DigitSymbols[r + 1]
  <2> HIDE DEF q, r
  <2>5. Writes(Decimal[q], q)
    BY <1>3, <2>3
  <2>6. c \in Digits /\ ValueOf[c] = r
    BY <2>3, DigitFacts
  <2> HIDE DEF c
  <2>7. /\ Append(Decimal[q], c) \in Seq(Digits) /\ Append(Decimal[q], c) # << >>
        /\ NumberOf(Append(Decimal[q], c)) = Radix * q + r
    BY <2>5, <2>6, NumberAppend, AppendProperties DEF Writes
  <2>8. QED BY <2>3, <2>4, <2>7 DEF Writes, c
<1>4. Nat \subseteq T
  <2> HIDE DEF T
  <2> QED BY <1>2, <1>3, Induction
<1>5. QED
  <2>1. \A n \in U32 : n \in Nat /\ n <= n
    BY HardenedBitAssumption DEF U32
  <2>2. QED BY <1>4, <2>1

---------------------------------------------------------------------------
(* The texts of paths.                                                     *)

\* The characters the wallets write.
PathCharacters == Digits \cup {"m", "/", "'"}

\* A hardened index as it is written.
Marked(n) == Append(Decimal[n], "'")

\* Digits and a mark: no separator among them.
LEMMA MarkedFacts ==
    ASSUME NEW n \in U32
    PROVE  /\ Marked(n) \in Seq(PathCharacters) /\ Marked(n) # << >>
           /\ Marked(n)[1] \in Digits
           /\ Marked(n)[Len(Marked(n))] = "'"
           /\ \A i \in 1 .. Len(Marked(n)) : Marked(n)[i] # "/"
<1> DEFINE d == Decimal[n]
           s == Marked(n)
<1>1. d \in Seq(Digits) /\ d # << >>
  BY DecimalReads DEF Writes
<1>2. s = Append(d, "'")
  BY DEF Marked
<1> HIDE DEF d, s
<1>3. d \in Seq(PathCharacters) /\ "'" \in PathCharacters
  BY <1>1 DEF PathCharacters
<1>4. /\ s \in Seq(PathCharacters) /\ Len(s) = Len(d) + 1 /\ s[Len(d) + 1] = "'"
      /\ \A i \in 1 .. Len(d) : s[i] = d[i]
  BY <1>2, <1>3, AppendProperties
<1>5. Len(d) \in Nat \ {0}
  BY <1>1, LenProperties, EmptySeq
<1>6. \A i \in 1 .. Len(d) : s[i] \in Digits /\ s[i] # "/"
  <2>1. \A i \in 1 .. Len(d) : d[i] \in Digits
    BY <1>1, ElementOfSeq
  <2>2. "/" \notin Digits
    BY DigitFacts
  <2>3. QED BY <1>4, <2>1, <2>2
<1>7. s[1] \in Digits /\ s[Len(s)] = "'" /\ s # << >>
  <2>1. 1 \in 1 .. Len(d)
    BY <1>5
  <2>2. QED BY <1>4, <1>5, <1>6, <2>1, EmptySeq
<1>8. \A i \in 1 .. Len(s) : s[i] # "/"
  <2>1. \A i \in 1 .. Len(s) : i \in 1 .. Len(d) \/ i = Len(d) + 1
    BY <1>4, <1>5
  <2>2. QED BY <1>4, <1>6, <2>1
<1>9. QED BY <1>4, <1>7, <1>8 DEF s

\* The text, with a number more.
Written(t, n) == t \o << "/" >> \o Decimal[n] \o << "'" >>

\* It is the text before, a separator, and the number with its mark.
LEMMA WrittenParts ==
    ASSUME NEW t \in Seq(PathCharacters), NEW n \in U32
    PROVE  /\ Written(t, n) = Append(t, "/") \o Marked(n)
           /\ Written(t, n) \in Seq(PathCharacters)
<1> DEFINE d == Decimal[n]
           a == Append(t, "/")
<1>1. d \in Seq(Digits)
  BY DecimalReads DEF Writes
<1> HIDE DEF d
<1>2. d \in Seq(PathCharacters) /\ "/" \in PathCharacters /\ "'" \in PathCharacters
  BY <1>1 DEF PathCharacters
<1>3. t \o << "/" >> = a /\ a \in Seq(PathCharacters)
  BY <1>2, AppendIsConcat, AppendProperties
<1> HIDE DEF a
<1>4. a \o d \in Seq(PathCharacters) /\ (a \o d) \o << "'" >> = Append(a \o d, "'")
  <2>1. a \o d \in Seq(PathCharacters)
    BY <1>2, <1>3, ConcatProperties
  <2>2. \A e \in Seq(PathCharacters) : e \o << "'" >> = Append(e, "'")
    BY <1>2, AppendIsConcat
  <2>3. QED BY <2>1, <2>2
<1>5. a \o Append(d, "'") = Append(a \o d, "'")
  BY <1>2, <1>3, ConcatAppend
<1>6. Written(t, n) = (a \o d) \o << "'" >>
  BY <1>3 DEF Written, d
<1>7. Append(a \o d, "'") \in Seq(PathCharacters)
  BY <1>2, <1>4, AppendProperties
<1>8. Marked(n) = Append(d, "'")
  BY DEF Marked, d
<1>9. QED BY <1>4, <1>5, <1>6, <1>7, <1>8 DEF a

\* The recursive function of FormatPath.
TextTo(numbers) ==
    CHOOSE f : f = [k \in 0 .. Len(numbers) |->
                       IF k = 0 THEN << "m" >>
                       ELSE f[k - 1] \o << "/" >> \o Decimal[numbers[k]] \o << "'" >>]

\* FormatPath is the last value of its recursive function.
LEMMA TextDef == \A ns : FormatPath(ns) = TextTo(ns)[Len(ns)]
BY DEF FormatPath, TextTo

\* The recursive function exists, and satisfies its equation.
LEMMA TextToProperty ==
    ASSUME NEW ns \in Seq(U32)
    PROVE  /\ \A n \in 0 .. Len(ns) : TextTo(ns)[n] \in Seq(PathCharacters)
           /\ TextTo(ns)[0] = << "m" >>
           /\ \A n \in 1 .. Len(ns) : TextTo(ns)[n] = Written(TextTo(ns)[n - 1], ns[n])
<1> DEFINE N == Len(ns)
           V == Seq(PathCharacters)
           start == << "m" >>
           Put1(x, n) == Written(x, ns[n])
           G == [n \in 1 .. N |-> [x \in V |-> Put1(x, n)]]
<1>1. N \in Nat /\ start \in V
  BY LenProperties DEF PathCharacters
<1>2. \A n \in 1 .. N, x \in V : Put1(x, n) \in V
  <2>1. \A n \in 1 .. N : ns[n] \in U32
    BY ElementOfSeq
  <2>2. QED BY <2>1, WrittenParts
<1> HIDE DEF V, Put1, start
<1>3. G \in [1 .. N -> [V -> V]]
  BY <1>2
<1>4. PICK f \in [0 .. N -> V] : f[0] = start /\ \A n \in 1 .. N : f[n] = G[n][f[n - 1]]
  <2> HIDE DEF N, G
  <2> QED BY <1>1, <1>3, RecursionExists
<1> DEFINE Step(g, n) == IF n = 0 THEN start ELSE Put1(g[n - 1], n)
<1>5. \A n \in 0 .. N : f[n] = Step(f, n)
  <2>1. TAKE n \in 0 .. N
  <2>2. n # 0 => n \in 1 .. N /\ f[n - 1] \in V
    BY <1>1
  <2>3. n # 0 => f[n] = Put1(f[n - 1], n)
    BY <1>4, <2>2
  <2>4. QED BY <1>4, <2>3
<1>6. f = [n \in 0 .. N |-> Step(f, n)]
  <2> HIDE DEF Step
  <2> QED BY <1>5
<1>7. TextTo(ns) = [n \in 0 .. N |-> Step(TextTo(ns), n)]
  BY <1>6 DEF TextTo, Put1, Written, start
<1> DEFINE h == TextTo(ns)
<1> HIDE DEF h
<1>8. \A n \in 0 .. N : h[n] = IF n = 0 THEN start ELSE Put1(h[n - 1], n)
  <2>1. h = [n \in 0 .. N |-> Step(h, n)]
    BY <1>7 DEF h
  <2>2. QED BY <2>1
<1>9. \A n \in 1 .. N : h[n - 1] \in V => h[n] \in V
  <2>1. TAKE n \in 1 .. N
  <2>2. HAVE h[n - 1] \in V
  <2>3. Put1(h[n - 1], n) \in V
    BY <1>2, <2>2
  <2>4. h[n] = Put1(h[n - 1], n)
    <3>1. n \in 0 .. N /\ n # 0
      BY <1>1
    <3>2. QED BY <1>8, <3>1
  <2>5. QED BY <2>3, <2>4
<1>10. \A n \in 0 .. N : h[n] \in V
  <2>1. h[0] \in V
    BY <1>1, <1>8
  <2> HIDE DEF N
  <2>2. QED BY <1>1, <1>9, <2>1, StepsType
<1>11. QED BY <1>1, <1>8, <1>10 DEF h, V, Put1, start

\* The path of no numbers, and with a number more.
LEMMA FormatPathEmpty == FormatPath(<< >>) = << "m" >>
<1>1. << >> \in Seq(U32) /\ Len(<< >>) = 0
  BY EmptySeq
<1>2. QED BY <1>1, TextDef, TextToProperty

LEMMA FormatPathAppend ==
    ASSUME NEW ns \in Seq(U32), NEW n \in U32
    PROVE  /\ FormatPath(ns) \in Seq(PathCharacters)
           /\ FormatPath(Append(ns, n)) = Append(FormatPath(ns), "/") \o Marked(n)
           /\ FormatPath(Append(ns, n)) \in Seq(PathCharacters)
<1> DEFINE q == Append(ns, n)
           h == TextTo(q)
           k == TextTo(ns)
<1>1. q \in Seq(U32) /\ Len(q) = Len(ns) + 1 /\ q[Len(ns) + 1] = n /\ Len(ns) \in Nat
  BY AppendProperties, LenProperties
<1>2. \A i \in 1 .. Len(ns) : q[i] = ns[i]
  BY AppendProperties
<1> HIDE DEF q
<1>3. h[0] = k[0] /\ k[Len(ns)] \in Seq(PathCharacters)
  <2>1. h[0] = << "m" >>
    BY <1>1, TextToProperty
  <2>2. k[0] = << "m" >> /\ \A i \in 0 .. Len(ns) : k[i] \in Seq(PathCharacters)
    BY TextToProperty
  <2>3. Len(ns) \in 0 .. Len(ns)
    BY <1>1
  <2> HIDE DEF h, k
  <2>4. QED BY <2>1, <2>2, <2>3
<1>4. \A i \in 1 .. Len(q) : h[i] = Written(h[i - 1], q[i])
  BY <1>1, TextToProperty
<1>5. \A i \in 1 .. Len(ns) : k[i] = Written(k[i - 1], ns[i])
  BY TextToProperty
<1> HIDE DEF h, k
<1>6. \A i \in 1 .. Len(ns) : h[i - 1] = k[i - 1] => h[i] = k[i]
  <2>1. \A i \in 1 .. Len(ns) : i \in 1 .. Len(q)
    BY <1>1
  <2>2. QED BY <1>2, <1>4, <1>5, <2>1
<1>7. h[Len(ns)] = k[Len(ns)]
  <2>1. Len(ns) \in Nat /\ h[0] = k[0]
    BY <1>1, <1>3
  <2>2. \A i \in 0 .. Len(ns) : h[i] = k[i]
    BY <2>1, <1>6, StepsAgree
  <2>3. QED BY <2>1, <2>2
<1>8. h[Len(q)] = Written(k[Len(ns)], n)
  <2>1. Len(q) \in 1 .. Len(q) /\ Len(q) - 1 = Len(ns)
    BY <1>1
  <2>2. QED BY <1>1, <1>4, <1>7, <2>1
<1>9. FormatPath(q) = h[Len(q)] /\ FormatPath(ns) = k[Len(ns)]
  BY TextDef DEF h, k
<1>10. QED BY <1>3, <1>8, <1>9, WrittenParts DEF q

\* The text of a path and its parts: m, and the numbers with their marks.
LEMMA FormatPathSplits ==
    ASSUME NEW ns \in Seq(U32)
    PROVE  /\ FormatPath(ns) \in Seq(PathCharacters)
           /\ Split(FormatPath(ns)) = << << "m" >> >> \o [k \in 1 .. Len(ns) |-> Marked(ns[k])]
<1> DEFINE M(q) == [k \in 1 .. Len(q) |-> Marked(q[k])]
           T == {q \in Seq(U32) : /\ FormatPath(q) \in Seq(PathCharacters)
                                  /\ Split(FormatPath(q)) = << << "m" >> >> \o M(q)}
           C == PathCharacters
           root == << << "m" >> >>
<1>0. << "m" >> \in Seq(C) /\ root \in Seq(Seq(C)) /\ "/" \in C
  BY DEF PathCharacters
<1>1. << >> \in T
  <2>1. Split(<< "m" >>) = root
    <3>1. \A i \in 1 .. Len(<< "m" >>) : << "m" >>[i] # "/"
      OBVIOUS
    <3>2. QED BY <1>0, <3>1, SplitOne
  <2>2. M(<< >>) = << >>
    OBVIOUS
  <2>3. root \o << >> = root
    BY <1>0, ConcatEmptySeq
  <2>4. << >> \in Seq(U32)
    BY EmptySeq
  <2>5. QED BY <1>0, <2>1, <2>2, <2>3, <2>4, FormatPathEmpty
<1>2. ASSUME NEW q \in Seq(U32), NEW n \in U32, q \in T PROVE Append(q, n) \in T
  <2> DEFINE F == FormatPath(q)
             s == Marked(n)
             m == M(q)
             r == Append(q, n)
  <2>1. /\ F \in Seq(C) /\ FormatPath(r) = Append(F, "/") \o s /\ FormatPath(r) \in Seq(C)
    BY FormatPathAppend
  <2>2. s \in Seq(C) /\ \A i \in 1 .. Len(s) : s[i] # "/"
    BY MarkedFacts
  <2>3. Split(F) = root \o m
    BY <1>2
  <2>4. /\ r \in Seq(U32) /\ Len(r) = Len(q) + 1 /\ r[Len(q) + 1] = n /\ Len(q) \in Nat
        /\ \A i \in 1 .. Len(q) : r[i] = q[i] /\ q[i] \in U32
    BY AppendProperties, LenProperties, ElementOfSeq
  <2>5. m \in Seq(Seq(C)) /\ Len(m) = Len(q)
    <3>1. \A i \in 1 .. Len(q) : Marked(q[i]) \in Seq(C)
      BY <2>4, MarkedFacts
    <3>2. m \in [1 .. Len(q) -> Seq(C)]
      BY <3>1
    <3>3. QED BY <2>4, <3>2, FunctionIsSequence
  <2>6. M(r) = Append(m, s)
    <3> HIDE DEF r, C
    <3>1. \A k \in 1 .. Len(q) : Marked(r[k]) = m[k]
      BY <2>4
    <3>2. Marked(r[Len(q) + 1]) = s
      BY <2>4
    <3>3. M(r) \in [1 .. Len(q) + 1 -> Seq(C)]
      <4>1. \A i \in 1 .. Len(r) : r[i] \in U32
        BY <2>4, ElementOfSeq
      <4>2. \A i \in 1 .. Len(r) : Marked(r[i]) \in Seq(C)
        BY <4>1, MarkedFacts DEF C
      <4>3. QED BY <2>4, <4>2
    <3>4. Append(m, s) \in [1 .. Len(q) + 1 -> Seq(C)]
      <4> HIDE DEF m, s
      <4>1. Append(m, s) \in Seq(Seq(C)) /\ Len(Append(m, s)) = Len(q) + 1
        BY <2>2, <2>5, AppendProperties
      <4>2. QED BY <4>1, LenProperties
    <3>5. \A k \in 1 .. Len(q) + 1 : M(r)[k] = Append(m, s)[k]
      <4>1. \A k \in 1 .. Len(q) + 1 : M(r)[k] = Marked(r[k])
        BY <2>4
      <4> HIDE DEF m, s, M
      <4>2. \A k \in 1 .. Len(q) : Append(m, s)[k] = m[k]
        BY <2>2, <2>5, AppendProperties
      <4>3. Append(m, s)[Len(q) + 1] = s
        BY <2>2, <2>5, AppendProperties
      <4>4. \A k \in 1 .. Len(q) + 1 : k \in 1 .. Len(q) \/ k = Len(q) + 1
        BY <2>4
      <4>5. QED BY <3>1, <3>2, <4>1, <4>2, <4>3, <4>4
    <3> HIDE DEF M, m, s
    <3>6. QED BY <3>3, <3>4, <3>5
  <2>7. Split(s) = << s >>
    BY <2>2, SplitOne
  <2>8. Split(Append(F, "/") \o s) = Split(F) \o Split(s)
    BY <1>0, <2>1, <2>2, SplitConcat
  <2>9. (root \o m) \o << s >> = root \o (m \o << s >>)
    <3>1. << s >> \in Seq(Seq(C))
      BY <2>2
    <3> HIDE DEF s, m, root, C
    <3>2. QED BY <1>0, <2>5, <3>1, ConcatAssociative, SMTT(30)
  <2>10. m \o << s >> = Append(m, s)
    <3> HIDE DEF s, m, C
    <3> QED BY <2>2, <2>5, AppendIsConcat
  <2> HIDE DEF F, s, m, M, r, root, C
  <2>11. Split(FormatPath(r)) = root \o M(r)
    BY <2>1, <2>3, <2>6, <2>7, <2>8, <2>9, <2>10
  <2>12. QED BY <2>1, <2>4, <2>11 DEF C, r, root
<1>3. Seq(U32) \subseteq T
  <2> HIDE DEF T
  <2> QED BY <1>1, <1>2, SequenceInduction
<1>4. QED BY <1>3

\* How it begins and ends: m/, a digit, and a mark at the end.
LEMMA FormatPathEnds ==
    ASSUME NEW ns \in Seq(U32), ns # << >>
    PROVE  LET s == FormatPath(ns)
           IN  /\ Len(s) \in Nat /\ Len(s) >= 3
               /\ s[1] = "m" /\ s[2] = "/" /\ s[3] \in Digits /\ s[Len(s)] = "'"
<1> DEFINE G(s) == /\ Len(s) \in Nat /\ Len(s) >= 3
                   /\ s[1] = "m" /\ s[2] = "/" /\ s[3] \in Digits /\ s[Len(s)] = "'"
           T == {q \in Seq(U32) : q # << >> => G(FormatPath(q))}
           C == PathCharacters
<1>1. << >> \in T
  BY EmptySeq
<1>2. ASSUME NEW q \in Seq(U32), NEW n \in U32, q \in T PROVE Append(q, n) \in T
  <2> DEFINE F == FormatPath(q)
             a == Append(F, "/")
             s == Marked(n)
             r == Append(q, n)
             t == FormatPath(r)
  <2>1. F \in Seq(C) /\ t = a \o s
    BY FormatPathAppend
  <2>2. s \in Seq(C) /\ s # << >> /\ s[1] \in Digits /\ s[Len(s)] = "'"
    BY MarkedFacts
  <2>3. "/" \in C /\ r \in Seq(U32)
    BY AppendProperties DEF PathCharacters
  <2> HIDE DEF F, s, r, C
  <2>4. /\ a \in Seq(C) /\ Len(a) = Len(F) + 1 /\ a[Len(F) + 1] = "/"
        /\ \A i \in 1 .. Len(F) : a[i] = F[i]
    BY <2>1, <2>3, AppendProperties
  <2>5. Len(F) \in Nat /\ Len(s) \in Nat \ {0}
    BY <2>1, <2>2, LenProperties, EmptySeq
  <2> HIDE DEF a
  <2>6. /\ Len(a \o s) = Len(a) + Len(s)
        /\ \A i \in 1 .. Len(a) : (a \o s)[i] = a[i]
        /\ \A i \in 1 .. Len(s) : (a \o s)[Len(a) + i] = s[i]
    <3>1. a \in Seq(C) /\ s \in Seq(C)
      BY <2>2, <2>4
    <3>2. /\ Len(a \o s) = Len(a) + Len(s)
          /\ \A i \in 1 .. Len(a) + Len(s) : (a \o s)[i] = IF i <= Len(a) THEN a[i] ELSE s[i - Len(a)]
      BY <3>1, ConcatProperties
    <3>3. \A i \in 1 .. Len(a) : (a \o s)[i] = a[i]
      BY <2>4, <2>5, <3>2
    <3>4. \A i \in 1 .. Len(s) : (a \o s)[Len(a) + i] = s[i]
      <4>1. TAKE i \in 1 .. Len(s)
      <4>2. PICK k \in 1 .. Len(a) + Len(s) : k = Len(a) + i
        BY <2>4, <2>5
      <4>3. QED BY <2>4, <2>5, <3>2, <4>2
    <3>5. QED BY <3>2, <3>3, <3>4
  <2> HIDE DEF t
  <2>7. Len(t) \in Nat /\ t[Len(t)] = "'"
    <3>1. Len(s) \in 1 .. Len(s) /\ Len(t) = Len(a) + Len(s)
      BY <2>1, <2>5, <2>6
    <3>2. (a \o s)[Len(a) + Len(s)] = s[Len(s)]
      BY <2>6, <3>1
    <3>3. QED BY <2>1, <2>2, <2>4, <2>5, <3>1, <3>2
  <2>8. CASE q = << >>
    <3>1. F = << "m" >>
      BY <2>8, FormatPathEmpty DEF F
    <3>2. Len(F) = 1 /\ F[1] = "m"
      BY <3>1
    <3>3. a[1] = "m" /\ a[2] = "/" /\ Len(a) = 2
      BY <2>4, <3>2
    <3>4. t[1] = "m" /\ t[2] = "/"
      BY <2>1, <2>6, <3>3
    <3>5. t[3] = s[1] /\ Len(t) >= 3
      <4>1. 1 \in 1 .. Len(s)
        BY <2>5
      <4>2. (a \o s)[Len(a) + 1] = s[1]
        BY <2>6, <4>1
      <4>3. Len(t) = 2 + Len(s)
        BY <2>1, <2>6, <3>3
      <4>4. QED BY <2>1, <2>5, <3>3, <4>2, <4>3
    <3>6. G(t)
      BY <2>2, <2>7, <3>4, <3>5
    <3>7. QED BY <2>3, <3>6 DEF t, r
  <2>9. CASE q # << >>
    <3>1. G(F)
      BY <1>2, <2>9 DEF F
    <3>2. t[1] = F[1] /\ t[2] = F[2] /\ t[3] = F[3]
      <4>1. \A i \in 1 .. 3 : i \in 1 .. Len(F) /\ i \in 1 .. Len(a)
        BY <2>4, <2>5, <3>1
      <4>2. \A i \in 1 .. 3 : t[i] = F[i]
        BY <2>1, <2>4, <2>6, <4>1
      <4>3. QED BY <4>2
    <3>3. Len(t) >= 3
      BY <2>1, <2>4, <2>5, <2>6, <3>1
    <3>4. G(t)
      BY <2>7, <3>1, <3>2, <3>3
    <3>5. QED BY <2>3, <3>4 DEF t, r
  <2>10. QED BY <2>8, <2>9
<1>3. Seq(U32) \subseteq T
  <2> HIDE DEF T
  <2> QED BY <1>1, <1>2, SequenceInduction
<1>4. QED BY <1>3

---------------------------------------------------------------------------
(* Reading a text.                                                         *)

\* The least and the greatest element of an interval.
LEMMA IntervalEnds ==
    ASSUME NEW n \in Nat
    PROVE  /\ n # 0 => 1 .. n # {} /\ Min(1 .. n) = 1 /\ Max(1 .. n) = n
           /\ Max({0} \cup 1 .. n) = n
<1>0. n # 0 => 1 \in 1 .. n
  OBVIOUS
<1>1. n # 0 => Min(1 .. n) = 1
  BY DEF Min
<1>2. n # 0 => Max(1 .. n) = n
  BY DEF Max
<1>3. Max({0} \cup 1 .. n) = n
  BY DEF Max
<1>4. QED BY <1>0, <1>1, <1>2, <1>3

\* A whole sequence is its subsequence from 1 on.
LEMMA WholeSubSeq ==
    ASSUME NEW S, NEW s \in Seq(S)
    PROVE  SubSeq(s, 1, Len(s)) = s
<1> DEFINE q == SubSeq(s, 1, Len(s))
<1>1. Len(s) \in Nat
  BY LenProperties
<1>2. q \in Seq(S) /\ Len(q) = Len(s) /\ \A i \in 1 .. Len(s) : q[i] = s[i]
  <2>1. Len(s) \in 0 .. Len(s)
    BY <1>1
  <2>2. QED BY <2>1, SplitAt
<1> HIDE DEF q
<1>3. q = s
  BY <1>1, <1>2, SeqEqual
<1>4. QED BY <1>3 DEF q

\* Without a root in front nothing is dropped.
LEMMA TrimNoRoot ==
    ASSUME NEW S, NEW s \in Seq(S), s[1] # "m"
    PROVE  TrimStartRoot(s) = s
<1> DEFINE half == Len(s) \div 2
           roots == {k \in 0 .. half :
                        \A i \in 1 .. k : s[2 * i - 1] = "m" /\ s[2 * i] = "/"}
<1>1. Len(s) \in Nat /\ half \in Nat
  BY LenProperties
<1>2. roots = {0}
  <2>1. 0 \in roots
    BY <1>1
  <2>2. ASSUME NEW k \in roots, k # 0 PROVE FALSE
    <3>1. k \in 0 .. half /\ \A i \in 1 .. k : s[2 * i - 1] = "m"
      OBVIOUS
    <3> HIDE DEF roots, half
    <3>2. 1 \in 1 .. k /\ 2 * 1 - 1 = 1
      BY <1>1, <2>2, <3>1
    <3>3. s[1] = "m"
      BY <3>1, <3>2
    <3>4. QED BY <3>3
  <2> HIDE DEF roots
  <2>3. QED BY <2>1, <2>2
<1>3. TrimStartRoot(s) = SubSeq(s, 2 * Max(roots) + 1, Len(s))
  BY DEF TrimStartRoot
<1> HIDE DEF roots
<1>4. Max(roots) = 0
  BY <1>2 DEF Max
<1>5. 2 * Max(roots) + 1 = 1
  BY <1>4
<1>6. QED BY <1>3, <1>5, WholeSubSeq

\* A text without spaces stays as it is.
LEMMA TrimSolid ==
    ASSUME NEW S, NEW s \in Seq(S), s # << >>, \A i \in 1 .. Len(s) : s[i] # " "
    PROVE  Trim(s) = s
<1> DEFINE solid == {i \in DOMAIN s : s[i] # " "}
<1>0. Len(s) \in Nat \ {0}
  BY LenProperties, EmptySeq
<1>1. Len(s) \in Nat \ {0} /\ DOMAIN s = 1 .. Len(s)
  BY <1>0, LenProperties
<1>2. solid = 1 .. Len(s)
  BY <1>1
<1>3. Min(solid) = 1 /\ Max(solid) = Len(s) /\ solid # {}
  <2> HIDE DEF solid
  <2>1. /\ Min(1 .. Len(s)) = 1 /\ Max(1 .. Len(s)) = Len(s)
        /\ 1 .. Len(s) # {}
    BY <1>0, IntervalEnds
  <2>2. QED BY <1>2, <2>1
<1>4. Trim(s) = SubSeq(s, Min(solid), Max(solid))
  BY <1>3 DEF Trim
<1>5. QED BY <1>3, <1>4, WholeSubSeq

\* One root is dropped if no other follows.
LEMMA TrimOneRoot ==
    ASSUME NEW s, Len(s) \in Nat, Len(s) >= 3, s[1] = "m", s[2] = "/", s[3] # "m"
    PROVE  TrimStartRoot(s) = SubSeq(s, 3, Len(s))
<1> DEFINE roots == {k \in 0 .. Len(s) \div 2 :
                        \A i \in 1 .. k : s[2 * i - 1] = "m" /\ s[2 * i] = "/"}
<1>1. Len(s) \div 2 \in Nat /\ Len(s) \div 2 >= 1
  OBVIOUS
<1>2. 1 \in roots
  <2>1. \A i \in 1 .. 1 : 2 * i - 1 = 1 /\ 2 * i = 2
    OBVIOUS
  <2>2. QED BY <1>1, <2>1
<1>3. \A k \in roots : k \in Int /\ k <= 1
  <2>1. SUFFICES ASSUME NEW k \in roots, k >= 2 PROVE FALSE
    BY <1>1
  <2>2. 2 \in 1 .. k
    BY <1>1, <2>1
  <2>3. s[2 * 2 - 1] = "m"
    BY <2>2
  <2>4. QED BY <2>3
<1> HIDE DEF roots
<1>4. Max(roots) = 1
  BY <1>2, <1>3 DEF Max
<1>5. TrimStartRoot(s) = SubSeq(s, 2 * Max(roots) + 1, Len(s))
  BY DEF TrimStartRoot, roots
<1>6. QED BY <1>4, <1>5

\* A mark after digits is dropped.
LEMMA TrimMarked ==
    ASSUME NEW d \in Seq(Digits), NEW e \in Marks
    PROVE  TrimEndMarks(Append(d, e)) = d
<1> DEFINE S == Digits \cup {e}
           s == Append(d, e)
           rest == {i \in DOMAIN s : s[i] \notin Marks}
<1>1. d \in Seq(S) /\ e \in S /\ Len(d) \in Nat
  BY LenProperties
<1>2. /\ s \in Seq(S) /\ Len(s) = Len(d) + 1 /\ s[Len(d) + 1] = e
      /\ \A i \in 1 .. Len(d) : s[i] = d[i]
  BY <1>1, AppendProperties
<1>3. \A i \in 1 .. Len(d) : s[i] \notin Marks
  <2>1. \A i \in 1 .. Len(d) : d[i] \in Digits
    BY ElementOfSeq
  <2>2. QED BY <1>2, <2>1, DigitFacts
<1> HIDE DEF s
<1>4. rest = 1 .. Len(d)
  <2>1. DOMAIN s = 1 .. Len(d) + 1
    BY <1>2, LenProperties
  <2>2. e \in Marks
    OBVIOUS
  <2>3. \A i \in DOMAIN s : i \in 1 .. Len(d) \/ i = Len(d) + 1
    BY <1>1, <2>1
  <2>4. \A i \in 1 .. Len(d) : i \in DOMAIN s
    BY <1>1, <2>1
  <2>5. \A i \in rest : i \in 1 .. Len(d)
    BY <1>2, <2>2, <2>3
  <2>6. \A i \in 1 .. Len(d) : i \in rest
    BY <1>3, <2>4
  <2> HIDE DEF rest
  <2>7. QED BY <2>5, <2>6
<1>5. TrimEndMarks(s) = SubSeq(s, 1, Len(d))
  <2>1. Max({0} \cup rest) = Len(d)
    BY <1>1, <1>4, IntervalEnds
  <2>2. TrimEndMarks(s) = SubSeq(s, 1, Max({0} \cup rest))
    BY DEF TrimEndMarks
  <2>3. QED BY <2>1, <2>2
<1>6. SubSeq(s, 1, Len(d)) = d
  <2> DEFINE q == SubSeq(s, 1, Len(d))
  <2>1. Len(d) \in 0 .. Len(s)
    BY <1>1, <1>2
  <2>2. q \in Seq(S) /\ Len(q) = Len(d) /\ \A i \in 1 .. Len(d) : q[i] = s[i]
    BY <1>2, <2>1, SplitAt
  <2> HIDE DEF q, S
  <2>3. q = d
    BY <1>1, <1>2, <2>2, SeqEqual
  <2>4. QED BY <2>3 DEF q
<1>7. QED BY <1>5, <1>6 DEF s

\* Digits without a mark stay as they are.
LEMMA TrimUnmarked ==
    ASSUME NEW d \in Seq(Digits)
    PROVE  TrimEndMarks(d) = d
<1> DEFINE rest == {i \in DOMAIN d : d[i] \notin Marks}
<1>1. Len(d) \in Nat /\ DOMAIN d = 1 .. Len(d)
  BY LenProperties
<1>2. \A i \in 1 .. Len(d) : d[i] \notin Marks
  <2>1. \A i \in 1 .. Len(d) : d[i] \in Digits
    BY ElementOfSeq
  <2>2. QED BY <2>1, DigitFacts
<1>3. rest = 1 .. Len(d)
  BY <1>1, <1>2
<1>4. TrimEndMarks(d) = SubSeq(d, 1, Max({0} \cup rest))
  BY DEF TrimEndMarks
<1> HIDE DEF rest
<1>5. Max({0} \cup rest) = Len(d)
  BY <1>1, <1>3, IntervalEnds
<1>6. QED BY <1>4, <1>5, WholeSubSeq

\* Digits are read as their number, if it is a u32.
LEMMA DigitsParse ==
    ASSUME NEW d \in Seq(Digits), d # << >>
    PROVE  ParseU32(d) = IF NumberOf(d) \in U32 THEN {NumberOf(d)} ELSE {}
<1>1. d \in Seq(Digits) /\ d # << >>
  OBVIOUS
<1>2. 1 \in 1 .. Len(d) /\ \A i \in 1 .. Len(d) : d[i] \in Digits
  BY <1>1, ElementOfSeq, LenProperties, EmptySeq
<1>3. d[1] # "+"
  BY <1>2, DigitFacts
<1>4. ToSet(d) \subseteq Digits
  BY <1>1, <1>2, LenProperties DEF ToSet
<1>5. QED BY <1>1, <1>3, <1>4 DEF ParseU32, Some, None

\* A marked number is read as its hardened index.
LEMMA MarkedParses ==
    ASSUME NEW n \in U32
    PROVE  ParseIndex(Marked(n)) = Harden(n)
<1>1. Decimal[n] \in Seq(Digits) /\ Decimal[n] # << >> /\ NumberOf(Decimal[n]) = n
  BY DecimalReads DEF Writes
<1>2. TrimEndMarks(Marked(n)) = Decimal[n]
  <2>1. "'" \in Marks
    BY DEF Marks
  <2>2. QED BY <1>1, <2>1, TrimMarked DEF Marked
<1>3. ParseU32(TrimEndMarks(Marked(n))) = {n}
  BY <1>1, <1>2, DigitsParse
<1>4. UNION {Harden(number) : number \in {n}} = Harden(n)
  <2> DEFINE H(m) == Harden(m)
  <2> HIDE DEF H
  <2>1. UNION {H(number) : number \in {n}} = H(n)
    OBVIOUS
  <2>2. QED BY <2>1 DEF H
<1>5. QED BY <1>3, <1>4 DEF ParseIndex

\* The parts that are read from a path that was written.
LEMMA FormatPathParts ==
    ASSUME NEW ns \in Seq(U32), ns # << >>
    PROVE  Split(TrimStartRoot(Trim(FormatPath(ns)))) = [k \in 1 .. Len(ns) |-> Marked(ns[k])]
<1> DEFINE C == PathCharacters
           s == FormatPath(ns)
           b == SubSeq(s, 3, Len(s))
           root == << << "m" >> >>
           M == [k \in 1 .. Len(ns) |-> Marked(ns[k])]
<1>1. s \in Seq(C) /\ Split(s) = root \o M
  BY FormatPathSplits
<1>2. /\ Len(s) \in Nat /\ Len(s) >= 3
      /\ s[1] = "m" /\ s[2] = "/" /\ s[3] \in Digits
  BY FormatPathEnds
<1>3. M \in Seq(Seq(C)) /\ Len(M) = Len(ns)
  <2>1. \A i \in 1 .. Len(ns) : ns[i] \in U32
    BY ElementOfSeq
  <2>2. \A i \in 1 .. Len(ns) : Marked(ns[i]) \in Seq(C)
    BY <2>1, MarkedFacts
  <2>3. M \in [1 .. Len(ns) -> Seq(C)]
    BY <2>2
  <2>4. Len(ns) \in Nat
    BY LenProperties
  <2>5. QED BY <2>3, <2>4, FunctionIsSequence
<1> HIDE DEF s, M
<1>4. Trim(s) = s
  <2>1. " " \notin C
    BY DigitFacts DEF PathCharacters
  <2>2. \A i \in 1 .. Len(s) : s[i] # " "
    BY <1>1, <2>1, ElementOfSeq
  <2>3. s # << >>
    BY <1>2, EmptySeq
  <2>4. QED BY <1>1, <2>2, <2>3, TrimSolid
<1>5. TrimStartRoot(s) = b
  <2>1. s[3] # "m"
    BY <1>2, DigitFacts
  <2>2. QED BY <1>2, <2>1, TrimOneRoot
<1>6. b \in Seq(C) /\ s = << "m", "/" >> \o b
  <2>1. 2 \in 0 .. Len(s) /\ 2 + 1 = 3
    BY <1>2
  <2> DEFINE a == SubSeq(s, 1, 2)
  <2>2. /\ a \in Seq(C) /\ Len(a) = 2 /\ a[1] = s[1] /\ a[2] = s[2]
        /\ b \in Seq(C) /\ s = a \o b
    <3>1. /\ SubSeq(s, 1, 2) \in Seq(C) /\ Len(SubSeq(s, 1, 2)) = 2
          /\ \A i \in 1 .. 2 : SubSeq(s, 1, 2)[i] = s[i]
          /\ SubSeq(s, 2 + 1, Len(s)) \in Seq(C)
          /\ s = SubSeq(s, 1, 2) \o SubSeq(s, 2 + 1, Len(s))
      BY <1>1, <2>1, SplitAt
    <3>2. 1 \in 1 .. 2 /\ 2 \in 1 .. 2
      OBVIOUS
    <3>3. QED BY <2>1, <3>1, <3>2
  <2> HIDE DEF a, b, C
  <2>3. a = << "m", "/" >>
    BY <1>2, <2>2
  <2>4. QED BY <2>2, <2>3
<1>7. Split(s) = root \o Split(b)
  <2>1. << "m" >> \in Seq(C) /\ "/" \in C
    BY DEF PathCharacters
  <2>2. Append(<< "m" >>, "/") = << "m", "/" >>
    <3> DEFINE m == << "m" >>
               q == Append(m, "/")
               e == << "m", "/" >>
    <3>0. "/" \in C
      BY <2>1
    <3>1. m \in Seq(C) /\ Len(m) = 1 /\ m[1] = "m"
      BY <2>1
    <3>2. e \in Seq(C) /\ Len(e) = 2 /\ e[1] = "m" /\ e[2] = "/"
      BY DEF PathCharacters
    <3> HIDE DEF m, e, C
    <3>3. q \in Seq(C) /\ Len(q) = 2 /\ q[1] = "m" /\ q[2] = "/"
      <4>1. \A r \in Seq(C) : /\ Append(r, "/") \in Seq(C) /\ Len(Append(r, "/")) = Len(r) + 1
                              /\ Append(r, "/")[Len(r) + 1] = "/"
                              /\ \A i \in 1 .. Len(r) : Append(r, "/")[i] = r[i]
        BY <3>0, AppendProperties
      <4>2. /\ q \in Seq(C) /\ Len(q) = Len(m) + 1 /\ q[Len(m) + 1] = "/"
            /\ \A i \in 1 .. Len(m) : q[i] = m[i]
        BY <3>1, <4>1
      <4> HIDE DEF q
      <4>3. QED BY <3>1, <4>2
    <3> HIDE DEF q
    <3>4. \A i \in 1 .. 2 : q[i] = e[i]
      BY <3>2, <3>3
    <3>5. q = e
      BY <3>2, <3>3, <3>4, SeqEqual
    <3>6. QED BY <3>5 DEF q, m, e
  <2>3. Split(Append(<< "m" >>, "/") \o b) = Split(<< "m" >>) \o Split(b)
    <3> HIDE DEF b, C
    <3> QED BY <1>6, <2>1, SplitConcat
  <2>4. Split(<< "m" >>) = root
    <3>1. \A i \in 1 .. Len(<< "m" >>) : << "m" >>[i] # "/"
      OBVIOUS
    <3>2. QED BY <2>1, <3>1, SplitOne
  <2> HIDE DEF b, root
  <2>5. QED BY <1>6, <2>2, <2>3, <2>4
<1>8. Split(b) = M
  <2> DEFINE p == Split(b)
  <2>1. p \in Seq(Seq(C)) /\ root \in Seq(Seq(C))
    <3>1. root \in Seq(Seq(C))
      BY DEF PathCharacters
    <3>2. p \in Seq(Seq(C))
      BY <1>6, SplitType
    <3>3. QED BY <3>1, <3>2
  <2> HIDE DEF p, root, C
  <2>2. root \o p = root \o M
    BY <1>1, <1>7 DEF p
  <2>3. SubSeq(root \o p, Len(root) + 1, Len(root \o p)) = p
    BY <2>1, ConcatSuffix
  <2>4. SubSeq(root \o M, Len(root) + 1, Len(root \o M)) = M
    BY <1>3, <2>1, ConcatSuffix
  <2>5. p = M
    BY <2>2, <2>3, <2>4
  <2>6. QED BY <2>5 DEF p
<1>9. QED BY <1>4, <1>5, <1>8 DEF s, M

---------------------------------------------------------------------------
(* What is read from any text.                                             *)

\* Trimming leaves a text.
LEMMA TrimType ==
    ASSUME NEW S, NEW s \in Seq(S)
    PROVE  Trim(s) \in Seq(S)
<1> DEFINE solid == {i \in DOMAIN s : s[i] # " "}
<1>1. Len(s) \in Nat /\ DOMAIN s = 1 .. Len(s)
  BY LenProperties
<1>2. CASE solid = {}
  BY <1>2, EmptySeq DEF Trim
<1>3. CASE solid # {}
  <2>1. solid \subseteq 1 .. Len(s)
    BY <1>1
  <2> HIDE DEF solid
  <2>2. Min(solid) \in solid
    <3>1. solid \in SUBSET Nat
      BY <1>1, <2>1
    <3>2. \E least \in solid : \A i \in solid : least <= i
      BY <1>3, <3>1, LeastNatural
    <3>3. Min(solid) = CHOOSE x \in solid : \A y \in solid : x <= y
      BY DEF Min
    <3>4. QED BY <3>2, <3>3
  <2>3. Max(solid) \in solid
    <3>1. solid \in SUBSET (0 .. Len(s))
      BY <1>1, <2>1
    <3>2. solid # {}
      BY <1>3
    <3>3. QED BY <1>1, <3>1, <3>2, GreatestElement
  <2>4. Trim(s) = SubSeq(s, Min(solid), Max(solid))
    BY <1>3 DEF Trim, solid
  <2>5. Min(solid) \in Nat \ {0} /\ Max(solid) \in Nat /\ Max(solid) <= Len(s)
    <3>1. Min(solid) \in 1 .. Len(s) /\ Max(solid) \in 1 .. Len(s)
      BY <2>1, <2>2, <2>3
    <3> DEFINE first == Min(solid)
               last == Max(solid)
    <3> HIDE DEF first, last
    <3>2. first \in 1 .. Len(s) /\ last \in 1 .. Len(s)
      BY <3>1 DEF first, last
    <3>3. first \in Nat \ {0} /\ last \in Nat /\ last <= Len(s)
      BY <1>1, <3>2
    <3>4. QED BY <3>3 DEF first, last
  <2>6. QED BY <2>4, <2>5, SubSeqElements
<1>4. QED BY <1>2, <1>3

\* And so does dropping roots.
LEMMA TrimStartRootType ==
    ASSUME NEW S, NEW s \in Seq(S)
    PROVE  TrimStartRoot(s) \in Seq(S)
<1> DEFINE half == Len(s) \div 2
           roots == {k \in 0 .. half :
                        \A i \in 1 .. k : s[2 * i - 1] = "m" /\ s[2 * i] = "/"}
<1>1. Len(s) \in Nat /\ half \in Nat /\ 2 * half <= Len(s)
  BY LenProperties
<1>2. 0 \in roots /\ roots \subseteq 0 .. half
  BY <1>1
<1>3. TrimStartRoot(s) = SubSeq(s, 2 * Max(roots) + 1, Len(s))
  BY DEF TrimStartRoot
<1> HIDE DEF roots, half
<1>4. Max(roots) \in 0 .. half
  BY <1>1, <1>2, GreatestElement
<1>5. 2 * Max(roots) + 1 \in Nat \ {0}
  BY <1>1, <1>4
<1>6. QED BY <1>1, <1>3, <1>5, SubSeqElements

\* An index that is read is a hardened one.
LEMMA ParsedIndex ==
    ASSUME NEW part, ParseIndex(part) # None
    PROVE  \E n \in U32 : n < HardenedBit /\ ParseIndex(part) = {n + HardenedBit}
<1> DEFINE t == TrimEndMarks(part)
           P == ParseU32(t)
<1>1. P = {} \/ \E n \in U32 : P = {n}
  BY DEF ParseU32, Some, None
<1> HIDE DEF P
<1>2. ParseIndex(part) = UNION {Harden(number) : number \in P}
  BY DEF ParseIndex, P
<1>3. P # {}
  BY <1>2 DEF None
<1>4. PICK n \in U32 : P = {n}
  BY <1>1, <1>3
<1>5. ParseIndex(part) = Harden(n)
  <2> DEFINE H(m) == Harden(m)
  <2> HIDE DEF H
  <2>1. UNION {H(number) : number \in {n}} = H(n)
    OBVIOUS
  <2>2. QED BY <1>2, <1>4, <2>1 DEF H
<1>6. n < HardenedBit /\ Harden(n) = {n + HardenedBit}
  BY <1>5 DEF Harden, Some, None
<1>7. QED BY <1>5, <1>6

\* A path that is read has a part at least, and hardened indices only.
LEMMA ParsedPath ==
    ASSUME NEW S, NEW s \in Seq(S), NEW path \in ParseHardenedPath(s)
    PROVE  /\ path \in Seq(U32) /\ path # << >>
           /\ \A k \in 1 .. Len(path) : path[k] >= HardenedBit
<1> DEFINE parts == Split(TrimStartRoot(Trim(s)))
           Chosen(k) == CHOOSE i \in ParseIndex(parts[k]) : TRUE
<1>1. parts \in Seq(Seq(S)) /\ parts # << >>
  BY TrimType, TrimStartRootType, SplitType
<1>2. /\ \A k \in DOMAIN parts : ParseIndex(parts[k]) # None
      /\ path = [k \in DOMAIN parts |-> Chosen(k)]
  BY DEF ParseHardenedPath, Some, None
<1>3. \A k \in DOMAIN parts : Chosen(k) \in U32 /\ Chosen(k) >= HardenedBit
  <2>1. TAKE k \in DOMAIN parts
  <2>2. PICK n \in U32 : n < HardenedBit /\ ParseIndex(parts[k]) = {n + HardenedBit}
    BY <1>2, ParsedIndex
  <2> HIDE DEF parts
  <2>3. Chosen(k) = n + HardenedBit
    BY <2>2
  <2>4. n \in Nat /\ HardenedBit \in Nat
    BY HardenedBitAssumption DEF U32
  <2>5. n + HardenedBit \in U32 /\ n + HardenedBit >= HardenedBit
    BY <2>2, <2>4 DEF U32
  <2>6. QED BY <2>3, <2>5
<1> HIDE DEF parts, Chosen
<1>4. Len(parts) \in Nat \ {0} /\ DOMAIN parts = 1 .. Len(parts)
  BY <1>1, LenProperties, EmptySeq
<1>5. path \in [1 .. Len(parts) -> U32]
  BY <1>2, <1>3, <1>4
<1>6. path \in Seq(U32) /\ Len(path) = Len(parts)
  BY <1>4, <1>5, FunctionIsSequence
<1>7. path # << >>
  BY <1>4, <1>6, EmptySeq
<1>8. \A k \in 1 .. Len(path) : path[k] >= HardenedBit
  BY <1>2, <1>3, <1>4, <1>6
<1>9. QED BY <1>6, <1>7, <1>8

---------------------------------------------------------------------------
(* The path of a wallet.                                                   *)

(* A path that the wallets write is read back as its numbers, each one     *)
(* hardened, and refused exactly when a number is hardened already: for    *)
(* every length of the path, every base and every width of the indices     *)
(* (parse_hardened_path, from_mnemonic_at).                                *)
THEOREM PathRoundTrip ==
    \A ns \in Seq(U32) \ {<< >>} :
        ParseHardenedPath(FormatPath(ns)) =
            IF \A k \in 1 .. Len(ns) : ns[k] < HardenedBit
            THEN Some([k \in 1 .. Len(ns) |-> ns[k] + HardenedBit])
            ELSE None
<1>1. TAKE ns \in Seq(U32) \ {<< >>}
<1> DEFINE s == FormatPath(ns)
           parts == Split(TrimStartRoot(Trim(s)))
           I == 1 .. Len(ns)
<1>2. \A k \in I : ns[k] \in U32
  BY ElementOfSeq
<1>3. DOMAIN parts = I /\ \A k \in I : parts[k] = Marked(ns[k])
  BY FormatPathParts
<1>4. \A k \in I : ParseIndex(parts[k]) = Harden(ns[k])
  BY <1>2, <1>3, MarkedParses
<1>5. \A k \in I : ParseIndex(parts[k]) # None <=> ns[k] < HardenedBit
  BY <1>4 DEF Harden, Some, None
<1>6. ASSUME \A k \in I : ns[k] < HardenedBit
      PROVE  \A k \in I : (CHOOSE i \in ParseIndex(parts[k]) : TRUE) = ns[k] + HardenedBit
  <2>1. TAKE k \in I
  <2>2. ParseIndex(parts[k]) = {ns[k] + HardenedBit}
    BY <1>4, <1>6 DEF Harden, Some
  <2>3. QED BY <2>2
<1> HIDE DEF I, parts
<1>7. ParseHardenedPath(s) =
          IF \A k \in DOMAIN parts : ParseIndex(parts[k]) # None
          THEN Some([k \in DOMAIN parts |-> CHOOSE i \in ParseIndex(parts[k]) : TRUE])
          ELSE None
  BY DEF ParseHardenedPath, parts
<1>8. CASE \A k \in I : ns[k] < HardenedBit
  <2> DEFINE Chosen(k) == CHOOSE i \in ParseIndex(parts[k]) : TRUE
  <2>1. \A k \in I : Chosen(k) = ns[k] + HardenedBit
    BY <1>6, <1>8
  <2>2. ParseHardenedPath(s) = Some([k \in I |-> Chosen(k)])
    BY <1>3, <1>5, <1>7, <1>8
  <2> HIDE DEF Chosen
  <2>3. [k \in I |-> Chosen(k)] = [k \in I |-> ns[k] + HardenedBit]
    BY <2>1
  <2>4. ParseHardenedPath(s) = Some([k \in I |-> ns[k] + HardenedBit])
    BY <2>2, <2>3
  <2>5. QED BY <1>8, <2>4 DEF I
<1>9. CASE ~ \A k \in I : ns[k] < HardenedBit
  BY <1>3, <1>5, <1>7, <1>9 DEF I
<1>10. QED BY <1>8, <1>9

---------------------------------------------------------------------------
(* Texts that are typed.                                                   *)

\* A text is typed from the characters.
TextTyped == text \in Seq(Characters)

LEMMA TextTypedInit == TextInit => TextTyped
  BY EmptySeq DEF TextInit, TextTyped

LEMMA TextTypedNext == TextTyped /\ [TextNext]_text => TextTyped'
<1>1. ASSUME TextTyped, NEW c \in Characters, Type(c) PROVE TextTyped'
  BY <1>1, AppendProperties DEF TextTyped, Type
<1>2. ASSUME TextTyped, UNCHANGED text PROVE TextTyped'
  BY <1>2 DEF TextTyped
<1>3. QED BY <1>1, <1>2 DEF TextNext

---------------------------------------------------------------------------
(* The documented grammar.                                                 *)

\* The characters of numbers, marks and separators.
BodyCharacters == Digits \cup Marks \cup {"/"}

\* A character is a separator, a mark or a digit, and one of them only.
LEMMA CharacterFacts ==
    /\ "/" \in BodyCharacters /\ "/" \notin Marks /\ "/" \notin Digits
    /\ Digits \subseteq BodyCharacters /\ Marks \subseteq BodyCharacters
    /\ \A c \in Digits : c \notin Marks
    /\ " " \notin BodyCharacters /\ "m" \notin BodyCharacters
    /\ \A c \in BodyCharacters : c = "/" \/ c \in Marks \/ c \in Digits
<1>1. "/" \notin Marks /\ " " \notin Marks /\ "m" \notin Marks
  BY DEF Marks
<1>2. "/" \notin Digits /\ " " \notin Digits /\ "m" \notin Digits /\ \A c \in Digits : c \notin Marks
  BY DigitFacts
<1>3. QED BY <1>1, <1>2 DEF BodyCharacters

\* The numbers, with a character more.
Read(ns, c) == IF c = "/" THEN Append(ns, 0)
               ELSE IF c \in Marks THEN ns
               ELSE [ns EXCEPT ![Len(ns)] = Radix * @ + ValueOf[c]]

\* A character more leaves numbers, one or more.
LEMMA ReadType ==
    ASSUME NEW ns \in Seq(Nat) \ {<< >>}, NEW c \in BodyCharacters
    PROVE  Read(ns, c) \in Seq(Nat) \ {<< >>}
<1>1. CASE c = "/"
  <2>1. Append(ns, 0) \in Seq(Nat) /\ Append(ns, 0) # << >>
    BY AppendProperties
  <2>2. QED BY <1>1, <2>1 DEF Read
<1>2. CASE c \in Marks
  BY <1>2, CharacterFacts DEF Read
<1>3. CASE c \in Digits
  <2> DEFINE last == Radix * ns[Len(ns)] + ValueOf[c]
             new == [ns EXCEPT ![Len(ns)] = last]
  <2>1. Len(ns) \in 1 .. Len(ns) /\ Len(ns) \in Nat
    BY LenProperties, EmptySeq
  <2>2. last \in Nat
    <3>1. ns[Len(ns)] \in Nat
      BY <2>1, ElementOfSeq
    <3>2. QED BY <1>3, <3>1, ShiftType
  <2>3. Read(ns, c) = new
    BY <1>3, CharacterFacts DEF Read
  <2> HIDE DEF last
  <2>4. new \in Seq(Nat) /\ Len(new) = Len(ns)
    BY <2>1, <2>2, ExceptSeq
  <2>5. new # << >>
    BY <2>1, <2>4, EmptySeq
  <2>6. QED BY <2>3, <2>4, <2>5
<1>4. QED BY <1>1, <1>2, <1>3, CharacterFacts

\* The recursive function of NumbersIn.
NumbersTo(body) ==
    CHOOSE f : f = [n \in 0 .. Len(body) |->
                       IF n = 0 THEN << 0 >>
                       ELSE IF body[n] = "/" THEN Append(f[n - 1], 0)
                            ELSE IF body[n] \in Marks THEN f[n - 1]
                            ELSE [f[n - 1] EXCEPT ![Len(f[n - 1])] = Radix * @ + ValueOf[body[n]]]]

\* NumbersIn is the last value of its recursive function.
LEMMA NumbersDef == \A s : NumbersIn(s) = NumbersTo(s)[Len(s)]
BY DEF NumbersIn, NumbersTo

\* The recursive function exists, and satisfies its equation.
LEMMA NumbersToProperty ==
    ASSUME NEW s \in Seq(BodyCharacters)
    PROVE  /\ \A n \in 0 .. Len(s) : NumbersTo(s)[n] \in Seq(Nat) \ {<< >>}
           /\ NumbersTo(s)[0] = << 0 >>
           /\ \A n \in 1 .. Len(s) : NumbersTo(s)[n] = Read(NumbersTo(s)[n - 1], s[n])
<1> DEFINE N == Len(s)
           V == Seq(Nat) \ {<< >>}
           start == << 0 >>
           Put1(x, n) == Read(x, s[n])
           G == [n \in 1 .. N |-> [x \in V |-> Put1(x, n)]]
<1>1. N \in Nat /\ start \in V
  <2>1. start \in V
    OBVIOUS
  <2>2. QED BY <2>1, LenProperties
<1>2. \A n \in 1 .. N, x \in V : Put1(x, n) \in V
  <2>1. \A n \in 1 .. N : s[n] \in BodyCharacters
    BY ElementOfSeq
  <2>2. QED BY <2>1, ReadType
<1> HIDE DEF V, Put1, start
<1>3. G \in [1 .. N -> [V -> V]]
  BY <1>2
<1>4. PICK f \in [0 .. N -> V] : f[0] = start /\ \A n \in 1 .. N : f[n] = G[n][f[n - 1]]
  <2> HIDE DEF N, G
  <2> QED BY <1>1, <1>3, RecursionExists
<1> DEFINE Step(g, n) == IF n = 0 THEN start ELSE Put1(g[n - 1], n)
<1>5. \A n \in 0 .. N : f[n] = Step(f, n)
  <2>1. TAKE n \in 0 .. N
  <2>2. n # 0 => n \in 1 .. N /\ f[n - 1] \in V
    BY <1>1
  <2>3. n # 0 => f[n] = Put1(f[n - 1], n)
    BY <1>4, <2>2
  <2>4. QED BY <1>4, <2>3
<1>6. f = [n \in 0 .. N |-> Step(f, n)]
  <2> HIDE DEF Step
  <2> QED BY <1>5
<1>7. NumbersTo(s) = [n \in 0 .. N |-> Step(NumbersTo(s), n)]
  BY <1>6 DEF NumbersTo, Put1, Read, start
<1> DEFINE h == NumbersTo(s)
<1> HIDE DEF h
<1>8. \A n \in 0 .. N : h[n] = IF n = 0 THEN start ELSE Put1(h[n - 1], n)
  <2>1. h = [n \in 0 .. N |-> Step(h, n)]
    BY <1>7 DEF h
  <2>2. QED BY <2>1
<1>9. \A n \in 1 .. N : h[n - 1] \in V => h[n] \in V
  <2>1. TAKE n \in 1 .. N
  <2>2. HAVE h[n - 1] \in V
  <2>3. Put1(h[n - 1], n) \in V
    BY <1>2, <2>2
  <2>4. h[n] = Put1(h[n - 1], n)
    <3>1. n \in 0 .. N /\ n # 0
      BY <1>1
    <3>2. QED BY <1>8, <3>1
  <2>5. QED BY <2>3, <2>4
<1>10. \A n \in 0 .. N : h[n] \in V
  <2>1. h[0] \in V
    BY <1>1, <1>8
  <2> HIDE DEF N
  <2>2. QED BY <1>1, <1>9, <2>1, StepsType
<1>11. QED BY <1>1, <1>8, <1>10 DEF h, V, Put1, start

\* No characters are one number, zero.
LEMMA NumbersEmpty == NumbersIn(<< >>) = << 0 >>
<1>1. << >> \in Seq(BodyCharacters) /\ Len(<< >>) = 0
  BY EmptySeq
<1>2. QED BY <1>1, NumbersDef, NumbersToProperty

\* A character more.
LEMMA NumbersAppend ==
    ASSUME NEW s \in Seq(BodyCharacters), NEW c \in BodyCharacters
    PROVE  NumbersIn(Append(s, c)) = Read(NumbersIn(s), c)
<1> DEFINE q == Append(s, c)
           h == NumbersTo(q)
           k == NumbersTo(s)
<1>1. q \in Seq(BodyCharacters) /\ Len(q) = Len(s) + 1 /\ q[Len(s) + 1] = c /\ Len(s) \in Nat
  BY AppendProperties, LenProperties
<1>2. \A i \in 1 .. Len(s) : q[i] = s[i]
  BY AppendProperties
<1> HIDE DEF q
<1>3. h[0] = k[0]
  <2>1. h[0] = << 0 >>
    BY <1>1, NumbersToProperty
  <2>2. k[0] = << 0 >>
    BY NumbersToProperty
  <2>3. QED BY <2>1, <2>2
<1>4. \A i \in 1 .. Len(q) : h[i] = Read(h[i - 1], q[i])
  BY <1>1, NumbersToProperty
<1>5. \A i \in 1 .. Len(s) : k[i] = Read(k[i - 1], s[i])
  BY NumbersToProperty
<1> HIDE DEF h, k
<1>6. \A i \in 1 .. Len(s) : h[i - 1] = k[i - 1] => h[i] = k[i]
  <2>1. \A i \in 1 .. Len(s) : i \in 1 .. Len(q)
    BY <1>1
  <2>2. QED BY <1>2, <1>4, <1>5, <2>1
<1>7. h[Len(s)] = k[Len(s)]
  <2>1. Len(s) \in Nat /\ h[0] = k[0]
    BY <1>1, <1>3
  <2>2. \A i \in 0 .. Len(s) : h[i] = k[i]
    BY <2>1, <1>6, StepsAgree, ZenonT(60)
  <2>3. QED BY <2>1, <2>2
<1>8. h[Len(q)] = Read(k[Len(s)], c)
  <2>1. Len(q) \in 1 .. Len(q) /\ Len(q) - 1 = Len(s)
    BY <1>1
  <2>2. QED BY <1>1, <1>4, <1>7, <2>1
<1>9. NumbersIn(q) = h[Len(q)] /\ NumbersIn(s) = k[Len(s)]
  BY NumbersDef DEF h, k
<1>10. QED BY <1>8, <1>9 DEF q

---------------------------------------------------------------------------
(* Parts and numbers, read side by side.                                   *)

\* A part of a documented text, and its number.
NumberPart(part, m) ==
    \E d \in Seq(Digits) : /\ d # << >> /\ NumberOf(d) = m
                           /\ part = d \/ \E e \in Marks : part = Append(d, e)

Done(parts, ns) == /\ Len(parts) = Len(ns)
                   /\ \A k \in 1 .. Len(parts) : NumberPart(parts[k], ns[k])

\* The last part and its number, after the character c.
Reading(part, m, c) ==
    /\ c = "/" => part = << >> /\ m = 0
    /\ c \in Digits => part \in Seq(Digits) /\ part # << >> /\ NumberOf(part) = m
    /\ c \in Marks => NumberPart(part, m)

\* What has been read after the character c.
ReadSoFar(parts, ns, c) ==
    \E r \in Seq(Seq(BodyCharacters)), u \in Seq(Nat), y \in Seq(BodyCharacters), m \in Nat :
        /\ parts = Append(r, y) /\ ns = Append(u, m)
        /\ Done(r, u) /\ Reading(y, m, c)

\* One part more.
LEMMA DoneAppend ==
    ASSUME NEW r \in Seq(Seq(BodyCharacters)), NEW u \in Seq(Nat),
           NEW y \in Seq(BodyCharacters), NEW m \in Nat, Done(r, u), NumberPart(y, m)
    PROVE  Done(Append(r, y), Append(u, m))
<1> DEFINE p == Append(r, y)
           q == Append(u, m)
           B == Seq(BodyCharacters)
<1>1. /\ p \in Seq(B) /\ Len(p) = Len(r) + 1 /\ p[Len(r) + 1] = y
      /\ \A k \in 1 .. Len(r) : p[k] = r[k]
  <2> HIDE DEF B
  <2>1. r \in Seq(B) /\ y \in B
    BY DEF B
  <2>2. QED BY <2>1, AppendProperties
<1>2. /\ Len(q) = Len(u) + 1 /\ q[Len(u) + 1] = m /\ \A k \in 1 .. Len(u) : q[k] = u[k]
  BY AppendProperties
<1>3. Len(r) = Len(u) /\ Len(r) \in Nat /\ \A k \in 1 .. Len(r) : NumberPart(r[k], u[k])
  BY LenProperties DEF Done
<1> HIDE DEF p, q, B
<1>4. \A k \in 1 .. Len(p) : k \in 1 .. Len(r) \/ k = Len(r) + 1
  BY <1>1, <1>3
<1>5. \A k \in 1 .. Len(p) : NumberPart(p[k], q[k])
  <2>1. TAKE k \in 1 .. Len(p)
  <2>2. CASE k \in 1 .. Len(r)
    <3>1. p[k] = r[k] /\ q[k] = u[k] /\ NumberPart(r[k], u[k])
      BY <1>1, <1>2, <1>3, <2>2
    <3>2. QED BY <3>1
  <2>3. CASE k = Len(r) + 1
    <3>1. p[k] = y /\ q[k] = m
      BY <1>1, <1>2, <1>3, <2>3
    <3>2. QED BY <3>1
  <2>4. QED BY <1>4, <2>2, <2>3
<1>6. Done(p, q)
  BY <1>1, <1>2, <1>3, <1>5 DEF Done
<1>7. QED BY <1>6 DEF p, q

\* A character that is no separator goes to the last part.
LEMMA PutLast ==
    ASSUME NEW S, NEW r \in Seq(Seq(S)), NEW y \in Seq(S), NEW c \in S, c # "/"
    PROVE  Put(Append(r, y), c) = Append(r, Append(y, c))
<1> DEFINE p == Append(r, y)
           e == Append(y, c)
<1>1. e \in Seq(S) /\ p[Len(p)] = y
  BY AppendProperties
<1>2. Put(p, c) = [p EXCEPT ![Len(p)] = e]
  BY <1>1 DEF Put
<1> HIDE DEF e
<1>3. [Append(r, y) EXCEPT ![Len(Append(r, y))] = e] = Append(r, e)
  BY <1>1, ReplaceLast
<1>4. QED BY <1>2, <1>3 DEF e, p

\* A digit goes to the last number.
LEMMA ReadLast ==
    ASSUME NEW u \in Seq(Nat), NEW m \in Nat, NEW c \in Digits
    PROVE  /\ Radix * m + ValueOf[c] \in Nat
           /\ Read(Append(u, m), c) = Append(u, Radix * m + ValueOf[c])
<1> DEFINE q == Append(u, m)
           e == Radix * m + ValueOf[c]
<1>1. e \in Nat /\ q[Len(q)] = m
  BY AppendProperties, ShiftType
<1>2. Read(q, c) = [q EXCEPT ![Len(q)] = e]
  <2>1. c # "/" /\ c \notin Marks
    BY CharacterFacts
  <2>2. Read(q, c) = [q EXCEPT ![Len(q)] = Radix * q[Len(q)] + ValueOf[c]]
    BY <2>1 DEF Read
  <2>3. Radix * q[Len(q)] + ValueOf[c] = e
    BY <1>1
  <2> HIDE DEF q, e
  <2>4. QED BY <2>2, <2>3
<1> HIDE DEF e
<1>3. [Append(u, m) EXCEPT ![Len(Append(u, m))] = e] = Append(u, e)
  <2> DEFINE N == Nat
  <2>1. u \in Seq(N) /\ m \in N /\ e \in N
    BY <1>1
  <2> HIDE DEF N
  <2>2. QED BY <2>1, ReplaceLast
<1>4. Read(Append(u, m), c) = Append(u, e)
  BY <1>2, <1>3 DEF q
<1>5. QED BY <1>1, <1>4 DEF e

\* One character more of a documented text.
LEMMA ReadStep ==
    ASSUME NEW parts, NEW ns, NEW b \in BodyCharacters, NEW c \in BodyCharacters,
           ReadSoFar(parts, ns, b), b = "/" => c \in Digits, b \in Marks => c = "/"
    PROVE  ReadSoFar(Put(parts, c), Read(ns, c), c)
<1>1. PICK r \in Seq(Seq(BodyCharacters)), u \in Seq(Nat), y \in Seq(BodyCharacters), m \in Nat :
         /\ parts = Append(r, y) /\ ns = Append(u, m)
         /\ Done(r, u) /\ Reading(y, m, b)
  BY DEF ReadSoFar
<1> DEFINE B == Seq(BodyCharacters)
<1>2. CASE c = "/"
  <2>1. NumberPart(y, m)
    <3>1. CASE b \in Marks
      BY <1>1, <3>1 DEF Reading
    <3>2. CASE b \in Digits
      BY <1>1, <3>2 DEF Reading, NumberPart
    <3>3. b \in Marks \/ b \in Digits
      BY <1>2, CharacterFacts
    <3>4. QED BY <3>1, <3>2, <3>3
  <2>2. Done(parts, ns)
    BY <1>1, <2>1, DoneAppend
  <2>3. parts \in Seq(B) /\ ns \in Seq(Nat) /\ << >> \in B
    <3>1. << >> \in B
      BY EmptySeq
    <3>2. r \in Seq(B) /\ y \in B
      BY <1>1
    <3> HIDE DEF B
    <3>3. parts \in Seq(B)
      BY <1>1, <3>2, AppendProperties
    <3>4. ns \in Seq(Nat)
      BY <1>1, AppendProperties
    <3>5. QED BY <3>1, <3>3, <3>4
  <2>4. Put(parts, c) = Append(parts, << >>) /\ Read(ns, c) = Append(ns, 0)
    BY <1>2 DEF Put, Read
  <2>5. Reading(<< >>, 0, c)
    BY <1>2, CharacterFacts DEF Reading
  <2>6. QED BY <2>2, <2>3, <2>4, <2>5 DEF ReadSoFar
<1>3. CASE c \in Marks
  <2>1. b \in Digits /\ c # "/" /\ c \notin Digits
    BY <1>3, CharacterFacts
  <2>2. y \in Seq(Digits) /\ y # << >> /\ NumberOf(y) = m
    BY <1>1, <2>1 DEF Reading
  <2>3. NumberPart(Append(y, c), m)
    BY <1>3, <2>2 DEF NumberPart
  <2>4. Put(parts, c) = Append(r, Append(y, c)) /\ Append(y, c) \in Seq(BodyCharacters)
    BY <1>1, <2>1, PutLast, AppendProperties
  <2>5. Read(ns, c) = Append(u, m)
    BY <1>1, <1>3, <2>1 DEF Read
  <2>6. Reading(Append(y, c), m, c)
    BY <2>1, <2>3 DEF Reading
  <2>7. QED BY <1>1, <2>4, <2>5, <2>6 DEF ReadSoFar
<1>4. CASE c \in Digits
  <2>1. c # "/" /\ c \notin Marks /\ b \notin Marks
    BY <1>4, CharacterFacts
  <2>2. y \in Seq(Digits) /\ NumberOf(y) = m
    <3>1. CASE b = "/"
      <4>1. y = << >> /\ m = 0
        BY <1>1, <3>1 DEF Reading
      <4>2. << >> \in Seq(Digits)
        BY EmptySeq
      <4>3. QED BY <4>1, <4>2, NumberEmpty
    <3>2. CASE b \in Digits
      BY <1>1, <3>2 DEF Reading
    <3>3. QED BY <2>1, <3>1, <3>2, CharacterFacts
  <2> DEFINE n == Radix * m + ValueOf[c]
             z == Append(y, c)
  <2>3. z \in Seq(Digits) /\ z # << >> /\ NumberOf(z) = n
    BY <1>4, <2>2, NumberAppend, AppendProperties
  <2>4. Put(parts, c) = Append(r, z) /\ z \in Seq(BodyCharacters)
    BY <1>1, <2>1, PutLast, AppendProperties
  <2>5. Read(ns, c) = Append(u, n) /\ n \in Nat
    BY <1>1, <1>4, ReadLast
  <2> HIDE DEF n, z
  <2>6. Reading(z, n, c)
    BY <2>1, <2>3 DEF Reading
  <2>7. QED BY <1>1, <2>4, <2>5, <2>6 DEF ReadSoFar
<1>5. QED BY <1>2, <1>3, <1>4, CharacterFacts

\* What may follow what in a documented text.
Chained(s) ==
    /\ s # << >> => s[1] \in Digits
    /\ \A i \in 1 .. Len(s) - 1 : /\ s[i] = "/" => s[i + 1] \in Digits
                                  /\ s[i] \in Marks => s[i + 1] = "/"

LastCharacter(s) == IF s = << >> THEN "/" ELSE s[Len(s)]

\* Each beginning of a documented text has been read so far as its parts and
\* its numbers.
LEMMA ChainedReads ==
    ASSUME NEW s \in Seq(BodyCharacters), Chained(s)
    PROVE  ReadSoFar(Split(s), NumbersIn(s), LastCharacter(s))
<1> DEFINE C == BodyCharacters
           G(t) == ReadSoFar(Split(t), NumbersIn(t), LastCharacter(t))
           T == {t \in Seq(C) : Chained(t) => G(t)}
<1>1. << >> \in T
  <2> DEFINE p == << << >> >>
             q == << 0 >>
             B == Seq(C)
  <2>0. << >> \in Seq(C)
    BY EmptySeq
  <2>1. p = Append(<< >>, << >>) /\ q = Append(<< >>, 0)
    OBVIOUS
  <2>2. << >> \in Seq(B) /\ << >> \in Seq(Nat) /\ << >> \in B
    BY EmptySeq
  <2>3. Done(<< >>, << >>)
    <3>1. Len(<< >>) = 0
      BY EmptySeq
    <3>2. QED BY <3>1 DEF Done
  <2>4. Reading(<< >>, 0, "/")
    BY CharacterFacts DEF Reading
  <2>5. Split(<< >>) = p /\ NumbersIn(<< >>) = q /\ LastCharacter(<< >>) = "/"
    BY SplitEmpty, NumbersEmpty DEF LastCharacter
  <2>6. ReadSoFar(p, q, "/")
    <3> HIDE DEF p, q
    <3> QED BY <2>1, <2>2, <2>3, <2>4 DEF ReadSoFar
  <2>7. G(<< >>)
    <3> HIDE DEF p, q
    <3> QED BY <2>5, <2>6
  <2> HIDE DEF G
  <2>8. QED BY <2>0, <2>7
<1>2. ASSUME NEW t \in Seq(C), NEW c \in C, t \in T PROVE Append(t, c) \in T
  <2> DEFINE q == Append(t, c)
  <2>1. /\ q \in Seq(C) /\ Len(q) = Len(t) + 1 /\ q[Len(t) + 1] = c /\ Len(t) \in Nat /\ q # << >>
        /\ \A i \in 1 .. Len(t) : q[i] = t[i]
    BY AppendProperties, LenProperties
  <2>2. Split(q) = Put(Split(t), c) /\ NumbersIn(q) = Read(NumbersIn(t), c)
    BY SplitAppend, NumbersAppend
  <2> HIDE DEF q
  <2>3. SUFFICES ASSUME Chained(q) PROVE G(q)
    <3> HIDE DEF G
    <3> QED BY <2>1 DEF q
  <2> DEFINE b == LastCharacter(t)
  <2>4. Chained(t)
    <3>1. t # << >> => t[1] \in Digits
      <4>1. t # << >> => 1 \in 1 .. Len(t)
        BY <2>1, EmptySeq
      <4>2. QED BY <2>1, <2>3, <4>1 DEF Chained
    <3>2. \A i \in 1 .. Len(t) - 1 : /\ t[i] = "/" => t[i + 1] \in Digits
                                     /\ t[i] \in Marks => t[i + 1] = "/"
      <4>1. TAKE i \in 1 .. Len(t) - 1
      <4>2. i \in 1 .. Len(q) - 1 /\ i \in 1 .. Len(t) /\ i + 1 \in 1 .. Len(t)
        BY <2>1
      <4>3. q[i] = t[i] /\ q[i + 1] = t[i + 1]
        BY <2>1, <4>2
      <4>4. QED BY <2>3, <4>2, <4>3 DEF Chained
    <3>3. QED BY <3>1, <3>2 DEF Chained
  <2>5. G(t)
    <3> HIDE DEF G
    <3> QED BY <1>2, <2>4
  <2>6. b \in C /\ (b = "/" => c \in Digits) /\ (b \in Marks => c = "/")
    <3>1. CASE t = << >>
      <4>1. b = "/" /\ Len(t) = 0
        BY <3>1, EmptySeq DEF LastCharacter
      <4>2. q[1] = c
        BY <2>1, <4>1
      <4>3. c \in Digits
        BY <2>1, <2>3, <4>2 DEF Chained
      <4>4. QED BY <4>1, <4>3, CharacterFacts
    <3>2. CASE t # << >>
      <4>1. Len(t) \in 1 .. Len(t) /\ Len(t) \in 1 .. Len(q) - 1
        BY <2>1, <3>2, EmptySeq
      <4>2. b = t[Len(t)] /\ q[Len(t)] = b
        BY <2>1, <3>2, <4>1 DEF LastCharacter
      <4>3. b \in C
        BY <4>1, <4>2, ElementOfSeq
      <4>4. (q[Len(t)] = "/" => q[Len(t) + 1] \in Digits) /\ (q[Len(t)] \in Marks => q[Len(t) + 1] = "/")
        BY <2>3, <4>1 DEF Chained
      <4>5. QED BY <2>1, <4>2, <4>3, <4>4
    <3>3. QED BY <3>1, <3>2
  <2>7. LastCharacter(q) = c
    BY <2>1 DEF LastCharacter
  <2> HIDE DEF b, C
  <2>8. ReadSoFar(Put(Split(t), c), Read(NumbersIn(t), c), c)
    BY <2>5, <2>6, ReadStep DEF b, C
  <2>9. QED BY <2>2, <2>7, <2>8
<1>3. Seq(C) \subseteq T
  <2> HIDE DEF T
  <2> QED BY <1>1, <1>2, SequenceInduction
<1>4. QED BY <1>3

\* A part is read as its hardened number, if it is small enough.
LEMMA NumberPartParses ==
    ASSUME NEW part, NEW m \in Nat, NumberPart(part, m)
    PROVE  ParseIndex(part) = IF m < HardenedBit THEN {m + HardenedBit} ELSE {}
<1>1. PICK d \in Seq(Digits) : /\ d # << >> /\ NumberOf(d) = m
                               /\ part = d \/ \E e \in Marks : part = Append(d, e)
  BY DEF NumberPart
<1>2. TrimEndMarks(part) = d
  BY <1>1, TrimMarked, TrimUnmarked
<1> DEFINE P == ParseU32(TrimEndMarks(part))
<1>3. P = IF m \in U32 THEN {m} ELSE {}
  BY <1>1, <1>2, DigitsParse
<1>4. ParseIndex(part) = UNION {Harden(number) : number \in P}
  BY DEF ParseIndex
<1> HIDE DEF P
<1>5. CASE m \in U32
  <2> DEFINE H(n) == Harden(n)
  <2>1. UNION {H(number) : number \in {m}} = H(m)
    <3> HIDE DEF H
    <3> QED OBVIOUS
  <2>2. ParseIndex(part) = Harden(m)
    BY <1>3, <1>4, <1>5, <2>1
  <2>3. QED BY <2>2 DEF Harden, Some, None
<1>6. CASE m \notin U32
  <2>1. ~(m < HardenedBit)
    BY <1>6, HardenedBitAssumption DEF U32
  <2>2. UNION {Harden(number) : number \in P} = {}
    <3>1. P = {}
      BY <1>3, <1>6
    <3>2. QED BY <3>1
  <2>3. QED BY <1>4, <2>1, <2>2
<1>7. QED BY <1>5, <1>6

\* A documented text without its root, and what the trims leave of it.
LEMMA DocumentedBody ==
    ASSUME NEW S, NEW s \in Seq(S), Documented(s)
    PROVE  LET body == WithoutRoot(s)
           IN  /\ body \in Seq(BodyCharacters) /\ body # << >>
               /\ Chained(body) /\ body[Len(body)] # "/"
               /\ TrimStartRoot(Trim(s)) = body
<1> DEFINE body == WithoutRoot(s)
           n == Len(body)
           C == BodyCharacters
<1>0. Len(s) \in Nat
  BY LenProperties
<1>1. /\ n > 0 /\ body[1] \in Digits /\ body[n] # "/"
      /\ \A i \in 1 .. n : body[i] \in C
      /\ \A i \in 1 .. n - 1 : body[i] = "/" => body[i + 1] \in Digits
      /\ \A i \in 1 .. n - 1 : body[i] \in Marks => body[i + 1] = "/"
  BY DEF Documented, BodyCharacters
<1>2. body \in Seq(S) /\ \/ body = s
                         \/ /\ body = SubSeq(s, 3, Len(s)) /\ Len(s) >= 3
                            /\ s[1] = "m" /\ s[2] = "/"
                            /\ \A i \in 1 .. Len(s) - 2 : body[i] = s[i + 2]
                            /\ n = Len(s) - 2
  <2>1. CASE Len(s) >= 2 /\ SubSeq(s, 1, 2) = << "m", "/" >>
    <3>1. body = SubSeq(s, 3, Len(s))
      BY <2>1 DEF WithoutRoot
    <3>2. /\ SubSeq(s, 3, Len(s)) \in Seq(S)
          /\ Len(SubSeq(s, 3, Len(s))) = IF 3 <= Len(s) THEN Len(s) - 3 + 1 ELSE 0
          /\ \A i \in 1 .. Len(s) - 3 + 1 : SubSeq(s, 3, Len(s))[i] = s[3 + i - 1]
      BY <1>0, SubSeqElements
    <3> HIDE DEF body
    <3>3. Len(s) >= 3
      BY <1>0, <1>1, <2>1, <3>1, <3>2
    <3>4. n = Len(s) - 2
      BY <1>0, <3>1, <3>2, <3>3
    <3>5. \A i \in 1 .. Len(s) - 2 : body[i] = s[i + 2]
      BY <1>0, <3>1, <3>2, <3>3
    <3>6. s[1] = "m" /\ s[2] = "/"
      <4>1. SubSeq(s, 1, 2)[1] = "m" /\ SubSeq(s, 1, 2)[2] = "/"
        <5>1. \A q : q = << "m", "/" >> => q[1] = "m" /\ q[2] = "/"
          OBVIOUS
        <5> DEFINE q == SubSeq(s, 1, 2)
        <5>2. q = << "m", "/" >>
          BY <2>1
        <5> HIDE DEF q
        <5>3. q[1] = "m" /\ q[2] = "/"
          BY <5>1, <5>2
        <5>4. QED BY <5>3 DEF q
      <4>2. \A i \in 1 .. 2 : SubSeq(s, 1, 2)[i] = s[i]
        <5>1. 2 \in 0 .. Len(s)
          BY <1>0, <2>1
        <5>2. QED BY <5>1, SplitAt
      <4>3. QED BY <4>1, <4>2
    <3>7. QED BY <3>1, <3>2, <3>3, <3>4, <3>5, <3>6
  <2>2. CASE ~(Len(s) >= 2 /\ SubSeq(s, 1, 2) = << "m", "/" >>)
    BY <2>2 DEF WithoutRoot
  <2>3. QED BY <2>1, <2>2
<1> HIDE DEF body, C
<1>3. n \in Nat \ {0} /\ DOMAIN body = 1 .. n /\ body \in [1 .. n -> S]
  BY <1>1, <1>2, LenProperties
<1>4. body \in Seq(C)
  <2>1. body \in [1 .. n -> C]
    BY <1>1, <1>3
  <2>2. QED BY <1>3, <2>1, FunctionIsSequence
<1>5. body # << >>
  BY <1>3, EmptySeq
<1>6. Chained(body)
  BY <1>1 DEF Chained
<1>7. " " \notin C /\ \A i \in 1 .. n : body[i] # " "
  BY <1>1, CharacterFacts DEF C
<1>8. body[1] # "m"
  BY <1>1, DigitFacts
<1>9. TrimStartRoot(Trim(s)) = body
  <2>1. CASE body = s
    <3>1. Trim(s) = s
      BY <1>5, <1>7, <2>1, TrimSolid
    <3>2. TrimStartRoot(s) = s
      BY <1>8, <2>1, TrimNoRoot
    <3>3. QED BY <2>1, <3>1, <3>2
  <2>2. CASE /\ body = SubSeq(s, 3, Len(s)) /\ Len(s) >= 3
             /\ s[1] = "m" /\ s[2] = "/"
             /\ \A i \in 1 .. Len(s) - 2 : body[i] = s[i + 2]
             /\ n = Len(s) - 2
    <3>1. \A i \in 1 .. Len(s) : s[i] # " "
      <4>1. TAKE i \in 1 .. Len(s)
      <4>2. CASE i >= 3
        <5>1. PICK k \in 1 .. Len(s) - 2 : k + 2 = i
          <6>1. i - 2 \in 1 .. Len(s) - 2 /\ (i - 2) + 2 = i
            BY <1>0, <4>2
          <6>2. QED BY <6>1
        <5>2. body[k] = s[i] /\ k \in 1 .. n
          BY <2>2, <5>1
        <5>3. QED BY <1>7, <5>2
      <4>3. CASE ~(i >= 3)
        <5>1. i = 1 \/ i = 2
          BY <1>0, <4>3
        <5>2. QED BY <2>2, <5>1
      <4>4. QED BY <4>2, <4>3
    <3>2. s # << >>
      BY <2>2, <1>0, EmptySeq
    <3>3. Trim(s) = s
      BY <3>1, <3>2, TrimSolid
    <3>4. s[3] # "m"
      <4>1. 1 \in 1 .. Len(s) - 2 /\ 1 + 2 = 3
        BY <1>0, <2>2
      <4>2. body[1] = s[3]
        BY <2>2, <4>1
      <4>3. QED BY <1>8, <4>2
    <3>5. TrimStartRoot(s) = SubSeq(s, 3, Len(s))
      BY <1>0, <2>2, <3>4, TrimOneRoot
    <3>6. QED BY <2>2, <3>3, <3>5
  <2>3. QED BY <1>2, <2>1, <2>2
<1>10. QED BY <1>1, <1>4, <1>5, <1>6, <1>9 DEF body, C

\* A documented text is read as its numbers.
LEMMA TypedDocumented == TextTyped => ReadAsDocumented
<1>1. SUFFICES ASSUME TextTyped, Documented(text)
               PROVE  ParseHardenedPath(text) =
                        IF \A k \in DOMAIN Numbers(text) : Numbers(text)[k] < HardenedBit
                        THEN Some([k \in DOMAIN Numbers(text) |-> Numbers(text)[k] + HardenedBit])
                        ELSE None
  BY DEF ReadAsDocumented
<1> DEFINE body == WithoutRoot(text)
           parts == Split(TrimStartRoot(Trim(text)))
           ns == Numbers(text)
           C == BodyCharacters
<1>2. /\ body \in Seq(C) /\ body # << >>
      /\ Chained(body) /\ body[Len(body)] # "/"
      /\ TrimStartRoot(Trim(text)) = body
  BY <1>1, DocumentedBody DEF TextTyped
<1>3. parts = Split(body) /\ ns = NumbersIn(body)
  BY <1>2 DEF Numbers
<1> HIDE DEF body, parts, ns
<1>4. ReadSoFar(parts, ns, LastCharacter(body))
  BY <1>2, <1>3, ChainedReads
<1>5. PICK r \in Seq(Seq(C)), u \in Seq(Nat), y \in Seq(C), m \in Nat :
         /\ parts = Append(r, y) /\ ns = Append(u, m)
         /\ Done(r, u) /\ Reading(y, m, LastCharacter(body))
  BY <1>4 DEF ReadSoFar
<1>6. Done(parts, ns)
  <2>1. LastCharacter(body) = body[Len(body)]
    BY <1>2 DEF LastCharacter
  <2>2. LastCharacter(body) \in C /\ LastCharacter(body) # "/"
    <3>1. Len(body) \in 1 .. Len(body)
      BY <1>2, LenProperties, EmptySeq
    <3>2. QED BY <1>2, <2>1, <3>1, ElementOfSeq
  <2>3. NumberPart(y, m)
    <3>1. CASE LastCharacter(body) \in Marks
      BY <1>5, <3>1 DEF Reading
    <3>2. CASE LastCharacter(body) \in Digits
      BY <1>5, <3>2 DEF Reading, NumberPart
    <3>3. QED BY <2>2, <3>1, <3>2, CharacterFacts
  <2>4. QED BY <1>5, <2>3, DoneAppend
<1>7. ns \in Seq(Nat)
  BY <1>5, AppendProperties
<1>8. DOMAIN parts = 1 .. Len(ns) /\ DOMAIN ns = 1 .. Len(ns)
  <2> DEFINE B == Seq(C)
  <2>1. parts \in Seq(B)
    <3>1. r \in Seq(B) /\ y \in B
      BY <1>5
    <3> HIDE DEF B
    <3>2. QED BY <1>5, <3>1, AppendProperties
  <2> HIDE DEF B
  <2>2. DOMAIN parts = 1 .. Len(parts) /\ DOMAIN ns = 1 .. Len(ns)
    BY <1>7, <2>1, LenProperties
  <2>3. QED BY <1>6, <2>2 DEF Done
<1> DEFINE I == 1 .. Len(ns)
<1>9. \A k \in I : ParseIndex(parts[k]) = IF ns[k] < HardenedBit THEN {ns[k] + HardenedBit} ELSE {}
  <2>1. TAKE k \in I
  <2>2. ns[k] \in Nat /\ NumberPart(parts[k], ns[k])
    <3>1. ns[k] \in Nat
      BY <1>7, ElementOfSeq
    <3>2. Len(parts) = Len(ns) /\ \A j \in 1 .. Len(parts) : NumberPart(parts[j], ns[j])
      BY <1>6 DEF Done
    <3>3. QED BY <3>1, <3>2
  <2>3. QED BY <2>2, NumberPartParses
<1> HIDE DEF I
<1>10. ParseHardenedPath(text) =
          IF \A k \in DOMAIN parts : ParseIndex(parts[k]) # None
          THEN Some([k \in DOMAIN parts |-> CHOOSE i \in ParseIndex(parts[k]) : TRUE])
          ELSE None
  BY DEF ParseHardenedPath, parts
<1>11. CASE \A k \in I : ns[k] < HardenedBit
  <2> DEFINE Chosen(k) == CHOOSE i \in ParseIndex(parts[k]) : TRUE
  <2>1. \A k \in I : ParseIndex(parts[k]) # None /\ Chosen(k) = ns[k] + HardenedBit
    <3>1. TAKE k \in I
    <3>2. ParseIndex(parts[k]) = {ns[k] + HardenedBit}
      BY <1>9, <1>11
    <3>3. QED BY <3>2 DEF None
  <2>2. ParseHardenedPath(text) = Some([k \in I |-> Chosen(k)])
    BY <1>8, <1>10, <2>1 DEF I
  <2> HIDE DEF Chosen
  <2>3. [k \in I |-> Chosen(k)] = [k \in I |-> ns[k] + HardenedBit]
    BY <2>1
  <2>4. QED BY <1>8, <1>11, <2>2, <2>3 DEF I, ns
<1>12. CASE ~ \A k \in I : ns[k] < HardenedBit
  <2>1. PICK k \in I : ~(ns[k] < HardenedBit)
    BY <1>12
  <2>2. ParseIndex(parts[k]) = None
    BY <1>9, <2>1 DEF None
  <2>3. ParseHardenedPath(text) = None
    BY <1>8, <1>10, <2>1, <2>2 DEF I
  <2>4. ~ \A j \in DOMAIN ns : ns[j] < HardenedBit
    BY <1>8, <2>1 DEF I
  <2>5. QED BY <2>3, <2>4 DEF ns
<1>13. QED BY <1>11, <1>12

---------------------------------------------------------------------------
(* What is accepted.                                                       *)

\* A path that is read is written and read again as itself.
LEMMA AcceptedIsWritten ==
    ASSUME TextTyped, NEW path \in ParseHardenedPath(text)
    PROVE  ParseHardenedPath(FormatPath([k \in DOMAIN path |-> path[k] - HardenedBit])) = Some(path)
<1> DEFINE N == Len(path)
           ns == [k \in 1 .. N |-> path[k] - HardenedBit]
<1>1. path \in Seq(U32) /\ path # << >> /\ \A k \in 1 .. N : path[k] >= HardenedBit
  BY ParsedPath DEF TextTyped
<1>2. N \in Nat \ {0} /\ DOMAIN path = 1 .. N /\ \A k \in 1 .. N : path[k] \in U32
  BY <1>1, LenProperties, EmptySeq, ElementOfSeq
<1> HIDE DEF N
<1>3. \A k \in 1 .. N : path[k] - HardenedBit \in U32 /\ path[k] - HardenedBit < HardenedBit
                        /\ (path[k] - HardenedBit) + HardenedBit = path[k]
  <2>1. TAKE k \in 1 .. N
  <2>2. path[k] \in 0 .. 2 * HardenedBit - 1 /\ path[k] >= HardenedBit
    BY <1>1, <1>2 DEF U32
  <2>3. \A x \in 0 .. 2 * HardenedBit - 1 : x >= HardenedBit =>
            /\ x - HardenedBit \in 0 .. 2 * HardenedBit - 1 /\ x - HardenedBit < HardenedBit
            /\ (x - HardenedBit) + HardenedBit = x
    BY HardenedBitAssumption
  <2>4. QED BY <2>2, <2>3 DEF U32
<1>4. ns \in [1 .. N -> U32]
  BY <1>3
<1>5. ns \in Seq(U32) /\ Len(ns) = N /\ \A k \in 1 .. N : ns[k] = path[k] - HardenedBit
  <2>1. ns \in Seq(U32) /\ Len(ns) = N
    BY <1>2, <1>4, FunctionIsSequence
  <2>2. QED BY <2>1
<1>6. [k \in DOMAIN path |-> path[k] - HardenedBit] = ns
  BY <1>2
<1> HIDE DEF ns
<1>7. ns # << >>
  BY <1>2, <1>5, EmptySeq
<1>8. ParseHardenedPath(FormatPath(ns)) = Some([k \in 1 .. N |-> ns[k] + HardenedBit])
  <2>1. \A k \in 1 .. Len(ns) : ns[k] < HardenedBit
    BY <1>3, <1>5
  <2>2. ns \in Seq(U32) \ {<< >>}
    BY <1>5, <1>7
  <2>3. ParseHardenedPath(FormatPath(ns)) =
            IF \A k \in 1 .. Len(ns) : ns[k] < HardenedBit
            THEN Some([k \in 1 .. Len(ns) |-> ns[k] + HardenedBit])
            ELSE None
    BY <2>2, PathRoundTrip
  <2>4. QED BY <1>5, <2>1, <2>3
<1>9. [k \in 1 .. N |-> ns[k] + HardenedBit] = path
  <2>1. \A k \in 1 .. N : ns[k] + HardenedBit = path[k]
    BY <1>3, <1>5
  <2>2. path = [k \in 1 .. N |-> path[k]]
    <3>1. path \in [1 .. N -> U32]
      BY <1>1, <1>2, LenProperties DEF N
    <3>2. QED BY <3>1
  <2>3. QED BY <2>1, <2>2
<1>10. QED BY <1>6, <1>8, <1>9

\* The three parts of AcceptedDerives, for one path.
LEMMA TypedDerives == TextTyped => AcceptedDerives
<1>1. SUFFICES ASSUME TextTyped, NEW path \in ParseHardenedPath(text)
               PROVE  /\ path # << >>
                      /\ \A k \in DOMAIN path : path[k] \in U32 /\ path[k] >= HardenedBit
                      /\ ParseHardenedPath(FormatPath([k \in DOMAIN path |-> path[k] - HardenedBit]))
                             = Some(path)
  BY DEF AcceptedDerives
<1>2. /\ path \in Seq(U32) /\ path # << >>
      /\ \A k \in 1 .. Len(path) : path[k] >= HardenedBit
  BY <1>1, ParsedPath DEF TextTyped
<1>3. \A k \in DOMAIN path : path[k] \in U32 /\ path[k] >= HardenedBit
  BY <1>2, LenProperties, ElementOfSeq
<1>4. QED BY <1>1, <1>2, <1>3, AcceptedIsWritten

(* Whatever text is read as a path, the path has a part, its indices are   *)
(* hardened u32s, which derive_child_seed does not refuse, and the text    *)
(* the wallets write for it is read as it (parse_hardened_path).           *)
THEOREM AcceptedDerivesHolds == TextSpec => []AcceptedDerives
<1>1. TextInit => TextTyped
  BY TextTypedInit
<1>2. TextTyped /\ [TextNext]_text => TextTyped'
  BY TextTypedNext
<1>3. TextTyped => AcceptedDerives
  BY TypedDerives
<1>4. QED BY <1>1, <1>2, <1>3, PTL DEF TextSpec

(* A text of the documented grammar is read as its numbers, hardened, and  *)
(* refused exactly when one of them is too large, whatever its length, its *)
(* base and the width of the indices (parse_hardened_path).                *)
THEOREM ReadAsDocumentedHolds == TextSpec => []ReadAsDocumented
<1>1. TextTyped => ReadAsDocumented
  BY TypedDocumented
<1>2. QED BY <1>1, TextTypedInit, TextTypedNext, PTL DEF TextSpec

---------------------------------------------------------------------------
(* What the parser skips.                                                  *)

\* The pieces that are kept, one for each character.
Pieces(s) == [i \in DOMAIN s |-> IF s[i] \in Skipped THEN << >> ELSE << s[i] >>]

\* Each of them is a text of characters that are not skipped.
LEMMA PiecesType ==
    ASSUME NEW S, NEW s \in Seq(S)
    PROVE  /\ Pieces(s) \in Seq(Seq(S \ Skipped)) /\ Len(Pieces(s)) = Len(s)
           /\ \A i \in 1 .. Len(s) :
                  Pieces(s)[i] = IF s[i] \in Skipped THEN << >> ELSE << s[i] >>
<1> DEFINE V == S \ Skipped
           Piece(c) == IF c \in Skipped THEN << >> ELSE << c >>
<1>1. \A c \in S : Piece(c) \in Seq(V)
  <2>1. TAKE c \in S
  <2>2. c \in Skipped => Piece(c) \in Seq(V)
    BY EmptySeq
  <2>3. c \notin Skipped => c \in V /\ Piece(c) = << c >>
    OBVIOUS
  <2> HIDE DEF V
  <2>4. c \in V => << c >> \in Seq(V)
    OBVIOUS
  <2> HIDE DEF Piece
  <2>5. QED BY <2>2, <2>3, <2>4
<1>2. DOMAIN s = 1 .. Len(s) /\ Len(s) \in Nat /\ \A i \in 1 .. Len(s) : s[i] \in S
  BY LenProperties, ElementOfSeq
<1>3. Pieces(s) = [i \in 1 .. Len(s) |-> Piece(s[i])]
  BY <1>2 DEF Pieces
<1> HIDE DEF Piece
<1> DEFINE N == Len(s)
           B == Seq(V)
           f == [i \in 1 .. N |-> Piece(s[i])]
<1>4. f \in [1 .. N -> B]
  BY <1>1, <1>2
<1>5. f \in Seq(B) /\ Len(f) = N
  <2> HIDE DEF f, B, N
  <2>1. N \in Nat
    BY <1>2 DEF N
  <2>2. QED BY <1>4, <2>1, FunctionIsSequence
<1>6. \A i \in 1 .. N : f[i] = Piece(s[i])
  OBVIOUS
<1>7. QED BY <1>3, <1>5, <1>6 DEF Piece

\* What is kept is a text of characters that are not skipped.
LEMMA KeptType ==
    ASSUME NEW S, NEW s \in Seq(S)
    PROVE  Kept(s) \in Seq(S \ Skipped)
<1>1. Kept(s) = FlattenSeq(Pieces(s))
  BY DEF Kept, Pieces
<1>2. QED BY <1>1, PiecesType, FlattenType

\* Of a concatenation its parts are kept.
LEMMA KeptConcat ==
    ASSUME NEW S, NEW a \in Seq(S), NEW b \in Seq(S)
    PROVE  Kept(a \o b) = Kept(a) \o Kept(b)
<1> DEFINE B == Seq(S \ Skipped)
           s == a \o b
           p == Pieces(a)
           q == Pieces(b)
           w == Pieces(s)
           r == p \o q
<1>1. /\ s \in Seq(S) /\ Len(s) = Len(a) + Len(b)
      /\ \A i \in 1 .. Len(a) : s[i] = a[i]
      /\ \A i \in 1 .. Len(b) : s[Len(a) + i] = b[i]
  BY ConcatElements
<1>2. Len(a) \in Nat /\ Len(b) \in Nat
  BY LenProperties
<1> HIDE DEF s
<1>3. /\ w \in Seq(B) /\ Len(w) = Len(s)
      /\ \A i \in 1 .. Len(s) : w[i] = IF s[i] \in Skipped THEN << >> ELSE << s[i] >>
  BY <1>1, PiecesType
<1>4. /\ p \in Seq(B) /\ Len(p) = Len(a)
      /\ \A i \in 1 .. Len(a) : p[i] = IF a[i] \in Skipped THEN << >> ELSE << a[i] >>
  BY PiecesType
<1>5. /\ q \in Seq(B) /\ Len(q) = Len(b)
      /\ \A i \in 1 .. Len(b) : q[i] = IF b[i] \in Skipped THEN << >> ELSE << b[i] >>
  BY PiecesType
<1> HIDE DEF w, p, q, B
<1>6. /\ r \in Seq(B) /\ Len(r) = Len(p) + Len(q)
      /\ \A i \in 1 .. Len(p) : r[i] = p[i]
      /\ \A i \in 1 .. Len(q) : r[Len(p) + i] = q[i]
  <2>1. p \in Seq(B) /\ q \in Seq(B)
    BY <1>4, <1>5
  <2>2. QED BY <2>1, ConcatElements
<1> HIDE DEF r
<1>7. \A i \in 1 .. Len(w) : w[i] = r[i]
  <2>1. TAKE i \in 1 .. Len(w)
  <2>2. CASE i \in 1 .. Len(a)
    <3>1. i \in 1 .. Len(s)
      BY <1>3
    <3>2. s[i] = a[i] /\ r[i] = p[i]
      BY <1>1, <1>4, <1>6, <2>2
    <3>3. QED BY <1>3, <1>4, <2>2, <3>1, <3>2
  <2>3. CASE i \notin 1 .. Len(a)
    <3>1. PICK j \in 1 .. Len(b) : i = Len(a) + j
      <4>1. i - Len(a) \in 1 .. Len(b) /\ i = Len(a) + (i - Len(a))
        BY <1>1, <1>2, <1>3, <2>3
      <4>2. QED BY <4>1
    <3>2. i \in 1 .. Len(s)
      BY <1>3
    <3>3. s[i] = b[j]
      BY <1>1, <3>1
    <3>4. r[i] = q[j]
      BY <1>4, <1>5, <1>6, <3>1
    <3>5. QED BY <1>3, <1>5, <3>2, <3>3, <3>4
  <2>4. QED BY <2>2, <2>3
<1>8. w = r
  BY <1>1, <1>3, <1>4, <1>5, <1>6, <1>7, SeqEqual
<1>9. Kept(s) = FlattenSeq(w) /\ Kept(a) = FlattenSeq(p) /\ Kept(b) = FlattenSeq(q)
  BY DEF Kept, Pieces, w, p, q
<1>10. FlattenSeq(r) = FlattenSeq(p) \o FlattenSeq(q)
  <2> DEFINE R == S \ Skipped
  <2>1. p \in Seq(Seq(R)) /\ q \in Seq(Seq(R))
    BY <1>4, <1>5 DEF B
  <2> HIDE DEF R
  <2>2. QED BY <2>1, FlattenConcat DEF r
<1>11. QED BY <1>8, <1>9, <1>10 DEF s

\* One character more.
LEMMA KeptAppend ==
    ASSUME NEW S, NEW s \in Seq(S), NEW c \in S
    PROVE  Kept(Append(s, c)) = IF c \in Skipped THEN Kept(s) ELSE Append(Kept(s), c)
<1> DEFINE e == << c >>
           R == S \ Skipped
<1>1. e \in Seq(S) /\ Append(s, c) = s \o e
  BY AppendIsConcat
<1>2. Len(e) = 1 /\ e[1] = c
  OBVIOUS
<1>3. Kept(s) \in Seq(R)
  BY KeptType
<1>4. Kept(e) = IF c \in Skipped THEN << >> ELSE << c >>
  <2> DEFINE x == IF c \in Skipped THEN << >> ELSE << c >>
             p == Pieces(e)
  <2> HIDE DEF e, R, x
  <2>1. p \in Seq(Seq(R)) /\ Len(p) = 1 /\ p[1] = x
    <3>1. 1 \in 1 .. 1
      OBVIOUS
    <3>2. QED BY <1>1, <1>2, <3>1, PiecesType DEF R, x
  <2>2. x \in Seq(R)
    <3>1. 1 \in 1 .. 1
      OBVIOUS
    <3>2. 1 \in 1 .. Len(p)
      BY <2>1, <3>1
    <3> DEFINE W == Seq(R)
    <3>3. p \in Seq(W) /\ p[1] = x
      BY <2>1
    <3> HIDE DEF W, p
    <3>4. x \in W
      BY <3>2, <3>3, ElementOfSeq
    <3>5. QED BY <3>4 DEF W
  <2>3. p = << x >>
    <3> DEFINE W == Seq(R)
               y == << x >>
    <3>1. y \in Seq(W) /\ Len(y) = 1 /\ y[1] = x
      BY <2>2
    <3>2. p \in Seq(W) /\ Len(p) = 1 /\ p[1] = x
      BY <2>1
    <3> HIDE DEF W, p, y
    <3>3. \A i \in 1 .. Len(p) : p[i] = y[i]
      BY <3>1, <3>2
    <3>4. p = y
      BY <3>1, <3>2, <3>3, SeqEqual
    <3>5. QED BY <3>4 DEF y
  <2>4. Kept(e) = FlattenSeq(p)
    BY DEF Kept, Pieces
  <2>5. FlattenSeq(<< x >>) = x
    BY <2>2, FlattenSingle
  <2>6. QED BY <2>3, <2>4, <2>5 DEF x
<1>5. Kept(Append(s, c)) = Kept(s) \o Kept(e)
  BY <1>1, KeptConcat
<1> HIDE DEF e
<1>6. CASE c \in Skipped
  <2>1. Kept(s) \o << >> = Kept(s)
    BY <1>3, ConcatEmptySeq
  <2>2. QED BY <1>4, <1>5, <1>6, <2>1
<1>7. CASE c \notin Skipped
  <2>1. c \in R
    BY <1>7
  <2> HIDE DEF R
  <2>2. Append(Kept(s), c) = Kept(s) \o << c >>
    BY <1>3, <2>1, AppendIsConcat
  <2>3. QED BY <1>4, <1>5, <1>7, <2>2
<1>8. QED BY <1>6, <1>7

\* Nothing is kept of nothing.
LEMMA KeptEmpty == Kept(<< >>) = << >>
<1> DEFINE none == {}
<1>1. << >> \in Seq(none)
  BY EmptySeq
<1>2. Kept(<< >>) \in Seq(none \ Skipped)
  BY <1>1, KeptType
<1>3. none \ Skipped = none
  OBVIOUS
<1>4. \A s \in Seq(none) : s = << >>
  <2>1. TAKE s \in Seq(none)
  <2>2. SUFFICES ASSUME s # << >> PROVE FALSE
    OBVIOUS
  <2>3. s[1] \in none
    <3> HIDE DEF none
    <3> QED BY <2>2, HeadAndTail
  <2>4. QED BY <2>3
<1>5. QED BY <1>2, <1>3, <1>4

\* A text without them is kept as it is.
LEMMA KeptWhole ==
    ASSUME NEW S, S \cap Skipped = {}, NEW s \in Seq(S)
    PROVE  Kept(s) = s
<1> DEFINE T == {t \in Seq(S) : Kept(t) = t}
<1>1. << >> \in T
  BY KeptEmpty, EmptySeq
<1>2. ASSUME NEW t \in Seq(S), NEW c \in S, t \in T PROVE Append(t, c) \in T
  <2>1. Append(t, c) \in Seq(S)
    BY AppendProperties
  <2>2. c \notin Skipped /\ Kept(t) = t
    BY <1>2
  <2>3. QED BY <2>1, <2>2, KeptAppend
<1>3. Seq(S) \subseteq T
  <2> HIDE DEF T
  <2> QED BY <1>1, <1>2, SequenceInduction
<1>4. QED BY <1>3

\* Nothing is kept of what is skipped.
LEMMA KeptNothing ==
    ASSUME NEW s \in Seq(Skipped)
    PROVE  Kept(s) = << >>
<1> DEFINE T == {t \in Seq(Skipped) : Kept(t) = << >>}
<1>1. << >> \in T
  BY KeptEmpty, EmptySeq
<1>2. ASSUME NEW t \in Seq(Skipped), NEW c \in Skipped, t \in T PROVE Append(t, c) \in T
  <2>1. Append(t, c) \in Seq(Skipped)
    BY AppendProperties
  <2>2. Kept(t) = << >>
    BY <1>2
  <2>3. QED BY <2>1, <2>2, KeptAppend
<1>3. Seq(Skipped) \subseteq T
  <2> HIDE DEF T
  <2> QED BY <1>1, <1>2, SequenceInduction
<1>4. QED BY <1>3

---------------------------------------------------------------------------
(* The parts of what is kept.                                              *)

\* The parts without what is skipped.
KeptParts(parts, kept) ==
    /\ Len(kept) = Len(parts)
    /\ \A k \in 1 .. Len(parts) : kept[k] = Kept(parts[k])

\* A text is split alike before and after.
LEMMA KeptSplit ==
    ASSUME NEW S, NEW s \in Seq(S)
    PROVE  KeptParts(Split(s), Split(Kept(s)))
<1> DEFINE G(t) == KeptParts(Split(t), Split(Kept(t)))
           T == {t \in Seq(S) : G(t)}
           R == S \ Skipped
           B == Seq(S)
           V == Seq(R)
<1>1. << >> \in T
  <2> DEFINE p == << << >> >>
  <2>1. Split(<< >>) = p /\ Kept(<< >>) = << >>
    BY SplitEmpty, KeptEmpty
  <2>2. Len(p) = 1 /\ \A k \in 1 .. Len(p) : p[k] = << >>
    OBVIOUS
  <2> HIDE DEF p
  <2>3. G(<< >>)
    BY <2>1, <2>2 DEF KeptParts
  <2> HIDE DEF G
  <2>4. QED BY <2>3, EmptySeq
<1>2. ASSUME NEW t \in Seq(S), NEW c \in S, t \in T PROVE Append(t, c) \in T
  <2> DEFINE p == Split(t)
             q == Split(Kept(t))
  <2>1. /\ Split(Append(t, c)) = Put(p, c) /\ p \in Seq(B) /\ p # << >>
        /\ Append(t, c) \in Seq(S)
    BY SplitAppend, SplitType, AppendProperties
  <2>2. Kept(t) \in Seq(R) /\ q \in Seq(V) /\ q # << >>
    BY KeptType, SplitType
  <2>3. Kept(Append(t, c)) = IF c \in Skipped THEN Kept(t) ELSE Append(Kept(t), c)
    BY KeptAppend
  <2>4. KeptParts(p, q)
    BY <1>2
  <2> HIDE DEF p, q, G
  <2>5. PICK r \in Seq(B), y \in B : p = Append(r, y)
    BY <2>1, SequenceEmptyOrAppend
  <2>6. PICK u \in Seq(V), z \in V : q = Append(u, z)
    BY <2>2, SequenceEmptyOrAppend
  <2> HIDE DEF B, V
  <2>7. /\ Len(p) = Len(r) + 1 /\ p[Len(r) + 1] = y /\ Len(r) \in Nat
        /\ \A k \in 1 .. Len(r) : p[k] = r[k]
    BY <2>5, AppendProperties, LenProperties
  <2>8. /\ Len(q) = Len(u) + 1 /\ q[Len(u) + 1] = z /\ Len(u) \in Nat
        /\ \A k \in 1 .. Len(u) : q[k] = u[k]
    BY <2>6, AppendProperties, LenProperties
  <2>9. Len(u) = Len(r) /\ z = Kept(y) /\ \A k \in 1 .. Len(r) : u[k] = Kept(r[k])
    <3>1. Len(u) = Len(r)
      BY <2>4, <2>7, <2>8 DEF KeptParts
    <3>2. Len(r) + 1 \in 1 .. Len(p) /\ \A k \in 1 .. Len(r) : k \in 1 .. Len(p)
      BY <2>7
    <3>3. QED BY <2>4, <2>7, <2>8, <3>1, <3>2 DEF KeptParts
  <2>10. ASSUME NEW r2 \in Seq(B), NEW y2 \in B, NEW u2 \in Seq(V), NEW z2 \in V,
                Len(u2) = Len(r2), z2 = Kept(y2), \A k \in 1 .. Len(r2) : u2[k] = Kept(r2[k])
         PROVE  KeptParts(Append(r2, y2), Append(u2, z2))
    <3> DEFINE p2 == Append(r2, y2)
               q2 == Append(u2, z2)
    <3>1. /\ Len(p2) = Len(r2) + 1 /\ p2[Len(r2) + 1] = y2 /\ Len(r2) \in Nat
          /\ \A k \in 1 .. Len(r2) : p2[k] = r2[k]
      BY AppendProperties, LenProperties
    <3>2. /\ Len(q2) = Len(u2) + 1 /\ q2[Len(u2) + 1] = z2
          /\ \A k \in 1 .. Len(u2) : q2[k] = u2[k]
      BY AppendProperties
    <3> HIDE DEF p2, q2
    <3>3. \A k \in 1 .. Len(p2) : q2[k] = Kept(p2[k])
      <4>1. TAKE k \in 1 .. Len(p2)
      <4>2. k = Len(r2) + 1 \/ k \in 1 .. Len(r2)
        BY <3>1
      <4>3. QED BY <2>10, <3>1, <3>2, <4>2
    <3>4. KeptParts(p2, q2)
      BY <2>10, <3>1, <3>2, <3>3 DEF KeptParts
    <3>5. QED BY <3>4 DEF p2, q2
  <2>11. CASE c = "/"
    <3>1. c \notin Skipped
      BY <2>11, CharacterFacts DEF Skipped
    <3>2. Split(Append(Kept(t), c)) = Put(q, c)
      <4>1. c \in R
        BY <3>1
      <4> HIDE DEF R
      <4>2. QED BY <2>2, <4>1, SplitAppend DEF q
    <3>3. Put(p, c) = Append(p, << >>) /\ Put(q, c) = Append(q, << >>)
      BY <2>11 DEF Put
    <3>4. << >> \in B /\ << >> \in V
      BY EmptySeq DEF B, V
    <3>5. KeptParts(Append(p, << >>), Append(q, << >>))
      <4>1. Len(q) = Len(p) /\ \A k \in 1 .. Len(p) : q[k] = Kept(p[k])
        BY <2>4 DEF KeptParts
      <4>2. p \in Seq(B) /\ q \in Seq(V)
        BY <2>1, <2>2
      <4>3. QED BY <2>10, <3>4, <4>1, <4>2, KeptEmpty
    <3>6. G(Append(t, c))
      BY <2>1, <2>3, <3>1, <3>2, <3>3, <3>5 DEF G
    <3>7. QED BY <2>1, <3>6
  <2>12. CASE c # "/"
    <3> DEFINE y2 == Append(y, c)
               z2 == IF c \in Skipped THEN z ELSE Append(z, c)
    <3>1. Put(p, c) = Append(r, y2)
      BY <2>5, <2>12, PutLast DEF B
    <3>2. y2 \in B /\ z2 \in V /\ z2 = Kept(y2)
      <4>1. y \in Seq(S) /\ z \in Seq(R)
        BY DEF B, V
      <4>2. y2 \in Seq(S) /\ Kept(y2) \in Seq(R)
        BY <4>1, AppendProperties, KeptType
      <4>3. Kept(y2) = z2
        BY <2>9, <4>1, KeptAppend
      <4>4. QED BY <4>2, <4>3 DEF B, V
    <3>3. Split(Kept(Append(t, c))) = Append(u, z2)
      <4>1. CASE c \in Skipped
        BY <2>3, <2>6, <4>1 DEF q
      <4>2. CASE c \notin Skipped
        <5>1. c \in R
          BY <4>2
        <5> HIDE DEF R
        <5>2. Split(Append(Kept(t), c)) = Put(q, c)
          BY <2>2, <5>1, SplitAppend DEF q
        <5>3. Put(q, c) = Append(u, Append(z, c))
          BY <2>6, <2>12, <5>1, PutLast DEF V
        <5>4. QED BY <2>3, <4>2, <5>2, <5>3
      <4>3. QED BY <4>1, <4>2
    <3> HIDE DEF y2, z2
    <3>4. KeptParts(Append(r, y2), Append(u, z2))
      <4>1. Len(u) = Len(r) /\ \A k \in 1 .. Len(r) : u[k] = Kept(r[k])
        BY <2>9
      <4>2. QED BY <2>10, <3>2, <4>1
    <3>5. G(Append(t, c))
      BY <2>1, <3>1, <3>3, <3>4 DEF G
    <3>6. QED BY <2>1, <3>5
  <2>13. QED BY <2>11, <2>12
<1>3. Seq(S) \subseteq T
  <2> HIDE DEF T
  <2> QED BY <1>1, <1>2, SequenceInduction
<1>4. QED BY <1>3

---------------------------------------------------------------------------
(* A part that is read.                                                    *)

\* Digits and separators are kept; marks, spaces, signs and roots are not.
LEMMA SkippedFacts ==
    /\ Digits \cap Skipped = {} /\ "/" \notin Skipped
    /\ Marks \subseteq Skipped /\ {" ", "+", "m"} \subseteq Skipped
  BY DigitFacts, CharacterFacts DEF Skipped

\* A text whose characters are in V is a text of V.
LEMMA TextOf ==
    ASSUME NEW S, NEW s \in Seq(S), NEW V, \A i \in 1 .. Len(s) : s[i] \in V
    PROVE  s \in Seq(V)
<1>1. Len(s) \in Nat /\ s \in [1 .. Len(s) -> S]
  BY LenProperties
<1>2. s \in [1 .. Len(s) -> V]
  BY <1>1
<1>3. QED BY <1>1, <1>2, FunctionIsSequence

\* A text is what TrimEndMarks leaves, and marks.
LEMMA TrimEndMarksCuts ==
    ASSUME NEW S, NEW s \in Seq(S)
    PROVE  /\ TrimEndMarks(s) \in Seq(S)
           /\ \E e \in Seq(S) : e \in Seq(Marks) /\ s = TrimEndMarks(s) \o e
<1> DEFINE solid == {0} \cup {i \in DOMAIN s : s[i] \notin Marks}
           n == Max(solid)
           e == SubSeq(s, n + 1, Len(s))
<1>1. Len(s) \in Nat /\ DOMAIN s = 1 .. Len(s)
  BY LenProperties
<1>2. solid \in SUBSET (0 .. Len(s)) /\ solid # {} /\ \A i \in 1 .. Len(s) : s[i] \notin Marks => i \in solid
  BY <1>1
<1>3. TrimEndMarks(s) = SubSeq(s, 1, n)
  BY DEF TrimEndMarks
<1> HIDE DEF solid
<1>4. n \in solid /\ \A i \in solid : i <= n
  BY <1>1, <1>2, GreatestElement
<1> HIDE DEF n
<1>5. n \in 0 .. Len(s) /\ n \in Nat
  BY <1>1, <1>2, <1>4
<1>6. /\ SubSeq(s, 1, n) \in Seq(S) /\ e \in Seq(S)
      /\ s = SubSeq(s, 1, n) \o e
  BY <1>5, SplitAt
<1>7. e \in Seq(Marks)
  <2>1. \A i \in n + 1 .. Len(s) : s[i] \in Marks
    <3>1. TAKE i \in n + 1 .. Len(s)
    <3>2. i \in 1 .. Len(s) /\ ~(i <= n)
      BY <1>1, <1>5
    <3>3. QED BY <1>2, <1>4, <3>2
  <2>2. n + 1 \in Int /\ Len(s) \in Int
    BY <1>1, <1>5
  <2>3. QED BY <2>1, <2>2, SubSeqProperties
<1>8. QED BY <1>3, <1>6, <1>7

\* A part that is read is digits, a sign and marks aside: the digits are what
\* is kept of it, and they are read as the part is.
LEMMA AcceptedPart ==
    ASSUME NEW S, NEW part \in Seq(S), ParseIndex(part) # None
    PROVE  /\ Kept(part) \in Seq(Digits) /\ Kept(part) # << >>
           /\ ParseIndex(Kept(part)) = ParseIndex(part)
<1> DEFINE a == TrimEndMarks(part)
           d == IF a # << >> /\ a[1] = "+" THEN Tail(a) ELSE a
           P == ParseU32(a)
<1>1. P # {} /\ ParseIndex(part) = UNION {Harden(number) : number \in P}
  <2>1. ParseIndex(part) = UNION {Harden(number) : number \in P}
    BY DEF ParseIndex
  <2>2. ParseIndex(part) # {}
    BY DEF None
  <2> HIDE DEF P
  <2>3. QED BY <2>1, <2>2
<1>2. PICK e \in Seq(S) : a \in Seq(S) /\ e \in Seq(Marks) /\ part = a \o e
  BY TrimEndMarksCuts
<1> HIDE DEF a
<1>3. d # << >> /\ ToSet(d) \subseteq Digits /\ NumberOf(d) \in U32 /\ P = {NumberOf(d)}
  <2>1. P = IF d # << >> /\ ToSet(d) \subseteq Digits /\ NumberOf(d) \in U32
            THEN {NumberOf(d)} ELSE {}
    BY DEF ParseU32, Some, None
  <2> HIDE DEF P, d
  <2>2. QED BY <1>1, <2>1
<1>4. d \in Seq(Digits)
  <2>1. d \in Seq(S)
    <3>1. a # << >> => Tail(a) \in Seq(S)
      BY <1>2, HeadTailProperties
    <3>2. QED BY <1>2, <3>1
  <2> HIDE DEF d
  <2>2. \A i \in 1 .. Len(d) : d[i] \in Digits
    <3>1. DOMAIN d = 1 .. Len(d)
      BY <2>1, LenProperties
    <3>2. QED BY <1>3, <3>1 DEF ToSet
  <2>3. QED BY <2>1, <2>2, TextOf
<1>5. Kept(d) = d
  <2> HIDE DEF d
  <2>1. QED BY <1>4, SkippedFacts, KeptWhole
<1>6. Kept(a) = d
  <2>1. CASE a # << >> /\ a[1] = "+"
    <3> DEFINE p == << "+" >>
               t == Tail(a)
    <3>1. t \in Seq(S) /\ a = << a[1] >> \o t /\ a[1] \in S
      BY <1>2, <2>1, HeadAndTail
    <3>2. "+" \in Skipped /\ p \in Seq(S) /\ p \in Seq(Skipped)
      <4>1. "+" \in Skipped /\ "+" \in S
        BY <2>1, <3>1, SkippedFacts
      <4>2. QED BY <4>1
    <3>3. a = p \o t /\ d = t
      BY <2>1, <3>1
    <3> HIDE DEF p, t, d
    <3>4. Kept(a) = Kept(p) \o Kept(t)
      BY <3>1, <3>2, <3>3, KeptConcat
    <3>5. Kept(p) = << >>
      BY <3>2, KeptNothing
    <3>6. << >> \o d = d
      BY <1>4, ConcatEmptySeq
    <3>7. QED BY <1>5, <3>3, <3>4, <3>5, <3>6
  <2>2. CASE ~(a # << >> /\ a[1] = "+")
    <3>1. d = a
      BY <2>2
    <3> HIDE DEF d
    <3>2. QED BY <1>5, <3>1
  <2>3. QED BY <2>1, <2>2
<1>7. Kept(part) = d
  <2>1. Kept(part) = Kept(a) \o Kept(e)
    BY <1>2, KeptConcat
  <2>2. Kept(e) = << >>
    <3>1. e \in Seq(Skipped)
      BY <1>2, SkippedFacts, SeqMonotonic
    <3>2. QED BY <3>1, KeptNothing
  <2> HIDE DEF d
  <2>3. d \o << >> = d
    BY <1>4, ConcatEmptySeq
  <2>4. QED BY <1>6, <2>1, <2>2, <2>3
<1>8. ParseIndex(d) = ParseIndex(part)
  <2> DEFINE Q == ParseU32(TrimEndMarks(d))
  <2> HIDE DEF d
  <2>1. TrimEndMarks(d) = d
    BY <1>4, TrimUnmarked
  <2>2. Q = {NumberOf(d)}
    <3>1. ParseU32(d) = IF NumberOf(d) \in U32 THEN {NumberOf(d)} ELSE {}
      BY <1>3, <1>4, DigitsParse
    <3>2. QED BY <1>3, <2>1, <3>1
  <2>3. ParseIndex(d) = UNION {Harden(number) : number \in Q}
    BY DEF ParseIndex
  <2>4. Q = P
    BY <1>3, <2>2
  <2> HIDE DEF P, Q
  <2>5. QED BY <1>1, <2>3, <2>4
<1> HIDE DEF d
<1>9. QED BY <1>3, <1>4, <1>7, <1>8

---------------------------------------------------------------------------
(* A text whose parts are numbers.                                         *)

\* Digits, separators, and no separator without digits on its left.
Spelled(s) == Chained(s) /\ \A i \in 1 .. Len(s) : s[i] \in Digits \cup {"/"}

\* One character more.
LEMMA SpelledAppend ==
    ASSUME NEW S, NEW s \in Seq(S), NEW c \in S, Spelled(s),
           c \in Digits \/ (c = "/" /\ LastCharacter(s) # "/")
    PROVE  Spelled(Append(s, c)) /\ LastCharacter(Append(s, c)) = c
<1> DEFINE q == Append(s, c)
<1>1. /\ q \in Seq(S) /\ Len(q) = Len(s) + 1 /\ q[Len(s) + 1] = c /\ Len(s) \in Nat /\ q # << >>
      /\ \A i \in 1 .. Len(s) : q[i] = s[i]
  BY AppendProperties, LenProperties
<1> HIDE DEF q
<1>2. LastCharacter(q) = c
  BY <1>1 DEF LastCharacter
<1>3. \A i \in 1 .. Len(q) : i \in 1 .. Len(s) \/ i = Len(s) + 1
  BY <1>1
<1>4. \A i \in 1 .. Len(q) : q[i] \in Digits \cup {"/"}
  BY <1>1, <1>3 DEF Spelled
<1>5. q[1] \in Digits
  <2>1. CASE s = << >>
    <3>1. Len(s) = 0 /\ LastCharacter(s) = "/"
      BY <2>1, EmptySeq DEF LastCharacter
    <3>2. QED BY <1>1, <3>1
  <2>2. CASE s # << >>
    <3>1. 1 \in 1 .. Len(s)
      BY <1>1, <2>2, EmptySeq
    <3>2. QED BY <1>1, <2>2, <3>1 DEF Spelled, Chained
  <2>3. QED BY <2>1, <2>2
<1>6. \A i \in 1 .. Len(q) - 1 : /\ q[i] = "/" => q[i + 1] \in Digits
                                 /\ q[i] \in Marks => q[i + 1] = "/"
  <2>1. TAKE i \in 1 .. Len(q) - 1
  <2>2. i \in 1 .. Len(s) /\ i \in 1 .. Len(q) /\ s # << >>
    BY <1>1, EmptySeq
  <2>3. q[i] = s[i] /\ q[i] \notin Marks
    <3>1. q[i] \in Digits \cup {"/"}
      BY <1>4, <2>2
    <3>2. QED BY <1>1, <2>2, <3>1, CharacterFacts
  <2>4. CASE i = Len(s)
    <3>1. LastCharacter(s) = q[i]
      BY <2>2, <2>3, <2>4 DEF LastCharacter
    <3>2. q[i + 1] = c
      BY <1>1, <2>4
    <3>3. QED BY <2>3, <3>1, <3>2
  <2>5. CASE i # Len(s)
    <3>1. i \in 1 .. Len(s) - 1 /\ i + 1 \in 1 .. Len(s)
      BY <1>1, <2>2, <2>5
    <3>2. s[i] = "/" => s[i + 1] \in Digits
      BY <3>1 DEF Spelled, Chained
    <3>3. q[i + 1] = s[i + 1]
      BY <1>1, <3>1
    <3>4. QED BY <2>3, <3>2, <3>3
  <2>6. QED BY <2>4, <2>5
<1>7. Spelled(q)
  BY <1>4, <1>5, <1>6 DEF Spelled, Chained
<1>8. QED BY <1>2, <1>7 DEF q

\* The parts are digits, all but the last of them one or more.
AllDigits(r) == \A k \in 1 .. Len(r) : r[k] \in Seq(Digits) /\ r[k] # << >>

\* A text of digits is so up to its last character.
LEMMA AppendDigits ==
    ASSUME NEW S, NEW y \in Seq(S), NEW c \in S, Append(y, c) \in Seq(Digits)
    PROVE  c \in Digits /\ y \in Seq(Digits) /\ Append(y, c) # << >>
<1> DEFINE e == Append(y, c)
<1>1. /\ e \in Seq(S) /\ Len(e) = Len(y) + 1 /\ e[Len(y) + 1] = c /\ Len(y) \in Nat
      /\ e # << >> /\ \A k \in 1 .. Len(y) : e[k] = y[k]
  BY AppendProperties, LenProperties
<1>2. \A k \in 1 .. Len(e) : e[k] \in Digits
  BY ElementOfSeq
<1> HIDE DEF e
<1>3. Len(y) + 1 \in 1 .. Len(e) /\ \A k \in 1 .. Len(y) : k \in 1 .. Len(e)
  BY <1>1
<1>4. c \in Digits /\ \A k \in 1 .. Len(y) : y[k] \in Digits
  BY <1>1, <1>2, <1>3
<1>5. y \in Seq(Digits)
  BY <1>4, TextOf
<1>6. QED BY <1>1, <1>4, <1>5 DEF e

\* A text whose parts are digits is spelled out.
LEMMA DigitPartsSpell ==
    ASSUME NEW S, NEW s \in Seq(S), NEW r \in Seq(Seq(S)), NEW y \in Seq(S),
           Split(s) = Append(r, y), AllDigits(r), y \in Seq(Digits)
    PROVE  Spelled(s) /\ (y = << >> <=> LastCharacter(s) = "/")
<1> DEFINE B == Seq(S)
           G(t) == \A r2 \in Seq(B), y2 \in B :
                       Split(t) = Append(r2, y2) /\ AllDigits(r2) /\ y2 \in Seq(Digits)
                           => Spelled(t) /\ (y2 = << >> <=> LastCharacter(t) = "/")
           T == {t \in Seq(S) : G(t)}
<1>1. << >> \in T
  <2>1. << >> \in Seq(S) /\ << >> \in Seq(B) /\ Len(<< >>) = 0 /\ << >> \in B
    BY EmptySeq
  <2>2. Spelled(<< >>) /\ LastCharacter(<< >>) = "/"
    BY <2>1 DEF Spelled, Chained, LastCharacter
  <2>3. Split(<< >>) = Append(<< >>, << >>)
    BY SplitEmpty
  <2>4. ASSUME NEW r2 \in Seq(B), NEW y2 \in B, Split(<< >>) = Append(r2, y2) PROVE y2 = << >>
    <3> HIDE DEF B
    <3>1. Append(<< >>, << >>) = Append(r2, y2)
      BY <2>3, <2>4
    <3>2. QED BY <2>1, <3>1, AppendInjective
  <2>5. G(<< >>)
    BY <2>2, <2>4
  <2> HIDE DEF G
  <2>6. QED BY <2>1, <2>5
<1>2. ASSUME NEW t \in Seq(S), NEW c \in S, t \in T PROVE Append(t, c) \in T
  <2> DEFINE q == Append(t, c)
             p == Split(t)
  <2>1. /\ q \in Seq(S) /\ Split(q) = Put(p, c) /\ p \in Seq(B) /\ p # << >>
    BY SplitAppend, SplitType, AppendProperties
  <2>2. PICK r1 \in Seq(B), y1 \in B : p = Append(r1, y1)
    BY <2>1, SequenceEmptyOrAppend
  <2>3. AllDigits(r1) /\ y1 \in Seq(Digits) => Spelled(t) /\ (y1 = << >> <=> LastCharacter(t) = "/")
    BY <1>2, <2>2
  <2>4. ASSUME NEW r2 \in Seq(B), NEW y2 \in B,
               Split(q) = Append(r2, y2), AllDigits(r2), y2 \in Seq(Digits)
        PROVE  Spelled(q) /\ (y2 = << >> <=> LastCharacter(q) = "/")
    <3> HIDE DEF G, T
    <3>1. CASE c = "/"
      <4>1. Append(p, << >>) = Append(r2, y2)
        BY <2>1, <2>4, <3>1 DEF Put
      <4>2. p = r2 /\ y2 = << >>
        <5>1. << >> \in B
          BY EmptySeq
        <5> HIDE DEF B, p
        <5>2. QED BY <2>1, <4>1, <5>1, AppendInjective
      <4>3. AllDigits(r1) /\ y1 \in Seq(Digits) /\ y1 # << >>
        <5>1. AllDigits(p)
          BY <2>4, <4>2
        <5> HIDE DEF p, B
        <5>2. /\ Len(p) = Len(r1) + 1 /\ p[Len(r1) + 1] = y1 /\ Len(r1) \in Nat
              /\ \A k \in 1 .. Len(r1) : p[k] = r1[k]
          BY <2>2, AppendProperties, LenProperties
        <5>3. Len(r1) + 1 \in 1 .. Len(p) /\ \A k \in 1 .. Len(r1) : k \in 1 .. Len(p)
          BY <5>2
        <5>4. QED BY <5>1, <5>2, <5>3 DEF AllDigits
      <4>4. Spelled(t) /\ LastCharacter(t) # "/"
        BY <2>3, <4>3
      <4>5. Spelled(q) /\ LastCharacter(q) = c
        BY <3>1, <4>4, SpelledAppend
      <4>6. QED BY <3>1, <4>2, <4>5
    <3>2. CASE c # "/"
      <4> DEFINE e == Append(y1, c)
      <4>1. e \in B /\ Put(p, c) = Append(r1, e)
        BY <2>2, <3>2, PutLast, AppendProperties
      <4>2. r1 = r2 /\ e = y2
        <5>1. Append(r1, e) = Append(r2, y2)
          BY <2>1, <2>4, <4>1
        <5> HIDE DEF B, e
        <5>2. QED BY <4>1, <5>1, AppendInjective
      <4>3. c \in Digits /\ y1 \in Seq(Digits) /\ y2 # << >>
        <5>1. y1 \in Seq(S) /\ e \in Seq(Digits)
          BY <2>4, <4>2
        <5>2. c \in Digits /\ y1 \in Seq(Digits) /\ e # << >>
          BY <5>1, AppendDigits
        <5>3. QED BY <4>2, <5>2
      <4>4. Spelled(t)
        BY <2>3, <2>4, <4>2, <4>3
      <4>5. Spelled(q) /\ LastCharacter(q) = c
        BY <4>3, <4>4, SpelledAppend
      <4>6. QED BY <3>2, <4>3, <4>5
    <3>3. QED BY <3>1, <3>2
  <2>5. G(q)
    BY <2>4
  <2> HIDE DEF G, q
  <2>6. QED BY <2>1, <2>5 DEF q
<1>3. Seq(S) \subseteq T
  <2> HIDE DEF T
  <2> QED BY <1>1, <1>2, SequenceInduction
<1>4. G(s)
  BY <1>3
<1>5. QED BY <1>4

---------------------------------------------------------------------------
(* What is around the parts.                                               *)

\* Trimming loses spaces only.
LEMMA KeptTrim ==
    ASSUME NEW S, NEW s \in Seq(S)
    PROVE  Kept(Trim(s)) = Kept(s)
<1> DEFINE solid == {i \in DOMAIN s : s[i] # " "}
           m == Min(solid)
           n == Max(solid)
<1>0. " " \in Skipped
  BY SkippedFacts
<1>1. Len(s) \in Nat /\ DOMAIN s = 1 .. Len(s)
  BY LenProperties
<1>2. CASE solid = {}
  <2>1. \A i \in 1 .. Len(s) : s[i] \in Skipped
    BY <1>0, <1>1, <1>2
  <2>2. Kept(s) = << >>
    BY <2>1, TextOf, KeptNothing
  <2>3. Trim(s) = << >>
    BY <1>2 DEF Trim
  <2>4. QED BY <2>2, <2>3, KeptEmpty
<1>3. CASE solid # {}
  <2>1. solid \subseteq 1 .. Len(s) /\ \A i \in 1 .. Len(s) : i \notin solid => s[i] \in Skipped
    BY <1>0, <1>1
  <2>2. Trim(s) = SubSeq(s, m, n)
    BY <1>3 DEF Trim
  <2> HIDE DEF solid
  <2>3. m \in solid /\ \A i \in solid : m <= i
    <3>1. solid \in SUBSET Nat
      BY <1>1, <2>1
    <3>2. \E least \in solid : \A i \in solid : least <= i
      BY <1>3, <3>1, LeastNatural
    <3>3. m = CHOOSE x \in solid : \A y \in solid : x <= y
      BY DEF Min
    <3> HIDE DEF m
    <3>4. QED BY <3>2, <3>3
  <2>4. n \in solid /\ \A i \in solid : i <= n
    <3>1. solid \in SUBSET (0 .. Len(s))
      BY <1>1, <2>1
    <3>2. QED BY <1>1, <1>3, <3>1, GreatestElement
  <2> HIDE DEF m, n
  <2>5. m \in 1 .. Len(s) /\ n \in 1 .. Len(s) /\ m <= n
    BY <2>1, <2>3, <2>4
  <2> DEFINE a == SubSeq(s, 1, m - 1)
             b == SubSeq(s, m, n)
             c == SubSeq(s, n + 1, Len(s))
             d == SubSeq(s, m, Len(s))
  <2>6. a \in Seq(Skipped)
    <3>1. \A i \in 1 .. m - 1 : s[i] \in Skipped
      <4>1. TAKE i \in 1 .. m - 1
      <4>2. i \in 1 .. Len(s) /\ ~(m <= i)
        BY <1>1, <2>5
      <4>3. QED BY <2>1, <2>3, <4>2
    <3>2. 1 \in Int /\ m - 1 \in Int
      BY <2>5
    <3>3. QED BY <3>1, <3>2, SubSeqProperties
  <2>7. c \in Seq(Skipped)
    <3>1. \A i \in n + 1 .. Len(s) : s[i] \in Skipped
      <4>1. TAKE i \in n + 1 .. Len(s)
      <4>2. i \in 1 .. Len(s) /\ ~(i <= n)
        BY <1>1, <2>5
      <4>3. QED BY <2>1, <2>4, <4>2
    <3>2. n + 1 \in Int /\ Len(s) \in Int
      BY <1>1, <2>5
    <3>3. QED BY <3>1, <3>2, SubSeqProperties
  <2>8. a \in Seq(S) /\ b \in Seq(S) /\ c \in Seq(S) /\ d \in Seq(S)
    <3>1. \A i \in 1 .. Len(s) : s[i] \in S
      BY ElementOfSeq
    <3>2. \A x, y \in Int : 1 <= x /\ y <= Len(s) => SubSeq(s, x, y) \in Seq(S)
      <4>1. TAKE x, y \in Int
      <4>2. HAVE 1 <= x /\ y <= Len(s)
      <4>3. \A i \in x .. y : s[i] \in S
        BY <1>1, <3>1, <4>2
      <4>4. QED BY <4>3, SubSeqProperties
    <3>3. /\ m \in Int /\ n \in Int /\ Len(s) \in Int /\ 1 \in Int /\ m - 1 \in Int /\ n + 1 \in Int
          /\ 1 <= m /\ m - 1 <= Len(s) /\ n <= Len(s) /\ 1 <= n + 1 /\ 1 <= 1 /\ Len(s) <= Len(s)
      BY <1>1, <2>5
    <3>4. QED BY <3>2, <3>3
  <2>9. s = a \o d /\ d = b \o c
    <3>1. d = b \o c
      <4>1. m \in 1 .. Len(s) + 1 /\ n \in m - 1 .. Len(s) /\ Len(s) \in n .. Len(s)
        BY <1>1, <2>5
      <4>2. QED BY <4>1, ConcatAdjacentSubSeq
    <3>2. s = a \o d
      <4> DEFINE k == m - 1
      <4>1. 1 \in 1 .. Len(s) + 1 /\ k \in 1 - 1 .. Len(s) /\ Len(s) \in k .. Len(s) /\ k + 1 = m
        BY <1>1, <2>5
      <4> HIDE DEF k
      <4>2. SubSeq(s, 1, k) \o SubSeq(s, k + 1, Len(s)) = SubSeq(s, 1, Len(s))
        BY <4>1, ConcatAdjacentSubSeq
      <4>3. SubSeq(s, 1, Len(s)) = s
        BY SubSeqFull
      <4>4. QED BY <4>1, <4>2, <4>3 DEF k
    <3>3. QED BY <3>1, <3>2
  <2> HIDE DEF a, b, c, d
  <2>10. Kept(s) = Kept(a) \o Kept(d) /\ Kept(d) = Kept(b) \o Kept(c)
    BY <2>8, <2>9, KeptConcat
  <2>11. Kept(a) = << >> /\ Kept(c) = << >>
    BY <2>6, <2>7, KeptNothing
  <2>12. Kept(b) \in Seq(S \ Skipped)
    BY <2>8, KeptType
  <2>13. << >> \o (Kept(b) \o << >>) = Kept(b)
    BY <2>12, ConcatEmptySeq
  <2>14. Kept(s) = Kept(b)
    BY <2>10, <2>11, <2>13
  <2>15. QED BY <2>2, <2>14 DEF b
<1>4. QED BY <1>2, <1>3

\* Of the roots the separators are kept.
LEMMA KeptTrimStartRoot ==
    ASSUME NEW S, NEW s \in Seq(S)
    PROVE  \E r \in Seq({"/"}) : Kept(s) = r \o Kept(TrimStartRoot(s))
<1> DEFINE half == Len(s) \div 2
           roots == {k \in 0 .. half :
                        \A i \in 1 .. k : s[2 * i - 1] = "m" /\ s[2 * i] = "/"}
           K == Max(roots)
           n == 2 * K
           a == SubSeq(s, 1, n)
           b == SubSeq(s, n + 1, Len(s))
           L == {"m", "/"}
<1>1. Len(s) \in Nat /\ half \in Nat /\ 2 * half <= Len(s)
  BY LenProperties
<1>2. 0 \in roots /\ roots \in SUBSET (0 .. half)
  BY <1>1
<1>3. TrimStartRoot(s) = b
  BY DEF TrimStartRoot
<1>4. K \in roots
  <2> HIDE DEF roots, half
  <2>1. QED BY <1>1, <1>2, GreatestElement
<1>5. K \in 0 .. half /\ \A i \in 1 .. K : s[2 * i - 1] = "m" /\ s[2 * i] = "/"
  BY <1>4
<1> HIDE DEF roots, K
<1>6. n \in 0 .. Len(s)
  BY <1>1, <1>5
<1>7. \A j \in 1 .. n : s[j] \in L
  <2>1. TAKE j \in 1 .. n
  <2>2. \E i \in 1 .. K : j = 2 * i \/ j = 2 * i - 1
    <3> HIDE DEF half
    <3>1. j \in Nat /\ K \in Nat /\ 1 <= j /\ j <= 2 * K
      BY <1>1, <1>5
    <3> DEFINE h == (j + 1) \div 2
    <3>2. h \in Int /\ (j + 1 = 2 * h \/ j + 1 = 2 * h + 1)
      BY <3>1
    <3> HIDE DEF h
    <3>3. h \in 1 .. K /\ (j = 2 * h \/ j = 2 * h - 1)
      BY <3>1, <3>2
    <3>4. QED BY <3>3
  <2>3. PICK i \in 1 .. K : j = 2 * i \/ j = 2 * i - 1
    BY <2>2
  <2>4. QED BY <1>5, <2>3
<1> HIDE DEF n
<1>8. a \in Seq(S) /\ b \in Seq(S) /\ s = a \o b /\ Len(a) = n /\ \A i \in 1 .. n : a[i] = s[i]
  BY <1>6, SplitAt
<1> HIDE DEF a, b, L
<1>9. a \in Seq(L)
  <2>1. \A i \in 1 .. Len(a) : a[i] \in L
    BY <1>7, <1>8
  <2>2. QED BY <1>8, <2>1, TextOf
<1>10. Kept(a) \in Seq({"/"})
  <2>1. Kept(a) \in Seq(L \ Skipped)
    BY <1>9, KeptType
  <2>2. L \ Skipped = {"/"}
    BY SkippedFacts DEF L
  <2>3. QED BY <2>1, <2>2
<1>11. Kept(s) = Kept(a) \o Kept(b)
  BY <1>8, KeptConcat
<1>12. QED BY <1>3, <1>10, <1>11

\* Plain drops the separators in front.
LEMMA PlainDrops ==
    ASSUME NEW s, NEW r \in Seq({"/"}), NEW S, NEW u \in Seq(S), Kept(s) = r \o u,
           u # << >>, u[1] # "/"
    PROVE  Plain(s) = u
<1> DEFINE V == S \cup {"/"}
           k == r \o u
           first == {i \in DOMAIN k : k[i] # "/"}
<1>1. r \in Seq(V) /\ u \in Seq(V)
  BY SeqMonotonic
<1>2. Len(r) \in Nat /\ Len(u) \in Nat \ {0} /\ \A i \in 1 .. Len(r) : r[i] = "/"
  <2>1. \A i \in 1 .. Len(r) : r[i] \in {"/"}
    BY ElementOfSeq
  <2>2. QED BY <2>1, LenProperties, EmptySeq
<1> HIDE DEF V
<1>3. /\ k \in Seq(V) /\ Len(k) = Len(r) + Len(u)
      /\ \A i \in 1 .. Len(r) : k[i] = r[i]
      /\ \A i \in 1 .. Len(u) : k[Len(r) + i] = u[i]
  BY <1>1, ConcatElements
<1>4. DOMAIN k = 1 .. Len(k)
  BY <1>3, LenProperties
<1>5. Plain(s) = IF first = {} THEN << >> ELSE SubSeq(k, Min(first), Len(k))
  BY DEF Plain
<1>6. SubSeq(k, Len(r) + 1, Len(k)) = u
  BY <1>1, ConcatSuffix
<1> HIDE DEF k
<1>7. Len(r) + 1 \in first
  <2>1. 1 \in 1 .. Len(u) /\ Len(r) + 1 \in 1 .. Len(k)
    BY <1>2, <1>3
  <2>2. k[Len(r) + 1] = u[1]
    BY <1>3, <2>1
  <2>3. QED BY <1>4, <2>1, <2>2
<1>8. \A i \in first : Len(r) + 1 <= i
  <2>1. TAKE i \in first
  <2>2. i \in 1 .. Len(k) /\ k[i] # "/"
    BY <1>4
  <2>3. i \notin 1 .. Len(r)
    BY <1>2, <1>3, <2>2
  <2>4. QED BY <1>2, <1>3, <2>2, <2>3
<1>9. \A i \in first : i \in Int
  BY <1>2, <1>3, <1>4
<1> HIDE DEF first
<1>10. Min(first) = Len(r) + 1
  <2> DEFINE n == Len(r) + 1
  <2>1. n \in first /\ n \in Int /\ \A i \in first : n <= i /\ i \in Int
    BY <1>2, <1>7, <1>8, <1>9
  <2> HIDE DEF n
  <2>2. \E x \in first : \A y \in first : x <= y
    BY <2>1
  <2>3. Min(first) = CHOOSE x \in first : \A y \in first : x <= y
    BY DEF Min
  <2> DEFINE m == Min(first)
  <2>4. m \in first /\ \A y \in first : m <= y
    BY <2>2, <2>3
  <2> HIDE DEF m
  <2>5. m = n
    BY <2>1, <2>4
  <2>6. QED BY <2>5 DEF m, n
<1>11. first # {}
  BY <1>7
<1>12. QED BY <1>5, <1>6, <1>10, <1>11

\* The parts of an accepted text, before and after.
LEMMA AcceptedParts ==
    ASSUME NEW S, NEW t \in Seq(S), \A k \in DOMAIN Split(t) : ParseIndex(Split(t)[k]) # None
    PROVE  LET u == Kept(t)
           IN  /\ Len(Split(u)) = Len(Split(t)) /\ DOMAIN Split(u) = DOMAIN Split(t)
               /\ \A k \in DOMAIN Split(u) : ParseIndex(Split(u)[k]) = ParseIndex(Split(t)[k])
               /\ u \in Seq(S) /\ u # << >> /\ Spelled(u) /\ u[Len(u)] # "/"
<1> DEFINE u == Kept(t)
           p == Split(t)
           q == Split(u)
           R == S \ Skipped
           V == Seq(R)
           B == Seq(S)
<1>1. p \in Seq(B) /\ DOMAIN p = 1 .. Len(p)
  <2>1. p \in Seq(B)
    BY SplitType
  <2> HIDE DEF p, B
  <2>2. QED BY <2>1, LenProperties
<1>2. u \in Seq(R)
  BY KeptType
<1>3. q \in Seq(V) /\ q # << >> /\ DOMAIN q = 1 .. Len(q)
  <2>1. q \in Seq(V) /\ q # << >>
    <3> HIDE DEF u, R
    <3>1. QED BY <1>2, SplitType
  <2> HIDE DEF q, V
  <2>2. QED BY <2>1, LenProperties
<1>4. KeptParts(p, q)
  BY KeptSplit
<1>5. \A k \in 1 .. Len(p) : p[k] \in Seq(S) /\ ParseIndex(p[k]) # None
  <2>1. \A k \in 1 .. Len(p) : p[k] \in B
    <3> HIDE DEF p, B
    <3>1. QED BY <1>1, ElementOfSeq
  <2>2. QED BY <1>1, <2>1
<1> HIDE DEF u, p, q, V, B
<1>6. \A k \in 1 .. Len(q) : /\ q[k] \in Seq(Digits) /\ q[k] # << >>
                             /\ ParseIndex(q[k]) = ParseIndex(p[k])
  <2>1. TAKE k \in 1 .. Len(q)
  <2>2. k \in 1 .. Len(p) /\ q[k] = Kept(p[k])
    BY <1>4 DEF KeptParts
  <2>3. p[k] \in Seq(S) /\ ParseIndex(p[k]) # None
    BY <1>5, <2>2
  <2>4. QED BY <2>2, <2>3, AcceptedPart
<1>7. PICK r \in Seq(V), y \in V : q = Append(r, y)
  BY <1>3, SequenceEmptyOrAppend
<1>8. AllDigits(r) /\ y \in Seq(Digits) /\ y # << >>
  <2>1. /\ Len(q) = Len(r) + 1 /\ q[Len(r) + 1] = y /\ Len(r) \in Nat
        /\ \A k \in 1 .. Len(r) : q[k] = r[k]
    BY <1>7, AppendProperties, LenProperties
  <2>2. Len(r) + 1 \in 1 .. Len(q) /\ \A k \in 1 .. Len(r) : k \in 1 .. Len(q)
    BY <2>1
  <2>3. QED BY <1>6, <2>1, <2>2 DEF AllDigits
<1>9. Spelled(u) /\ LastCharacter(u) # "/"
  <2>1. r \in Seq(Seq(R)) /\ y \in Seq(R) /\ Split(u) = Append(r, y)
    BY <1>7 DEF V, q
  <2> HIDE DEF R
  <2>2. Spelled(u) /\ (y = << >> <=> LastCharacter(u) = "/")
    <3>1. \A s2 \in Seq(R), r2 \in Seq(Seq(R)), y2 \in Seq(R) :
              Split(s2) = Append(r2, y2) /\ AllDigits(r2) /\ y2 \in Seq(Digits)
                  => Spelled(s2) /\ (y2 = << >> <=> LastCharacter(s2) = "/")
      BY DigitPartsSpell
    <3>2. QED BY <1>2, <1>8, <2>1, <3>1
  <2>3. QED BY <1>8, <2>2
<1>10. u # << >> /\ u[Len(u)] # "/"
  BY <1>9 DEF LastCharacter
<1>11. u \in Seq(S)
  <2>1. R \subseteq S
    OBVIOUS
  <2> HIDE DEF R
  <2>2. QED BY <1>2, <2>1, SeqMonotonic
<1>12. Len(q) = Len(p) /\ DOMAIN q = DOMAIN p
  BY <1>1, <1>3, <1>4 DEF KeptParts
<1>13. QED BY <1>3, <1>6, <1>9, <1>10, <1>11, <1>12 DEF u, p, q

\* A text that is spelled out is a documented one, and nothing of it is trimmed.
LEMMA SpelledDocumented ==
    ASSUME NEW S, NEW u \in Seq(S), u # << >>, Spelled(u), u[Len(u)] # "/"
    PROVE  /\ Documented(u) /\ TrimStartRoot(Trim(u)) = u
           /\ u[1] # "/"
<1>1. Len(u) \in Nat \ {0} /\ 1 \in 1 .. Len(u) /\ Len(u) > 0
  BY EmptySeq
<1>2. u[1] \in Digits /\ \A i \in 1 .. Len(u) : u[i] \in Digits \cup {"/"}
  BY DEF Spelled, Chained
<1>3. u[1] # "/" /\ u[1] # "m"
  BY <1>2, DigitFacts
<1>4. \A i \in 1 .. Len(u) : u[i] # " " /\ u[i] \notin Marks
  <2>1. \A c \in Digits \cup {"/"} : c # " " /\ c \notin Marks
    BY DigitFacts, CharacterFacts
  <2>2. QED BY <1>2, <2>1
<1>5. Trim(u) = u /\ TrimStartRoot(u) = u
  BY <1>3, <1>4, TrimSolid, TrimNoRoot
<1>6. WithoutRoot(u) = u
  <2>1. SUFFICES ASSUME Len(u) >= 2, SubSeq(u, 1, 2) = << "m", "/" >> PROVE FALSE
    BY DEF WithoutRoot
  <2>2. SubSeq(u, 1, 2)[1] = u[1]
    <3>1. 2 \in 0 .. Len(u) /\ 1 \in 1 .. 2
      BY <1>1, <2>1
    <3>2. \A i \in 1 .. 2 : SubSeq(u, 1, 2)[i] = u[i]
      BY <3>1, SplitAt
    <3>3. QED BY <3>1, <3>2
  <2>3. \A q : q = << "m", "/" >> => q[1] = "m"
    OBVIOUS
  <2> DEFINE q == SubSeq(u, 1, 2)
  <2>4. q = << "m", "/" >> /\ q[1] = u[1]
    BY <2>1, <2>2
  <2> HIDE DEF q
  <2>5. q[1] = "m"
    BY <2>3, <2>4
  <2>6. QED BY <1>3, <2>4, <2>5
<1>7. \A i \in 1 .. Len(u) - 1 : /\ u[i] = "/" => u[i + 1] \in Digits
                                 /\ u[i] \in Marks => u[i + 1] = "/"
  BY DEF Spelled, Chained
<1>8. Documented(u)
  <2>1. \A i \in 1 .. Len(u) : u[i] \in Digits \cup Marks \cup {"/"}
    BY <1>2
  <2>2. QED BY <1>1, <1>2, <1>3, <1>6, <1>7, <2>1 DEF Documented
<1>9. QED BY <1>3, <1>5, <1>8

\* The two parts of AcceptedIsDecorated.
LEMMA TypedDecorated == TextTyped => AcceptedIsDecorated
<1>1. SUFFICES ASSUME TextTyped, ParseHardenedPath(text) # None
               PROVE  /\ Documented(Plain(text))
                      /\ ParseHardenedPath(Plain(text)) = ParseHardenedPath(text)
  BY DEF AcceptedIsDecorated
<1> DEFINE C == Characters
           t == TrimStartRoot(Trim(text))
           u == Kept(t)
           p == Split(t)
           q == Split(u)
<1>2. text \in Seq(C) /\ Trim(text) \in Seq(C) /\ t \in Seq(C)
  BY <1>1, TrimType, TrimStartRootType DEF TextTyped
<1>3. ParseHardenedPath(text) =
          IF \A k \in DOMAIN p : ParseIndex(p[k]) # None
          THEN Some([k \in DOMAIN p |-> CHOOSE i \in ParseIndex(p[k]) : TRUE])
          ELSE None
  BY DEF ParseHardenedPath
<1> HIDE DEF t
<1>4. \A k \in DOMAIN p : ParseIndex(p[k]) # None
  BY <1>1, <1>3
<1>5. /\ DOMAIN q = DOMAIN p
      /\ \A k \in DOMAIN q : ParseIndex(q[k]) = ParseIndex(p[k])
      /\ u \in Seq(C) /\ u # << >> /\ Spelled(u) /\ u[Len(u)] # "/"
  BY <1>2, <1>4, AcceptedParts
<1> HIDE DEF u, p, q
<1>6. Documented(u) /\ TrimStartRoot(Trim(u)) = u /\ u[1] # "/"
  BY <1>5, SpelledDocumented
<1>7. Plain(text) = u
  <2>1. PICK r \in Seq({"/"}) : Kept(Trim(text)) = r \o u
    BY <1>2, KeptTrimStartRoot DEF u, t
  <2>2. Kept(text) = r \o u
    BY <1>2, <2>1, KeptTrim
  <2>3. QED BY <1>5, <1>6, <2>2, PlainDrops
<1>8. ParseHardenedPath(u) =
          IF \A k \in DOMAIN q : ParseIndex(q[k]) # None
          THEN Some([k \in DOMAIN q |-> CHOOSE i \in ParseIndex(q[k]) : TRUE])
          ELSE None
  BY <1>6 DEF ParseHardenedPath, q
<1>9. ParseHardenedPath(u) = ParseHardenedPath(text)
  <2> DEFINE F == [k \in DOMAIN q |-> CHOOSE i \in ParseIndex(q[k]) : TRUE]
             G == [k \in DOMAIN p |-> CHOOSE i \in ParseIndex(p[k]) : TRUE]
  <2>1. F = G
    BY <1>5
  <2>2. \A k \in DOMAIN q : ParseIndex(q[k]) # None
    BY <1>4, <1>5
  <2>3. ParseHardenedPath(u) = Some(F)
    BY <1>8, <2>2
  <2>4. ParseHardenedPath(text) = Some(G)
    BY <1>3, <1>4
  <2> HIDE DEF F, G
  <2>5. QED BY <2>1, <2>3, <2>4
<1>10. QED BY <1>6, <1>7, <1>9

(* Whatever text is read as a path, it is a documented text with           *)
(* decorations: its digits and separators, without the spaces, plus signs, *)
(* marks and roots, are in the grammar of the comment and are read as the  *)
(* same path, whatever the characters, the length, the base and the width  *)
(* of the indices (parse_hardened_path).                                   *)
THEOREM AcceptedIsDecoratedHolds == TextSpec => []AcceptedIsDecorated
<1>1. TextTyped => AcceptedIsDecorated
  BY TypedDecorated
<1>2. QED BY <1>1, TextTypedInit, TextTypedNext, PTL DEF TextSpec
===================================================================================
