------------------------------ MODULE TxStream_proofs ------------------------------
(***************************************************************************)
(* Proofs about TxStream, for any set of transactions, any number of them  *)
(* and any number of alterations: frames decode to what was encoded and    *)
(* stand apart, the stream implements TxQueue, and whatever was altered,   *)
(* only encodings decode.                                                  *)
(*                                                                         *)
(* Inv says that a stream is the frames that are whole and a remainder,    *)
(* and, unless bytes were altered, that what was received and what is      *)
(* whole are together the beginning of what was sent.  WellCelled says     *)
(* that strings stay whole, except where the end was lost.                 *)
(***************************************************************************)
EXTENDS TxStream, BasicLemmas

\* The cells that streams are made of.
Cell == {Item(v) : v \in Values} \cup {RestOf(v) : v \in InTwoCells}
            \cup {ListHeader(n) : n \in Nat}

---------------------------------------------------------------------------
(* Values as cells.                                                        *)

\* A value is written as one cell or two.
LEMMA CellsType ==
    ASSUME NEW v \in Values
    PROVE  /\ Cells(v) \in Seq(Cell)
           /\ v \in InTwoCells => Cells(v) = << Item(v), RestOf(v) >>
           /\ v \notin InTwoCells => Cells(v) = << Item(v) >>
           /\ Cells(v) # << >>
<1>1. Item(v) \in Cell
  BY DEF Cell
<1>2. v \in InTwoCells => RestOf(v) \in Cell
  BY DEF Cell
<1>3. QED BY <1>1, <1>2 DEF Cells

\* No values, no cells.
LEMMA CellsOfEmpty == CellsOf(<< >>) = << >>
BY DEF CellsOf, FlattenSeq

\* The cells of each value form a sequence of sequences, as FlattenSeq takes
\* it.
LEMMA CellSeqs ==
    ASSUME NEW vs \in Seq(Values)
    PROVE  /\ [i \in DOMAIN vs |-> Cells(vs[i])] \in Seq(Seq(Cell))
           /\ Len([i \in DOMAIN vs |-> Cells(vs[i])]) = Len(vs)
<1>1. \A i \in DOMAIN vs : Cells(vs[i]) \in Seq(Cell)
  BY CellsType
<1>2. DOMAIN vs = 1 .. Len(vs) /\ Len(vs) \in Nat
  OBVIOUS
<1>3. QED BY <1>1, <1>2

\* Values are written as a sequence of cells.
LEMMA CellsOfType ==
    ASSUME NEW vs \in Seq(Values)
    PROVE  CellsOf(vs) \in Seq(Cell)
BY CellSeqs, FlattenType DEF CellsOf

\* Values are written one behind the other.
LEMMA CellsOfAppend ==
    ASSUME NEW vs \in Seq(Values), NEW v \in Values
    PROVE  CellsOf(Append(vs, v)) = CellsOf(vs) \o Cells(v)
<1> DEFINE ws == Append(vs, v)
           s == [i \in DOMAIN vs |-> Cells(vs[i])]
           t == << Cells(v) >>
           u == [i \in DOMAIN ws |-> Cells(ws[i])]
<1>1. s \in Seq(Seq(Cell)) /\ t \in Seq(Seq(Cell)) /\ u \in Seq(Seq(Cell))
  BY CellSeqs, CellsType
<1>2. u = s \o t
  <2>1. Len(u) = Len(vs) + 1 /\ Len(s) = Len(vs) /\ Len(t) = 1
    BY CellSeqs, AppendProperties
  <2>2. ASSUME NEW i \in 1 .. Len(vs) + 1 PROVE u[i] = (s \o t)[i]
    <3>1. u[i] = Cells(ws[i])
      OBVIOUS
    <3>2. CASE i <= Len(vs)
      <4>1. s[i] = Cells(vs[i]) /\ ws[i] = vs[i]
        BY <3>2
      <4>2. (s \o t)[i] = s[i]
        BY <1>1, <2>1, <3>2, ConcatProperties
      <4>3. QED BY <3>1, <4>1, <4>2
    <3>3. CASE i = Len(vs) + 1
      <4>1. ws[i] = v
        BY <3>3
      <4>2. (s \o t)[i] = t[1]
        <5> HIDE DEF s, t
        <5>1. \A j \in 1 .. Len(s) + Len(t) :
                 (s \o t)[j] = IF j <= Len(s) THEN s[j] ELSE t[j - Len(s)]
          BY <1>1, ConcatProperties
        <5>2. Len(s) \in Nat /\ i = Len(s) + 1 /\ Len(t) = 1 /\ i - Len(s) = 1
          BY <1>1, <2>1, <3>3
        <5>3. i \in 1 .. Len(s) + Len(t) /\ ~(i <= Len(s))
          BY <5>2
        <5>4. (s \o t)[i] = t[i - Len(s)]
          BY <5>1, <5>3
        <5>5. QED BY <5>2, <5>4
      <4>3. QED BY <3>1, <4>1, <4>2
    <3>4. QED BY <3>2, <3>3
  <2> HIDE DEF s, t, u
  <2>3. s \o t \in Seq(Seq(Cell)) /\ Len(s \o t) = Len(vs) + 1
    <3>1. s \o t \in Seq(Seq(Cell))
      BY <1>1, ConcatProperties
    <3>2. Len(s \o t) = Len(s) + Len(t)
      BY <1>1, ConcatProperties
    <3>3. QED BY <2>1, <3>1, <3>2
  <2>4. QED BY <1>1, <2>1, <2>2, <2>3, SeqEqual
<1>3. FlattenSeq(t) = Cells(v)
  BY FlattenSingle, CellsType
<1>4. FlattenSeq(s \o t) = FlattenSeq(s) \o FlattenSeq(t)
  <2> HIDE DEF s, t
  <2> QED BY <1>1, FlattenConcat
<1>5. FlattenSeq(u) = FlattenSeq(s) \o Cells(v)
  BY <1>2, <1>3, <1>4
<1>6. QED BY <1>5 DEF CellsOf

---------------------------------------------------------------------------
(* The strings of a payload.                                               *)

\* The recursive function of Strings.
StringsTo(p) ==
    CHOOSE f : f = [n \in 0 .. Len(p) |->
                       IF n = 0 THEN << >>
                       ELSE IF p[n].tag = "rest" THEN f[n - 1] ELSE Append(f[n - 1], p[n])]

\* Strings is the last value of its recursive function.
LEMMA StringsDef ==
    ASSUME NEW p \in Seq(Cell)
    PROVE  Strings(p) = StringsTo(p)[Len(p)]
BY DEF Strings, StringsTo

\* The recursive function exists, and satisfies its equation.
LEMMA StringsToProperty ==
    ASSUME NEW p \in Seq(Cell)
    PROVE  /\ \A n \in 0 .. Len(p) : StringsTo(p)[n] \in Seq(Cell)
           /\ StringsTo(p)[0] = << >>
           /\ \A n \in 1 .. Len(p) :
                 StringsTo(p)[n] = IF p[n].tag = "rest" THEN StringsTo(p)[n - 1]
                                                        ELSE Append(StringsTo(p)[n - 1], p[n])
<1> DEFINE V == Seq(Cell)
           N == Len(p)
           start == << >>
           G == [n \in 1 .. N |-> [x \in V |-> IF p[n].tag = "rest" THEN x ELSE Append(x, p[n])]]
           Step(f, n) == IF n = 0 THEN << >>
                         ELSE IF p[n].tag = "rest" THEN f[n - 1] ELSE Append(f[n - 1], p[n])
<1>1. N \in Nat /\ start \in V
  OBVIOUS
<1>2. G \in [1 .. N -> [V -> V]]
  OBVIOUS
<1>3. PICK f \in [0 .. N -> V] : f[0] = start /\ \A n \in 1 .. N : f[n] = G[n][f[n - 1]]
  <2> HIDE DEF V, N, G, start
  <2> QED BY <1>1, <1>2, RecursionExists
<1>4. \A n \in 0 .. N : f[n] = Step(f, n)
  <2>1. TAKE n \in 0 .. N
  <2>2. CASE n = 0
    BY <1>3, <2>2
  <2>3. CASE n # 0
    <3>1. f[n - 1] \in V /\ n \in 1 .. N
      BY <2>3
    <3>2. f[n] = G[n][f[n - 1]]
      <4> HIDE DEF G
      <4> QED BY <1>3, <3>1
    <3>3. QED BY <3>1, <3>2, <2>3
  <2>4. QED BY <2>2, <2>3
<1>5. f = [n \in 0 .. N |-> Step(f, n)]
  BY <1>4
<1>6. StringsTo(p) = [n \in 0 .. N |-> Step(StringsTo(p), n)]
  BY <1>5 DEF StringsTo
<1> DEFINE h == StringsTo(p)
           T == {n \in Nat : n <= N => h[n] \in V}
<1>7. \A n \in 0 .. N : h[n] = Step(h, n)
  <2> HIDE DEF h
  <2>1. h = [n \in 0 .. N |-> Step(h, n)]
    BY <1>6 DEF h
  <2>2. QED BY <2>1
<1> HIDE DEF h
<1>8. 0 \in T
  <2>1. 0 \in 0 .. N
    BY <1>1
  <2>2. h[0] = Step(h, 0)
    BY <1>7, <2>1
  <2>3. QED BY <2>2, <1>1
<1>9. ASSUME NEW n \in Nat, n \in T PROVE n + 1 \in T
  <2>1. SUFFICES ASSUME n + 1 <= N PROVE h[n + 1] \in V
    OBVIOUS
  <2>2. h[n] \in V /\ p[n + 1] \in Cell /\ (n + 1) - 1 = n /\ n + 1 \in 0 .. N /\ n + 1 # 0
    BY <1>9, <2>1
  <2>3. h[n + 1] = IF p[n + 1].tag = "rest" THEN h[n] ELSE Append(h[n], p[n + 1])
    BY <2>2, <1>7
  <2>4. QED BY <2>2, <2>3
<1>10. Nat \subseteq T
  <2> HIDE DEF T
  <2> QED BY <1>8, <1>9, Induction
<1>11. \A n \in 0 .. N : h[n] \in V
  BY <1>10, <1>1
<1>12. QED BY <1>7, <1>11 DEF h

\* The strings of a payload are cells.
LEMMA StringsType ==
    ASSUME NEW p \in Seq(Cell)
    PROVE  Strings(p) \in Seq(Cell)
BY StringsDef, StringsToProperty, LenProperties

\* An empty payload has no string.
LEMMA StringsEmpty == Strings(<< >>) = << >>
<1>1. << >> \in Seq(Cell) /\ Len(<< >>) = 0
  BY EmptySeq
<1>2. QED BY <1>1, StringsDef, StringsToProperty

\* Every cell but a rest begins a string.
LEMMA StringsAppend ==
    ASSUME NEW p \in Seq(Cell), NEW c \in Cell
    PROVE  Strings(Append(p, c)) =
               IF c.tag = "rest" THEN Strings(p) ELSE Append(Strings(p), c)
<1> DEFINE q == Append(p, c)
           T == {n \in Nat : n <= Len(p) => StringsTo(q)[n] = StringsTo(p)[n]}
<1>1. q \in Seq(Cell) /\ Len(q) = Len(p) + 1 /\ q[Len(p) + 1] = c /\ Len(p) \in Nat
  BY AppendProperties, LenProperties
<1>2. \A i \in 1 .. Len(p) : q[i] = p[i]
  BY AppendProperties
<1> HIDE DEF q
<1>3. 0 \in T
  BY <1>1, StringsToProperty
<1>4. ASSUME NEW n \in Nat, n \in T PROVE n + 1 \in T
  <2>1. SUFFICES ASSUME n + 1 <= Len(p) PROVE StringsTo(q)[n + 1] = StringsTo(p)[n + 1]
    OBVIOUS
  <2>2. StringsTo(q)[n] = StringsTo(p)[n]
    BY <1>1, <1>4, <2>1
  <2>3. n + 1 \in 1 .. Len(p) /\ n + 1 \in 1 .. Len(q) /\ (n + 1) - 1 = n
    BY <1>1, <2>1
  <2>4. q[n + 1] = p[n + 1]
    BY <1>2, <2>3
  <2>5. StringsTo(q)[n + 1] = IF q[n + 1].tag = "rest" THEN StringsTo(q)[n]
                                                       ELSE Append(StringsTo(q)[n], q[n + 1])
    BY <1>1, <2>3, StringsToProperty
  <2>6. StringsTo(p)[n + 1] = IF p[n + 1].tag = "rest" THEN StringsTo(p)[n]
                                                       ELSE Append(StringsTo(p)[n], p[n + 1])
    BY <2>3, StringsToProperty
  <2>7. QED BY <2>2, <2>4, <2>5, <2>6
<1>5. Nat \subseteq T
  <2> HIDE DEF T
  <2> QED BY <1>3, <1>4, Induction
<1>6. StringsTo(q)[Len(p)] = Strings(p)
  BY <1>1, <1>5, StringsDef
<1>7. StringsTo(q)[Len(q)] = IF q[Len(q)].tag = "rest" THEN StringsTo(q)[Len(p)]
                                          ELSE Append(StringsTo(q)[Len(p)], q[Len(q)])
  <2>1. Len(q) \in 1 .. Len(q) /\ Len(q) - 1 = Len(p)
    BY <1>1
  <2>2. QED BY <1>1, <2>1, StringsToProperty
<1>8. QED BY <1>1, <1>6, <1>7, StringsDef DEF q

---------------------------------------------------------------------------
(* Reading written values.                                                 *)

\* The fields of the three kinds of cell.
LEMMA CellFacts ==
    /\ \A v \in Values : Item(v).tag = "item" /\ Item(v).value = v /\ Item(v) \in Cell
    /\ \A v \in InTwoCells : RestOf(v).tag = "rest" /\ RestOf(v).value = v /\ RestOf(v) \in Cell
    /\ \A n \in Nat : /\ ListHeader(n).tag = "list" /\ ListHeader(n).value = ""
                       /\ ListHeader(n).len = n /\ ListHeader(n) \in Cell
    /\ InTwoCells \subseteq Values /\ "" \notin Values
BY DEF Item, RestOf, ListHeader, Cell, InTwoCells, Values

\* A cell is of the kind that its tag says.
LEMMA CellCases ==
    ASSUME NEW c \in Cell
    PROVE  /\ c.tag = "item" => c.value \in Values /\ c = Item(c.value)
           /\ c.tag = "rest" => c.value \in InTwoCells /\ c = RestOf(c.value)
           /\ c.tag = "list" => c.value = "" /\ c.len \in Nat /\ c = ListHeader(c.len)
           /\ c.tag \in {"item", "rest", "list"}
<1>1. CASE \E v \in Values : c = Item(v)
  <2>1. PICK v \in Values : c = Item(v)
    BY <1>1
  <2>2. c.tag = "item" /\ c.value = v
    BY <2>1, CellFacts
  <2>3. QED BY <2>1, <2>2
<1>2. CASE \E v \in InTwoCells : c = RestOf(v)
  <2>1. PICK v \in InTwoCells : c = RestOf(v)
    BY <1>2
  <2>2. c.tag = "rest" /\ c.value = v
    BY <2>1, CellFacts
  <2>3. QED BY <2>1, <2>2
<1>3. CASE \E n \in Nat : c = ListHeader(n)
  <2>1. PICK n \in Nat : c = ListHeader(n)
    BY <1>3
  <2>2. c.tag = "list" /\ c.value = "" /\ c.len = n
    BY <2>1, CellFacts
  <2>3. QED BY <2>1, <2>2
<1>4. QED BY <1>1, <1>2, <1>3 DEF Cell

\* The first cells of written values.
Items(vs) == [i \in DOMAIN vs |-> Item(vs[i])]

\* One cell for each value.
LEMMA ItemsFacts ==
    ASSUME NEW vs \in Seq(Values)
    PROVE  /\ Len(Items(vs)) = Len(vs)
           /\ \A i \in 1 .. Len(vs) : Items(vs)[i] = Item(vs[i])
<1>1. DOMAIN vs = 1 .. Len(vs) /\ Len(vs) \in Nat
  BY LenProperties
<1>2. Items(vs) = [i \in 1 .. Len(vs) |-> Item(vs[i])]
  BY <1>1 DEF Items
<1>3. QED BY <1>1, <1>2

\* Reading the strings of written values gives the values back.
LEMMA StringsOfCells ==
    ASSUME NEW vs \in Seq(Values)
    PROVE  Strings(CellsOf(vs)) = Items(vs) /\ EndsWhole(CellsOf(vs))
<1> DEFINE T == {ws \in Seq(Values) : Strings(CellsOf(ws)) = Items(ws) /\ EndsWhole(CellsOf(ws))}
<1>1. << >> \in T
  <2>1. Items(<< >>) = << >>
    BY DEF Items
  <2>2. << >> \in Seq(Values) /\ EndsWhole(<< >>)
    BY EmptySeq DEF EndsWhole
  <2>3. QED BY <2>1, <2>2, CellsOfEmpty, StringsEmpty
<1>2. ASSUME NEW ws \in Seq(Values), NEW v \in Values, ws \in T PROVE Append(ws, v) \in T
  <2> DEFINE p == CellsOf(ws)
             q == CellsOf(Append(ws, v))
  <2>1. p \in Seq(Cell) /\ q \in Seq(Cell) /\ q = p \o Cells(v) /\ Append(ws, v) \in Seq(Values)
    BY CellsOfType, CellsOfAppend, AppendProperties
  <2>2. Strings(p) = Items(ws)
    BY <1>2
  <2>3. Items(Append(ws, v)) = Append(Items(ws), Item(v))
    BY DEF Items
  <2> DEFINE i == Item(v)
             r == RestOf(v)
  <2>4. i \in Cell /\ i.tag = "item" /\ i.value = v
    BY CellFacts
  <2>5. Cells(v) \in Seq(Cell) /\ (v \in InTwoCells => Cells(v) = << i, r >>)
                              /\ (v \notin InTwoCells => Cells(v) = << i >>)
    BY CellsType
  <2> HIDE DEF p, q, i, r, T
  <2>6. Append(p, i) \in Seq(Cell) /\ Strings(Append(p, i)) = Append(Strings(p), i)
    BY <2>1, <2>4, StringsAppend, AppendLast
  <2>7. CASE v \notin InTwoCells
    <3>1. q = Append(p, i)
      BY <2>1, <2>4, <2>5, <2>7, AppendIsConcat
    <3>2. EndsWhole(q)
      BY <2>1, <2>4, <2>7, <3>1, AppendLast DEF EndsWhole
    <3>3. QED BY <3>1, <3>2, <2>1, <2>2, <2>3, <2>6 DEF q, i, T
  <2>8. CASE v \in InTwoCells
    <3>1. r \in Cell /\ r.tag = "rest" /\ r.value = v
      BY <2>8, CellFacts DEF r
    <3>2. q = Append(Append(p, i), r)
      <4>1. q = p \o << i, r >>
        BY <2>1, <2>5, <2>8
      <4>2. p \o << i, r >> = Append(Append(p, i), r)
        BY <2>1, <2>4, <3>1, AppendTwo
      <4>3. QED BY <4>1, <4>2
    <3>3. Strings(q) = Append(Strings(p), i)
      BY <2>6, <3>1, <3>2, StringsAppend
    <3>4. EndsWhole(q)
      <4>1. Last(q) = r
        BY <2>6, <3>1, <3>2, AppendLast
      <4>2. QED BY <4>1, <3>1 DEF EndsWhole
    <3>5. QED BY <3>3, <3>4, <2>1, <2>2, <2>3 DEF q, i, T
  <2>9. QED BY <2>7, <2>8
<1>3. Seq(Values) \subseteq T
  <2> HIDE DEF T
  <2> QED BY <1>1, <1>2, SequenceInduction
<1>4. QED BY <1>3

---------------------------------------------------------------------------
(* Transactions as payloads.                                               *)

\* An optional value is none or some value.
LEMMA OptionFacts ==
    ASSUME NEW o \in Option(Values), NEW d
    PROVE  /\ o = None => UnwrapOr(o, d) = d
           /\ o # None => UnwrapOr(o, d) \in Values /\ o = Some(UnwrapOr(o, d))
BY DEF Option, UnwrapOr, None, Some

\* The fields of a transaction that is sent.
LEMMA TxFacts ==
    ASSUME NEW t \in Txs
    PROVE  /\ t = Tx(t.body, t.v, t.r, t.s, t.pqc, t.pk)
           /\ t.body \in Seq(Values) /\ Len(t.body) = 8
           /\ t.v \in Option(Values) /\ t.r \in Option(Values) /\ t.s \in Option(Values)
           /\ t.pqc \in Option(Values) /\ t.pk \in Option(Values)
<1>1. /\ t = Tx(t.body, t.v, t.r, t.s, t.pqc, t.pk)
      /\ t.body \in [1 .. 8 -> Values]
      /\ {t.v, t.r, t.s, t.pqc, t.pk} \subseteq Option(Values)
  BY TxsAssumption
<1>2. t.body \in Seq(Values) /\ Len(t.body) = 8
  <2> DEFINE f == t.body
  <2>1. f \in [1 .. 8 -> Values]
    BY <1>1
  <2> HIDE DEF f
  <2>2. f \in Seq(Values) /\ Len(f) = 8
    BY <2>1, FunctionIsSequence
  <2>3. QED BY <2>2 DEF f
<1>3. QED BY <1>1, <1>2

\* The values of the five optional fields on the wire.
Tail5(t) == << UnwrapOr(t.v, "empty"), UnwrapOr(t.r, "empty"), UnwrapOr(t.s, "empty"),
               UnwrapOr(t.pqc, "empty"), UnwrapOr(t.pk, "empty") >>

\* Five values.
LEMMA Tail5Type ==
    ASSUME NEW t \in Txs
    PROVE  Tail5(t) \in Seq(Values) /\ Len(Tail5(t)) = 5
<1>1. \A o \in Option(Values) : UnwrapOr(o, "empty") \in Values
  <2>1. "empty" \in Values
    BY DEF Values
  <2>2. QED BY <2>1, OptionFacts
<1>2. QED BY <1>1, TxFacts DEF Tail5

\* The elements of eight values and five.
LEMMA BodyAndTail ==
    ASSUME NEW a \in Seq(Values), NEW b \in Seq(Values), Len(a) = 8, Len(b) = 5
    PROVE  /\ a \o b \in Seq(Values) /\ Len(a \o b) = 13
           /\ \A i \in 1 .. 8 : (a \o b)[i] = a[i]
           /\ \A i \in 9 .. 13 : (a \o b)[i] = b[i - 8]
<1>1. a \o b \in Seq(Values)
  BY ConcatProperties, Zenon
<1>2. Len(a \o b) = Len(a) + Len(b)
  BY ConcatProperties, Zenon
<1>3. \A i \in 1 .. Len(a) + Len(b) : (a \o b)[i] = IF i <= Len(a) THEN a[i] ELSE b[i - Len(a)]
  BY ConcatProperties, Zenon
<1> DEFINE c == a \o b
<1> HIDE DEF c
<1>4. Len(c) = 13 /\ \A i \in 1 .. 13 : c[i] = IF i <= 8 THEN a[i] ELSE b[i - 8]
  <2>1. Len(c) = 13
    BY <1>2 DEF c
  <2>2. \A i \in 1 .. 13 : c[i] = IF i <= Len(a) THEN a[i] ELSE b[i - Len(a)]
    <3>1. 1 .. Len(a) + Len(b) = 1 .. 13
      OBVIOUS
    <3>2. QED BY <1>3, <3>1, Zenon DEF c
  <2>3. QED BY <2>1, <2>2
<1>5. /\ \A i \in 1 .. 8 : c[i] = a[i]
      /\ \A i \in 9 .. 13 : c[i] = b[i - 8]
  BY <1>4
<1>6. QED BY <1>1, <1>4, <1>5 DEF c

\* A transaction is written as 8 or 13 values, each of which its field accepts.
LEMMA FieldValuesFacts ==
    ASSUME NEW t \in Txs
    PROVE  /\ FieldValues(t) \in Seq(Values)
           /\ Len(FieldValues(t)) = IF HasSignature(t) THEN 13 ELSE 8
           /\ \A i \in 1 .. 8 : FieldValues(t)[i] = t.body[i]
           /\ HasSignature(t) => \A i \in 9 .. 13 : FieldValues(t)[i] = Tail5(t)[i - 8]
           /\ \A i \in 1 .. Len(FieldValues(t)) : FieldValues(t)[i] \in Accepts[Types[i]]
<1>1. t.body \in Seq(Values) /\ Len(t.body) = 8
  BY TxFacts
<1>2. Tail5(t) \in Seq(Values) /\ Len(Tail5(t)) = 5
  BY Tail5Type
<1>3. FieldValues(t) = t.body \o IF HasSignature(t) THEN Tail5(t) ELSE << >>
  BY DEF FieldValues, Tail5
<1>4. CASE HasSignature(t)
  <2>1. FieldValues(t) = t.body \o Tail5(t)
    BY <1>3, <1>4
  <2> DEFINE a == t.body
             b == Tail5(t)
             c == FieldValues(t)
  <2>2. a \in Seq(Values) /\ b \in Seq(Values) /\ Len(a) = 8 /\ Len(b) = 5 /\ c = a \o b
    BY <1>1, <1>2, <2>1
  <2> HIDE DEF a, b, c
  <2>3. /\ a \o b \in Seq(Values) /\ Len(a \o b) = 13
        /\ \A i \in 1 .. 8 : (a \o b)[i] = a[i]
        /\ \A i \in 9 .. 13 : (a \o b)[i] = b[i - 8]
    BY <2>2, BodyAndTail
  <2>4. /\ c \in Seq(Values) /\ Len(c) = 13
        /\ \A i \in 1 .. 8 : c[i] = a[i]
        /\ \A i \in 9 .. 13 : c[i] = b[i - 8]
    <3>1. c = a \o b
      BY <2>2
    <3>2. QED BY <2>3, <3>1, Zenon
  <2>5. \A i \in 1 .. 13 : c[i] \in Accepts[Types[i]]
    <3>1. DOMAIN c = 1 .. 13
      BY <2>4
    <3>2. QED BY <3>1, TxsAssumption DEF c
  <2>6. QED BY <1>4, <2>4, <2>5 DEF a, b, c
<1>5. CASE ~HasSignature(t)
  <2>1. FieldValues(t) = t.body
    BY <1>1, <1>3, <1>5, ConcatEmptySeq
  <2>2. QED BY <1>1, <1>5, <2>1, TxsAssumption
<1>6. QED BY <1>4, <1>5

\* Decoding the payload of a transaction gives the transaction back.
LEMMA PayloadRoundTrip ==
    ASSUME NEW t \in Txs
    PROVE  DecodePayload(CellsOf(FieldValues(t))) = Some(Normalized(t))
<1> DEFINE vs == FieldValues(t)
           p == CellsOf(vs)
           n == Len(vs)
           body == [i \in 1 .. 8 |-> vs[i]]
<1>1. vs \in Seq(Values) /\ n = (IF HasSignature(t) THEN 13 ELSE 8)
  BY FieldValuesFacts
<1>2. Strings(p) = Items(vs) /\ EndsWhole(p)
  BY <1>1, StringsOfCells
<1>3. Len(Strings(p)) = n
  BY <1>1, <1>2, ItemsFacts
<1>4. \A i \in 1 .. n : Strings(p)[i] = Item(vs[i])
  BY <1>1, <1>2, ItemsFacts
<1>5. \A i \in 1 .. n : Fits(Strings(p)[i], Types[i]) /\ Strings(p)[i].value = vs[i]
  <2>1. TAKE i \in 1 .. n
  <2>2. vs[i] \in Accepts[Types[i]]
    BY FieldValuesFacts
  <2> HIDE DEF vs
  <2>3. vs[i] \in Values
    BY <1>1, ElementOfSeq
  <2>4. Strings(p)[i] = Item(vs[i])
    BY <1>4
  <2>5. Item(vs[i]).tag = "item" /\ Item(vs[i]).value = vs[i]
    BY <2>3, CellFacts
  <2>6. QED BY <2>2, <2>4, <2>5 DEF Fits
<1>6. body = t.body
  <2>1. t.body \in [1 .. 8 -> Values]
    BY TxsAssumption
  <2>2. \A i \in 1 .. 8 : vs[i] = t.body[i]
    BY FieldValuesFacts
  <2>3. QED BY <2>1, <2>2
<1>7. [i \in 1 .. 8 |-> Strings(p)[i].value] = body
  BY <1>1, <1>5
<1>8. CASE ~HasSignature(t)
  <2>1. n = 8
    BY <1>1, <1>8
  <2>2. DecodePayload(p) = Some(Tx(t.body, None, None, None, None, None))
    <3> HIDE DEF p, vs
    <3> QED BY <1>2, <1>3, <1>5, <1>6, <1>7, <2>1 DEF DecodePayload
  <2>3. Normalized(t) = Tx(t.body, None, None, None, None, None)
    BY <1>8 DEF Normalized
  <2>4. QED BY <2>2, <2>3
<1>9. CASE HasSignature(t)
  <2> DEFINE field(i) == Some(vs[i])
             tx == Tx(t.body, field(9), field(10), field(11), field(12), field(13) \ {"empty"})
  <2>1. n = 13
    BY <1>1, <1>9
  <2>2. DecodePayload(p) = Some(tx)
    <3> DEFINE items == Strings(p)
    <3>1. DecodePayload(p) =
              Some(Tx([i \in 1 .. 8 |-> items[i].value], Some(items[9].value), Some(items[10].value),
                      Some(items[11].value), Some(items[12].value),
                      Some(items[13].value) \ {"empty"}))
      <4> HIDE DEF p, vs
      <4> QED BY <1>2, <1>3, <1>5, <2>1 DEF DecodePayload
    <3>2. /\ items[9].value = vs[9] /\ items[10].value = vs[10] /\ items[11].value = vs[11]
          /\ items[12].value = vs[12] /\ items[13].value = vs[13]
      <4> HIDE DEF p, vs
      <4> QED BY <1>5, <2>1
    <3>3. [i \in 1 .. 8 |-> items[i].value] = t.body
      BY <1>6, <1>7
    <3> HIDE DEF items, vs
    <3>4. QED BY <3>1, <3>2, <3>3
  <2>3. /\ vs[9] = UnwrapOr(t.v, "empty") /\ vs[10] = UnwrapOr(t.r, "empty")
        /\ vs[11] = UnwrapOr(t.s, "empty") /\ vs[12] = UnwrapOr(t.pqc, "empty")
        /\ vs[13] = UnwrapOr(t.pk, "empty")
    <3>1. \A i \in 9 .. 13 : vs[i] = Tail5(t)[i - 8]
      BY <1>9, FieldValuesFacts
    <3>2. QED BY <3>1 DEF Tail5
  <2>4. Some(vs[13]) \ {"empty"} = t.pk \ {"empty"}
    BY <2>3, TxFacts, OptionFacts DEF Some, None
  <2>5. Normalized(t) = tx
    <3> HIDE DEF vs
    <3> QED BY <1>9, <2>3, <2>4 DEF Normalized
  <2>6. QED BY <2>2, <2>5
<1>10. QED BY <1>8, <1>9

---------------------------------------------------------------------------
(* Frames.                                                                 *)

\* A frame is a header, which declares the length, and a payload.
LEMMA FrameType ==
    ASSUME NEW t \in Txs
    PROVE  /\ CellsOf(FieldValues(t)) \in Seq(Cell)
           /\ ListHeader(Len(CellsOf(FieldValues(t)))) \in Cell
           /\ Frame(t) = << ListHeader(Len(CellsOf(FieldValues(t)))) >> \o CellsOf(FieldValues(t))
           /\ Frame(t) \in Seq(Cell) /\ Frame(t) # << >>
           /\ Head(Frame(t)) = ListHeader(Len(Frame(t)) - 1)
<1> DEFINE p == CellsOf(FieldValues(t))
           h == ListHeader(Len(p))
<1>1. p \in Seq(Cell)
  BY FieldValuesFacts, CellsOfType
<1>2. h \in Cell
  BY <1>1, CellFacts, LenProperties
<1>3. Frame(t) = << h >> \o p
  BY DEF Frame, Framed
<1>4. Frame(t) \in Seq(Cell) /\ Len(Frame(t)) = 1 + Len(p) /\ Frame(t)[1] = h
  <2> HIDE DEF p, h
  <2> QED BY <1>1, <1>2, <1>3
<1>5. Len(Frame(t)) - 1 = Len(p) /\ Frame(t) # << >> /\ Head(Frame(t)) = h
  <2> HIDE DEF p, h
  <2> QED BY <1>1, <1>4
<1>6. QED BY <1>1, <1>2, <1>3, <1>4, <1>5

\* A frame decodes to its transaction and leaves what follows it, whatever that
\* is.
LEMMA FrameDecodes ==
    ASSUME NEW t \in Txs, NEW rest \in Seq(Cell)
    PROVE  Decode(Frame(t) \o rest) = [tx |-> Some(Normalized(t)), rest |-> rest]
<1> DEFINE p == CellsOf(FieldValues(t))
           h == ListHeader(Len(p))
           s == Frame(t) \o rest
<1>1. p \in Seq(Cell) /\ h \in Cell /\ s = (<< h >> \o p) \o rest
  BY FrameType
<1>2. h.tag = "list" /\ h.len = Len(p)
  BY <1>1, CellFacts, LenProperties
<1>3. DecodePayload(p) = Some(Normalized(t))
  BY PayloadRoundTrip
<1> HIDE DEF p, h, s
<1>4. /\ Head(s) = h /\ Len(s) = 1 + Len(p) + Len(rest)
      /\ SubSeq(s, 2, Len(p) + 1) = p /\ SubSeq(s, Len(p) + 2, Len(s)) = rest
  BY <1>1, HeaderPayloadRest
<1>5. h.len < Len(s)
  BY <1>1, <1>2, <1>4, LenProperties
<1>6. Some(Normalized(t)) # None
  BY DEF Some, None
<1>7. Decode(s) = [tx |-> Some(Normalized(t)), rest |-> rest]
  BY <1>2, <1>3, <1>4, <1>5, <1>6 DEF Decode
<1>8. QED BY <1>7 DEF s

---------------------------------------------------------------------------
(* The frames of a sequence of transactions. *)

\* The frames of transactions form a sequence of sequences, as FlattenSeq takes
\* it.
LEMMA FrameSeqs ==
    ASSUME NEW w \in Seq(Txs)
    PROVE  /\ [i \in DOMAIN w |-> SentFrames[w[i]]] \in Seq(Seq(Cell))
           /\ Len([i \in DOMAIN w |-> SentFrames[w[i]]]) = Len(w)
           /\ \A i \in 1 .. Len(w) : [j \in DOMAIN w |-> SentFrames[w[j]]][i] = Frame(w[i])
<1>1. \A t \in Txs : SentFrames[t] = Frame(t) /\ Frame(t) \in Seq(Cell)
  BY FrameType DEF SentFrames
<1>2. DOMAIN w = 1 .. Len(w) /\ Len(w) \in Nat /\ \A i \in 1 .. Len(w) : w[i] \in Txs
  BY LenProperties, ElementOfSeq
<1> DEFINE f == [i \in DOMAIN w |-> SentFrames[w[i]]]
<1>3. f \in [1 .. Len(w) -> Seq(Cell)]
  BY <1>1, <1>2
<1>4. \A i \in 1 .. Len(w) : f[i] = Frame(w[i])
  BY <1>1, <1>2
<1> HIDE DEF f
<1>5. f \in Seq(Seq(Cell)) /\ Len(f) = Len(w)
  BY <1>2, <1>3, FunctionIsSequence
<1>6. QED BY <1>4, <1>5 DEF f

\* Frames are cells.
LEMMA FramesOfType ==
    ASSUME NEW w \in Seq(Txs)
    PROVE  FramesOf(w) \in Seq(Cell)
BY FrameSeqs, FlattenType DEF FramesOf

\* No transactions, no frames.
LEMMA FramesOfEmpty == FramesOf(<< >>) = << >>
BY DEF FramesOf, FlattenSeq

\* Frames are written one behind the other.
LEMMA FramesOfConcat ==
    ASSUME NEW v \in Seq(Txs), NEW w \in Seq(Txs)
    PROVE  FramesOf(v \o w) = FramesOf(v) \o FramesOf(w)
<1> DEFINE Of(x) == [i \in DOMAIN x |-> SentFrames[x[i]]]
           f == Of(v)
           g == Of(w)
           h == Of(v \o w)
<1>1. f \in Seq(Seq(Cell)) /\ Len(f) = Len(v) /\ \A i \in 1 .. Len(v) : f[i] = Frame(v[i])
  BY FrameSeqs
<1>2. g \in Seq(Seq(Cell)) /\ Len(g) = Len(w) /\ \A i \in 1 .. Len(w) : g[i] = Frame(w[i])
  BY FrameSeqs
<1>3. /\ v \o w \in Seq(Txs) /\ Len(v \o w) = Len(v) + Len(w)
      /\ \A i \in 1 .. Len(v) : (v \o w)[i] = v[i]
      /\ \A i \in 1 .. Len(w) : (v \o w)[Len(v) + i] = w[i]
  BY ConcatElements
<1>4. /\ h \in Seq(Seq(Cell)) /\ Len(h) = Len(v) + Len(w)
      /\ \A i \in 1 .. Len(v) + Len(w) : h[i] = Frame((v \o w)[i])
  BY <1>3, FrameSeqs
<1>5. FlattenSeq(h) = FramesOf(v \o w) /\ FlattenSeq(f) = FramesOf(v) /\ FlattenSeq(g) = FramesOf(w)
  BY DEF FramesOf
<1> HIDE DEF f, g, h, Of
<1>6. Len(v) \in Nat /\ Len(w) \in Nat
  BY LenProperties
<1>7. /\ f \o g \in Seq(Seq(Cell)) /\ Len(f \o g) = Len(f) + Len(g)
      /\ \A i \in 1 .. Len(f) : (f \o g)[i] = f[i]
      /\ \A i \in 1 .. Len(g) : (f \o g)[Len(f) + i] = g[i]
  <2>1. f \in Seq(Seq(Cell)) /\ g \in Seq(Seq(Cell))
    BY <1>1, <1>2
  <2>2. QED BY <2>1, ConcatElements
<1> DEFINE u == f \o g
<1> HIDE DEF u
<1>8. ASSUME NEW i \in 1 .. Len(h) PROVE h[i] = u[i]
  <2>1. CASE i <= Len(v)
    BY <2>1, <1>1, <1>3, <1>4, <1>6, <1>7 DEF u
  <2>2. CASE i > Len(v)
    <3>1. PICK j \in 1 .. Len(w) : i = Len(v) + j
      <4>1. i - Len(v) \in 1 .. Len(w) /\ i = Len(v) + (i - Len(v))
        BY <2>2, <1>4, <1>6
      <4>2. QED BY <4>1
    <3>2. h[i] = Frame(w[j])
      BY <3>1, <1>3, <1>4, <1>6
    <3>3. u[i] = g[j]
      BY <3>1, <1>1, <1>2, <1>7 DEF u
    <3>4. QED BY <3>2, <3>3, <1>2
  <2>3. QED BY <2>1, <2>2, <1>4, <1>6
<1>9. h = u
  <2>1. u \in Seq(Seq(Cell)) /\ Len(u) = Len(h)
    BY <1>1, <1>2, <1>4, <1>7 DEF u
  <2>2. QED BY <2>1, <1>4, <1>8, SeqEqual
<1>10. FlattenSeq(h) = FlattenSeq(f) \o FlattenSeq(g)
  BY <1>1, <1>2, <1>9, FlattenConcat DEF u
<1>11. QED BY <1>5, <1>10

\* The frame of one transaction.
LEMMA FramesOfOne ==
    ASSUME NEW t \in Txs
    PROVE  FramesOf(<< t >>) = Frame(t)
<1> DEFINE f == [i \in DOMAIN << t >> |-> SentFrames[<< t >>[i]]]
<1>1. f = << Frame(t) >>
  BY DEF SentFrames
<1>2. QED BY <1>1, FrameType, FlattenSingle DEF FramesOf

\* The first frame and the others.
LEMMA FramesOfHead ==
    ASSUME NEW w \in Seq(Txs), w # << >>
    PROVE  /\ w[1] \in Txs /\ Tail(w) \in Seq(Txs)
           /\ FramesOf(w) = Frame(w[1]) \o FramesOf(Tail(w))
<1>1. w[1] \in Txs /\ Tail(w) \in Seq(Txs) /\ w = << w[1] >> \o Tail(w)
  BY HeadAndTail
<1>2. << w[1] >> \in Seq(Txs)
  BY <1>1
<1>3. FramesOf(<< w[1] >> \o Tail(w)) = FramesOf(<< w[1] >>) \o FramesOf(Tail(w))
  BY <1>1, <1>2, FramesOfConcat
<1>4. QED BY <1>1, <1>3, FramesOfOne

---------------------------------------------------------------------------
(* What decode returns has the transaction's type and leaves an end of the *)
(* buffer.                                                                 *)

\* Every transaction, sent or not.
Transactions ==
    {Tx(f.body, f.v, f.r, f.s, f.pqc, f.pk) :
        f \in [body : [1 .. 8 -> Values], v : SUBSET Values, r : SUBSET Values,
               s : SUBSET Values, pqc : SUBSET Values, pk : SUBSET Values]}

\* Tx builds a transaction out of eight values and five optional ones.
LEMMA TransactionsTx ==
    ASSUME NEW b \in [1 .. 8 -> Values], NEW v \in SUBSET Values, NEW r \in SUBSET Values,
           NEW s \in SUBSET Values, NEW q \in SUBSET Values, NEW k \in SUBSET Values
    PROVE  Tx(b, v, r, s, q, k) \in Transactions
<1> DEFINE f == [body |-> b, v |-> v, r |-> r, s |-> s, pqc |-> q, pk |-> k]
<1>1. f \in [body : [1 .. 8 -> Values], v : SUBSET Values, r : SUBSET Values,
               s : SUBSET Values, pqc : SUBSET Values, pk : SUBSET Values]
  OBVIOUS
<1>2. Tx(b, v, r, s, q, k) = Tx(f.body, f.v, f.r, f.s, f.pqc, f.pk)
  OBVIOUS
<1>3. QED BY <1>1, <1>2 DEF Transactions

\* A payload that decodes gives a transaction.
LEMMA DecodePayloadType ==
    ASSUME NEW p \in Seq(Cell), DecodePayload(p) # None
    PROVE  \E tx \in Transactions : DecodePayload(p) = Some(tx)
<1> DEFINE items == Strings(p)
           n == Len(items)
           field(i) == Some(items[i].value)
           body == [i \in 1 .. 8 |-> items[i].value]
           tx == IF n = 8 THEN Tx(body, None, None, None, None, None)
                 ELSE Tx(body, field(9), field(10), field(11), field(12),
                         IF n = 12 THEN None ELSE field(13) \ {"empty"})
<1>0. n \in {8, 12, 13}
  BY DEF DecodePayload
<1>1. n \in {8, 12, 13} /\ (\A i \in 1 .. n : Fits(items[i], Types[i])) /\ DecodePayload(p) = Some(tx)
  BY DEF DecodePayload
<1>2. \A i \in 1 .. n : items[i].value \in Values
  <2>1. TAKE i \in 1 .. n
  <2>2. items[i] \in Cell
    BY StringsType, ElementOfSeq
  <2>3. items[i].tag = "item"
    BY <1>1 DEF Fits
  <2> HIDE DEF items
  <2>4. QED BY <2>2, <2>3, CellCases
<1> HIDE DEF items
<1>3. body \in [1 .. 8 -> Values]
  BY <1>1, <1>2
<1>4. CASE n = 8
  <2>1. None \in SUBSET Values
    BY DEF None
  <2> HIDE DEF body
  <2>2. tx \in Transactions
    BY <1>3, <1>4, <2>1, TransactionsTx
  <2>3. QED BY <1>1, <2>2
<1>5. CASE n # 8
  <2> DEFINE k == IF n = 12 THEN None ELSE field(13) \ {"empty"}
  <2>1. /\ field(9) \in SUBSET Values /\ field(10) \in SUBSET Values
        /\ field(11) \in SUBSET Values /\ field(12) \in SUBSET Values
    <3>1. 9 \in 1 .. n /\ 10 \in 1 .. n /\ 11 \in 1 .. n /\ 12 \in 1 .. n
      <4> HIDE DEF n, body, field, k
      <4> QED BY <1>0, <1>5
    <3>2. \A i \in 1 .. n : Some(items[i].value) \in SUBSET Values
      BY <1>2 DEF Some
    <3>3. QED BY <3>1, <3>2
  <2>2. k \in SUBSET Values
    <3>1. n # 12 => 13 \in 1 .. n
      <4> HIDE DEF n, body, field, k
      <4> QED BY <1>0, <1>5
    <3>2. n # 12 => items[13].value \in Values
      BY <1>2, <3>1
    <3> DEFINE x == items[13].value
    <3> HIDE DEF x
    <3>3. n # 12 => Some(x) \ {"empty"} \in SUBSET Values
      BY <3>2 DEF Some, x
    <3>4. None \in SUBSET Values
      BY DEF None
    <3>5. QED BY <3>3, <3>4 DEF x
  <2>3. tx = Tx(body, field(9), field(10), field(11), field(12), k)
    BY <1>5
  <2> HIDE DEF body, field, k
  <2>4. Tx(body, field(9), field(10), field(11), field(12), k) \in Transactions
    BY <1>3, <2>1, <2>2, TransactionsTx
  <2>5. QED BY <1>1, <2>3, <2>4
<1>6. QED BY <1>4, <1>5

\* Decoding leaves cells, and gives a transaction or none.
LEMMA DecodeType ==
    ASSUME NEW s \in Seq(Cell), s # << >>
    PROVE  /\ Decode(s).rest \in Seq(Cell)
           /\ \/ Decode(s).tx = None
              \/ \E tx \in Transactions : Decode(s).tx = Some(tx)
<1> DEFINE len == Head(s).len
<1>1. Head(s) \in Cell /\ Tail(s) \in Seq(Cell) /\ Len(s) \in Nat /\ Head(s) = s[1]
  BY HeadAndTail
<1>2. AfterError(s) \in Seq(Cell)
  BY <1>1 DEF AfterError
<1>3. CASE Head(s).tag = "list" /\ len < Len(s)
  <2>1. len \in Nat
    BY <1>1, <1>3, CellCases
  <2>2. SubSeq(s, 2, len + 1) \in Seq(Cell)
    <3>1. 2 \in Nat \ {0} /\ len + 1 \in Nat /\ len + 1 <= Len(s)
      BY <2>1, <1>1, <1>3
    <3>2. QED BY <3>1, SubSeqElements
  <2>3. SubSeq(s, len + 2, Len(s)) \in Seq(Cell)
    <3>1. len + 2 \in Nat \ {0} /\ Len(s) <= Len(s)
      BY <2>1, <1>1
    <3>2. QED BY <3>1, <1>1, SubSeqElements
  <2>4. CASE DecodePayload(SubSeq(s, 2, len + 1)) # None
    <3>1. Decode(s) = [tx |-> DecodePayload(SubSeq(s, 2, len + 1)), rest |-> SubSeq(s, len + 2, Len(s))]
      BY <1>3, <2>4 DEF Decode
    <3>2. PICK tx \in Transactions : DecodePayload(SubSeq(s, 2, len + 1)) = Some(tx)
      BY <2>2, <2>4, DecodePayloadType
    <3> HIDE DEF len
    <3>3. QED BY <3>1, <3>2, <2>3
  <2>5. CASE DecodePayload(SubSeq(s, 2, len + 1)) = None
    <3>1. Decode(s) = [tx |-> None, rest |-> AfterError(s)]
      BY <2>5 DEF Decode
    <3>2. QED BY <3>1, <1>2
  <2>6. QED BY <2>4, <2>5
<1>4. CASE ~(Head(s).tag = "list" /\ len < Len(s))
  <2>1. Decode(s) = [tx |-> None, rest |-> AfterError(s)]
    BY <1>4 DEF Decode
  <2>2. QED BY <2>1, <1>2
<1>5. QED BY <1>3, <1>4

---------------------------------------------------------------------------
(* The inductive invariant.                                                *)

\* The types of the variables.
TypeOK ==
    /\ stream \in Seq(Cell) /\ whole \in Seq(Txs)
    /\ sent \in Seq(Txs) /\ received \in Seq(Transactions)
    /\ failed \in BOOLEAN /\ open \in BOOLEAN /\ altered \in BOOLEAN

\* What follows the frames that are as they were sent.
Remainder == SubSeq(stream, Len(FramesOf(whole)) + 1, Len(stream))

\* A stream is the frames that are whole, and the remainder.
Framing == stream = FramesOf(whole) \o Remainder

\* The beginning of a frame that is not all of it, or nothing.
HalfFrame(cells) == cells = << >> \/ (cells[1].tag = "list" /\ Len(cells) <= cells[1].len)

\* What was received, then what is whole, is the beginning of what was sent, and
\* all of it while the sender can write; what is lost is lost inside a frame.
Accounting ==
    ~altered =>
        /\ Len(received) <= Len(sent)
        /\ \A i \in 1 .. Len(received) : received[i] = Normalized(sent[i])
        /\ ~failed =>
              /\ HalfFrame(Remainder)
              /\ Len(received) + Len(whole) <= Len(sent)
              /\ \A i \in 1 .. Len(whole) : whole[i] = sent[Len(received) + i]
              /\ open => Remainder = << >> /\ Len(received) + Len(whole) = Len(sent)

Inv == TypeOK /\ Framing /\ Accounting

\* What is left behind the frames is the remainder.
LEMMA RemainderIs ==
    ASSUME NEW w \in Seq(Txs), NEW r \in Seq(Cell), NEW s, s = FramesOf(w) \o r
    PROVE  /\ s \in Seq(Cell)
           /\ SubSeq(s, Len(FramesOf(w)) + 1, Len(s)) = r
           /\ Len(s) = Len(FramesOf(w)) + Len(r)
           /\ (s = FramesOf(w)) <=> (r = << >>)
<1> DEFINE a == FramesOf(w)
<1>1. a \in Seq(Cell)
  BY FramesOfType
<1> HIDE DEF a
<1>2. s = a \o r
  BY DEF a
<1>3. s \in Seq(Cell) /\ SubSeq(s, Len(a) + 1, Len(s)) = r /\ Len(s) = Len(a) + Len(r)
  BY <1>1, <1>2, ConcatSuffix, ConcatElements
<1>4. (s = a) <=> (r = << >>)
  BY <1>1, <1>2, ConcatEqualIffEmpty
<1>5. QED BY <1>3, <1>4 DEF a

\* The two parts of a stream are cells.
LEMMA RemainderType ==
    ASSUME TypeOK, Framing
    PROVE  /\ Remainder \in Seq(Cell) /\ FramesOf(whole) \in Seq(Cell)
           /\ (stream = FramesOf(whole)) <=> (Remainder = << >>)
<1>1. FramesOf(whole) \in Seq(Cell)
  BY FramesOfType DEF TypeOK
<1>2. Remainder \in Seq(Cell)
  <2>1. stream \in Seq(Cell) /\ Len(stream) \in Nat /\ Len(FramesOf(whole)) + 1 \in Nat \ {0}
    BY <1>1, LenProperties DEF TypeOK
  <2>2. Len(stream) <= Len(stream)
    BY <2>1
  <2>3. QED BY <2>1, <2>2, SubSeqElements DEF Remainder
<1>3. QED BY <1>1, <1>2, RemainderIs DEF Framing, TypeOK

\* The beginning of half a frame is half a frame.
LEMMA HalfPrefix ==
    ASSUME NEW r \in Seq(Cell), NEW k \in 0 .. Len(r), HalfFrame(r)
    PROVE  HalfFrame(SubSeq(r, 1, k))
<1> DEFINE q == SubSeq(r, 1, k)
<1>1. q \in Seq(Cell) /\ Len(q) = k /\ \A i \in 1 .. k : q[i] = r[i]
  BY SplitAt
<1> HIDE DEF q
<1>2. CASE k = 0
  BY <1>1, <1>2, EmptySeq DEF HalfFrame, q
<1>3. CASE k # 0
  <2>1. q[1] = r[1] /\ r # << >> /\ r[1] \in Cell /\ Len(r) \in Nat
    BY <1>1, <1>3, LenProperties, EmptySeq
  <2>2. r[1].tag = "list" /\ Len(r) <= r[1].len
    BY <2>1 DEF HalfFrame
  <2>3. r[1].len \in Nat
    BY <2>1, <2>2, CellCases
  <2>4. Len(q) <= r[1].len
    BY <1>1, <2>1, <2>2, <2>3
  <2>5. HalfFrame(q)
    BY <2>1, <2>2, <2>4 DEF HalfFrame
  <2>6. QED BY <2>5 DEF q
<1>4. QED BY <1>2, <1>3

\* The beginning of a frame is half a frame.
LEMMA FrameBeginning ==
    ASSUME NEW t \in Txs, NEW r \in Seq(Cell), NEW k \in Nat, k < Len(Frame(t))
    PROVE  k \in 0 .. Len(Frame(t) \o r) /\ HalfFrame(SubSeq(Frame(t) \o r, 1, k))
<1> DEFINE f == Frame(t)
           s == f \o r
           q == SubSeq(s, 1, k)
<1>1. f \in Seq(Cell) /\ f # << >> /\ Head(f) = ListHeader(Len(f) - 1)
  BY FrameType
<1> HIDE DEF f
<1>2. Head(f) = f[1] /\ Len(f) \in Nat \ {0}
  BY <1>1, HeadAndTail
<1>3. f[1].tag = "list" /\ f[1].len = Len(f) - 1
  <2>1. PICK m \in Nat : m = Len(f) - 1 /\ f[1] = ListHeader(m)
    BY <1>1, <1>2
  <2>2. ListHeader(m).tag = "list" /\ ListHeader(m).len = m
    BY DEF ListHeader
  <2>3. QED BY <2>1, <2>2
<1>4. /\ s \in Seq(Cell) /\ Len(s) = Len(f) + Len(r) /\ \A i \in 1 .. Len(f) : s[i] = f[i]
  BY <1>1, ConcatElements
<1> HIDE DEF s
<1>5. k \in 0 .. Len(s)
  BY <1>2, <1>4, LenProperties DEF f
<1>6. q \in Seq(Cell) /\ Len(q) = k /\ \A i \in 1 .. k : q[i] = s[i]
  BY <1>4, <1>5, SplitAt
<1> HIDE DEF q
<1>7. HalfFrame(q)
  <2>1. CASE k = 0
    BY <1>6, <2>1, EmptySeq DEF HalfFrame
  <2>2. CASE k # 0
    <3>1. q[1] = f[1]
      BY <1>2, <1>4, <1>6, <2>2
    <3>2. Len(q) <= Len(f) - 1
      BY <1>2, <1>6 DEF f
    <3>3. QED BY <1>3, <3>1, <3>2 DEF HalfFrame
  <2>3. QED BY <2>1, <2>2
<1>8. QED BY <1>5, <1>7 DEF q, s, f

\* The frames before a transaction, its own, and what comes after.
LEMMA FramesSplit ==
    ASSUME NEW w \in Seq(Txs), NEW t \in Txs, NEW z \in Seq(Txs), NEW r \in Seq(Cell)
    PROVE  FramesOf((w \o << t >>) \o z) \o r = FramesOf(w) \o (Frame(t) \o (FramesOf(z) \o r))
<1>1. << t >> \in Seq(Txs) /\ w \o << t >> \in Seq(Txs)
  BY ConcatProperties
<1>2. /\ FramesOf((w \o << t >>) \o z) = FramesOf(w \o << t >>) \o FramesOf(z)
      /\ FramesOf(w \o << t >>) = FramesOf(w) \o FramesOf(<< t >>)
  BY <1>1, FramesOfConcat
<1>3. FramesOf(<< t >>) = Frame(t)
  BY FramesOfOne
<1>4. PICK a \in Seq(Cell) : a = FramesOf(w)
  BY FramesOfType
<1>5. PICK f \in Seq(Cell) : f = Frame(t)
  BY FrameType
<1>6. PICK g \in Seq(Cell) : g = FramesOf(z)
  BY FramesOfType
<1>7. a \o f \in Seq(Cell) /\ g \o r \in Seq(Cell)
  BY ConcatProperties
<1>8. ((a \o f) \o g) \o r = (a \o f) \o (g \o r)
  BY <1>7, ConcatAssociative, SMTT(60)
<1>9. (a \o f) \o (g \o r) = a \o (f \o (g \o r))
  BY <1>7, ConcatAssociative, SMTT(60)
<1>10. ((a \o f) \o g) \o r = a \o (f \o (g \o r))
  BY <1>8, <1>9
<1>11. ((FramesOf(w) \o Frame(t)) \o FramesOf(z)) \o r = FramesOf(w) \o (Frame(t) \o (FramesOf(z) \o r))
  BY <1>4, <1>5, <1>6, <1>10
<1>12. QED BY <1>2, <1>3, <1>6, <1>7, <1>11

\* An alteration leaves some whole frames, a part of what came after them, and
\* the new cells.
LEMMA AlterKeeps ==
    ASSUME TypeOK, Framing, NEW i \in DOMAIN stream, NEW cells \in Seq(Cell), Alter(i, cells)
    PROVE  \E n \in 0 .. Len(whole), kept \in Seq(Cell) :
              /\ whole' = SubSeq(whole, 1, n)
              /\ Len(FramesOf(whole')) < i
              /\ stream' = FramesOf(whole') \o (kept \o cells)
              /\ HalfFrame(Remainder) => HalfFrame(kept)
<1>1. PICK n \in 0 .. Len(whole) :
          /\ whole' = SubSeq(whole, 1, n)
          /\ Len(FramesOf(whole')) < i
          /\ n < Len(whole) => Len(FramesOf(SubSeq(whole, 1, n + 1))) >= i
  BY DEF Alter
<1>2. stream' = SubSeq(stream, 1, i - 1) \o cells
  BY DEF Alter
<1> DEFINE w == SubSeq(whole, 1, n)
           v == SubSeq(whole, n + 1, Len(whole))
           a == FramesOf(w)
           r == FramesOf(v) \o Remainder
           k == (i - 1) - Len(a)
<1>3. whole \in Seq(Txs) /\ stream \in Seq(Cell)
  BY DEF TypeOK
<1>4. w \in Seq(Txs) /\ v \in Seq(Txs) /\ whole = w \o v
  BY <1>3, SplitAt
<1>5. a \in Seq(Cell) /\ FramesOf(v) \in Seq(Cell) /\ Remainder \in Seq(Cell)
  BY <1>4, FramesOfType, RemainderType
<1>6. r \in Seq(Cell)
  BY <1>5, ConcatProperties
<1>7. stream = a \o r
  <2>1. FramesOf(whole) = a \o FramesOf(v)
    BY <1>4, FramesOfConcat
  <2>2. stream = (a \o FramesOf(v)) \o Remainder
    BY <2>1 DEF Framing
  <2> DEFINE b == FramesOf(v)
             c == Remainder
  <2>3. a \in Seq(Cell) /\ b \in Seq(Cell) /\ c \in Seq(Cell)
    BY <1>5
  <2> HIDE DEF a, b, c
  <2>4. (a \o b) \o c = a \o (b \o c)
    BY <2>3, ConcatAssociative, SMTT(30)
  <2>5. QED BY <2>2, <2>4 DEF b, c
<1>8. k \in Nat /\ k \in 0 .. Len(r) /\ i - 1 = Len(a) + k
  <2>1. Len(a) < i
    BY <1>1
  <2>2. i \in 1 .. Len(stream) /\ Len(a) \in Nat /\ Len(r) \in Nat
    BY <1>3, <1>5, <1>6, LenProperties
  <2>3. Len(stream) = Len(a) + Len(r)
    BY <1>5, <1>6, <1>7, ConcatElements
  <2> HIDE DEF a, r
  <2>4. QED BY <2>1, <2>2, <2>3
<1> DEFINE kept == SubSeq(r, 1, k)
<1>9. kept \in Seq(Cell)
  <2> HIDE DEF r, k
  <2> QED BY <1>6, <1>8, SplitAt
<1>10. stream' = a \o (kept \o cells)
  <2> HIDE DEF a, r, k
  <2>1. SubSeq(a \o r, 1, Len(a) + k) = a \o SubSeq(r, 1, k)
    BY <1>5, <1>6, <1>8, ConcatPrefix
  <2>2. stream' = (a \o kept) \o cells
    BY <1>2, <1>7, <1>8, <2>1
  <2> HIDE DEF kept
  <2>3. (a \o kept) \o cells = a \o (kept \o cells)
    BY <1>5, <1>9, ConcatAssociative, SMTT(30)
  <2>4. QED BY <2>2, <2>3
<1>11. ASSUME HalfFrame(Remainder) PROVE HalfFrame(kept)
  <2>1. CASE n = Len(whole)
    <3>1. v = << >>
      BY <1>3, <2>1, SubSeqEmpty, LenProperties
    <3>2. r = Remainder
      BY <3>1, <1>5, FramesOfEmpty, ConcatEmptySeq
    <3> HIDE DEF r, k
    <3>3. QED BY <1>6, <1>8, <1>11, <3>2, HalfPrefix
  <2>2. CASE n < Len(whole)
    <3> DEFINE t == whole[n + 1]
               z == SubSeq(whole, n + 2, Len(whole))
               more == FramesOf(z) \o Remainder
    <3>1. t \in Txs /\ z \in Seq(Txs) /\ whole = (w \o << t >>) \o z
          /\ SubSeq(whole, 1, n + 1) = w \o << t >>
      BY <1>3, <2>2, SplitAt
    <3>2. Frame(t) \in Seq(Cell) /\ FramesOf(z) \in Seq(Cell) /\ << t >> \in Seq(Txs)
      <4> HIDE DEF t, z
      <4>1. Frame(t) \in Seq(Cell)
        BY <3>1, FrameType
      <4>2. FramesOf(z) \in Seq(Cell)
        BY <3>1, FramesOfType
      <4>3. << t >> \in Seq(Txs)
        BY <3>1
      <4>4. QED BY <4>1, <4>2, <4>3
    <3>3. FramesOf(w \o << t >>) = a \o Frame(t)
      BY <1>4, <3>1, <3>2, FramesOfConcat, FramesOfOne
    <3>4. more \in Seq(Cell)
      BY <1>5, <3>2, ConcatProperties
    <3>5. stream = a \o (Frame(t) \o more)
      <4> HIDE DEF w, t, z
      <4>1. FramesOf((w \o << t >>) \o z) \o Remainder = FramesOf(w) \o (Frame(t) \o (FramesOf(z) \o Remainder))
        <5>1. w \in Seq(Txs) /\ t \in Txs /\ z \in Seq(Txs) /\ Remainder \in Seq(Cell)
          BY <1>4, <1>5, <3>1
        <5>2. \A q \in Seq(Cell) : FramesOf((w \o << t >>) \o z) \o q
                                     = FramesOf(w) \o (Frame(t) \o (FramesOf(z) \o q))
          BY <5>1, FramesSplit, Zenon
        <5>3. QED BY <5>1, <5>2, Zenon
      <4>2. stream = FramesOf((w \o << t >>) \o z) \o Remainder
        BY <3>1 DEF Framing
      <4>3. QED BY <4>1, <4>2
    <3>6. r = Frame(t) \o more
      <4> HIDE DEF a, r, more, t
      <4>1. Frame(t) \o more \in Seq(Cell)
        BY <3>2, <3>4, ConcatProperties
      <4>2. QED BY <1>5, <1>6, <1>7, <3>5, <4>1, ConcatSimplifications
    <3>7. k < Len(Frame(t))
      <4>1. Len(FramesOf(w \o << t >>)) >= i
        BY <1>1, <2>2, <3>1
      <4>2. Len(a \o Frame(t)) = Len(a) + Len(Frame(t))
        BY <1>5, <3>2, ConcatElements
      <4>3. Len(a) \in Nat /\ Len(Frame(t)) \in Nat /\ i \in Nat
        BY <1>3, <1>5, <3>2, LenProperties
      <4> DEFINE p == Len(Frame(t))
                 q == Len(a)
      <4>4. q + p >= i
        BY <4>1, <4>2, <3>3
      <4>5. q \in Nat /\ p \in Nat /\ k = (i - 1) - q
        BY <4>3
      <4> HIDE DEF p, q, k
      <4>6. k < p
        BY <4>3, <4>4, <4>5
      <4>7. QED BY <4>6 DEF p
    <3>8. HalfFrame(SubSeq(Frame(t) \o more, 1, k))
      <4> HIDE DEF k, t, more
      <4> QED BY <1>8, <3>1, <3>4, <3>7, FrameBeginning
    <3>9. QED BY <3>6, <3>8
  <2>3. QED BY <2>1, <2>2, <1>3, LenProperties
<1>12. QED
  <2> HIDE DEF kept
  <2> QED BY <1>1, <1>9, <1>10, <1>11

\* The invariant holds of an empty stream.
LEMMA InvInit == Init => Inv
<1> SUFFICES ASSUME Init PROVE Inv
  OBVIOUS
<1> USE DEF Init
<1>1. << >> \in Seq(Cell) /\ << >> \in Seq(Txs) /\ << >> \in Seq(Transactions)
  OBVIOUS
<1>2. TypeOK
  BY <1>1 DEF TypeOK
<1>3. FramesOf(whole) = << >>
  BY FramesOfEmpty
<1>4. stream = FramesOf(whole) \o << >>
  BY <1>1, <1>3, ConcatEmptySeq
<1>5. Remainder = << >>
  BY <1>1, <1>4, RemainderIs DEF Remainder
<1>6. Framing
  BY <1>4, <1>5 DEF Framing
<1>7. Accounting
  BY <1>5 DEF Accounting, HalfFrame
<1>8. QED BY <1>2, <1>6, <1>7 DEF Inv

\* Sending keeps the invariant: a frame goes behind whole frames, or behind
\* altered bytes.
LEMMA SendKeeps ==
    ASSUME Inv, NEW t \in Txs, Send(t)
    PROVE  Inv'
<1>1. /\ stream \in Seq(Cell) /\ whole \in Seq(Txs) /\ sent \in Seq(Txs)
      /\ received \in Seq(Transactions)
  BY DEF Inv, TypeOK
<1>2. Frame(t) \in Seq(Cell) /\ FramesOf(whole) \in Seq(Cell) /\ Remainder \in Seq(Cell)
  BY <1>1, FrameType, FramesOfType, RemainderType DEF Inv
<1>3. /\ sent' = Append(sent, t) /\ stream' = stream \o Frame(t) /\ received' = received
      /\ failed' = failed /\ open' = open /\ altered' = altered /\ open
      /\ whole' = IF stream = FramesOf(whole) THEN Append(whole, t) ELSE whole
  BY DEF Send
<1>4. /\ sent' \in Seq(Txs) /\ Len(sent') = Len(sent) + 1 /\ sent'[Len(sent) + 1] = t
      /\ \A i \in 1 .. Len(sent) : sent'[i] = sent[i]
  BY <1>1, <1>3, AppendProperties
<1>5. Len(sent) \in Nat /\ Len(received) \in Nat /\ Len(whole) \in Nat
  BY <1>1, LenProperties
<1>6. stream' \in Seq(Cell)
  BY <1>1, <1>2, <1>3, ConcatProperties
<1>7. ~altered' => /\ Len(received') <= Len(sent')
                   /\ \A i \in 1 .. Len(received') : received'[i] = Normalized(sent'[i])
  <2>1. ASSUME ~altered' PROVE Len(received) <= Len(sent) /\ \A i \in 1 .. Len(received) : received[i] = Normalized(sent[i])
    BY <1>3, <2>1 DEF Inv, Accounting
  <2>2. QED BY <1>3, <1>4, <1>5, <2>1
<1>8. CASE stream = FramesOf(whole)
  <2>1. /\ whole' = Append(whole, t) /\ whole' \in Seq(Txs) /\ Len(whole') = Len(whole) + 1
        /\ whole'[Len(whole) + 1] = t /\ \A i \in 1 .. Len(whole) : whole'[i] = whole[i]
    BY <1>1, <1>3, <1>8, AppendProperties
  <2>2. << t >> \in Seq(Txs) /\ whole' = whole \o << t >>
    BY <1>1, <2>1, AppendIsConcat
  <2>3. FramesOf(whole') = FramesOf(whole) \o Frame(t)
    BY <1>1, <2>2, FramesOfConcat, FramesOfOne
  <2>4. stream' = FramesOf(whole') /\ FramesOf(whole') \in Seq(Cell)
    BY <1>3, <1>8, <2>1, <2>3, FramesOfType
  <2>5. stream' = FramesOf(whole') \o << >>
    BY <2>4, ConcatEmptySeq
  <2>6. Remainder' = << >>
    BY <2>1, <2>5, EmptySeq, RemainderIs DEF Remainder
  <2>7. TypeOK'
    BY <1>1, <1>3, <1>4, <1>6, <2>1 DEF Inv, TypeOK
  <2>8. Framing'
    BY <2>5, <2>6 DEF Framing
  <2>9. Accounting'
    <3>1. SUFFICES ASSUME ~altered', ~failed'
                   PROVE  /\ Len(received') + Len(whole') = Len(sent')
                          /\ \A i \in 1 .. Len(whole') : whole'[i] = sent'[Len(received') + i]
      BY <1>4, <1>7, <2>6, <1>5, <2>1, <1>3 DEF Accounting, HalfFrame
    <3>2. /\ Len(received) + Len(whole) = Len(sent)
          /\ \A i \in 1 .. Len(whole) : whole[i] = sent[Len(received) + i]
      BY <1>3, <3>1 DEF Inv, Accounting
    <3>3. ASSUME NEW i \in 1 .. Len(whole') PROVE whole'[i] = sent'[Len(received) + i]
      <4>1. CASE i \in 1 .. Len(whole)
        <5>1. PICK j \in 1 .. Len(sent) : j = Len(received) + i
          BY <1>5, <3>2, <4>1
        <5>2. sent'[j] = sent[j]
          BY <1>4
        <5>3. QED BY <2>1, <3>2, <4>1, <5>1, <5>2
      <4>2. CASE i = Len(whole) + 1
        <5>1. Len(received) + i = Len(sent) + 1
          BY <1>5, <3>2, <4>2
        <5>2. QED BY <1>4, <2>1, <4>2, <5>1
      <4>3. QED BY <1>5, <2>1, <4>1, <4>2
    <3>4. Len(received) + Len(whole') = Len(sent')
      <4>1. Len(received) + Len(whole) = Len(sent)
        BY <3>2
      <4>2. Len(whole') = Len(whole) + 1 /\ Len(sent') = Len(sent) + 1
        BY <1>4, <2>1
      <4>3. QED BY <1>5, <4>1, <4>2
    <3>5. QED BY <1>3, <3>3, <3>4
  <2>10. QED BY <2>7, <2>8, <2>9 DEF Inv
<1>9. CASE stream # FramesOf(whole)
  <2>1. whole' = whole /\ Remainder # << >>
    BY <1>3, <1>9, RemainderType DEF Inv
  <2>2. Remainder \o Frame(t) \in Seq(Cell)
    BY <1>2, ConcatProperties
  <2>3. stream' = FramesOf(whole') \o (Remainder \o Frame(t))
    <3>1. stream' = (FramesOf(whole) \o Remainder) \o Frame(t)
      BY <1>3 DEF Inv, Framing
    <3>2. (FramesOf(whole) \o Remainder) \o Frame(t) = FramesOf(whole) \o (Remainder \o Frame(t))
      BY <1>2, ConcatAssociative
    <3>3. QED BY <2>1, <3>1, <3>2
  <2>4. Remainder' = Remainder \o Frame(t)
    <3>1. whole' \in Seq(Txs)
      BY <1>1, <2>1
    <3>2. SubSeq(stream', Len(FramesOf(whole')) + 1, Len(stream')) = Remainder \o Frame(t)
      BY <2>2, <2>3, <3>1, RemainderIs
    <3>3. QED BY <3>2 DEF Remainder
  <2>5. TypeOK'
    BY <1>1, <1>3, <1>4, <1>6, <2>1 DEF Inv, TypeOK
  <2>6. Framing'
    BY <2>3, <2>4 DEF Framing
  <2>7. ASSUME ~altered' PROVE failed'
    BY <1>3, <2>1, <2>7 DEF Inv, Accounting
  <2>8. Accounting'
    BY <1>7, <2>7 DEF Accounting
  <2>9. QED BY <2>5, <2>6, <2>8 DEF Inv
<1>10. QED BY <1>8, <1>9

\* What a transaction is decoded to is a transaction.
LEMMA NormalizedType ==
    ASSUME NEW t \in Txs
    PROVE  Normalized(t) \in Transactions
<1>1. \E tx \in Transactions : Some(Normalized(t)) = Some(tx)
  <2>1. Frame(t) \in Seq(Cell) /\ Frame(t) # << >>
    BY FrameType
  <2>2. Frame(t) \o << >> = Frame(t)
    BY <2>1, ConcatEmptySeq
  <2>3. Decode(Frame(t)).tx = Some(Normalized(t))
    <3>1. << >> \in Seq(Cell)
      OBVIOUS
    <3>2. Decode(Frame(t) \o << >>) = [tx |-> Some(Normalized(t)), rest |-> << >>]
      BY <3>1, FrameDecodes
    <3>3. Decode(Frame(t)) = [tx |-> Some(Normalized(t)), rest |-> << >>]
      BY <2>2, <3>2
    <3>4. QED BY <3>3
  <2>4. Some(Normalized(t)) # None
    BY DEF Some, None
  <2>5. QED BY <2>1, <2>3, <2>4, DecodeType
<1>2. QED BY <1>1 DEF Some

\* Some and UnwrapOr.
LEMMA SomeOf == \A x, d : UnwrapOr(Some(x), d) = x /\ Some(x) # None
BY DEF UnwrapOr, Some, None

\* A stream that begins with a whole frame decodes to its transaction.
LEMMA WholeDecodes ==
    ASSUME TypeOK, Framing, whole # << >>
    PROVE  /\ whole[1] \in Txs /\ Tail(whole) \in Seq(Txs)
           /\ FramesOf(Tail(whole)) \o Remainder \in Seq(Cell)
           /\ stream = Frame(whole[1]) \o (FramesOf(Tail(whole)) \o Remainder)
           /\ Decode(stream) = [tx |-> Some(Normalized(whole[1])),
                                rest |-> FramesOf(Tail(whole)) \o Remainder]
<1>1. whole \in Seq(Txs)
  BY DEF TypeOK
<1>2. /\ whole[1] \in Txs /\ Tail(whole) \in Seq(Txs)
      /\ FramesOf(whole) = Frame(whole[1]) \o FramesOf(Tail(whole))
  BY <1>1, FramesOfHead
<1> DEFINE f == Frame(whole[1])
           g == FramesOf(Tail(whole))
<1>3. f \in Seq(Cell) /\ g \in Seq(Cell) /\ Remainder \in Seq(Cell)
  BY <1>2, FrameType, FramesOfType, RemainderType
<1>4. stream = (f \o g) \o Remainder
  BY <1>2 DEF Framing
<1>5. stream = f \o (g \o Remainder) /\ g \o Remainder \in Seq(Cell)
  <2> HIDE DEF f, g
  <2>1. (f \o g) \o Remainder = f \o (g \o Remainder)
    BY <1>3, ConcatAssociative
  <2>2. g \o Remainder \in Seq(Cell)
    BY <1>3, ConcatProperties
  <2>3. QED BY <1>4, <2>1, <2>2
<1> DEFINE d == g \o Remainder
<1>6. d \in Seq(Cell) /\ stream = Frame(whole[1]) \o d
  BY <1>5
<1> HIDE DEF d
<1>7. Decode(stream) = [tx |-> Some(Normalized(whole[1])), rest |-> d]
  BY <1>2, <1>6, FrameDecodes
<1>8. QED BY <1>2, <1>5, <1>7 DEF d

\* Half a frame does not decode.
LEMMA HalfFails ==
    ASSUME NEW s \in Seq(Cell), s # << >>, HalfFrame(s)
    PROVE  Decode(s).tx = None
<1>1. Head(s) = s[1] /\ Head(s) \in Cell /\ Len(s) \in Nat
  BY HeadAndTail
<1>2. s[1].tag = "list" /\ Len(s) <= s[1].len
  BY DEF HalfFrame
<1>3. s[1].len \in Nat
  BY <1>1, <1>2, CellCases
<1>4. ~(Head(s).len < Len(s))
  BY <1>1, <1>2, <1>3
<1>5. QED BY <1>4 DEF Decode

\* Receiving keeps the invariant: it takes a whole frame, fails at half a
\* frame, or reads altered bytes.
LEMMA ReceiveKeeps ==
    ASSUME Inv, Receive
    PROVE  Inv'
<1>1. /\ stream \in Seq(Cell) /\ whole \in Seq(Txs) /\ sent \in Seq(Txs)
      /\ received \in Seq(Transactions)
  BY DEF Inv, TypeOK
<1>2. /\ ~failed /\ stream # << >>
      /\ stream' = Decode(stream).rest
      /\ received' = IF Decode(stream).tx = None THEN received
                     ELSE Append(received, UnwrapOr(Decode(stream).tx, {}))
      /\ failed' = (Decode(stream).tx = None)
      /\ whole' = IF whole = << >> THEN whole ELSE Tail(whole)
      /\ sent' = sent /\ open' = open /\ altered' = altered
  BY DEF Receive
<1>3. Len(sent) \in Nat /\ Len(received) \in Nat /\ Len(whole) \in Nat
  BY <1>1, LenProperties
<1>4. CASE whole # << >>
  <2>1. /\ whole[1] \in Txs /\ Tail(whole) \in Seq(Txs)
        /\ FramesOf(Tail(whole)) \o Remainder \in Seq(Cell)
        /\ Decode(stream) = [tx |-> Some(Normalized(whole[1])),
                             rest |-> FramesOf(Tail(whole)) \o Remainder]
    BY <1>4, WholeDecodes DEF Inv
  <2>2. /\ whole' = Tail(whole) /\ whole' \in Seq(Txs) /\ failed' = FALSE
        /\ received' = Append(received, Normalized(whole[1]))
    <3>1. Decode(stream).tx = Some(Normalized(whole[1]))
      BY <2>1
    <3>2. /\ UnwrapOr(Some(Normalized(whole[1])), {}) = Normalized(whole[1])
          /\ Some(Normalized(whole[1])) # None
      BY SomeOf
    <3>3. whole' = Tail(whole) /\ whole' \in Seq(Txs)
      BY <1>2, <1>4, <2>1
    <3>4. failed' = FALSE /\ received' = Append(received, Normalized(whole[1]))
      BY <1>2, <3>1, <3>2
    <3>5. QED BY <3>3, <3>4
  <2>3. stream' = FramesOf(whole') \o Remainder /\ Remainder \in Seq(Cell) /\ stream' \in Seq(Cell)
    BY <1>2, <2>1, <2>2, RemainderType DEF Inv
  <2>4. Remainder' = Remainder
    <3>1. SubSeq(stream', Len(FramesOf(whole')) + 1, Len(stream')) = Remainder
      BY <2>2, <2>3, RemainderIs
    <3>2. QED BY <3>1 DEF Remainder
  <2>5. /\ received' \in Seq(Transactions) /\ Len(received') = Len(received) + 1
        /\ received'[Len(received) + 1] = Normalized(whole[1])
        /\ \A i \in 1 .. Len(received) : received'[i] = received[i]
    <3>1. Normalized(whole[1]) \in Transactions
      BY <2>1, NormalizedType
    <3>2. QED BY <1>1, <2>2, <3>1, AppendProperties
  <2>6. TypeOK'
    BY <1>1, <1>2, <2>2, <2>3, <2>5 DEF Inv, TypeOK
  <2>7. Framing'
    BY <2>3, <2>4 DEF Framing
  <2>8. /\ Len(whole') = Len(whole) - 1 /\ Len(whole) \in Nat \ {0}
        /\ \A i \in 1 .. Len(whole) - 1 : whole'[i] = whole[i + 1]
    BY <1>1, <1>4, <2>2, HeadAndTail
  <2>9. Accounting'
    <3>1. SUFFICES ASSUME ~altered'
                   PROVE  /\ Len(received') <= Len(sent')
                          /\ \A i \in 1 .. Len(received') : received'[i] = Normalized(sent'[i])
                          /\ HalfFrame(Remainder)
                          /\ Len(received') + Len(whole') <= Len(sent')
                          /\ \A i \in 1 .. Len(whole') : whole'[i] = sent'[Len(received') + i]
                          /\ open => Remainder = << >> /\ Len(received') + Len(whole') = Len(sent')
      BY <1>2, <2>2, <2>4 DEF Accounting, HalfFrame
    <3>2. /\ \A i \in 1 .. Len(received) : received[i] = Normalized(sent[i])
          /\ HalfFrame(Remainder)
          /\ Len(received) + Len(whole) <= Len(sent)
          /\ \A i \in 1 .. Len(whole) : whole[i] = sent[Len(received) + i]
          /\ open => Remainder = << >> /\ Len(received) + Len(whole) = Len(sent)
      BY <1>2, <3>1 DEF Inv, Accounting
    <3>3. ASSUME NEW i \in 1 .. Len(received') PROVE received'[i] = Normalized(sent'[i])
      <4>1. CASE i \in 1 .. Len(received)
        BY <1>2, <2>5, <3>2, <4>1
      <4>2. CASE i = Len(received) + 1
        <5>1. whole[1] = sent[Len(received) + 1]
          BY <2>8, <3>2
        <5>2. QED BY <1>2, <2>5, <4>2, <5>1
      <4>3. QED BY <1>3, <2>5, <4>1, <4>2
    <3>4. ASSUME NEW i \in 1 .. Len(whole') PROVE whole'[i] = sent'[Len(received') + i]
      <4>1. PICK j \in 1 .. Len(whole) : j = i + 1
        BY <1>3, <2>8
      <4>2. whole[j] = sent[Len(received) + j]
        BY <3>2
      <4>3. Len(received) + j = Len(received') + i
        BY <1>3, <2>5, <4>1
      <4>4. whole'[i] = whole[j]
        BY <2>8, <4>1
      <4>5. QED BY <1>2, <4>2, <4>3, <4>4
    <3>5. Len(received') + Len(whole') = Len(received) + Len(whole)
      BY <1>3, <2>5, <2>8
    <3>6. Len(received') <= Len(sent')
      BY <1>2, <1>3, <2>5, <2>8, <3>2
    <3>7. QED BY <1>2, <3>2, <3>3, <3>4, <3>5, <3>6
  <2>10. QED BY <2>6, <2>7, <2>9 DEF Inv
<1>5. CASE whole = << >>
  <2>1. stream = Remainder /\ whole' = << >>
    <3>1. Remainder \in Seq(Cell)
      BY RemainderType DEF Inv
    <3>2. QED BY <1>2, <1>5, <3>1, FramesOfEmpty, ConcatEmptySeq DEF Inv, Framing
  <2>2. stream' \in Seq(Cell)
    BY <1>1, <1>2, DecodeType
  <2>3. received' \in Seq(Transactions)
    <3>1. CASE Decode(stream).tx = None
      BY <1>1, <1>2, <3>1
    <3>2. CASE Decode(stream).tx # None
      <4>1. PICK tx \in Transactions : Decode(stream).tx = Some(tx)
        BY <1>1, <1>2, <3>2, DecodeType
      <4>2. received' = Append(received, tx)
        BY <1>2, <4>1, SomeOf
      <4>3. QED BY <1>1, <4>2, AppendProperties
    <3>3. QED BY <3>1, <3>2
  <2>4. TypeOK'
    BY <1>1, <1>2, <1>5, <2>1, <2>2, <2>3 DEF Inv, TypeOK
  <2>5. FramesOf(whole') = << >>
    BY <2>1, FramesOfEmpty
  <2>6. stream' = FramesOf(whole') \o stream'
    BY <2>2, <2>5, ConcatEmptySeq
  <2>7. Remainder' = stream'
    <3>1. whole' \in Seq(Txs)
      BY <2>1
    <3>2. SubSeq(stream', Len(FramesOf(whole')) + 1, Len(stream')) = stream'
      BY <2>2, <2>6, <3>1, RemainderIs
    <3>3. QED BY <3>2 DEF Remainder
  <2>8. Framing'
    BY <2>6, <2>7 DEF Framing
  <2>9. ASSUME ~altered' PROVE failed' /\ received' = received
    <3>1. HalfFrame(stream)
      BY <1>2, <2>1, <2>9 DEF Inv, Accounting
    <3>2. Decode(stream).tx = None
      BY <1>1, <1>2, <3>1, HalfFails
    <3>3. QED BY <1>2, <3>2
  <2>10. ~altered' => /\ Len(received) <= Len(sent)
                      /\ \A i \in 1 .. Len(received) : received[i] = Normalized(sent[i])
    BY <1>2 DEF Inv, Accounting
  <2>11. Accounting'
    BY <1>2, <2>9, <2>10 DEF Accounting
  <2>12. QED BY <2>4, <2>8, <2>11 DEF Inv
<1>6. QED BY <1>4, <1>5

\* The same as AlterKeeps, in the terms of the invariant.
LEMMA AlterFraming ==
    ASSUME TypeOK, Framing, NEW i \in DOMAIN stream, NEW cells \in Seq(Cell), Alter(i, cells)
    PROVE  /\ whole' \in Seq(Txs) /\ stream' \in Seq(Cell) /\ Framing'
           /\ \E n \in 0 .. Len(whole) :
                 /\ whole' = SubSeq(whole, 1, n) /\ Len(whole') = n
                 /\ \A j \in 1 .. n : whole'[j] = whole[j]
           /\ \E kept \in Seq(Cell) :
                 /\ Remainder' = kept \o cells
                 /\ HalfFrame(Remainder) => HalfFrame(kept)
           /\ (stream' = FramesOf(whole')) <=> (Remainder' = << >>)
<1>1. PICK n \in 0 .. Len(whole), kept \in Seq(Cell) :
              /\ whole' = SubSeq(whole, 1, n)
              /\ Len(FramesOf(whole')) < i
              /\ stream' = FramesOf(whole') \o (kept \o cells)
              /\ HalfFrame(Remainder) => HalfFrame(kept)
  BY AlterKeeps
<1>2. /\ whole' \in Seq(Txs) /\ Len(whole') = n /\ \A j \in 1 .. n : whole'[j] = whole[j]
  <2>1. whole \in Seq(Txs)
    BY DEF TypeOK
  <2>2. QED BY <1>1, <2>1, SplitAt
<1>3. kept \o cells \in Seq(Cell)
  BY ConcatProperties
<1> DEFINE r == kept \o cells
<1>4. r \in Seq(Cell) /\ stream' = FramesOf(whole') \o r
  BY <1>1, <1>3
<1> HIDE DEF r
<1>5. /\ stream' \in Seq(Cell)
      /\ SubSeq(stream', Len(FramesOf(whole')) + 1, Len(stream')) = r
      /\ (stream' = FramesOf(whole')) <=> (r = << >>)
  BY <1>2, <1>4, RemainderIs
<1>6. Remainder' = r
  BY <1>5 DEF Remainder
<1>7. Framing'
  BY <1>4, <1>6 DEF Framing
<1>8. \E k \in Seq(Cell) : Remainder' = k \o cells /\ (HalfFrame(Remainder) => HalfFrame(k))
  <2>1. Remainder' = kept \o cells
    BY <1>6 DEF r
  <2>2. QED BY <1>1, <2>1
<1>9. QED BY <1>1, <1>2, <1>5, <1>6, <1>7, <1>8

\* Losing the end of the stream keeps the invariant: it leaves half a frame.
LEMMA CutKeeps ==
    ASSUME Inv, NEW i \in DOMAIN stream, Cut(i)
    PROVE  Inv'
<1>1. << >> \in Seq(Cell)
  OBVIOUS
<1>2. /\ Alter(i, << >>) /\ open' = FALSE /\ altered' = altered
      /\ sent' = sent /\ received' = received /\ failed' = failed
  BY DEF Cut, Alter
<1>3. TypeOK /\ Framing
  BY DEF Inv
<1>4. /\ whole' \in Seq(Txs) /\ stream' \in Seq(Cell) /\ Framing'
  BY <1>1, <1>2, <1>3, AlterFraming
<1>5. PICK n \in 0 .. Len(whole) :
         /\ Len(whole') = n /\ \A j \in 1 .. n : whole'[j] = whole[j]
  BY <1>1, <1>2, <1>3, AlterFraming
<1>6. PICK kept \in Seq(Cell) :
         /\ Remainder' = kept \o << >>
         /\ HalfFrame(Remainder) => HalfFrame(kept)
  BY <1>1, <1>2, <1>3, AlterFraming
<1>7. Remainder' = kept
  <2>1. kept \o << >> = kept
    BY ConcatEmptySeq
  <2>2. QED BY <1>6, <2>1
<1>8. TypeOK'
  BY <1>2, <1>3, <1>4 DEF TypeOK
<1>9. Accounting'
  <2>1. SUFFICES ASSUME ~altered'
                 PROVE  /\ Len(received) <= Len(sent)
                        /\ \A j \in 1 .. Len(received) : received[j] = Normalized(sent[j])
                        /\ ~failed =>
                             /\ HalfFrame(kept)
                             /\ Len(received) + n <= Len(sent)
                             /\ \A j \in 1 .. n : whole'[j] = sent[Len(received) + j]
    BY <1>2, <1>5, <1>7 DEF Accounting, HalfFrame
  <2>2. Len(received) <= Len(sent) /\ \A j \in 1 .. Len(received) : received[j] = Normalized(sent[j])
    BY <1>2, <2>1 DEF Inv, Accounting
  <2>3. ASSUME ~failed
        PROVE  /\ HalfFrame(kept) /\ Len(received) + n <= Len(sent)
               /\ \A j \in 1 .. n : whole'[j] = sent[Len(received) + j]
    <3>1. /\ HalfFrame(Remainder) /\ Len(received) + Len(whole) <= Len(sent)
          /\ \A j \in 1 .. Len(whole) : whole[j] = sent[Len(received) + j]
      BY <1>2, <2>1, <2>3 DEF Inv, Accounting
    <3>2. Len(received) \in Nat /\ Len(whole) \in Nat /\ Len(sent) \in Nat
      BY <1>3, LenProperties DEF TypeOK
    <3>3. HalfFrame(kept)
      BY <1>6, <3>1
    <3>4. Len(received) + n <= Len(sent)
      BY <3>1, <3>2
    <3>5. ASSUME NEW j \in 1 .. n PROVE whole'[j] = sent[Len(received) + j]
      <4>1. j \in 1 .. Len(whole) /\ whole'[j] = whole[j]
        BY <1>5, <3>2
      <4>2. QED BY <3>1, <4>1
    <3>6. QED BY <3>3, <3>4, <3>5
  <2>4. QED BY <2>2, <2>3
<1>10. QED BY <1>4, <1>8, <1>9 DEF Inv

\* The cells that each alteration puts from cell i on.
LEMMA AlteredCells ==
    ASSUME stream \in Seq(Cell), NEW i \in DOMAIN stream
    PROVE  /\ \A cells \in NewItems :
                 /\ cells \o SubSeq(stream, ItemEnd(i), Len(stream)) \in Seq(Cell) \ {<< >>}
                 /\ cells \o SubSeq(stream, i, Len(stream)) \in Seq(Cell) \ {<< >>}
           /\ \A len \in Nat :
                 << ListHeader(len) >> \o SubSeq(stream, i + 1, Len(stream)) \in Seq(Cell) \ {<< >>}
           /\ stream[i].tag = "list" => stream[i].len \in Nat
<1>1. i \in 1 .. Len(stream) /\ Len(stream) \in Nat /\ stream[i] \in Cell
  BY LenProperties, ElementOfSeq
<1>2. ASSUME NEW m \in Nat \ {0} PROVE SubSeq(stream, m, Len(stream)) \in Seq(Cell)
  <2>1. Len(stream) <= Len(stream)
    BY <1>1
  <2>2. QED BY <1>1, <2>1, SubSeqElements
<1>3. ASSUME NEW a \in Seq(Cell), NEW b \in Seq(Cell), a # << >>
      PROVE  a \o b \in Seq(Cell) \ {<< >>}
  BY <1>3, ConcatProperties, ConcatEqualIffEmpty
<1>4. ASSUME NEW cells \in NewItems PROVE cells \in Seq(Cell) /\ cells # << >>
  <2>1. CASE cells = << ListHeader(0) >>
    <3>1. ListHeader(0) \in Cell
      BY CellFacts
    <3>2. QED BY <2>1, <3>1
  <2>2. CASE \E v \in Values : cells = Cells(v)
    BY <2>2, CellsType
  <2>3. QED BY <1>4, <2>1, <2>2 DEF NewItems
<1>5. ItemEnd(i) \in Nat \ {0} /\ i \in Nat \ {0} /\ i + 1 \in Nat \ {0}
  BY <1>1 DEF ItemEnd
<1>6. ASSUME NEW cells \in NewItems
      PROVE  /\ cells \o SubSeq(stream, ItemEnd(i), Len(stream)) \in Seq(Cell) \ {<< >>}
             /\ cells \o SubSeq(stream, i, Len(stream)) \in Seq(Cell) \ {<< >>}
  <2>1. cells \in Seq(Cell) /\ cells # << >>
    BY <1>4
  <2>2. SubSeq(stream, ItemEnd(i), Len(stream)) \in Seq(Cell) /\ SubSeq(stream, i, Len(stream)) \in Seq(Cell)
    BY <1>2, <1>5
  <2>3. QED BY <1>3, <2>1, <2>2
<1>7. ASSUME NEW len \in Nat
      PROVE  << ListHeader(len) >> \o SubSeq(stream, i + 1, Len(stream)) \in Seq(Cell) \ {<< >>}
  <2>1. << ListHeader(len) >> \in Seq(Cell) /\ << ListHeader(len) >> # << >>
    <3>1. ListHeader(len) \in Cell
      BY CellFacts
    <3>2. QED BY <3>1
  <2>2. SubSeq(stream, i + 1, Len(stream)) \in Seq(Cell)
    BY <1>2, <1>5
  <2>3. QED BY <1>3, <2>1, <2>2
<1>8. stream[i].tag = "list" => stream[i].len \in Nat
  BY <1>1, CellCases
<1>9. QED BY <1>6, <1>7, <1>8

\* The steps that alter bytes.
Altering ==
    \E i \in DOMAIN stream :
        \/ \E cells \in NewItems : Replace(i, cells)
        \/ \E cells \in NewItems : Insert(i, cells)
        \/ \E d \in 1 .. 2 : SetLength(i, stream[i].len + d)
        \/ \E d \in 1 .. 2 : stream[i].len >= d /\ SetLength(i, stream[i].len - d)

\* Each of these steps is an Alter that marks the stream as altered.
LEMMA AlteringAlters ==
    ASSUME stream \in Seq(Cell), Altering
    PROVE  /\ \E i \in DOMAIN stream, cells \in Seq(Cell) \ {<< >>} : Alter(i, cells)
           /\ altered' = TRUE /\ open' = open
<1>1. PICK i \in DOMAIN stream :
        \/ \E cells \in NewItems : Replace(i, cells)
        \/ \E cells \in NewItems : Insert(i, cells)
        \/ \E d \in 1 .. 2 : SetLength(i, stream[i].len + d)
        \/ \E d \in 1 .. 2 : stream[i].len >= d /\ SetLength(i, stream[i].len - d)
  BY DEF Altering
<1>2. ASSUME NEW cells \in NewItems, Replace(i, cells)
      PROVE  /\ \E new \in Seq(Cell) \ {<< >>} : Alter(i, new)
             /\ altered' = TRUE /\ open' = open
  BY <1>2, AlteredCells DEF Replace
<1>3. ASSUME NEW cells \in NewItems, Insert(i, cells)
      PROVE  /\ \E new \in Seq(Cell) \ {<< >>} : Alter(i, new)
             /\ altered' = TRUE /\ open' = open
  BY <1>3, AlteredCells DEF Insert
<1>4. ASSUME NEW len \in Nat, SetLength(i, len)
      PROVE  /\ \E new \in Seq(Cell) \ {<< >>} : Alter(i, new)
             /\ altered' = TRUE /\ open' = open
  BY <1>4, AlteredCells DEF SetLength
<1>5. ASSUME NEW d \in 1 .. 2, SetLength(i, stream[i].len + d)
      PROVE  /\ \E new \in Seq(Cell) \ {<< >>} : Alter(i, new)
             /\ altered' = TRUE /\ open' = open
  <2>1. stream[i].tag = "list"
    BY <1>5 DEF SetLength
  <2>2. stream[i].len + d \in Nat
    <3>1. stream[i].len \in Nat
      BY <2>1, AlteredCells
    <3>2. QED BY <3>1
  <2>3. QED BY <1>4, <1>5, <2>2
<1>6. ASSUME NEW d \in 1 .. 2, stream[i].len >= d, SetLength(i, stream[i].len - d)
      PROVE  /\ \E new \in Seq(Cell) \ {<< >>} : Alter(i, new)
             /\ altered' = TRUE /\ open' = open
  <2>1. stream[i].tag = "list"
    BY <1>6 DEF SetLength
  <2>2. stream[i].len - d \in Nat
    <3>1. stream[i].len \in Nat
      BY <2>1, AlteredCells
    <3>2. QED BY <1>6, <3>1
  <2>3. QED BY <1>4, <1>6, <2>2
<1>7. QED BY <1>1, <1>2, <1>3, <1>5, <1>6

\* Altering bytes keeps the invariant.
LEMMA AlteringKeeps ==
    ASSUME Inv, Altering
    PROVE  Inv'
<1>1. TypeOK /\ Framing /\ stream \in Seq(Cell)
  BY DEF Inv, TypeOK
<1>2. PICK i \in DOMAIN stream, cells \in Seq(Cell) : Alter(i, cells)
  BY <1>1, AlteringAlters
<1>3. altered' = TRUE /\ open' = open
  BY <1>1, AlteringAlters
<1>4. sent' = sent /\ received' = received /\ failed' = failed
  BY <1>2 DEF Alter
<1>5. /\ whole' \in Seq(Txs) /\ stream' \in Seq(Cell) /\ Framing'
  BY <1>1, <1>2, AlterFraming
<1>6. TypeOK'
  BY <1>1, <1>3, <1>4, <1>5 DEF TypeOK
<1>7. Accounting'
  BY <1>3 DEF Accounting
<1>8. QED BY <1>5, <1>6, <1>7 DEF Inv

\* So does a step that changes nothing.
LEMMA StutterKeeps ==
    ASSUME Inv, UNCHANGED vars
    PROVE  Inv'
BY DEF vars, Inv, TypeOK, Framing, Accounting, Remainder

\* The disjuncts of Next.
LEMMA NextCases ==
    ASSUME Next
    PROVE  (\E t \in Txs : Send(t)) \/ Receive \/ (\E i \in DOMAIN stream : Cut(i)) \/ Altering
BY DEF Next, Altering

(* A stream that was not altered holds the frames of what was sent and is  *)
(* not received yet, in order, and at most half a frame behind them        *)
(* (rlp.rs, encode and decode).                                            *)
THEOREM InvHolds == Spec => []Inv
<1>1. Init => Inv
  BY InvInit
<1>2. Inv /\ [Next]_vars => Inv'
  <2>1. SUFFICES ASSUME Inv, [Next]_vars PROVE Inv'
    OBVIOUS
  <2>2. CASE \E t \in Txs : Send(t)
    BY <2>1, <2>2, SendKeeps
  <2>3. CASE Receive
    BY <2>1, <2>3, ReceiveKeeps
  <2>4. CASE \E i \in DOMAIN stream : Cut(i)
    BY <2>1, <2>4, CutKeeps
  <2>5. CASE Altering
    BY <2>1, <2>5, AlteringKeeps
  <2>6. CASE UNCHANGED vars
    BY <2>1, <2>6, StutterKeeps
  <2>7. QED BY <2>1, <2>2, <2>3, <2>4, <2>5, <2>6, NextCases
<1>3. QED BY <1>1, <1>2, PTL DEF Spec

(* A stream that only lost its end yields what was sent, in order, and     *)
(* nothing else: half a frame never passes for a shorter form of it        *)
(* (rlp.rs, decode).                                                       *)
THEOREM ReceivedWasSentHolds == Spec => []ReceivedWasSent
<1>1. Inv => ReceivedWasSent
  <2>1. SUFFICES ASSUME Inv, ~altered PROVE \A i \in DOMAIN received : received[i] = Normalized(sent[i])
    BY DEF ReceivedWasSent
  <2>2. DOMAIN received = 1 .. Len(received)
    BY LenProperties DEF Inv, TypeOK
  <2>3. QED BY <2>1, <2>2 DEF Inv, Accounting
<1>2. QED BY <1>1, InvHolds, PTL

(* A frame that is as it was sent decodes to its transaction and to no     *)
(* byte more, whatever follows (rlp.rs, the payload bound of decode).      *)
THEOREM FramesApartHolds == Spec => []FramesApart
<1>1. Inv => FramesApart
  <2>1. SUFFICES ASSUME Inv, whole # << >>
                 PROVE  Decode(stream) =
                          [tx |-> Some(Normalized(whole[1])),
                           rest |-> SubSeq(stream, Len(Frame(whole[1])) + 1, Len(stream))]
    BY DEF FramesApart
  <2> DEFINE d == FramesOf(Tail(whole)) \o Remainder
  <2>2. /\ whole[1] \in Txs /\ d \in Seq(Cell) /\ stream = Frame(whole[1]) \o d
        /\ Decode(stream) = [tx |-> Some(Normalized(whole[1])), rest |-> d]
    BY <2>1, WholeDecodes DEF Inv
  <2> HIDE DEF d
  <2>3. Frame(whole[1]) \in Seq(Cell)
    BY <2>2, FrameType
  <2>4. SubSeq(stream, Len(Frame(whole[1])) + 1, Len(stream)) = d
    BY <2>2, <2>3, ConcatSuffix
  <2>5. QED BY <2>2, <2>4
<1>2. QED BY <1>1, InvHolds, PTL

---------------------------------------------------------------------------
(* The stream implements the queue of TxQueue.                             *)

\* The queue holds what each whole frame decodes to.
LEMMA QueueOfElements ==
    ASSUME NEW w \in Seq(Txs)
    PROVE  /\ QueueOf(w) \in Seq(Transactions) /\ Len(QueueOf(w)) = Len(w)
           /\ \A i \in 1 .. Len(w) : QueueOf(w)[i] = Normalized(w[i])
<1>1. DOMAIN w = 1 .. Len(w) /\ Len(w) \in Nat /\ \A i \in 1 .. Len(w) : w[i] \in Txs
  BY LenProperties, ElementOfSeq
<1> DEFINE f == [i \in DOMAIN w |-> AsReceived[w[i]]]
<1>2. \A t \in Txs : AsReceived[t] = Normalized(t) /\ Normalized(t) \in Transactions
  BY NormalizedType DEF AsReceived
<1>3. f \in [1 .. Len(w) -> Transactions] /\ \A i \in 1 .. Len(w) : f[i] = Normalized(w[i])
  BY <1>1, <1>2
<1> HIDE DEF f
<1>4. f \in Seq(Transactions) /\ Len(f) = Len(w)
  BY <1>1, <1>3, FunctionIsSequence
<1>5. f = QueueOf(w)
  BY DEF f, QueueOf
<1>6. QED BY <1>3, <1>4, <1>5

\* The queue is empty when no frame is whole.
LEMMA QueueOfEmpty ==
    ASSUME NEW w \in Seq(Txs)
    PROVE  QueueOf(w) = << >> <=> w = << >>
<1>1. Len(QueueOf(w)) = Len(w) /\ QueueOf(w) \in Seq(Transactions)
  BY QueueOfElements
<1>2. QueueOf(w) = << >> <=> Len(QueueOf(w)) = 0
  BY <1>1, EmptySeq
<1>3. w = << >> <=> Len(w) = 0
  BY EmptySeq
<1>4. QED BY <1>1, <1>2, <1>3

\* A frame that is appended goes to the end of the queue.
LEMMA QueueOfAppend ==
    ASSUME NEW w \in Seq(Txs), NEW t \in Txs
    PROVE  QueueOf(Append(w, t)) = Append(QueueOf(w), AsReceived[t])
<1> DEFINE n == Normalized(t)
           a == QueueOf(w)
           b == QueueOf(Append(w, t))
           c == Append(a, n)
           v == Append(w, t)
<1>1. AsReceived[t] = n /\ n \in Transactions
  BY NormalizedType DEF AsReceived
<1>2. /\ v \in Seq(Txs) /\ Len(v) = Len(w) + 1 /\ v[Len(w) + 1] = t
      /\ \A i \in 1 .. Len(w) : v[i] = w[i]
  BY AppendProperties
<1>3. /\ a \in Seq(Transactions) /\ Len(a) = Len(w)
      /\ \A i \in 1 .. Len(w) : a[i] = Normalized(w[i])
  BY QueueOfElements
<1> HIDE DEF n, a, v
<1>4. /\ b \in Seq(Transactions) /\ Len(b) = Len(v) /\ \A i \in 1 .. Len(v) : b[i] = Normalized(v[i])
  BY <1>2, QueueOfElements DEF v
<1>5. /\ c \in Seq(Transactions) /\ Len(c) = Len(a) + 1 /\ c[Len(a) + 1] = n
      /\ \A i \in 1 .. Len(a) : c[i] = a[i]
  BY <1>1, <1>3, AppendProperties
<1>6. Len(w) \in Nat
  BY LenProperties
<1> HIDE DEF b, c
<1>7. ASSUME NEW i \in 1 .. Len(b) PROVE b[i] = c[i]
  <2>1. CASE i \in 1 .. Len(w)
    BY <2>1, <1>2, <1>3, <1>4, <1>5
  <2>2. CASE i = Len(w) + 1
    BY <2>2, <1>2, <1>3, <1>4, <1>5 DEF n
  <2>3. QED BY <1>2, <1>4, <1>6, <2>1, <2>2
<1>8. b = c
  BY <1>2, <1>3, <1>4, <1>5, <1>7, SeqEqual
<1>9. QED BY <1>1, <1>8 DEF b, c, a

\* The first frame is at the head of the queue.
LEMMA QueueOfTail ==
    ASSUME NEW w \in Seq(Txs), w # << >>
    PROVE  /\ QueueOf(w) # << >> /\ Head(QueueOf(w)) = Normalized(w[1])
           /\ QueueOf(Tail(w)) = Tail(QueueOf(w))
<1> DEFINE a == QueueOf(w)
           v == Tail(w)
           b == QueueOf(v)
           c == Tail(a)
<1>1. /\ v \in Seq(Txs) /\ Len(v) = Len(w) - 1 /\ Len(w) \in Nat \ {0}
      /\ \A i \in 1 .. Len(w) - 1 : v[i] = w[i + 1]
  BY HeadAndTail
<1>2. /\ a \in Seq(Transactions) /\ Len(a) = Len(w)
      /\ \A i \in 1 .. Len(w) : a[i] = Normalized(w[i])
  BY QueueOfElements
<1>3. a # << >>
  BY QueueOfEmpty
<1> HIDE DEF a, v
<1>4. /\ b \in Seq(Transactions) /\ Len(b) = Len(v) /\ \A i \in 1 .. Len(v) : b[i] = Normalized(v[i])
  BY <1>1, QueueOfElements
<1>5. /\ Head(a) = a[1] /\ c \in Seq(Transactions) /\ Len(c) = Len(a) - 1
      /\ \A i \in 1 .. Len(a) - 1 : c[i] = a[i + 1]
  BY <1>2, <1>3, HeadAndTail
<1> HIDE DEF b, c
<1>6. ASSUME NEW i \in 1 .. Len(b) PROVE b[i] = c[i]
  <2>1. PICK j \in 1 .. Len(w) : j = i + 1
    BY <1>1, <1>4
  <2>2. b[i] = Normalized(w[j])
    BY <1>1, <1>4, <2>1
  <2>3. c[i] = a[j]
    BY <1>1, <1>2, <1>4, <1>5, <2>1
  <2>4. QED BY <1>2, <2>2, <2>3
<1>7. b = c
  BY <1>1, <1>2, <1>4, <1>5, <1>6, SeqEqual
<1>8. Head(a) = Normalized(w[1])
  BY <1>1, <1>2, <1>5
<1>9. QED BY <1>3, <1>7, <1>8 DEF a, b, c, v

\* Fewer frames are a beginning of the queue.
LEMMA QueueOfPrefix ==
    ASSUME NEW w \in Seq(Txs), NEW n \in 0 .. Len(w)
    PROVE  /\ n \in 0 .. Len(QueueOf(w))
           /\ QueueOf(SubSeq(w, 1, n)) = SubSeq(QueueOf(w), 1, n)
<1> DEFINE a == QueueOf(w)
           v == SubSeq(w, 1, n)
           b == QueueOf(v)
           c == SubSeq(a, 1, n)
<1>1. /\ v \in Seq(Txs) /\ Len(v) = n /\ \A i \in 1 .. n : v[i] = w[i]
  BY SplitAt
<1>2. /\ a \in Seq(Transactions) /\ Len(a) = Len(w)
      /\ \A i \in 1 .. Len(w) : a[i] = Normalized(w[i])
  BY QueueOfElements
<1> HIDE DEF a, v
<1>3. /\ b \in Seq(Transactions) /\ Len(b) = Len(v) /\ \A i \in 1 .. Len(v) : b[i] = Normalized(v[i])
  BY <1>1, QueueOfElements
<1>4. /\ c \in Seq(Transactions) /\ Len(c) = n /\ \A i \in 1 .. n : c[i] = a[i]
  BY <1>2, SplitAt
<1> HIDE DEF b, c
<1>5. ASSUME NEW i \in 1 .. Len(b) PROVE b[i] = c[i]
  <2>1. i \in 1 .. n /\ i \in 1 .. Len(w)
    BY <1>1, <1>3, LenProperties
  <2>2. QED BY <1>1, <1>2, <1>3, <1>4, <2>1
<1>6. b = c
  BY <1>1, <1>3, <1>4, <1>5, SeqEqual
<1>7. QED BY <1>2, <1>6 DEF a, b, c, v

\* Sending puts an entry into the queue, or goes behind altered bytes and
\* changes nothing that the queue shows.
LEMMA SendPuts ==
    ASSUME Inv, Inv', NEW t \in Txs, Send(t)
    PROVE  Queue!Put \/ UNCHANGED Queue!vars
<1>1. /\ received' = received /\ failed' = failed /\ open' = open /\ altered' = altered /\ open
      /\ stream' = stream \o Frame(t)
      /\ whole' = IF stream = FramesOf(whole) THEN Append(whole, t) ELSE whole
  BY DEF Send
<1>2. whole \in Seq(Txs) /\ stream \in Seq(Cell)
  BY DEF Inv, TypeOK
<1>3. CASE stream = FramesOf(whole)
  <2>1. whole' = Append(whole, t) /\ whole' \in Seq(Txs) /\ << t >> \in Seq(Txs)
    BY <1>1, <1>2, <1>3, AppendProperties
  <2>2. stream' = FramesOf(whole')
    <3>1. whole' = whole \o << t >>
      BY <1>2, <2>1, AppendIsConcat
    <3>2. FramesOf(whole \o << t >>) = FramesOf(whole) \o Frame(t)
      BY <1>2, <2>1, FramesOfConcat, FramesOfOne
    <3>3. QED BY <1>1, <1>3, <3>1, <3>2
  <2>3. QueueOf(whole') = Append(QueueOf(whole), AsReceived[t])
    BY <1>2, <2>1, QueueOfAppend
  <2>4. Queue!Put
    BY <1>1, <1>3, <2>2, <2>3 DEF Queue!Put
  <2>5. QED BY <2>4
<1>4. CASE stream # FramesOf(whole)
  <2>1. whole' = whole /\ Remainder # << >> /\ Remainder \in Seq(Cell) /\ FramesOf(whole) \in Seq(Cell)
    BY <1>1, <1>4, RemainderType DEF Inv
  <2>2. stream' # FramesOf(whole')
    <3>1. Frame(t) \in Seq(Cell) /\ Frame(t) # << >>
      BY FrameType
    <3>2. Len(stream) = Len(FramesOf(whole)) + Len(Remainder)
      BY <2>1, ConcatElements DEF Inv, Framing
    <3>3. Len(stream') = Len(stream) + Len(Frame(t))
      BY <1>1, <1>2, <3>1, ConcatElements
    <3>4. Len(Frame(t)) \in Nat \ {0} /\ Len(Remainder) \in Nat /\ Len(FramesOf(whole)) \in Nat
      BY <2>1, <3>1, EmptySeq, LenProperties
    <3>5. Len(stream') # Len(FramesOf(whole))
      BY <3>2, <3>3, <3>4
    <3>6. QED BY <2>1, <3>5
  <2>3. UNCHANGED Queue!vars
    BY <1>1, <1>4, <2>1, <2>2 DEF Queue!vars
  <2>4. QED BY <2>3
<1>5. QED BY <1>3, <1>4

\* An Append extends a sequence by one.
LEMMA AppendExtends ==
    ASSUME NEW S, NEW s \in Seq(S), NEW e \in S
    PROVE  Len(Append(s, e)) = Len(s) + 1 /\ IsPrefix(s, Append(s, e))
<1> DEFINE a == Append(s, e)
           p == SubSeq(s, 1, Len(s))
           q == SubSeq(a, 1, Len(s))
<1>1. a \in Seq(S) /\ Len(a) = Len(s) + 1 /\ \A i \in 1 .. Len(s) : a[i] = s[i]
  BY AppendProperties
<1>2. Len(s) \in 0 .. Len(s) /\ Len(s) \in 0 .. Len(a)
  BY <1>1, LenProperties
<1>3. p \in Seq(S) /\ Len(p) = Len(s) /\ \A i \in 1 .. Len(s) : p[i] = s[i]
  BY <1>2, SplitAt
<1> HIDE DEF a
<1>4. q \in Seq(S) /\ Len(q) = Len(s) /\ \A i \in 1 .. Len(s) : q[i] = a[i]
  BY <1>1, <1>2, SplitAt
<1> HIDE DEF p, q
<1>5. p = q
  BY <1>1, <1>3, <1>4, SeqEqual
<1>6. Len(s) <= Len(a)
  BY <1>2
<1>7. QED BY <1>1, <1>5, <1>6 DEF IsPrefix, a, p, q

\* Receiving takes the head of the queue, stops, or delivers what altered bytes
\* decode to.
LEMMA ReceiveTakes ==
    ASSUME Inv, Inv', Receive
    PROVE  Queue!Next
<1>1. /\ ~failed /\ stream # << >>
      /\ stream' = Decode(stream).rest
      /\ received' = IF Decode(stream).tx = None THEN received
                     ELSE Append(received, UnwrapOr(Decode(stream).tx, {}))
      /\ failed' = (Decode(stream).tx = None)
      /\ whole' = IF whole = << >> THEN whole ELSE Tail(whole)
      /\ open' = open /\ altered' = altered
  BY DEF Receive
<1>2. /\ whole \in Seq(Txs) /\ stream \in Seq(Cell) /\ received \in Seq(Transactions)
      /\ failed \in BOOLEAN
  BY DEF Inv, TypeOK
<1>3. CASE whole # << >>
  <2>1. /\ whole[1] \in Txs /\ Tail(whole) \in Seq(Txs)
        /\ FramesOf(Tail(whole)) \o Remainder \in Seq(Cell)
        /\ Decode(stream) = [tx |-> Some(Normalized(whole[1])),
                             rest |-> FramesOf(Tail(whole)) \o Remainder]
    BY <1>3, WholeDecodes DEF Inv
  <2>2. whole' = Tail(whole) /\ stream' = FramesOf(Tail(whole)) \o Remainder
    BY <1>1, <1>3, <2>1
  <2>3. failed' = FALSE /\ received' = Append(received, Normalized(whole[1]))
    <3>1. Decode(stream).tx = Some(Normalized(whole[1]))
      BY <2>1
    <3>2. /\ UnwrapOr(Some(Normalized(whole[1])), {}) = Normalized(whole[1])
          /\ Some(Normalized(whole[1])) # None
      BY SomeOf
    <3>3. QED BY <1>1, <3>1, <3>2
  <2>4. Remainder \in Seq(Cell) /\ ((stream = FramesOf(whole)) <=> (Remainder = << >>))
    BY RemainderType DEF Inv
  <2>5. (stream' = FramesOf(whole')) <=> (Remainder = << >>)
    BY <2>1, <2>2, <2>4, RemainderIs
  <2>6. /\ QueueOf(whole) # << >> /\ Head(QueueOf(whole)) = Normalized(whole[1])
        /\ QueueOf(whole') = Tail(QueueOf(whole))
    BY <1>2, <1>3, <2>2, QueueOfTail
  <2>7. (stream' = FramesOf(whole')) = (stream = FramesOf(whole))
    BY <2>4, <2>5
  <2>8. Queue!Deliver
    <3>1. failed' = failed
      BY <1>1, <1>2, <2>3
    <3>2. UNCHANGED << stream = FramesOf(whole), ~open, altered, failed >>
      BY <1>1, <2>7, <3>1
    <3>3. QED BY <1>1, <2>3, <2>6, <3>2 DEF Queue!Deliver
  <2>9. QED BY <2>8 DEF Queue!Next
<1>4. CASE whole = << >>
  <2>1. QueueOf(whole) = << >> /\ QueueOf(whole') = QueueOf(whole) /\ stream # FramesOf(whole)
    BY <1>1, <1>2, <1>4, QueueOfEmpty, FramesOfEmpty
  <2>2. CASE Decode(stream).tx = None
    <3>1. Queue!Stop
      BY <1>1, <2>1, <2>2 DEF Queue!Stop
    <3>2. QED BY <3>1 DEF Queue!Next
  <2>3. CASE Decode(stream).tx # None
    <3>1. altered
      <4>1. SUFFICES ASSUME ~altered PROVE FALSE
        OBVIOUS
      <4>2. HalfFrame(Remainder)
        BY <1>1, <4>1 DEF Inv, Accounting
      <4>3. Remainder = stream
        <5>1. Remainder \in Seq(Cell)
          BY RemainderType DEF Inv
        <5>2. << >> \o Remainder = Remainder
          BY <5>1, ConcatEmptySeq
        <5>3. stream = << >> \o Remainder
          BY <1>4, FramesOfEmpty DEF Inv, Framing
        <5>4. QED BY <5>2, <5>3
      <4>4. QED BY <1>1, <1>2, <2>3, <4>2, <4>3, HalfFails
    <3>2. PICK tx \in Transactions : Decode(stream).tx = Some(tx)
      BY <1>1, <1>2, <2>3, DecodeType
    <3>3. received' = Append(received, tx)
      BY <1>1, <2>3, <3>2, SomeOf
    <3>4. Len(received') = Len(received) + 1 /\ IsPrefix(received, received')
      BY <1>2, <3>3, AppendExtends
    <3>5. failed' = failed
      BY <1>1, <1>2, <2>3
    <3>6. Queue!Stray
      BY <1>1, <2>1, <3>1, <3>4, <3>5 DEF Queue!Stray, Queue!IsPrefix, IsPrefix
    <3>7. QED BY <3>6 DEF Queue!Next
  <2>4. QED BY <2>2, <2>3
<1>5. QED BY <1>3, <1>4

\* Losing the end of the stream tears the queue.
LEMMA CutTears ==
    ASSUME Inv, Inv', NEW i \in DOMAIN stream, Cut(i)
    PROVE  Queue!Next
<1>1. << >> \in Seq(Cell)
  OBVIOUS
<1>2. /\ Alter(i, << >>) /\ open' = FALSE /\ altered' = altered
      /\ received' = received /\ failed' = failed
  BY DEF Cut, Alter
<1>3. PICK n \in 0 .. Len(whole) : whole' = SubSeq(whole, 1, n)
  BY <1>1, <1>2, AlterFraming DEF Inv
<1>4. whole \in Seq(Txs)
  BY DEF Inv, TypeOK
<1>5. n \in 0 .. Len(QueueOf(whole)) /\ QueueOf(whole') = SubSeq(QueueOf(whole), 1, n)
  BY <1>3, <1>4, QueueOfPrefix
<1>6. Queue!Damage(n)
  BY <1>2, <1>5 DEF Queue!Damage
<1>7. Queue!Tear(n)
  BY <1>2, <1>6 DEF Queue!Tear
<1>8. QED BY <1>5, <1>7 DEF Queue!Next

\* Altering bytes keeps a beginning of the queue.
LEMMA AlteringAltersQueue ==
    ASSUME Inv, Inv', Altering
    PROVE  Queue!Next
<1>1. PICK i \in DOMAIN stream, cells \in Seq(Cell) \ {<< >>} : Alter(i, cells)
  BY AlteringAlters DEF Inv, TypeOK
<1>2. altered' = TRUE /\ open' = open
  BY AlteringAlters DEF Inv, TypeOK
<1>3. received' = received /\ failed' = failed
  BY <1>1 DEF Alter
<1>4. PICK n \in 0 .. Len(whole) : whole' = SubSeq(whole, 1, n)
  BY <1>1, AlterFraming DEF Inv
<1>5. PICK kept \in Seq(Cell) : Remainder' = kept \o cells
  BY <1>1, AlterFraming DEF Inv
<1>6. (stream' = FramesOf(whole')) <=> (Remainder' = << >>)
  BY <1>1, AlterFraming DEF Inv
<1>7. kept \o cells # << >>
  BY <1>1, ConcatEqualIffEmpty
<1>8. stream' # FramesOf(whole')
  BY <1>5, <1>6, <1>7
<1>9. whole \in Seq(Txs)
  BY DEF Inv, TypeOK
<1>10. n \in 0 .. Len(QueueOf(whole)) /\ QueueOf(whole') = SubSeq(QueueOf(whole), 1, n)
  BY <1>4, <1>9, QueueOfPrefix
<1>11. Queue!Damage(n)
  BY <1>3, <1>10 DEF Queue!Damage
<1>12. Queue!Alter(n)
  BY <1>2, <1>8, <1>11 DEF Queue!Alter
<1>13. QED BY <1>10, <1>12 DEF Queue!Next

(* Sender and receiver see a queue: encode puts, decode takes, and a       *)
(* receiver never stops before the first byte that was lost or changed     *)
(* (rlp.rs, encode and decode).                                            *)
THEOREM QueueImplemented == Spec => QueueSpec
<1>1. Init => Queue!Init
  <2>1. SUFFICES ASSUME Init PROVE Queue!Init
    OBVIOUS
  <2>2. << >> \in Seq(Txs) /\ whole = << >> /\ stream = << >>
    BY <2>1 DEF Init
  <2>3. QueueOf(whole) = << >> /\ stream = FramesOf(whole)
    BY <2>2, QueueOfEmpty, FramesOfEmpty
  <2>4. QED BY <2>1, <2>3 DEF Init, Queue!Init
<1>2. Inv /\ Inv' /\ [Next]_vars => [Queue!Next]_(Queue!vars)
  <2>1. SUFFICES ASSUME Inv, Inv', [Next]_vars
                 PROVE  Queue!Next \/ UNCHANGED Queue!vars
    OBVIOUS
  <2>2. CASE \E t \in Txs : Send(t)
    BY <2>1, <2>2, SendPuts DEF Queue!Next
  <2>3. CASE Receive
    BY <2>1, <2>3, ReceiveTakes
  <2>4. CASE \E i \in DOMAIN stream : Cut(i)
    BY <2>1, <2>4, CutTears
  <2>5. CASE Altering
    BY <2>1, <2>5, AlteringAltersQueue
  <2>6. CASE UNCHANGED vars
    BY <2>6 DEF vars, Queue!vars
  <2>7. QED BY <2>1, <2>2, <2>3, <2>4, <2>5, <2>6, NextCases
<1>3. QED BY <1>1, <1>2, InvHolds, PTL DEF Spec, QueueSpec, Queue!Spec

---------------------------------------------------------------------------
(* Strings stay whole.                                                     *)

\* What may come after a cell: the rest of its string, or a beginning.
Follows(c, d) == IF c.tag = "item" /\ c.value \in InTwoCells THEN d = RestOf(c.value)
                                                            ELSE d.tag # "rest"

\* Strings are whole, up to the last one.
Adjacent(s) == \A j \in 1 .. Len(s) - 1 : Follows(s[j], s[j + 1])

\* The last cell of a string, or a header.
Ends(c) == c.value \notin InTwoCells \/ c.tag = "rest"

\* Strings are whole, and so is the last one unless the end of the stream was lost.
WellCelled == Adjacent(stream) /\ (open => EndsWhole(stream))

\* A stream ends whole when its last cell ends a string.
LEMMA EndsWholeIs ==
    ASSUME NEW s \in Seq(Cell), s # << >>
    PROVE  EndsWhole(s) <=> Ends(s[Len(s)])
BY DEF EndsWhole, Ends, Last

\* What may follow a cell, by the kinds of both.
LEMMA FollowsFacts ==
    ASSUME NEW c \in Cell, NEW d \in Cell
    PROVE  /\ Ends(c) /\ d.tag # "rest" => Follows(c, d)
           /\ Ends(c) /\ Follows(c, d) => d.tag # "rest"
           /\ Follows(c, d) /\ d.tag # "rest" => Ends(c)
           /\ Follows(c, d) /\ d.tag = "rest" => ~Ends(c) /\ d = RestOf(c.value)
           /\ ~Ends(c) => c.tag = "item" /\ c.value \in InTwoCells /\ c = Item(c.value)
           /\ c.tag = "list" => Ends(c)
           /\ c.tag = "rest" => Ends(c)
<1>1. c.tag = "list" => c.value \notin InTwoCells
  <2>1. c.tag = "list" => c.value = ""
    BY CellCases
  <2>2. "" \notin InTwoCells
    BY DEF InTwoCells
  <2>3. QED BY <2>1, <2>2
<1>2. c.tag \in {"item", "rest", "list"} /\ (c.tag = "item" => c = Item(c.value))
  BY CellCases
<1>3. c.value \in InTwoCells => RestOf(c.value).tag = "rest"
  BY CellFacts
<1>4. QED BY <1>1, <1>2, <1>3 DEF Follows, Ends

\* Strings stay whole inside a part of the stream.
LEMMA AdjacentSub ==
    ASSUME NEW s \in Seq(Cell), Adjacent(s), NEW m \in Nat \ {0}, NEW n \in Nat, n <= Len(s)
    PROVE  Adjacent(SubSeq(s, m, n))
<1> DEFINE q == SubSeq(s, m, n)
<1>1. /\ Len(q) = IF m <= n THEN n - m + 1 ELSE 0
      /\ \A i \in 1 .. n - m + 1 : q[i] = s[m + i - 1]
  BY SubSeqElements
<1>2. Len(s) \in Nat
  BY LenProperties
<1> HIDE DEF q
<1>3. ASSUME NEW j \in 1 .. Len(q) - 1 PROVE Follows(q[j], q[j + 1])
  <2>1. PICK k \in 1 .. Len(s) - 1 : k = (m + j) - 1
    <3>1. Len(q) = (n - m) + 1 /\ m <= n
      BY <1>1
    <3>2. j \in 1 .. n - m
      BY <3>1
    <3>3. (m + j) - 1 \in 1 .. Len(s) - 1
      BY <1>2, <3>2
    <3>4. QED BY <3>3
  <2>2. q[j] = s[k] /\ q[j + 1] = s[k + 1]
    <3>1. j \in 1 .. n - m + 1 /\ j + 1 \in 1 .. n - m + 1
      BY <1>1
    <3>2. q[j] = s[m + j - 1] /\ q[j + 1] = s[m + (j + 1) - 1]
      BY <1>1, <3>1
    <3>3. m + j - 1 = k /\ m + (j + 1) - 1 = k + 1
      BY <2>1
    <3>4. QED BY <3>2, <3>3
  <2>3. QED BY <2>1, <2>2 DEF Adjacent
<1>4. QED BY <1>3 DEF Adjacent, q

\* Two parts fit together when the second may follow the first.
LEMMA AdjacentConcat ==
    ASSUME NEW a \in Seq(Cell), NEW b \in Seq(Cell), Adjacent(a), Adjacent(b),
           a # << >> /\ b # << >> => Follows(a[Len(a)], b[1])
    PROVE  Adjacent(a \o b)
<1> DEFINE s == a \o b
<1>1. /\ s \in Seq(Cell) /\ Len(s) = Len(a) + Len(b)
      /\ \A i \in 1 .. Len(a) : s[i] = a[i]
      /\ \A i \in 1 .. Len(b) : s[Len(a) + i] = b[i]
  BY ConcatElements
<1>2. Len(a) \in Nat /\ Len(b) \in Nat /\ (a = << >> => Len(a) = 0) /\ (b = << >> => Len(b) = 0)
  BY LenProperties
<1> HIDE DEF s
<1>3. ASSUME NEW j \in 1 .. Len(s) - 1 PROVE Follows(s[j], s[j + 1])
  <2>1. CASE j < Len(a)
    <3>1. j \in 1 .. Len(a) /\ j + 1 \in 1 .. Len(a) /\ j \in 1 .. Len(a) - 1
      BY <1>2, <2>1
    <3>2. QED BY <1>1, <3>1 DEF Adjacent
  <2>2. CASE j = Len(a)
    <3>1. j \in 1 .. Len(a) /\ 1 \in 1 .. Len(b)
      BY <1>1, <1>2, <2>2
    <3>2. s[j] = a[Len(a)] /\ s[j + 1] = b[1] /\ a # << >> /\ b # << >>
      BY <1>1, <1>2, <2>2, <3>1
    <3>3. QED BY <3>2
  <2>3. CASE j > Len(a)
    <3>1. PICK k \in 1 .. Len(b) - 1 : j = Len(a) + k
      <4>1. j - Len(a) \in 1 .. Len(b) - 1 /\ j = Len(a) + (j - Len(a))
        BY <1>1, <1>2, <2>3
      <4>2. QED BY <4>1
    <3>2. k \in 1 .. Len(b) /\ k + 1 \in 1 .. Len(b) /\ j + 1 = Len(a) + (k + 1)
      BY <1>2, <3>1
    <3>3. s[j] = b[k] /\ s[j + 1] = b[k + 1]
      BY <1>1, <3>1, <3>2
    <3>4. QED BY <3>1, <3>3 DEF Adjacent
  <2>4. QED BY <1>1, <1>2, <2>1, <2>2, <2>3
<1>4. QED BY <1>3 DEF Adjacent, s

\* A concatenation ends as its last part does.
LEMMA EndsWholeConcat ==
    ASSUME NEW a \in Seq(Cell), NEW b \in Seq(Cell)
    PROVE  /\ b # << >> => (EndsWhole(a \o b) <=> EndsWhole(b))
           /\ b = << >> => (EndsWhole(a \o b) <=> EndsWhole(a))
<1>1. CASE b = << >>
  BY <1>1, ConcatEmptySeq
<1>2. CASE b # << >>
  <2> DEFINE s == a \o b
  <2>1. /\ s \in Seq(Cell) /\ Len(s) = Len(a) + Len(b)
        /\ \A i \in 1 .. Len(b) : s[Len(a) + i] = b[i]
    BY ConcatElements
  <2>2. Len(a) \in Nat /\ Len(b) \in Nat \ {0}
    BY <1>2, LenProperties, EmptySeq
  <2> HIDE DEF s
  <2>3. s # << >> /\ s[Len(s)] = b[Len(b)]
    BY <2>1, <2>2
  <2>4. EndsWhole(s) <=> EndsWhole(b)
    BY <1>2, <2>1, <2>3, EndsWholeIs
  <2>5. QED BY <1>2, <2>4 DEF s
<1>3. QED BY <1>1, <1>2

\* One cell has no neighbours.
LEMMA SingleAdjacent ==
    ASSUME NEW c \in Cell
    PROVE  << c >> \in Seq(Cell) /\ Adjacent(<< c >>)
BY DEF Adjacent

\* Cells put where a string begins, in place of strings.
LEMMA Splice ==
    ASSUME NEW s \in Seq(Cell), Adjacent(s), NEW i \in 1 .. Len(s), s[i].tag # "rest",
           NEW e \in Nat \ {0}, e <= Len(s) => s[e].tag # "rest",
           NEW c \in Seq(Cell), c # << >>, Adjacent(c), c[1].tag # "rest", Ends(c[Len(c)])
    PROVE  /\ Adjacent(SubSeq(s, 1, i - 1) \o (c \o SubSeq(s, e, Len(s))))
           /\ EndsWhole(s) =>
                 EndsWhole(SubSeq(s, 1, i - 1) \o (c \o SubSeq(s, e, Len(s))))
<1> DEFINE a == SubSeq(s, 1, i - 1)
           b == SubSeq(s, e, Len(s))
           d == c \o b
<1>1. Len(s) \in Nat /\ i \in Nat /\ Len(c) \in Nat \ {0} /\ \A j \in 1 .. Len(s) : s[j] \in Cell
  BY LenProperties, ElementOfSeq, EmptySeq
<1>2. /\ a \in Seq(Cell) /\ Len(a) = i - 1 /\ Adjacent(a)
      /\ \A j \in 1 .. i - 1 : a[j] = s[j]
  <2>1. i - 1 \in 0 .. Len(s) /\ i - 1 \in Nat /\ i - 1 <= Len(s)
    BY <1>1
  <2>2. 1 \in Nat \ {0}
    OBVIOUS
  <2>3. QED BY <2>1, <2>2, SplitAt, AdjacentSub
<1>3. /\ b \in Seq(Cell) /\ Adjacent(b)
      /\ Len(b) = IF e <= Len(s) THEN Len(s) - e + 1 ELSE 0
      /\ \A j \in 1 .. Len(s) - e + 1 : b[j] = s[e + j - 1]
  <2>1. Len(s) <= Len(s)
    BY <1>1
  <2>2. QED BY <1>1, <2>1, SubSeqElements, AdjacentSub
<1>4. b # << >> => e <= Len(s) /\ b[1] = s[e] /\ b[Len(b)] = s[Len(s)] /\ b[1] \in Cell
  <2>1. SUFFICES ASSUME b # << >>
                 PROVE  e <= Len(s) /\ b[1] = s[e] /\ b[Len(b)] = s[Len(s)] /\ b[1] \in Cell
    OBVIOUS
  <2> HIDE DEF b
  <2>2. Len(b) \in Nat \ {0}
    BY <1>3, <2>1, EmptySeq
  <2>3. e <= Len(s)
    BY <1>3, <2>2
  <2>4. 1 \in 1 .. Len(s) - e + 1 /\ Len(b) \in 1 .. Len(s) - e + 1 /\ Len(b) = Len(s) - e + 1
    BY <1>1, <1>3, <2>3
  <2>5. b[1] = s[e + 1 - 1] /\ b[Len(b)] = s[e + Len(b) - 1]
    BY <1>3, <2>4
  <2>6. e + 1 - 1 = e /\ e + Len(b) - 1 = Len(s)
    BY <1>1, <2>3, <2>4
  <2>7. b[1] = s[e] /\ b[Len(b)] = s[Len(s)]
    BY <2>5, <2>6
  <2>8. QED BY <1>1, <2>3, <2>7
<1>5. c[1] \in Cell /\ c[Len(c)] \in Cell
  BY <1>1, ElementOfSeq
<1> HIDE DEF a, b
<1>6. Adjacent(d)
  <2>1. b # << >> => Follows(c[Len(c)], b[1])
    BY <1>4, <1>5, FollowsFacts
  <2>2. QED BY <1>3, <2>1, AdjacentConcat
<1>7. d \in Seq(Cell) /\ d # << >> /\ d[1] = c[1]
  BY <1>1, <1>3, ConcatElements, ConcatEqualIffEmpty
<1> HIDE DEF d
<1>8. a # << >> => Follows(a[Len(a)], d[1])
  <2>1. SUFFICES ASSUME a # << >> PROVE Follows(a[Len(a)], d[1])
    OBVIOUS
  <2>2. PICK j \in 1 .. Len(s) - 1 : j = i - 1
    BY <1>1, <1>2, <2>1, EmptySeq
  <2>3. a[Len(a)] = s[j] /\ s[j + 1] = s[i] /\ j + 1 = i
    BY <1>1, <1>2, <2>2
  <2>4. Follows(s[j], s[j + 1]) /\ s[j] \in Cell /\ s[j + 1] \in Cell
    BY <1>1, <2>2 DEF Adjacent
  <2>5. Ends(s[j])
    BY <2>3, <2>4, FollowsFacts
  <2>6. Follows(s[j], c[1])
    BY <1>5, <2>4, <2>5, FollowsFacts
  <2>7. QED BY <1>7, <2>3, <2>6
<1>9. Adjacent(a \o d)
  BY <1>2, <1>6, <1>7, <1>8, AdjacentConcat
<1>10. ASSUME EndsWhole(s) PROVE EndsWhole(a \o d)
  <2>1. EndsWhole(d)
    <3>1. CASE b = << >>
      <4>1. EndsWhole(c)
        BY EndsWholeIs
      <4>2. QED BY <1>3, <3>1, <4>1, EndsWholeConcat DEF d
    <3>2. CASE b # << >>
      <4>1. EndsWhole(b)
        BY <1>1, <1>3, <1>4, <1>10, <3>2, EndsWholeIs
      <4>2. QED BY <1>3, <3>2, <4>1, EndsWholeConcat DEF d
    <3>3. QED BY <3>1, <3>2
  <2>2. QED BY <1>2, <1>7, <2>1, EndsWholeConcat
<1>11. QED BY <1>9, <1>10 DEF a, b, d

\* A value is written as one whole string.
LEMMA CellsAdjacent ==
    ASSUME NEW v \in Values
    PROVE  /\ Cells(v) \in Seq(Cell) /\ Cells(v) # << >> /\ Adjacent(Cells(v))
           /\ Cells(v)[1] = Item(v) /\ Ends(Cells(v)[Len(Cells(v))])
<1>1. Item(v).tag = "item" /\ Item(v).value = v
  BY CellFacts
<1>2. CASE v \in InTwoCells
  <2>1. Cells(v) = << Item(v), RestOf(v) >> /\ Cells(v) \in Seq(Cell)
    BY <1>2, CellsType
  <2>2. RestOf(v).tag = "rest"
    BY <1>2, CellFacts
  <2> DEFINE i == Item(v)
             r == RestOf(v)
             q == Cells(v)
  <2>3. q = << i, r >> /\ q \in Seq(Cell) /\ Follows(i, r) /\ Ends(r)
    BY <1>1, <1>2, <2>1, <2>2 DEF Follows, Ends
  <2> HIDE DEF i, r, q
  <2>4. Len(q) = 2 /\ q[1] = i /\ q[2] = r /\ q # << >>
    BY <2>3
  <2>5. \A j \in 1 .. Len(q) - 1 : Follows(q[j], q[j + 1])
    BY <2>3, <2>4
  <2>6. QED BY <2>3, <2>4, <2>5 DEF Adjacent, i, q
<1>3. CASE v \notin InTwoCells
  <2>1. Cells(v) = << Item(v) >> /\ Item(v) \in Cell
    BY <1>3, CellsType, CellFacts
  <2>2. Ends(Item(v))
    BY <1>1, <1>3 DEF Ends
  <2> DEFINE i == Item(v)
  <2>3. Cells(v) = << i >> /\ i \in Cell /\ Ends(i)
    BY <2>1, <2>2
  <2> HIDE DEF i
  <2>4. << i >> \in Seq(Cell) /\ Adjacent(<< i >>) /\ Len(<< i >>) = 1 /\ << i >>[1] = i /\ << i >> # << >>
    BY <2>3, SingleAdjacent
  <2>5. QED BY <2>3, <2>4 DEF i
<1>4. QED BY <1>2, <1>3

\* Values are written as whole strings.
LEMMA CellsOfAdjacent ==
    ASSUME NEW vs \in Seq(Values)
    PROVE  /\ Adjacent(CellsOf(vs)) /\ EndsWhole(CellsOf(vs))
           /\ CellsOf(vs) # << >> => CellsOf(vs)[1].tag = "item"
<1> DEFINE Good(p) == /\ Adjacent(p) /\ EndsWhole(p)
                      /\ p # << >> => p[1].tag = "item"
           T == {ws \in Seq(Values) : Good(CellsOf(ws))}
<1>1. << >> \in T
  <2>1. Good(<< >>)
    BY DEF Adjacent, EndsWhole
  <2>2. QED BY <2>1, CellsOfEmpty, EmptySeq
<1>2. ASSUME NEW ws \in Seq(Values), NEW v \in Values, ws \in T PROVE Append(ws, v) \in T
  <2> DEFINE p == CellsOf(ws)
             c == Cells(v)
  <2>1. /\ p \in Seq(Cell) /\ CellsOf(Append(ws, v)) = p \o c /\ Append(ws, v) \in Seq(Values)
    BY CellsOfType, CellsOfAppend, AppendProperties
  <2>2. Good(p)
    BY <1>2
  <2>3. /\ c \in Seq(Cell) /\ c # << >> /\ Adjacent(c) /\ c[1].tag = "item" /\ Ends(c[Len(c)])
        /\ c[1] \in Cell
    <3>1. /\ c \in Seq(Cell) /\ c # << >> /\ Adjacent(c)
          /\ c[1] = Item(v) /\ Ends(c[Len(c)])
      BY CellsAdjacent
    <3>2. Item(v).tag = "item" /\ Item(v) \in Cell
      BY CellFacts
    <3> HIDE DEF c
    <3>3. QED BY <3>1, <3>2
  <2> HIDE DEF p, c
  <2>4. p # << >> => Follows(p[Len(p)], c[1])
    <3>1. SUFFICES ASSUME p # << >> PROVE Follows(p[Len(p)], c[1])
      OBVIOUS
    <3>2. Len(p) \in 1 .. Len(p)
      BY <2>1, <3>1, EmptySeq
    <3>3. p[Len(p)] \in Cell
      BY <2>1, <3>2, ElementOfSeq
    <3>4. Ends(p[Len(p)])
      BY <2>1, <2>2, <3>1, EndsWholeIs
    <3>5. c[1].tag # "rest"
      BY <2>3
    <3>6. QED BY <2>3, <3>3, <3>4, <3>5, FollowsFacts
  <2>5. Adjacent(p \o c)
    BY <2>1, <2>2, <2>3, <2>4, AdjacentConcat
  <2>6. EndsWhole(p \o c)
    BY <2>1, <2>3, EndsWholeIs, EndsWholeConcat
  <2>7. (p \o c)[1].tag = "item"
    <3>1. CASE p = << >>
      BY <2>3, <3>1, ConcatEmptySeq
    <3>2. CASE p # << >>
      <4>1. 1 \in 1 .. Len(p)
        BY <2>1, <3>2, EmptySeq
      <4>2. QED BY <2>1, <2>2, <2>3, <3>2, <4>1, ConcatElements
    <3>3. QED BY <3>1, <3>2
  <2>8. QED BY <2>1, <2>5, <2>6, <2>7
<1>3. Seq(Values) \subseteq T
  <2> HIDE DEF T
  <2> QED BY <1>1, <1>2, SequenceInduction
<1>4. QED BY <1>3

\* A frame is a header and whole strings.
LEMMA FrameAdjacent ==
    ASSUME NEW t \in Txs
    PROVE  /\ Frame(t) \in Seq(Cell) /\ Frame(t) # << >>
           /\ Adjacent(Frame(t)) /\ EndsWhole(Frame(t)) /\ Frame(t)[1].tag = "list"
<1> DEFINE vs == FieldValues(t)
           p == CellsOf(vs)
           h == ListHeader(Len(p))
<1>1. vs \in Seq(Values)
  BY FieldValuesFacts
<1>2. /\ p \in Seq(Cell) /\ h \in Cell /\ Frame(t) = << h >> \o p
      /\ Frame(t) \in Seq(Cell) /\ Frame(t) # << >>
  BY FrameType
<1>3. h.tag = "list"
  BY <1>2, LenProperties, CellFacts
<1>4. Adjacent(p) /\ EndsWhole(p) /\ (p # << >> => p[1].tag = "item")
  <2> HIDE DEF vs
  <2> QED BY <1>1, CellsOfAdjacent
<1> HIDE DEF p, h
<1>5. << h >> \in Seq(Cell) /\ Adjacent(<< h >>) /\ Len(<< h >>) = 1 /\ << h >>[1] = h /\ << h >> # << >>
  BY <1>2, SingleAdjacent
<1>6. Ends(h)
  BY <1>2, <1>3, FollowsFacts
<1> DEFINE g == << h >>
<1>7. g \in Seq(Cell) /\ Adjacent(g) /\ Len(g) = 1 /\ g[1] = h /\ g # << >> /\ Frame(t) = g \o p
  BY <1>2, <1>5
<1> HIDE DEF g
<1>8. p # << >> => Follows(g[Len(g)], p[1])
  <2>1. SUFFICES ASSUME p # << >> PROVE Follows(h, p[1])
    BY <1>7
  <2>2. p[1] \in Cell
    BY <1>2, <2>1, HeadAndTail
  <2>3. p[1].tag # "rest"
    BY <1>4, <2>1
  <2>4. QED BY <1>2, <1>6, <2>2, <2>3, FollowsFacts
<1>9. Adjacent(g \o p)
  BY <1>2, <1>4, <1>7, <1>8, AdjacentConcat
<1>10. EndsWhole(g)
  BY <1>6, <1>7, EndsWholeIs
<1>11. EndsWhole(g \o p)
  BY <1>2, <1>4, <1>7, <1>10, EndsWholeConcat
<1>12. (g \o p)[1] = h
  BY <1>2, <1>7, ConcatElements
<1>13. QED BY <1>2, <1>3, <1>7, <1>9, <1>11, <1>12

\* A frame goes behind whole strings.
LEMMA WellCelledSend ==
    ASSUME Inv, WellCelled, NEW t \in Txs, Send(t)
    PROVE  WellCelled'
<1>1. stream \in Seq(Cell)
  BY DEF Inv, TypeOK
<1>2. open /\ open' = open /\ stream' = stream \o Frame(t)
  BY DEF Send
<1> DEFINE f == Frame(t)
<1>3. /\ f \in Seq(Cell) /\ f # << >> /\ Adjacent(f) /\ EndsWhole(f) /\ f[1].tag = "list"
  BY FrameAdjacent
<1> HIDE DEF f
<1>4. stream # << >> => Follows(stream[Len(stream)], f[1])
  <2>1. SUFFICES ASSUME stream # << >> PROVE Follows(stream[Len(stream)], f[1])
    OBVIOUS
  <2>2. Len(stream) \in 1 .. Len(stream)
    BY <1>1, <2>1, EmptySeq
  <2>3. stream[Len(stream)] \in Cell /\ f[1] \in Cell
    BY <1>1, <1>3, <2>2, ElementOfSeq, HeadAndTail
  <2>4. Ends(stream[Len(stream)])
    BY <1>1, <1>2, <2>1, EndsWholeIs DEF WellCelled
  <2>5. f[1].tag # "rest"
    BY <1>3
  <2>6. QED BY <2>3, <2>4, <2>5, FollowsFacts
<1>5. Adjacent(stream \o f)
  BY <1>1, <1>3, <1>4, AdjacentConcat DEF WellCelled
<1>6. EndsWhole(stream \o f)
  BY <1>1, <1>3, EndsWholeConcat
<1>7. QED BY <1>2, <1>5, <1>6 DEF WellCelled, f

\* An end of a sequence is as whole as the sequence.
LEMMA SuffixWhole ==
    ASSUME NEW s \in Seq(Cell), NEW m \in Nat \ {0}
    PROVE  /\ SubSeq(s, m, Len(s)) \in Seq(Cell)
           /\ Adjacent(s) => Adjacent(SubSeq(s, m, Len(s)))
           /\ EndsWhole(s) => EndsWhole(SubSeq(s, m, Len(s)))
<1> DEFINE q == SubSeq(s, m, Len(s))
<1>1. Len(s) \in Nat /\ Len(s) <= Len(s)
  BY LenProperties
<1>2. /\ q \in Seq(Cell) /\ (Adjacent(s) => Adjacent(q))
      /\ Len(q) = IF m <= Len(s) THEN Len(s) - m + 1 ELSE 0
      /\ \A i \in 1 .. Len(s) - m + 1 : q[i] = s[m + i - 1]
  BY <1>1, SubSeqElements, AdjacentSub
<1> HIDE DEF q
<1>3. ASSUME EndsWhole(s), q # << >> PROVE EndsWhole(q)
  <2>1. Len(q) \in Nat \ {0}
    BY <1>2, <1>3, EmptySeq
  <2>2. m <= Len(s) /\ Len(q) = Len(s) - m + 1
    BY <1>2, <2>1
  <2>3. Len(q) \in 1 .. Len(s) - m + 1
    BY <2>1, <2>2
  <2>4. q[Len(q)] = s[m + Len(q) - 1]
    BY <1>2, <2>3
  <2>5. m + Len(q) - 1 = Len(s)
    BY <1>1, <2>2
  <2>6. s # << >>
    BY <1>1, <2>2
  <2>7. QED BY <1>2, <1>3, <2>4, <2>5, <2>6, EndsWholeIs
<1>4. q = << >> => EndsWhole(q)
  BY DEF EndsWhole
<1>5. QED BY <1>2, <1>3, <1>4 DEF q

\* Decoding leaves an end of the buffer.
LEMMA DecodeRest ==
    ASSUME NEW s \in Seq(Cell), s # << >>
    PROVE  \E m \in Nat \ {0} : Decode(s).rest = SubSeq(s, m, Len(s))
<1>1. Head(s) \in Cell /\ Len(s) \in Nat
  BY HeadAndTail
<1>2. s = SubSeq(s, 1, Len(s)) /\ Tail(s) = SubSeq(s, 2, Len(s))
  <2>1. Tail(s) = SubSeq(s, 2, Len(s))
    BY TailIsSubSeq
  <2>2. SubSeq(s, 1, Len(s)) = s
    BY SubSeqFull
  <2>3. QED BY <2>1, <2>2
<1>3. CASE Head(s).tag = "list" /\ Head(s).len < Len(s)
            /\ DecodePayload(SubSeq(s, 2, Head(s).len + 1)) # None
  <2>1. Decode(s).rest = SubSeq(s, Head(s).len + 2, Len(s))
    BY <1>3 DEF Decode
  <2>2. Head(s).len + 2 \in Nat \ {0}
    <3>1. Head(s).len \in Nat
      BY <1>1, <1>3, CellCases
    <3>2. QED BY <3>1
  <2>3. QED BY <2>1, <2>2
<1>4. CASE ~(Head(s).tag = "list" /\ Head(s).len < Len(s)
              /\ DecodePayload(SubSeq(s, 2, Head(s).len + 1)) # None)
  <2>1. Decode(s).rest = AfterError(s)
    BY <1>4 DEF Decode
  <2>2. AfterError(s) = s \/ AfterError(s) = Tail(s)
    BY DEF AfterError
  <2>3. CASE AfterError(s) = s
    <3>1. Decode(s).rest = SubSeq(s, 1, Len(s))
      BY <1>2, <2>1, <2>3
    <3>2. 1 \in Nat \ {0}
      OBVIOUS
    <3>3. QED BY <3>1, <3>2
  <2>4. CASE AfterError(s) = Tail(s)
    <3>1. Decode(s).rest = SubSeq(s, 2, Len(s))
      BY <1>2, <2>1, <2>4
    <3>2. 2 \in Nat \ {0}
      OBVIOUS
    <3>3. QED BY <3>1, <3>2
  <2>5. QED BY <2>2, <2>3, <2>4
<1>5. QED BY <1>3, <1>4

\* Receiving leaves whole strings.
LEMMA WellCelledReceive ==
    ASSUME Inv, WellCelled, Receive
    PROVE  WellCelled'
<1>1. stream \in Seq(Cell) /\ stream # << >> /\ stream' = Decode(stream).rest /\ open' = open
  BY DEF Inv, TypeOK, Receive
<1>2. PICK m \in Nat \ {0} : Decode(stream).rest = SubSeq(stream, m, Len(stream))
  BY <1>1, DecodeRest
<1>3. QED BY <1>1, <1>2, SuffixWhole DEF WellCelled

\* A loss may cut a string, and nothing is written after it.
LEMMA WellCelledCut ==
    ASSUME Inv, WellCelled, NEW i \in DOMAIN stream, Cut(i)
    PROVE  WellCelled'
<1>1. stream \in Seq(Cell) /\ i \in 1 .. Len(stream) /\ Len(stream) \in Nat
  BY LenProperties DEF Inv, TypeOK
<1>2. open' = FALSE /\ stream' = SubSeq(stream, 1, i - 1) \o << >>
  BY DEF Cut, Alter
<1> DEFINE q == SubSeq(stream, 1, i - 1)
<1>3. q \in Seq(Cell) /\ Adjacent(q)
  <2>1. i - 1 \in Nat /\ i - 1 <= Len(stream) /\ 1 \in Nat \ {0}
    BY <1>1
  <2>2. QED BY <1>1, <2>1, SubSeqElements, AdjacentSub DEF WellCelled
<1>4. stream' = q
  <2>1. q \o << >> = q
    BY <1>3, ConcatEmptySeq
  <2>2. QED BY <1>2, <2>1
<1>5. QED BY <1>2, <1>3, <1>4 DEF WellCelled

\* A header is a whole string.
HeaderWhole(len) ==
    LET c == << ListHeader(len) >>
    IN  c \in Seq(Cell) /\ c # << >> /\ Adjacent(c) /\ c[1].tag # "rest" /\ Ends(c[Len(c)])

\* A header stands for itself.
LEMMA HeaderIsWhole ==
    ASSUME NEW len \in Nat
    PROVE  HeaderWhole(len)
<1> DEFINE h == ListHeader(len)
<1>1. h \in Cell /\ h.tag = "list"
  BY CellFacts
<1>2. Ends(h)
  BY <1>1, FollowsFacts
<1> HIDE DEF h
<1>3. << h >> \in Seq(Cell) /\ Adjacent(<< h >>) /\ << h >> # << >> /\ << h >>[1] = h /\ Len(<< h >>) = 1
  BY <1>1, SingleAdjacent
<1>4. QED BY <1>1, <1>2, <1>3 DEF HeaderWhole, h

\* The beginnings of what an alteration puts in.
LEMMA NewItemsWhole ==
    ASSUME NEW c \in NewItems
    PROVE  /\ c \in Seq(Cell) /\ c # << >> /\ Adjacent(c)
           /\ c[1].tag # "rest" /\ Ends(c[Len(c)])
<1>1. CASE c = << ListHeader(0) >>
  <2>1. HeaderWhole(0)
    BY HeaderIsWhole
  <2>2. QED BY <1>1, <2>1 DEF HeaderWhole
<1>2. CASE \E v \in Values : c = Cells(v)
  <2>1. PICK v \in Values : c = Cells(v)
    BY <1>2
  <2>2. Item(v).tag = "item"
    BY CellFacts
  <2>3. QED BY <2>1, <2>2, CellsAdjacent
<1>3. QED BY <1>1, <1>2 DEF NewItems

\* Alterations put whole strings where strings begin.
LEMMA WellCelledAltering ==
    ASSUME Inv, WellCelled, Altering
    PROVE  WellCelled'
<1>1. stream \in Seq(Cell) /\ Adjacent(stream) /\ (open => EndsWhole(stream))
  BY DEF Inv, TypeOK, WellCelled
<1>2. open' = open
  BY <1>1, AlteringAlters
<1>3. PICK i \in DOMAIN stream :
        \/ \E cells \in NewItems : Replace(i, cells)
        \/ \E cells \in NewItems : Insert(i, cells)
        \/ \E d \in 1 .. 2 : SetLength(i, stream[i].len + d)
        \/ \E d \in 1 .. 2 : stream[i].len >= d /\ SetLength(i, stream[i].len - d)
  BY DEF Altering
<1>4. i \in 1 .. Len(stream) /\ Len(stream) \in Nat /\ \A j \in 1 .. Len(stream) : stream[j] \in Cell
  BY <1>1, LenProperties, ElementOfSeq
<1>5. stream[i] \in Cell
  BY <1>4
\* What stands after cell i, when it is the last of its string.
<1>6. ASSUME NEW j \in 1 .. Len(stream), Ends(stream[j]), j + 1 <= Len(stream)
      PROVE  stream[j + 1].tag # "rest"
  <2>1. j \in 1 .. Len(stream) - 1 /\ j + 1 \in 1 .. Len(stream)
    BY <1>4, <1>6
  <2>2. Follows(stream[j], stream[j + 1]) /\ stream[j] \in Cell /\ stream[j + 1] \in Cell
    BY <1>1, <1>4, <2>1 DEF Adjacent
  <2>3. QED BY <1>6, <2>2, FollowsFacts
<1>7. ASSUME NEW e \in Nat \ {0}, NEW c, stream[i].tag # "rest",
             e <= Len(stream) => stream[e].tag # "rest",
             c \in Seq(Cell) /\ c # << >> /\ Adjacent(c) /\ c[1].tag # "rest" /\ Ends(c[Len(c)]),
             Alter(i, c \o SubSeq(stream, e, Len(stream)))
      PROVE  WellCelled'
  <2>1. stream' = SubSeq(stream, 1, i - 1) \o (c \o SubSeq(stream, e, Len(stream)))
    BY <1>7 DEF Alter
  <2>2. /\ Adjacent(stream')
        /\ EndsWhole(stream) => EndsWhole(stream')
    BY <1>1, <1>4, <1>7, <2>1, Splice
  <2>3. QED BY <1>1, <1>2, <2>2 DEF WellCelled
<1>8. ASSUME NEW c \in NewItems, Replace(i, c) PROVE WellCelled'
  <2>1. stream[i].tag = "item" /\ Alter(i, c \o SubSeq(stream, ItemEnd(i), Len(stream)))
    BY <1>8 DEF Replace
  <2>2. ItemEnd(i) \in Nat \ {0}
    BY <1>4 DEF ItemEnd
  <2>3. ASSUME ItemEnd(i) <= Len(stream) PROVE stream[ItemEnd(i)].tag # "rest"
    <3>1. CASE stream[i].value \in InTwoCells
      <4>1. ItemEnd(i) = i + 2 /\ i + 1 \in 1 .. Len(stream) /\ i \in 1 .. Len(stream) - 1
        BY <1>4, <2>3, <3>1 DEF ItemEnd
      <4>2. stream[i + 1] = RestOf(stream[i].value)
        BY <1>1, <2>1, <3>1, <4>1 DEF Adjacent, Follows
      <4>3. Ends(stream[i + 1])
        <5>1. RestOf(stream[i].value).tag = "rest"
          BY <3>1, CellFacts
        <5>2. stream[i + 1].tag = "rest"
          BY <4>2, <5>1
        <5>3. QED BY <5>2 DEF Ends
      <4>4. (i + 1) + 1 <= Len(stream)
        BY <1>4, <2>3, <4>1
      <4>5. stream[(i + 1) + 1].tag # "rest"
        BY <1>6, <4>1, <4>3, <4>4
      <4>6. (i + 1) + 1 = ItemEnd(i)
        BY <1>4, <4>1
      <4>7. QED BY <4>5, <4>6
    <3>2. CASE stream[i].value \notin InTwoCells
      <4>1. ItemEnd(i) = i + 1 /\ Ends(stream[i])
        BY <3>2 DEF ItemEnd, Ends
      <4>2. QED BY <1>4, <1>6, <2>3, <4>1
    <3>3. QED BY <3>1, <3>2
  <2>4. c \in Seq(Cell) /\ c # << >> /\ Adjacent(c) /\ c[1].tag # "rest" /\ Ends(c[Len(c)])
    BY NewItemsWhole
  <2>5. stream[i].tag # "rest"
    BY <2>1
  <2> DEFINE e == ItemEnd(i)
  <2>6. e \in Nat \ {0} /\ (e <= Len(stream) => stream[e].tag # "rest") /\ Alter(i, c \o SubSeq(stream, e, Len(stream)))
    BY <2>1, <2>2, <2>3
  <2> HIDE DEF e
  <2>7. QED BY <1>7, <2>4, <2>5, <2>6
<1>9. ASSUME NEW c \in NewItems, Insert(i, c) PROVE WellCelled'
  <2>1. stream[i].tag # "rest" /\ Alter(i, c \o SubSeq(stream, i, Len(stream)))
    BY <1>9 DEF Insert
  <2>2. c \in Seq(Cell) /\ c # << >> /\ Adjacent(c) /\ c[1].tag # "rest" /\ Ends(c[Len(c)])
    BY NewItemsWhole
  <2>3. i \in Nat \ {0}
    BY <1>4
  <2>4. QED BY <1>7, <2>1, <2>2, <2>3
<1>10. ASSUME NEW len \in Nat, SetLength(i, len) PROVE WellCelled'
  <2>1. stream[i].tag = "list" /\ Alter(i, << ListHeader(len) >> \o SubSeq(stream, i + 1, Len(stream)))
    BY <1>10 DEF SetLength
  <2>2. HeaderWhole(len)
    BY HeaderIsWhole
  <2>3. i + 1 \in Nat \ {0} /\ stream[i].tag # "rest" /\ Ends(stream[i])
    BY <1>4, <1>5, <2>1, FollowsFacts
  <2>4. i + 1 <= Len(stream) => stream[i + 1].tag # "rest"
    BY <1>4, <1>6, <2>3
  <2> DEFINE c == << ListHeader(len) >>
             e == i + 1
  <2>5. /\ c \in Seq(Cell) /\ c # << >> /\ Adjacent(c) /\ c[1].tag # "rest" /\ Ends(c[Len(c)])
    BY <2>2 DEF HeaderWhole
  <2>6. e \in Nat \ {0} /\ (e <= Len(stream) => stream[e].tag # "rest") /\ Alter(i, c \o SubSeq(stream, e, Len(stream)))
    BY <2>1, <2>3, <2>4
  <2> HIDE DEF c, e
  <2>7. QED BY <1>7, <2>3, <2>5, <2>6
<1>11. ASSUME NEW d \in 1 .. 2, SetLength(i, stream[i].len + d) PROVE WellCelled'
  <2>1. stream[i].len \in Nat
    BY <1>5, <1>11, CellCases DEF SetLength
  <2>2. stream[i].len + d \in Nat
    BY <2>1
  <2>3. QED BY <1>10, <1>11, <2>2
<1>12. ASSUME NEW d \in 1 .. 2, stream[i].len >= d, SetLength(i, stream[i].len - d) PROVE WellCelled'
  <2>1. stream[i].len \in Nat
    BY <1>5, <1>12, CellCases DEF SetLength
  <2>2. stream[i].len - d \in Nat
    BY <1>12, <2>1
  <2>3. QED BY <1>10, <1>12, <2>2
<1>13. QED BY <1>3, <1>8, <1>9, <1>11, <1>12

(* No call and no alteration takes a string apart, and a loss only the     *)
(* last one: the first cell of a long string is followed by its rest       *)
(* (rlp.rs, encode and the cursor of decode, on Err too).                  *)
THEOREM WellCelledHolds == Spec => []WellCelled
<1>1. Init => WellCelled
  BY DEF Init, WellCelled, Adjacent, EndsWhole
<1>2. Inv /\ WellCelled /\ [Next]_vars => WellCelled'
  <2>1. SUFFICES ASSUME Inv, WellCelled, [Next]_vars PROVE WellCelled'
    OBVIOUS
  <2>2. CASE \E t \in Txs : Send(t)
    BY <2>1, <2>2, WellCelledSend
  <2>3. CASE Receive
    BY <2>1, <2>3, WellCelledReceive
  <2>4. CASE \E i \in DOMAIN stream : Cut(i)
    BY <2>1, <2>4, WellCelledCut
  <2>5. CASE Altering
    BY <2>1, <2>5, WellCelledAltering
  <2>6. CASE UNCHANGED vars
    BY <2>1, <2>6 DEF vars, WellCelled
  <2>7. QED BY <2>1, <2>2, <2>3, <2>4, <2>5, <2>6, NextCases
<1>3. QED BY <1>1, <1>2, InvHolds, PTL DEF Spec

---------------------------------------------------------------------------
(* Bytes that decode are an encoding.                                      *)

\* The values of the strings of a payload that has no list in it.
Names(p, vs) == Len(Strings(p)) = Len(vs) /\ \A i \in 1 .. Len(vs) : Strings(p)[i] = Item(vs[i])

\* The payload with the rest of its last string.
Completed(p) == IF EndsWhole(p) THEN p ELSE Append(p, RestOf(Last(p).value))

\* The payload begins where a string begins.
Begins(p) == p # << >> => p[1].tag # "rest"

\* A payload without its last cell.
LEMMA AppendPrefix ==
    ASSUME NEW p \in Seq(Cell), NEW c \in Cell, Adjacent(Append(p, c)), Begins(Append(p, c))
    PROVE  /\ Adjacent(p) /\ Begins(p)
           /\ p # << >> => /\ Follows(p[Len(p)], c) /\ p[Len(p)] \in Cell /\ Last(p) = p[Len(p)]
           /\ p = << >> => c.tag # "rest"
<1> DEFINE q == Append(p, c)
<1>1. /\ q \in Seq(Cell) /\ q # << >> /\ Len(q) = Len(p) + 1 /\ q[Len(p) + 1] = c
      /\ \A i \in 1 .. Len(p) : q[i] = p[i]
  BY AppendProperties
<1>2. Adjacent(q) /\ Begins(q) /\ Len(p) \in Nat
  BY LenProperties
<1> HIDE DEF q
<1>3. Adjacent(p)
  <2>1. ASSUME NEW j \in 1 .. Len(p) - 1 PROVE Follows(p[j], p[j + 1])
    <3>1. j \in 1 .. Len(q) - 1 /\ j \in 1 .. Len(p) /\ j + 1 \in 1 .. Len(p)
      BY <1>1, <1>2
    <3>2. Follows(q[j], q[j + 1])
      BY <1>2, <3>1 DEF Adjacent
    <3>3. QED BY <1>1, <3>1, <3>2
  <2>2. QED BY <2>1 DEF Adjacent
<1>4. CASE p = << >>
  <2>1. Len(p) = 0
    BY <1>4
  <2>2. q[1] = c
    BY <1>1, <2>1
  <2>3. c.tag # "rest"
    BY <1>1, <1>2, <2>2 DEF Begins
  <2>4. QED BY <1>3, <1>4, <2>3 DEF Begins
<1>5. CASE p # << >>
  <2>1. Len(p) \in 1 .. Len(p) /\ 1 \in 1 .. Len(p) /\ Len(p) \in 1 .. Len(q) - 1
    BY <1>1, <1>5, EmptySeq
  <2>2. p[Len(p)] \in Cell
    BY <2>1, ElementOfSeq
  <2>3. Follows(q[Len(p)], q[Len(p) + 1])
    BY <1>2, <2>1 DEF Adjacent
  <2>4. Follows(p[Len(p)], c)
    BY <1>1, <2>1, <2>3
  <2>5. p[1].tag # "rest"
    BY <1>1, <1>2, <2>1 DEF Begins
  <2>6. QED BY <1>3, <1>5, <2>2, <2>4, <2>5 DEF Begins, Last
<1>6. QED BY <1>4, <1>5

\* A payload of whole strings is the encoding of the values that they have; by
\* induction, where the last string may lack its rest.
LEMMA PayloadIsCells ==
    ASSUME NEW p \in Seq(Cell), Adjacent(p), Begins(p),
           NEW vs \in Seq(Values), Names(p, vs)
    PROVE  Completed(p) = CellsOf(vs)
<1> DEFINE Good(q) == Adjacent(q) /\ Begins(q) =>
                        \A ws \in Seq(Values) : Names(q, ws) => Completed(q) = CellsOf(ws)
           T == {q \in Seq(Cell) : Good(q)}
<1>1. << >> \in T
  <2>1. ASSUME NEW ws \in Seq(Values), Names(<< >>, ws) PROVE Completed(<< >>) = CellsOf(ws)
    <3>1. Len(ws) = 0
      BY <2>1, StringsEmpty DEF Names
    <3>2. ws = << >>
      BY <3>1, EmptySeq
    <3>3. QED BY <3>2, CellsOfEmpty DEF Completed, EndsWhole
  <2>2. Good(<< >>)
    BY <2>1
  <2>3. QED BY <2>2, EmptySeq
<1>2. ASSUME NEW q \in Seq(Cell), NEW c \in Cell, q \in T PROVE Append(q, c) \in T
  <2> DEFINE u == Append(q, c)
  <2>1. u \in Seq(Cell) /\ u # << >> /\ Last(u) = c
    BY AppendLast
  <2>2. SUFFICES ASSUME Adjacent(u), Begins(u), NEW ws \in Seq(Values), Names(u, ws)
                 PROVE  Completed(u) = CellsOf(ws)
    BY <2>1
  <2>3. /\ Adjacent(q) /\ Begins(q)
        /\ q # << >> => /\ Follows(q[Len(q)], c) /\ q[Len(q)] \in Cell /\ Last(q) = q[Len(q)]
        /\ q = << >> => c.tag # "rest"
    BY <2>2, AppendPrefix
  <2>4. \A xs \in Seq(Values) : Names(q, xs) => Completed(q) = CellsOf(xs)
    BY <1>2, <2>3
  <2>5. Strings(u) = IF c.tag = "rest" THEN Strings(q) ELSE Append(Strings(q), c)
    BY StringsAppend
  <2> HIDE DEF T, Good
  <2>6. CASE c.tag = "rest"
    <3>1. Names(q, ws)
      BY <2>2, <2>5, <2>6 DEF Names
    <3>2. q # << >> /\ ~Ends(q[Len(q)]) /\ c = RestOf(q[Len(q)].value)
      BY <2>3, <2>6, FollowsFacts
    <3>3. ~EndsWhole(q)
      BY <3>2, EndsWholeIs
    <3>4. Completed(q) = u
      BY <2>3, <3>2, <3>3 DEF Completed
    <3>5. EndsWhole(u)
      BY <2>1, <2>6 DEF EndsWhole
    <3>6. Completed(u) = u
      BY <3>5 DEF Completed
    <3>7. QED BY <2>4, <3>1, <3>4, <3>6
  <2>7. CASE c.tag # "rest"
    <3> DEFINE m == Len(Strings(q))
               xs == SubSeq(ws, 1, m)
    <3>1. Strings(q) \in Seq(Cell)
      BY StringsType
    <3>2. Strings(u) = Append(Strings(q), c)
      BY <2>5, <2>7
    <3>3. /\ Len(Strings(u)) = m + 1 /\ Strings(u)[m + 1] = c /\ m \in Nat
          /\ \A i \in 1 .. m : Strings(u)[i] = Strings(q)[i]
      BY <3>1, <3>2, AppendProperties, LenProperties
    <3> HIDE DEF m
    <3>4. /\ Len(ws) = m + 1 /\ c = Item(ws[m + 1])
          /\ \A i \in 1 .. m : Strings(q)[i] = Item(ws[i])
      BY <2>2, <3>3 DEF Names
    <3>5. m + 1 \in 1 .. Len(ws) /\ m \in 0 .. Len(ws)
      BY <3>3, <3>4
    <3>6. PICK v \in Values : v = ws[m + 1]
      BY <3>5, ElementOfSeq
    <3>7. xs \in Seq(Values) /\ Len(xs) = m /\ \A i \in 1 .. m : xs[i] = ws[i]
      BY <3>5, SplitAt
    <3> HIDE DEF xs
    <3>8. ws = Append(xs, v)
      <4> DEFINE ys == Append(xs, v)
      <4>1. /\ ys \in Seq(Values) /\ Len(ys) = m + 1 /\ ys[m + 1] = v
            /\ \A i \in 1 .. m : ys[i] = xs[i]
        BY <3>7, AppendProperties
      <4> HIDE DEF ys
      <4>2. \A i \in 1 .. Len(ws) : ws[i] = ys[i]
        BY <3>3, <3>4, <3>6, <3>7, <4>1
      <4>3. ws = ys
        BY <3>4, <4>1, <4>2, SeqEqual
      <4>4. QED BY <4>3 DEF ys
    <3>9. Names(q, xs)
      BY <3>4, <3>7 DEF Names, m
    <3>10. EndsWhole(q)
      <4>1. CASE q = << >>
        BY <4>1 DEF EndsWhole
      <4>2. CASE q # << >>
        <5>1. Ends(q[Len(q)])
          BY <2>3, <2>7, <4>2, FollowsFacts
        <5>2. QED BY <4>2, <5>1, EndsWholeIs
      <4>3. QED BY <4>1, <4>2
    <3>11. q = CellsOf(xs)
      BY <2>4, <3>7, <3>9, <3>10 DEF Completed
    <3>12. CellsOf(ws) = q \o Cells(v)
      BY <3>7, <3>8, <3>11, CellsOfAppend
    <3> DEFINE i == Item(v)
               r == RestOf(v)
    <3>13. i \in Cell /\ i.tag = "item" /\ i.value = v /\ c = i
      BY <3>4, <3>6, CellFacts
    <3>14. /\ v \in InTwoCells => Cells(v) = << i, r >>
           /\ v \notin InTwoCells => Cells(v) = << i >>
      BY CellsType
    <3>15. CASE v \notin InTwoCells
      <4> HIDE DEF i, u
      <4>1. EndsWhole(u)
        BY <2>1, <3>13, <3>15 DEF EndsWhole
      <4>2. u = q \o << i >>
        BY <3>13, AppendIsConcat DEF u
      <4>3. CellsOf(ws) = q \o << i >>
        BY <3>12, <3>14, <3>15
      <4>4. QED BY <4>1, <4>2, <4>3 DEF Completed
    <3>16. CASE v \in InTwoCells
      <4>1. r \in Cell
        BY <3>16, CellFacts
      <4> HIDE DEF i, u
      <4>2. ~EndsWhole(u)
        BY <2>1, <3>13, <3>16 DEF EndsWhole
      <4>3. Completed(u) = Append(u, r)
        BY <2>1, <3>13, <4>2 DEF Completed
      <4> HIDE DEF r
      <4>4. q \o << i, r >> = Append(Append(q, i), r)
        BY <3>13, <4>1, AppendTwo
      <4>5. u = Append(q, i)
        BY <3>13 DEF u
      <4>6. QED BY <3>12, <3>14, <3>16, <4>3, <4>4, <4>5
    <3>17. QED BY <3>15, <3>16
  <2>8. QED BY <2>6, <2>7
<1>3. Seq(Cell) \subseteq T
  <2> HIDE DEF T
  <2> QED BY <1>1, <1>2, SequenceInduction
<1>4. QED BY <1>3

\* The transaction that decoding builds from the values of the fields.
TxOf(vs) ==
    LET body == [i \in 1 .. 8 |-> vs[i]]
    IN  IF Len(vs) = 8 THEN Tx(body, None, None, None, None, None)
        ELSE Tx(body, Some(vs[9]), Some(vs[10]), Some(vs[11]), Some(vs[12]),
                IF Len(vs) = 12 THEN None ELSE Some(vs[13]) \ {"empty"})

\* A payload that decodes has 8, 12 or 13 values, of which the transaction is
\* built.
LEMMA DecodedValues ==
    ASSUME NEW p \in Seq(Cell), DecodePayload(p) # None
    PROVE  /\ EndsWhole(p)
           /\ \E vs \in Seq(Values) : /\ Names(p, vs) /\ Len(vs) \in {8, 12, 13}
                                      /\ DecodePayload(p) = Some(TxOf(vs))
<1> DEFINE items == Strings(p)
           n == Len(items)
           vs == [i \in 1 .. n |-> items[i].value]
           field(i) == Some(items[i].value)
           body == [i \in 1 .. 8 |-> items[i].value]
           tx == IF n = 8 THEN Tx(body, None, None, None, None, None)
                 ELSE Tx(body, field(9), field(10), field(11), field(12),
                         IF n = 12 THEN None ELSE field(13) \ {"empty"})
<1>1. /\ n \in {8, 12, 13} /\ EndsWhole(p) /\ (\A i \in 1 .. n : Fits(items[i], Types[i]))
      /\ DecodePayload(p) = Some(tx)
  BY DEF DecodePayload
<1>2. \A i \in 1 .. n : items[i].value \in Values /\ items[i] = Item(items[i].value)
  <2>1. TAKE i \in 1 .. n
  <2>2. items[i] \in Cell
    BY StringsType, ElementOfSeq
  <2>3. items[i].tag = "item"
    BY <1>1 DEF Fits
  <2> HIDE DEF items
  <2>4. QED BY <2>2, <2>3, CellCases
<1> HIDE DEF items
<1>3. vs \in [1 .. n -> Values] /\ \A i \in 1 .. n : vs[i] = items[i].value
  BY <1>2
<1>4. n \in Nat
  BY <1>1
<1> HIDE DEF vs
<1>5. vs \in Seq(Values) /\ Len(vs) = n
  <2> HIDE DEF n
  <2> QED BY <1>3, <1>4, FunctionIsSequence
<1>6. Names(p, vs)
  BY <1>2, <1>3, <1>5 DEF Names, items
<1>7. \A i \in 1 .. 8 : vs[i] = items[i].value
  BY <1>1, <1>3
<1>8. body = [i \in 1 .. 8 |-> vs[i]]
  BY <1>7
<1>9. TxOf(vs) = tx
  <2>1. CASE n = 8
    BY <1>5, <1>8, <2>1 DEF TxOf
  <2>2. CASE n = 12
    <3>1. vs[9] = items[9].value /\ vs[10] = items[10].value /\ vs[11] = items[11].value /\ vs[12] = items[12].value
      BY <1>3, <2>2
    <3>2. QED BY <1>5, <1>8, <2>2, <3>1 DEF TxOf
  <2>3. CASE n = 13
    <3>1. /\ vs[9] = items[9].value /\ vs[10] = items[10].value /\ vs[11] = items[11].value
          /\ vs[12] = items[12].value /\ vs[13] = items[13].value
      BY <1>3, <2>3
    <3>2. QED BY <1>5, <1>8, <2>3, <3>1 DEF TxOf
  <2>4. QED BY <1>1, <2>1, <2>2, <2>3
<1>10. QED BY <1>1, <1>5, <1>6, <1>9

\* Eight values are a sequence.
LEMMA EightValues ==
    ASSUME NEW f \in [1 .. 8 -> Values]
    PROVE  f \in Seq(Values) /\ Len(f) = 8
BY FunctionIsSequence

\* BodyAndTail for all sequences.
LEMMA FieldsOfBoth ==
    \A a, b \in Seq(Values) : Len(a) = 8 /\ Len(b) = 5 =>
        /\ a \o b \in Seq(Values) /\ Len(a \o b) = 13
        /\ \A i \in 1 .. 8 : (a \o b)[i] = a[i]
        /\ \A i \in 9 .. 13 : (a \o b)[i] = b[i - 8]
BY BodyAndTail, Zenon

\* The transaction that is built from values is written as these values, or
\* without a public key as the first version wrote it.
LEMMA TxOfFields ==
    ASSUME NEW vs \in Seq(Values), Len(vs) \in {8, 12, 13}
    PROVE  /\ Len(vs) # 12 => FieldValues(TxOf(vs)) = vs
           /\ Len(vs) = 12 => /\ HasSignature(TxOf(vs)) /\ TxOf(vs).pk = None
                              /\ Front(FieldValues(TxOf(vs))) = vs
<1> DEFINE body == [i \in 1 .. 8 |-> vs[i]]
           t == TxOf(vs)
<1>1. \A i \in 1 .. Len(vs) : vs[i] \in Values
  BY ElementOfSeq
<1>2. body \in Seq(Values) /\ Len(body) = 8 /\ \A i \in 1 .. 8 : body[i] = vs[i]
  <2>1. body \in [1 .. 8 -> Values] /\ \A i \in 1 .. 8 : body[i] = vs[i]
    BY <1>1
  <2> HIDE DEF body
  <2>2. body \in Seq(Values) /\ Len(body) = 8
    <3>1. body \in [1 .. 8 -> Values]
      BY <2>1
    <3>2. QED BY <3>1, EightValues, Zenon
  <2>3. QED BY <2>1, <2>2
<1>3. CASE Len(vs) = 8
  <2>1. t = Tx(body, None, None, None, None, None)
    BY <1>3 DEF TxOf
  <2> HIDE DEF body, t
  <2>2. ~HasSignature(t) /\ t.body = body
    BY <2>1 DEF Tx, HasSignature, None
  <2>3. FieldValues(t) = body
    BY <1>2, <2>2, ConcatEmptySeq DEF FieldValues
  <2>4. body = vs
    BY <1>2, <1>3, SeqEqual
  <2>5. QED BY <1>3, <2>3, <2>4 DEF t
<1>4. CASE Len(vs) # 8
  <2> DEFINE k == IF Len(vs) = 12 THEN None ELSE Some(vs[13]) \ {"empty"}
             tail == << vs[9], vs[10], vs[11], vs[12], UnwrapOr(k, "empty") >>
             fs == body \o tail
  <2>1. t = Tx(body, Some(vs[9]), Some(vs[10]), Some(vs[11]), Some(vs[12]), k)
    BY <1>4 DEF TxOf
  <2> HIDE DEF body, t, k
  <2>2. /\ HasSignature(t) /\ t.body = body /\ t.v = Some(vs[9]) /\ t.r = Some(vs[10])
        /\ t.s = Some(vs[11]) /\ t.pqc = Some(vs[12]) /\ t.pk = k
    BY <2>1, SomeOf DEF Tx, HasSignature
  <2>3. FieldValues(t) = fs
    BY <2>2, SomeOf DEF FieldValues
  <2>4. UnwrapOr(k, "empty") \in Values /\ (Len(vs) = 13 => UnwrapOr(k, "empty") = vs[13])
    <3>1. CASE Len(vs) = 12
      BY <3>1 DEF k, UnwrapOr, Values
    <3>2. CASE Len(vs) = 13
      <4>1. PICK x \in Values : x = vs[13]
        BY <1>1, <3>2
      <4>2. k = {x} \ {"empty"}
        BY <3>2, <4>1 DEF k, Some
      <4>3. UnwrapOr(k, "empty") = x
        BY <4>2 DEF UnwrapOr, None
      <4>4. QED BY <4>1, <4>3
    <3>3. QED BY <1>4, <3>1, <3>2
  <2>5. vs[9] \in Values /\ vs[10] \in Values /\ vs[11] \in Values /\ vs[12] \in Values
    BY <1>1, <1>4
  <2>6. tail \in Seq(Values) /\ Len(tail) = 5
    BY <2>4, <2>5
  <2>7. \A i \in 9 .. 12 : tail[i - 8] = vs[i]
    OBVIOUS
  <2>8. tail[5] = UnwrapOr(k, "empty")
    OBVIOUS
  <2> HIDE DEF tail
  <2>9. /\ fs \in Seq(Values) /\ Len(fs) = 13
        /\ \A i \in 1 .. 8 : fs[i] = body[i]
        /\ \A i \in 9 .. 13 : fs[i] = tail[i - 8]
    <3>1. body \in Seq(Values) /\ Len(body) = 8
      BY <1>2
    <3>2. /\ body \o tail \in Seq(Values) /\ Len(body \o tail) = 13
          /\ \A i \in 1 .. 8 : (body \o tail)[i] = body[i]
          /\ \A i \in 9 .. 13 : (body \o tail)[i] = tail[i - 8]
      BY <2>6, <3>1, FieldsOfBoth, Zenon
    <3>3. fs = body \o tail
      OBVIOUS
    <3> HIDE DEF fs
    <3>4. QED BY <3>2, <3>3, Zenon
  <2> HIDE DEF fs
  <2>10. ASSUME NEW i \in 1 .. 12 PROVE fs[i] = vs[i]
    <3>1. CASE i \in 1 .. 8
      BY <1>2, <2>9, <3>1
    <3>2. CASE i \in 9 .. 12
      <4>1. fs[i] = tail[i - 8]
        BY <2>9, <3>2
      <4>2. tail[i - 8] = vs[i]
        BY <2>7, <3>2
      <4>3. QED BY <4>1, <4>2
    <3>3. QED BY <3>1, <3>2
  <2>11. CASE Len(vs) = 13
    <3>1. fs[13] = vs[13]
      <4>1. fs[13] = tail[5]
        BY <2>9
      <4>2. QED BY <2>4, <2>8, <2>11, <4>1
    <3>2. ASSUME NEW i \in 1 .. Len(fs) PROVE fs[i] = vs[i]
      <4>1. i \in 1 .. 12 \/ i = 13
        BY <2>9
      <4>2. QED BY <2>10, <3>1, <4>1
    <3>3. fs = vs
      BY <2>9, <2>11, <3>2, SeqEqual
    <3>4. QED BY <2>3, <2>11, <3>3 DEF t
  <2>12. CASE Len(vs) = 12
    <3> DEFINE q == SubSeq(fs, 1, 12)
    <3>1. 12 \in 0 .. Len(fs)
      BY <2>9
    <3>2. q \in Seq(Values) /\ Len(q) = 12 /\ \A i \in 1 .. 12 : q[i] = fs[i]
      BY <2>9, <3>1, SplitAt
    <3>3. Front(fs) = q
      <4>1. Len(fs) - 1 = 12
        BY <2>9
      <4>2. QED BY <4>1 DEF Front
    <3> HIDE DEF q
    <3>4. q = vs
      BY <2>10, <2>12, <3>2, SeqEqual
    <3>5. k = None
      BY <2>12 DEF k
    <3>6. QED BY <2>2, <2>3, <2>12, <3>3, <3>4, <3>5 DEF t
  <2>13. QED BY <1>4, <2>11, <2>12
<1>5. QED BY <1>3, <1>4

\* Bytes that decode are the frame of the values they decode to.
LEMMA DecodesCanonically ==
    ASSUME NEW s \in Seq(Cell), s # << >>, Adjacent(s), Decode(s).tx # None
    PROVE  \E vs \in Seq(Values) :
              /\ Len(vs) \in {8, 12, 13} /\ Decode(s).tx = Some(TxOf(vs))
              /\ SubSeq(s, 1, Len(s) - Len(Decode(s).rest)) = Framed(vs)
<1> DEFINE h == Head(s)
           len == h.len
           p == SubSeq(s, 2, len + 1)
           r == SubSeq(s, len + 2, Len(s))
<1>1. h.tag = "list" /\ len < Len(s) /\ DecodePayload(p) # None
      /\ Decode(s) = [tx |-> DecodePayload(p), rest |-> r]
  BY DEF Decode
<1>2. h \in Cell /\ h = s[1] /\ Len(s) \in Nat \ {0} /\ len \in Nat /\ h = ListHeader(len)
  <2>1. h \in Cell /\ h = s[1] /\ Len(s) \in Nat \ {0}
    BY HeadAndTail
  <2> HIDE DEF h
  <2>2. len \in Nat /\ h = ListHeader(len)
    BY <1>1, <2>1, CellCases
  <2>3. QED BY <2>1, <2>2
<1> HIDE DEF h, len
<1>3. /\ p \in Seq(Cell) /\ Len(p) = len /\ Adjacent(p)
      /\ \A i \in 1 .. len : p[i] = s[i + 1]
  <2>1. 2 \in Nat \ {0} /\ len + 1 \in Nat /\ len + 1 <= Len(s)
    BY <1>1, <1>2
  <2>2. /\ p \in Seq(Cell) /\ Len(p) = IF 2 <= len + 1 THEN (len + 1) - 2 + 1 ELSE 0
        /\ \A i \in 1 .. (len + 1) - 2 + 1 : p[i] = s[2 + i - 1]
    BY <2>1, SubSeqElements
  <2>3. Adjacent(p)
    BY <2>1, AdjacentSub
  <2>4. (len + 1) - 2 + 1 = len /\ (2 <= len + 1 <=> len # 0)
    BY <1>2
  <2> HIDE DEF p
  <2>5. Len(p) = len
    BY <1>2, <2>2, <2>4
  <2>6. ASSUME NEW i \in 1 .. len PROVE p[i] = s[i + 1]
    <3>1. p[i] = s[2 + i - 1]
      BY <2>2, <2>4
    <3>2. 2 + i - 1 = i + 1
      BY <1>2
    <3>3. QED BY <3>1, <3>2
  <2>7. QED BY <2>2, <2>3, <2>5, <2>6
<1>4. Len(r) = Len(s) - (len + 1)
  <2>1. len + 2 \in Nat \ {0} /\ Len(s) \in Nat /\ Len(s) <= Len(s)
    BY <1>2
  <2>2. Len(r) = IF len + 2 <= Len(s) THEN Len(s) - (len + 2) + 1 ELSE 0
    BY <2>1, SubSeqElements
  <2>3. QED BY <1>1, <1>2, <2>2
<1> HIDE DEF p, r
<1>5. Begins(p)
  <2>1. SUFFICES ASSUME p # << >> PROVE p[1].tag # "rest"
    BY DEF Begins
  <2>2. len # 0 /\ 1 \in 1 .. len /\ 1 \in 1 .. Len(s) - 1
    BY <1>1, <1>2, <1>3, <2>1, EmptySeq
  <2>3. Follows(s[1], s[1 + 1]) /\ p[1] = s[1 + 1]
    BY <1>3, <2>2 DEF Adjacent
  <2>4. s[1].tag = "list"
    BY <1>1, <1>2
  <2>5. QED BY <2>3, <2>4 DEF Follows
<1>6. EndsWhole(p)
  BY <1>1, <1>3, DecodedValues
<1>7. PICK vs \in Seq(Values) : /\ Names(p, vs) /\ Len(vs) \in {8, 12, 13}
                                /\ DecodePayload(p) = Some(TxOf(vs))
  BY <1>1, <1>3, DecodedValues
<1>8. p = CellsOf(vs)
  <2>1. Completed(p) = CellsOf(vs)
    BY <1>3, <1>5, <1>7, PayloadIsCells
  <2>2. QED BY <1>6, <2>1 DEF Completed
<1>9. SubSeq(s, 1, Len(s) - Len(Decode(s).rest)) = << h >> \o p
  <2> DEFINE q == SubSeq(s, 1, len + 1)
             g == << h >>
             u == g \o p
  <2>1. Decode(s).rest = r
    BY <1>1
  <2>2. Len(s) - Len(r) = len + 1 /\ len + 1 \in 0 .. Len(s)
    BY <1>1, <1>2, <1>4
  <2>3. q \in Seq(Cell) /\ Len(q) = len + 1 /\ \A i \in 1 .. len + 1 : q[i] = s[i]
    BY <2>2, SplitAt
  <2>4. g \in Seq(Cell) /\ Len(g) = 1 /\ g[1] = h
    BY <1>2
  <2> HIDE DEF q, g
  <2>5. /\ u \in Seq(Cell) /\ Len(u) = Len(g) + Len(p)
        /\ \A i \in 1 .. Len(g) : u[i] = g[i]
        /\ \A i \in 1 .. Len(p) : u[Len(g) + i] = p[i]
    <3>1. g \in Seq(Cell) /\ p \in Seq(Cell)
      BY <1>3, <2>4
    <3>2. QED BY <3>1, ConcatElements
  <2> HIDE DEF u
  <2>6. Len(u) = len + 1 /\ u[1] = h
    BY <1>2, <1>3, <2>4, <2>5
  <2>7. ASSUME NEW i \in 1 .. len + 1 PROVE q[i] = u[i]
    <3>1. CASE i = 1
      BY <1>2, <2>3, <2>6, <3>1
    <3>2. CASE i # 1
      <4>1. PICK j \in 1 .. len : i = 1 + j
        <5>1. i - 1 \in 1 .. len /\ i = 1 + (i - 1)
          BY <1>2, <3>2
        <5>2. QED BY <5>1
      <4>2. u[i] = p[j]
        BY <1>3, <2>4, <2>5, <4>1
      <4>3. q[i] = s[j + 1]
        BY <1>2, <2>3, <4>1
      <4>4. QED BY <1>3, <4>2, <4>3
    <3>3. QED BY <3>1, <3>2
  <2>8. q = u
    BY <2>3, <2>5, <2>6, <2>7, SeqEqual
  <2>9. QED BY <2>1, <2>2, <2>8 DEF q, u, g
<1>10. << h >> \o p = Framed(vs)
  <2>1. h = ListHeader(Len(CellsOf(vs)))
    BY <1>2, <1>3, <1>8
  <2>2. QED BY <1>8, <2>1 DEF Framed
<1>11. Decode(s).tx = Some(TxOf(vs)) /\ Len(vs) \in {8, 12, 13}
  BY <1>1, <1>7
<1>12. SubSeq(s, 1, Len(s) - Len(Decode(s).rest)) = Framed(vs)
  BY <1>9, <1>10
<1>13. QED BY <1>11, <1>12, Zenon

(* Whatever was done to the stream, bytes that decode are the encoding of  *)
(* the transaction they decode to, or its encoding in the first version of *)
(* the format (rlp.rs, decode).                                            *)
THEOREM CanonicalFramesHolds == Spec => []CanonicalFrames
<1>1. Inv /\ WellCelled => CanonicalFrames
  <2> DEFINE result == Decode(stream)
             read == SubSeq(stream, 1, Len(stream) - Len(result.rest))
  <2>1. SUFFICES ASSUME Inv, WellCelled, stream # << >>, NEW t \in result.tx
                 PROVE  \/ read = Frame(t)
                        \/ HasSignature(t) /\ t.pk = None /\ read = FirstVersionFrame(t)
    BY DEF CanonicalFrames
  <2>2. result.tx # None
    BY DEF None
  <2>3. stream \in Seq(Cell) /\ Adjacent(stream)
    BY <2>1 DEF Inv, TypeOK, WellCelled
  <2>4. PICK vs \in Seq(Values) :
              /\ Len(vs) \in {8, 12, 13} /\ result.tx = Some(TxOf(vs))
              /\ read = Framed(vs)
    BY <2>1, <2>2, <2>3, DecodesCanonically
  <2>5. t = TxOf(vs)
    BY <2>4 DEF Some
  <2> HIDE DEF read, result
  <2>6. CASE Len(vs) = 12
    BY <2>4, <2>5, <2>6, TxOfFields DEF FirstVersionFrame
  <2>7. CASE Len(vs) # 12
    BY <2>4, <2>5, <2>7, TxOfFields DEF Frame
  <2>8. QED BY <2>6, <2>7
<1>2. QED BY <1>1, InvHolds, WellCelledHolds, PTL
====================================================================================
