-------------------------------- MODULE TxStream ---------------------------------
(***************************************************************************)
(* The RLP framing of transactions (src/transaction/rlp.rs): a sender      *)
(* encodes transactions one after the other into a byte stream, a receiver *)
(* decodes them one after the other from what is left of it, and on the    *)
(* way the stream may be cut, an item replaced or inserted, or the length  *)
(* in a frame's header changed.                                            *)
(*                                                                         *)
(* Bytes are cells.  A list header is a cell that holds the number of      *)
(* cells of its payload; a string is one cell, or two (header and rest)    *)
(* when it is longer than a byte, so that a length can end inside it.  A   *)
(* string is its class, all that decoding looks at:                        *)
(*   empty  no byte; the integer zero       addr  20 bytes                 *)
(*   zero   the byte 0                      word  32 bytes, no leading 0   *)
(*   small  one other byte                  long  more than 32 bytes       *)
(***************************************************************************)
EXTENDS Naturals, SequencesExt, Options

CONSTANTS Txs,         \* the transactions that are sent
          MaxSent,     \* bound: transactions sent
          MaxFaults    \* bound: alterations of the stream

VARIABLES stream,      \* the cells not yet consumed
          sent,        \* the transactions encoded, in order
          received,    \* the transactions decoded, in order
          failed,      \* decode has returned Err; the receiver has stopped
          whole,       \* the transactions whose frames, as sent, the stream begins with
          open,        \* the sender can still write
          altered,     \* an item or a length has been changed
          faults       \* alterations so far

vars == << stream, sent, received, failed, whole, open, altered, faults >>

Values == {"empty", "zero", "small", "addr", "word", "long"}

\* What the decoder of each type accepts (alloy_rlp): integers have no leading
\* zero byte and fit, `to` is empty or 20 bytes, a byte string is anything.
Accepts == [u64   |-> {"empty", "small"},
            u256  |-> {"empty", "small", "addr", "word"},
            to    |-> {"empty", "addr"},
            bytes |-> Values]

BodyTypes == << "u64", "u64", "u256", "u256", "u64", "to", "u256", "bytes" >>
SignatureTypes == << "u256", "u256", "u256", "bytes", "bytes" >>
Types == BodyTypes \o SignatureTypes

\* BlackChainTxType: chain_id to data, and the five optional fields.
Tx(body, v, r, s, pqc, pk) ==
    [body |-> body, v |-> v, r |-> r, s |-> s, pqc |-> pqc, pk |-> pk]

---------------------------------------------------------------------------
(* Cells. *)

Item(value) == [tag |-> "item", value |-> value, len |-> 0]
RestOf(value) == [tag |-> "rest", value |-> value, len |-> 0]
ListHeader(len) == [tag |-> "list", value |-> "", len |-> len]

InTwoCells == {"addr", "word", "long"}

Cells(value) == IF value \in InTwoCells THEN << Item(value), RestOf(value) >>
                                        ELSE << Item(value) >>

CellsOf(values) == FlattenSeq([i \in DOMAIN values |-> Cells(values[i])])

---------------------------------------------------------------------------
(* Encoding. *)

HasSignature(t) == t.v # None \/ t.pqc # None

FieldValues(t) ==
    t.body \o IF HasSignature(t)
              THEN << UnwrapOr(t.v, "empty"), UnwrapOr(t.r, "empty"), UnwrapOr(t.s, "empty"),
                      UnwrapOr(t.pqc, "empty"), UnwrapOr(t.pk, "empty") >>
              ELSE << >>

\* Mutant of Framed: the header counts the fields and not their bytes.
Framed_CountsFields(values) == << ListHeader(Len(values)) >> \o CellsOf(values)

Framed(values) == << ListHeader(Len(CellsOf(values))) >> \o CellsOf(values)

\* BlackChainTxType::encode
Frame(t) == Framed(FieldValues(t))

\* The frame of the first version of the format, which had no pub_key.
FirstVersionFrame(t) == Framed(Front(FieldValues(t)))

\* What decoding makes of a field that is empty on the wire, and of one that
\* is absent while the transaction is signed.
Normalized(t) ==
    IF HasSignature(t)
    THEN Tx(t.body, Some(UnwrapOr(t.v, "empty")), Some(UnwrapOr(t.r, "empty")),
            Some(UnwrapOr(t.s, "empty")), Some(UnwrapOr(t.pqc, "empty")), t.pk \ {"empty"})
    ELSE Tx(t.body, None, None, None, None, None)

\* The transactions are values of the type: a field holds what its type can.
ASSUME TxsAssumption ==
    \A t \in Txs :
        /\ t = Tx(t.body, t.v, t.r, t.s, t.pqc, t.pk)
        /\ t.body \in [1 .. 8 -> Values]
        /\ {t.v, t.r, t.s, t.pqc, t.pk} \subseteq Option(Values)
        /\ \A i \in DOMAIN FieldValues(t) : FieldValues(t)[i] \in Accepts[Types[i]]

---------------------------------------------------------------------------
(* Decoding. *)

\* The last string of the payload is all there.
EndsWhole(payload) == payload = << >> \/ Last(payload).value \notin InTwoCells
                                      \/ Last(payload).tag = "rest"

Fits(item, type) == item.tag = "item" /\ item.value \in Accepts[type]

\* The strings of a payload, each at its first cell.
Strings(payload) ==
    LET strings[n \in 0 .. Len(payload)] ==
            IF n = 0 THEN << >>
            ELSE IF payload[n].tag = "rest" THEN strings[n - 1]
                                            ELSE Append(strings[n - 1], payload[n])
    IN  strings[Len(payload)]

\* Mutant of DecodePayload: what is left over after the last field is ignored.
DecodePayload_LeftoverIgnored(payload) ==
    LET items == Strings(payload)
        n == Len(items)
        field(i) == Some(items[i].value)
    IN  IF /\ n \in {8, 12} \/ n >= 13
           /\ EndsWhole(payload)
           /\ \A i \in 1 .. n : i <= 13 => Fits(items[i], Types[i])
        THEN LET body == [i \in 1 .. 8 |-> items[i].value]
             IN  Some(IF n = 8 THEN Tx(body, None, None, None, None, None)
                      ELSE Tx(body, field(9), field(10), field(11), field(12),
                              IF n = 12 THEN None ELSE field(13) \ {"empty"}))
        ELSE None

\* Eight fields, then nothing, or four more and perhaps the public key, and
\* nothing left over.  An empty public key is none.
DecodePayload(payload) ==
    LET items == Strings(payload)
        n == Len(items)
        field(i) == Some(items[i].value)
    IN  IF /\ n \in {8, 12, 13}
           /\ EndsWhole(payload)
           /\ \A i \in 1 .. n : Fits(items[i], Types[i])
        THEN LET body == [i \in 1 .. 8 |-> items[i].value]
             IN  Some(IF n = 8 THEN Tx(body, None, None, None, None, None)
                      ELSE Tx(body, field(9), field(10), field(11), field(12),
                              IF n = 12 THEN None ELSE field(13) \ {"empty"}))
        ELSE None

\* Where decoding stops when it fails: Header::decode has moved past the
\* header, unless the byte is its own encoding.
AfterError(cells) == IF Head(cells).value \in {"zero", "small"} THEN cells ELSE Tail(cells)

\* Mutant of Decode: fields are decoded straight out of the buffer.
Decode_Unbounded(cells) ==
    LET tx == DecodePayload(Tail(cells))
    IN  IF Head(cells).tag = "list" /\ Head(cells).len < Len(cells) /\ tx # None
        THEN [tx |-> tx, rest |-> << >>]
        ELSE [tx |-> None, rest |-> AfterError(cells)]

\* Mutant of Decode: a declared length beyond the buffer is cut to the buffer.
Decode_Clamped(cells) ==
    LET len == IF Head(cells).len < Len(cells) THEN Head(cells).len ELSE Len(cells) - 1
        tx == DecodePayload(SubSeq(cells, 2, len + 1))
    IN  IF Head(cells).tag = "list" /\ tx # None
        THEN [tx |-> tx, rest |-> SubSeq(cells, len + 2, Len(cells))]
        ELSE [tx |-> None, rest |-> AfterError(cells)]

\* BlackChainTxType::decode of a buffer that is not empty.
Decode(cells) ==
    LET len == Head(cells).len
        tx == DecodePayload(SubSeq(cells, 2, len + 1))
    IN  IF Head(cells).tag = "list" /\ len < Len(cells) /\ tx # None
        THEN [tx |-> tx, rest |-> SubSeq(cells, len + 2, Len(cells))]
        ELSE [tx |-> None, rest |-> AfterError(cells)]

---------------------------------------------------------------------------
Init ==
    /\ stream = << >> /\ sent = << >> /\ received = << >>
    /\ failed = FALSE /\ open = TRUE /\ altered = FALSE
    /\ whole = << >> /\ faults = 0

SentFrames == [t \in Txs |-> Frame(t)]

FramesOf(txs) == FlattenSeq([i \in DOMAIN txs |-> SentFrames[txs[i]]])

\* encode appends to the buffer it is given.
Send(t) ==
    /\ open /\ Len(sent) < MaxSent
    /\ sent' = Append(sent, t)
    /\ stream' = stream \o Frame(t)
    /\ whole' = IF stream = FramesOf(whole) THEN Append(whole, t) ELSE whole
    /\ UNCHANGED << received, failed, open, altered, faults >>

\* decode moves the buffer past the frame only when it succeeds; the receiver
\* stops at the first error.
Receive ==
    /\ ~failed /\ stream # << >>
    /\ LET result == Decode(stream)
       IN  /\ stream' = result.rest
           /\ received' = IF result.tx = None
                          THEN received
                          ELSE Append(received, UnwrapOr(result.tx, {}))
           /\ failed' = (result.tx = None)
    /\ whole' = IF whole = << >> THEN whole ELSE Tail(whole)
    /\ UNCHANGED << sent, open, altered, faults >>

\* The stream is changed from cell i on.
Alter(i, cells) ==
    /\ faults < MaxFaults
    /\ faults' = faults + 1
    /\ stream' = SubSeq(stream, 1, i - 1) \o cells
    /\ \E n \in 0 .. Len(whole) :
          /\ whole' = SubSeq(whole, 1, n)
          /\ Len(FramesOf(whole')) < i
          /\ n < Len(whole) => Len(FramesOf(SubSeq(whole, 1, n + 1))) >= i
    /\ UNCHANGED << sent, received, failed >>

\* The end of the stream is lost, from cell i on; nothing more is written.
Cut(i) ==
    /\ Alter(i, << >>)
    /\ open' = FALSE
    /\ UNCHANGED altered

\* The item at cell i becomes another, an empty list included.
ItemEnd(i) == IF stream[i].value \in InTwoCells THEN i + 2 ELSE i + 1

NewItems == {Cells(v) : v \in Values} \cup {<< ListHeader(0) >>}

Replace(i, cells) ==
    /\ stream[i].tag = "item"
    /\ Alter(i, cells \o SubSeq(stream, ItemEnd(i), Len(stream)))
    /\ altered' = TRUE /\ UNCHANGED open

Insert(i, cells) ==
    /\ stream[i].tag # "rest"
    /\ Alter(i, cells \o SubSeq(stream, i, Len(stream)))
    /\ altered' = TRUE /\ UNCHANGED open

\* The header at cell i declares another length.
SetLength(i, len) ==
    /\ stream[i].tag = "list"
    /\ Alter(i, << ListHeader(len) >> \o SubSeq(stream, i + 1, Len(stream)))
    /\ altered' = TRUE /\ UNCHANGED open

Next ==
    \/ \E t \in Txs : Send(t)
    \/ Receive
    \/ \E i \in DOMAIN stream :
          \/ Cut(i)
          \/ \E cells \in NewItems : Replace(i, cells)
          \/ \E cells \in NewItems : Insert(i, cells)
          \/ \E d \in 1 .. 2 : SetLength(i, stream[i].len + d)
          \/ \E d \in 1 .. 2 : stream[i].len >= d /\ SetLength(i, stream[i].len - d)

Spec == Init /\ [][Next]_vars

---------------------------------------------------------------------------
(* Properties. *)

(* Frames stand apart: while the stream begins with a frame as it was      *)
(* sent, decoding returns that transaction and stops at the end of the     *)
(* frame, whatever follows: other frames, altered cells, half a frame      *)
(* (rlp.rs, the payload bound of decode).                                  *)
FramesApart ==
    ~failed /\ whole # << >> =>
        Decode(stream) =
            [tx |-> Some(Normalized(whole[1])),
             rest |-> SubSeq(stream, Len(Frame(whole[1])) + 1, Len(stream))]

(* A stream that only lost its end yields the transactions that were sent, *)
(* in order, and nothing else: what is left of the last frame never passes *)
(* for a shorter form of it (rlp.rs, decode).                              *)
ReceivedWasSent ==
    ~altered => \A i \in DOMAIN received : received[i] = Normalized(sent[i])

(* Whatever was done to the stream, bytes that decode are the encoding of  *)
(* the transaction they decode to, up to the last one, or its encoding in  *)
(* the first version of the format, without a public key (rlp.rs, decode). *)
CanonicalFrames ==
    stream # << >> =>
        LET result == Decode(stream)
            read == SubSeq(stream, 1, Len(stream) - Len(result.rest))
        IN  \A t \in result.tx :
                \/ read = Frame(t)
                \/ HasSignature(t) /\ t.pk = None /\ read = FirstVersionFrame(t)

---------------------------------------------------------------------------
(* The queue that sender and receiver see.                                 *)

AsReceived == [t \in Txs |-> Normalized(t)]

QueueOf(txs) == [i \in DOMAIN txs |-> AsReceived[txs[i]]]

Queue == INSTANCE TxQueue
         WITH Entries <- {AsReceived[t] : t \in Txs},
              queue <- QueueOf(whole),
              delivered <- received,
              clean <- (stream = FramesOf(whole)),
              torn <- ~open,
              stopped <- failed

(* The stream is a queue of transactions: what encode wrote, decode gives  *)
(* back once and in order up to the first byte that was lost or changed; a *)
(* receiver never stops before it, and after a loss alone it stops there   *)
(* (rlp.rs, encode and decode).                                            *)
QueueSpec == Queue!Spec
=================================================================================
