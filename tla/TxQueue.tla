--------------------------------- MODULE TxQueue ---------------------------------
(***************************************************************************)
(* What the framing of transactions promises to two peers: a queue.  What  *)
(* is put in comes out once, in order.  When the link tears, the queue     *)
(* loses its end and takes nothing more, and the receiver stops at the     *)
(* tear, having been given no transaction that was not put in.  Only when  *)
(* bytes were altered may it be given something else, and then only after  *)
(* all that the alteration did not touch.                                  *)
(***************************************************************************)
EXTENDS Naturals, SequencesExt

CONSTANT Entries      \* the transactions that can be put in

VARIABLES queue,      \* put in and not delivered
          delivered,  \* given to the receiver, in order
          clean,      \* nothing follows the queue on the link
          torn,       \* the link has lost its end
          altered,    \* bytes on the link have been changed
          stopped     \* the receiver has given up

vars == << queue, delivered, clean, torn, altered, stopped >>

Init ==
    /\ queue = << >> /\ delivered = << >> /\ clean = TRUE
    /\ torn = FALSE /\ altered = FALSE /\ stopped = FALSE

Put ==
    /\ UNCHANGED << delivered, torn, altered, stopped >>
    /\ clean /\ ~torn
    /\ \E t \in Entries : queue' = Append(queue, t)
    /\ clean' = TRUE

Deliver ==
    /\ queue # << >> /\ ~stopped
    /\ delivered' = Append(delivered, Head(queue))
    /\ queue' = Tail(queue)
    /\ UNCHANGED << clean, torn, altered, stopped >>

\* The queue keeps its first n entries.
Damage(n) ==
    /\ UNCHANGED << delivered, stopped >>
    /\ queue' = SubSeq(queue, 1, n)

Tear(n) == torn' /\ UNCHANGED altered /\ Damage(n) /\ clean' \in BOOLEAN

Alter(n) == altered' /\ UNCHANGED torn /\ Damage(n) /\ ~clean'

Stray ==
    /\ altered /\ ~clean /\ queue = << >> /\ ~stopped
    /\ Len(delivered') = Len(delivered) + 1 /\ IsPrefix(delivered, delivered')
    /\ clean' \in BOOLEAN
    /\ UNCHANGED << queue, torn, altered, stopped >>

Stop ==
    /\ queue = << >> /\ ~clean /\ ~stopped
    /\ stopped' /\ clean' \in BOOLEAN
    /\ UNCHANGED << queue, delivered, torn, altered >>

Next ==
    \/ Put
    \/ Deliver
    \/ \E n \in 0 .. Len(queue) : Tear(n) \/ Alter(n)
    \/ Stray
    \/ Stop

Spec == Init /\ [][Next]_vars
=================================================================================
