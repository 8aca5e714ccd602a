------------------------------- MODULE SenderAuth -------------------------------
(***************************************************************************)
(* What transaction signing promises, without keys, bytes or signatures:   *)
(* a transaction can be shown as coming from a sender only if an agent     *)
(* that acted for that sender approved exactly that chain and body.  A     *)
(* sender may have several agents; one that is dismissed approves nothing  *)
(* until it is appointed anew, and the others go on.  Approvals already    *)
(* given stay valid.                                                       *)
(***************************************************************************)
CONSTANTS Senders, Agents, Chains, Bodies, Slots

VARIABLES approved,    \* the facts approved so far
          acting,      \* per agent: the sender it acts for, if any
          shown        \* per slot: the fact its transaction proves, if any

vars == << approved, acting, shown >>

Facts == [sender : Senders, chain : Chains, body : Bodies]

AtMostOne(S) == {{}} \cup {{x} : x \in S}

Init ==
    /\ approved = {}
    /\ acting = [a \in Agents |-> {}]
    /\ shown = [s \in Slots |-> {}]

\* An agent approves a fact for its sender, and slot s shows it.
Approve(f, a, s) ==
    /\ acting[a] = {f.sender}
    /\ approved' = approved \cup {f}
    /\ shown' = [shown EXCEPT ![s] = {f}]
    /\ UNCHANGED acting

\* A slot comes to show an approved fact or nothing, whatever was in it.
Present(s) ==
    /\ \E o \in AtMostOne(approved) : shown' = [shown EXCEPT ![s] = o]
    /\ UNCHANGED << approved, acting >>

\* One agent comes to act for sender x, whomever it acted for before.
Appoint(a, x) ==
    /\ acting' = [acting EXCEPT ![a] = {x}]
    /\ UNCHANGED << approved, shown >>

\* One agent stops acting for anybody; what it approved stays approved.
Dismiss(a) ==
    /\ acting' = [acting EXCEPT ![a] = {}]
    /\ UNCHANGED << approved, shown >>

Next ==
    \/ \E f \in Facts, a \in Agents, s \in Slots : Approve(f, a, s)
    \/ \E s \in Slots : Present(s)
    \/ \E a \in Agents, x \in Senders : Appoint(a, x)
    \/ \E a \in Agents : Dismiss(a)

Spec == Init /\ [][Next]_vars
=================================================================================
