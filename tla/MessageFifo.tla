---------------------------- MODULE MessageFifo -----------------------------
(***************************************************************************)
(* What a libpkg connection promises the programs at its two ends: each    *)
(* message one of them sends is handed to the other whole, once, and in    *)
(* the order of sending.                                                   *)
(***************************************************************************)
EXTENDS Naturals, Sequences

CONSTANTS Ends, Messages

VARIABLES sent,     \* per end: the messages it has sent
          got       \* per end: those of them the other end was handed

vars == <<sent, got>>

Init == /\ sent = [e \in Ends |-> <<>>]
        /\ got = [e \in Ends |-> <<>>]

Send(e) == /\ \E m \in Messages : sent' = [sent EXCEPT ![e] = Append(@, m)]
           /\ UNCHANGED got

Hand(e) == /\ Len(got[e]) < Len(sent[e])
           /\ got' = [got EXCEPT ![e] = Append(@, sent[e][Len(@) + 1])]
           /\ UNCHANGED sent

Next == \E e \in Ends : Send(e) \/ Hand(e)

Spec == Init /\ [][Next]_vars
=============================================================================
