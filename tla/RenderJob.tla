----------------------------- MODULE RenderJob ------------------------------
(***************************************************************************)
(* What a user of remrt is promised, with no servers, messages or spans in *)
(* it: pixels of the frames asked for are stored in the frames' files, a   *)
(* stored pixel stays stored, and a frame is delivered once, when all of   *)
(* its pixels are there.                                                   *)
(***************************************************************************)
CONSTANTS Frames, Pixels

VARIABLES stored,       \* per frame: the pixels in its file
          delivered     \* the frames declared done

vars == <<stored, delivered>>

Init == /\ stored \in [Frames -> SUBSET Pixels]
        /\ delivered = {}

Store(f, new) ==
    /\ f \notin delivered
    /\ stored' = [stored EXCEPT ![f] = @ \cup new]
    /\ UNCHANGED delivered

Deliver(f) ==
    /\ f \notin delivered
    /\ stored[f] = Pixels
    /\ delivered' = delivered \cup {f}
    /\ UNCHANGED stored

Next == \E f \in Frames : \/ \E new \in SUBSET Pixels : Store(f, new)
                          \/ Deliver(f)

Spec == Init /\ [][Next]_vars
=============================================================================
