----------------------------- MODULE RemrtSpans -----------------------------
(***************************************************************************)
(* The pixel spans remrt keeps its work in (struct list, remrt.c:224) and  *)
(* list_remove (remrt.c:892), which takes a finished range out of a list   *)
(* of spans.  A span is inclusive at both ends.  Nothing here is           *)
(* recursive, so that modules with proofs can extend it.                   *)
(***************************************************************************)
EXTENDS Integers, Sequences

Span(fr, a, b) == [li_frame |-> fr, li_start |-> a, li_stop |-> b]

(* The pixels a span stands for. *)
PixelsOf(sp) == sp.li_start .. sp.li_stop

(* The pixels a list of spans stands for. *)
PixelsOfList(l) == UNION {PixelsOf(l[i]) : i \in DOMAIN l}

(* What is left of the span sp when the range a..b is taken out of it: the *)
(* four outcomes of list_remove, tested in its order.                      *)
Remnant_Mutant(sp, a, b) ==
    CASE sp.li_start = a /\ sp.li_stop = b -> <<>>
      [] sp.li_start = a /\ sp.li_stop # b -> <<[sp EXCEPT !.li_start = b]>>
      [] sp.li_start # a /\ sp.li_stop = b -> <<[sp EXCEPT !.li_stop = a - 1]>>
      [] OTHER -> <<[sp EXCEPT !.li_stop = a - 1], [sp EXCEPT !.li_start = b + 1]>>

Remnant_MutantSplit(sp, a, b) ==
    CASE sp.li_start = a /\ sp.li_stop = b -> <<>>
      [] sp.li_start = a /\ sp.li_stop # b -> <<[sp EXCEPT !.li_start = b + 1]>>
      [] sp.li_start # a /\ sp.li_stop = b -> <<[sp EXCEPT !.li_stop = a - 1]>>
      [] OTHER -> <<[sp EXCEPT !.li_start = b + 1], [sp EXCEPT !.li_stop = a - 1]>>

Remnant_MutantFrame(sp, a, b) ==
    CASE sp.li_start = a /\ sp.li_stop = b -> <<>>
      [] sp.li_start = a /\ sp.li_stop # b -> <<[sp EXCEPT !.li_start = b + 1]>>
      [] sp.li_start # a /\ sp.li_stop = b -> <<[sp EXCEPT !.li_stop = a - 1]>>
      [] OTHER -> <<[sp EXCEPT !.li_stop = a - 1], Span(0, b + 1, sp.li_stop)>>

Remnant(sp, a, b) ==
    CASE sp.li_start = a /\ sp.li_stop = b -> <<>>
      [] sp.li_start = a /\ sp.li_stop # b -> <<[sp EXCEPT !.li_start = b + 1]>>
      [] sp.li_start # a /\ sp.li_stop = b -> <<[sp EXCEPT !.li_stop = a - 1]>>
      [] OTHER -> <<[sp EXCEPT !.li_stop = a - 1], [sp EXCEPT !.li_start = b + 1]>>

(* The elements of the list at which list_remove stops and acts.           *)
Hit(sp, a, b) ==
    \/ sp.li_start = a
    \/ sp.li_stop = b
    \/ a <= sp.li_stop /\ b >= sp.li_start

(* list_remove: the first element hit is the only one it changes.          *)
ListRemove(l, a, b) ==
    IF \A i \in DOMAIN l : ~Hit(l[i], a, b)
    THEN l
    ELSE LET i == CHOOSE i \in DOMAIN l :
                      /\ Hit(l[i], a, b)
                      /\ \A j \in DOMAIN l : Hit(l[j], a, b) => i <= j
         IN  SubSeq(l, 1, i - 1) \o Remnant(l[i], a, b) \o SubSeq(l, i + 1, Len(l))

(* A list of spans in the order prep_frame and list_remove leave it:       *)
(* nonempty ranges, each of which ends before the next one begins.         *)
Ascending(l) ==
    /\ \A i \in DOMAIN l : l[i].li_start <= l[i].li_stop
    /\ \A i, j \in DOMAIN l : i < j => l[i].li_stop < l[j].li_start
=============================================================================
