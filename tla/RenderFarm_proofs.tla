-------------------------- MODULE RenderFarm_proofs --------------------------
(***************************************************************************)
(* Proofs about module RenderFarm, for every number of slots, frames and   *)
(* pixels, every set of faults and commands, and whatever the bounds are.  *)
(***************************************************************************)
EXTENDS RenderFarm, SequenceTheorems, TLAPS

-----------------------------------------------------------------------------
(* The data types: spans, work lists, messages.                            *)

Works == Spans \cup {NoWork}

TodoLists == {l \in [Frames -> Seq(Spans)] :
                 \A f \in Frames : \A i \in DOMAIN l[f] : l[f][i].li_frame = f}

(* What is not NoWork is a span of a frame there is.                       *)
LEMMA WorkIsSpan ==
    ASSUME NEW w \in Works, w # NoWork
    PROVE  /\ w \in Spans
           /\ w.li_frame \in Frames /\ w.li_start \in Nat /\ w.li_stop \in Nat
    BY DEF Works, Spans

(* A span is of a frame, NoWork of none.                                   *)
LEMMA FrameIsNotNoFrame == \A f \in Frames : f # NoFrame
    BY DEF Frames, NoFrame

LEMMA SpanIsNotNoWork == \A w \in Spans : w # NoWork
    BY FrameIsNotNoFrame DEF Spans, NoWork

(* The contents of the messages that the handlers take apart.              *)
LEMMA CtlMessageContents ==
    ASSUME NEW m \in CtlMessages
    PROVE  m.type = "CMD" => m.cmd \in CommandNames
    BY DEF CtlMessages

LEMMA WorkMessageContents ==
    ASSUME NEW m \in SrvMessages
    PROVE  /\ m.type \in {"MATRIX", "GETTREES", "OPTIONS", "LINES"} => m \in WorkMessages
           /\ m.type = "MATRIX" => m.frame \in Frames
           /\ m.type = "LINES" => m.frame \in Frames /\ m.start \in Nat /\ m.stop \in Nat
    BY DEF SrvMessages, WorkMessages

(* A span put back at the head of its frame's list leaves it a work list.  *)
LEMMA PushTyped ==
    ASSUME NEW l \in TodoLists, NEW w \in Spans
    PROVE  [l EXCEPT ![w.li_frame] = <<w>> \o @] \in TodoLists
    <1> DEFINE f == w.li_frame
    <1>1. f \in Frames  BY DEF Spans
    <1>2. l[f] \in Seq(Spans) /\ <<w>> \in Seq(Spans)  BY <1>1 DEF TodoLists
    <1>3. <<w>> \o l[f] \in Seq(Spans)  BY <1>2, ConcatProperties
    <1>4. \A i \in DOMAIN (<<w>> \o l[f]) : (<<w>> \o l[f])[i].li_frame = f
        <2>1. SUFFICES ASSUME NEW i \in DOMAIN (<<w>> \o l[f])
                       PROVE  (<<w>> \o l[f])[i].li_frame = f
            OBVIOUS
        <2>2. i \in 1 .. 1 + Len(l[f]) /\ Len(<<w>>) = 1 /\ <<w>>[1] = w
            BY <1>2, <1>3, ConcatProperties, LenProperties
        <2>3. Len(l[f]) \in Nat /\ DOMAIN l[f] = 1 .. Len(l[f])
            BY <1>2, LenProperties
        <2>4. CASE i = 1
            BY <1>2, <2>2, <2>3, <2>4, ConcatProperties
        <2>5. CASE i # 1
            <3>1. i - 1 \in DOMAIN l[f]  BY <2>2, <2>3, <2>5
            <3>2. (<<w>> \o l[f])[i] = l[f][i - 1]
                BY <1>2, <2>2, <2>3, <2>5, ConcatProperties
            <3>3. QED  BY <1>1, <3>1, <3>2 DEF TodoLists
        <2>6. QED  BY <2>4, <2>5
    <1>5. QED  BY <1>1, <1>3, <1>4 DEF TodoLists

-----------------------------------------------------------------------------
(* Pixels in one place: NoPixelTwice as a predicate on work lists, and     *)
(* what the steps that move work about do to it.                           *)

Disjoint(todo, work) ==
    /\ \A f \in Frames : \A i, j \in DOMAIN todo[f] :
          i # j => PixelsOf(todo[f][i]) \cap PixelsOf(todo[f][j]) = {}
    /\ \A s \in Slots : work[s] # NoWork =>
          PixelsOf(work[s]) \cap PixelsOfList(todo[work[s].li_frame]) = {}
    /\ \A s, t \in Slots :
          s # t /\ work[s] # NoWork /\ work[s].li_frame = work[t].li_frame
             => PixelsOf(work[s]) \cap PixelsOf(work[t]) = {}

LEMMA NoPixelTwiceIsDisjoint == NoPixelTwice <=> Disjoint(fr_todo, sr_work)
    BY DEF NoPixelTwice, Disjoint, Idle, Queued

(* Work done or forgotten is in no place.                                  *)
LEMMA ForgetDisjoint ==
    ASSUME NEW todo, NEW work \in [Slots -> Works], NEW s \in Slots, Disjoint(todo, work)
    PROVE  Disjoint(todo, [work EXCEPT ![s] = NoWork])
    <1> DEFINE w == [work EXCEPT ![s] = NoWork]
    <1>1. \A t \in Slots : w[t] = IF t = s THEN NoWork ELSE work[t]
        OBVIOUS
    <1>2. \A t \in Slots : t # s /\ work[t] # NoWork => work[t].li_frame # NoWork.li_frame
        BY WorkIsSpan, FrameIsNotNoFrame DEF NoWork
    <1> HIDE DEF w
    <1>3. Disjoint(todo, w)
        BY <1>1, <1>2 DEF Disjoint
    <1>4. QED  BY <1>3 DEF w

(* The elements of a work list with a span put at its head.                *)
LEMMA PushElements ==
    ASSUME NEW l \in Seq(Spans), NEW w \in Spans
    PROVE  /\ DOMAIN (<<w>> \o l) = 1 .. Len(l) + 1
           /\ (<<w>> \o l)[1] = w
           /\ \A i \in 2 .. Len(l) + 1 : i - 1 \in DOMAIN l /\ (<<w>> \o l)[i] = l[i - 1]
           /\ PixelsOfList(<<w>> \o l) = PixelsOf(w) \cup PixelsOfList(l)
    <1> DEFINE p == <<w>> \o l
    <1>1. Len(<<w>>) = 1 /\ <<w>>[1] = w /\ <<w>> \in Seq(Spans)  OBVIOUS
    <1>2. Len(l) \in Nat /\ DOMAIN l = 1 .. Len(l)  BY LenProperties
    <1>3. p \in Seq(Spans) /\ Len(p) = Len(l) + 1 /\ p[1] = w
        BY <1>1, <1>2, ConcatProperties
    <1>4. DOMAIN p = 1 .. Len(l) + 1  BY <1>3, LenProperties
    <1>5. \A i \in 2 .. Len(l) + 1 : i - 1 \in DOMAIN l /\ p[i] = l[i - 1]
        BY <1>1, <1>2, ConcatProperties
    <1> HIDE DEF p
    <1>6. PixelsOfList(p) = PixelsOf(w) \cup PixelsOfList(l)
        <2>1. \A i \in DOMAIN p : PixelsOf(p[i]) \subseteq PixelsOf(w) \cup PixelsOfList(l)
            <3>1. SUFFICES ASSUME NEW i \in DOMAIN p
                           PROVE  PixelsOf(p[i]) \subseteq PixelsOf(w) \cup PixelsOfList(l)
                OBVIOUS
            <3>2. CASE i = 1  BY <3>2, <1>3
            <3>3. CASE i # 1
                <4>1. i \in 2 .. Len(l) + 1  BY <3>3, <1>2, <1>4
                <4>2. i - 1 \in DOMAIN l /\ p[i] = l[i - 1]  BY <4>1, <1>5
                <4>3. QED  BY <4>2 DEF PixelsOfList
            <3>4. QED  BY <3>2, <3>3
        <2>2. \A j \in DOMAIN l : PixelsOf(l[j]) \subseteq PixelsOfList(p)
            <3>1. SUFFICES ASSUME NEW j \in DOMAIN l
                           PROVE  PixelsOf(l[j]) \subseteq PixelsOfList(p)
                OBVIOUS
            <3>2. j + 1 \in 2 .. Len(l) + 1 /\ (j + 1) - 1 = j  BY <1>2
            <3>3. p[j + 1] = l[j] /\ j + 1 \in DOMAIN p  BY <3>2, <1>5, <1>4, <1>2
            <3>4. QED  BY <3>3 DEF PixelsOfList
        <2>3. PixelsOf(w) \subseteq PixelsOfList(p)
            <3>1. 1 \in DOMAIN p  BY <1>2, <1>4
            <3>2. QED  BY <3>1, <1>3 DEF PixelsOfList
        <2>4. QED  BY <2>1, <2>2, <2>3 DEF PixelsOfList
    <1>7. QED  BY <1>3, <1>4, <1>5, <1>6 DEF p

(* A span that overlaps nothing in the list may be put at its head.        *)
LEMMA PushDisjoint ==
    ASSUME NEW l \in Seq(Spans), NEW w \in Spans,
           \A i, j \in DOMAIN l : i # j => PixelsOf(l[i]) \cap PixelsOf(l[j]) = {},
           PixelsOf(w) \cap PixelsOfList(l) = {},
           NEW i \in DOMAIN (<<w>> \o l), NEW j \in DOMAIN (<<w>> \o l), i # j
    PROVE  PixelsOf((<<w>> \o l)[i]) \cap PixelsOf((<<w>> \o l)[j]) = {}
    <1> DEFINE p == <<w>> \o l
    <1>1. \A k \in DOMAIN l : PixelsOf(w) \cap PixelsOf(l[k]) = {}
        BY DEF PixelsOfList
    <1>2. Len(l) \in Nat /\ DOMAIN p = 1 .. Len(l) + 1 /\ p[1] = w
        BY PushElements, LenProperties
    <1>3. \A k \in 2 .. Len(l) + 1 : k - 1 \in DOMAIN l /\ p[k] = l[k - 1]
        BY PushElements
    <1>4. i \in 1 .. Len(l) + 1 /\ j \in 1 .. Len(l) + 1  BY <1>2
    <1> HIDE DEF p
    <1>5. CASE i = 1
        BY <1>1, <1>2, <1>3, <1>4, <1>5, j \in 2 .. Len(l) + 1 DEF p
    <1>6. CASE j = 1
        BY <1>1, <1>2, <1>3, <1>4, <1>6, i \in 2 .. Len(l) + 1 DEF p
    <1>7. CASE i # 1 /\ j # 1
        <2>1. i - 1 \in DOMAIN l /\ j - 1 \in DOMAIN l /\ i - 1 # j - 1
            BY <1>2, <1>3, <1>4, <1>7
        <2>2. p[i] = l[i - 1] /\ p[j] = l[j - 1]  BY <1>2, <1>3, <1>4, <1>7
        <2>3. PixelsOf(l[i - 1]) \cap PixelsOf(l[j - 1]) = {}  BY <2>1
        <2>4. QED  BY <2>2, <2>3 DEF p
    <1>8. QED  BY <1>5, <1>6, <1>7

(* Work requeued leaves the server's hands for the head of the list.       *)
LEMMA RequeueDisjoint ==
    ASSUME NEW todo \in TodoLists, NEW work \in [Slots -> Works], NEW s \in Slots,
           work[s] # NoWork, Disjoint(todo, work)
    PROVE  Disjoint([todo EXCEPT ![work[s].li_frame] = <<work[s]>> \o @],
                    [work EXCEPT ![s] = NoWork])
    <1> DEFINE f == work[s].li_frame
               p == <<work[s]>> \o todo[f]
               todo2 == [todo EXCEPT ![f] = p]
               work2 == [work EXCEPT ![s] = NoWork]
    <1>1. work[s] \in Spans /\ f \in Frames  BY WorkIsSpan
    <1>2. todo[f] \in Seq(Spans)  BY <1>1 DEF TodoLists
    <1>3. Disjoint(todo, work2)  BY ForgetDisjoint
    <1>4. \A g \in Frames : todo2[g] = IF g = f THEN p ELSE todo[g]
        BY DEF TodoLists
    <1>5. \A t \in Slots : work2[t] = IF t = s THEN NoWork ELSE work[t]
        OBVIOUS
    <1>6. PixelsOf(work[s]) \cap PixelsOfList(todo[f]) = {}  BY DEF Disjoint
    <1>7. \A i, j \in DOMAIN p : i # j => PixelsOf(p[i]) \cap PixelsOf(p[j]) = {}
        BY <1>1, <1>2, <1>6, PushDisjoint DEF Disjoint
    <1>8. PixelsOfList(p) = PixelsOf(work[s]) \cup PixelsOfList(todo[f])
        BY <1>1, <1>2, PushElements
    <1>9. \A t \in Slots : work2[t] # NoWork => work2[t].li_frame \in Frames
        BY <1>5, WorkIsSpan
    <1> HIDE DEF p, todo2, work2
    <1>10. \A g \in Frames : \A i, j \in DOMAIN todo2[g] :
              i # j => PixelsOf(todo2[g][i]) \cap PixelsOf(todo2[g][j]) = {}
        BY <1>3, <1>4, <1>7 DEF Disjoint
    <1>11. ASSUME NEW t \in Slots, work2[t] # NoWork
           PROVE  PixelsOf(work2[t]) \cap PixelsOfList(todo2[work2[t].li_frame]) = {}
        <2>1. t # s /\ work2[t] = work[t]  BY <1>5, <1>11
        <2>2. PixelsOf(work[t]) \cap PixelsOfList(todo[work[t].li_frame]) = {}
            BY <1>11, <2>1 DEF Disjoint
        <2>3. CASE work[t].li_frame = f
            <3>1. PixelsOf(work[s]) \cap PixelsOf(work[t]) = {}
                BY <2>1, <2>3 DEF Disjoint
            <3>2. QED  BY <1>1, <1>4, <1>8, <2>1, <2>2, <2>3, <3>1
        <2>4. CASE work[t].li_frame # f
            BY <1>4, <1>9, <1>11, <2>1, <2>2, <2>4
        <2>5. QED  BY <2>3, <2>4
    <1>12. Disjoint(todo2, work2)
        BY <1>3, <1>10, <1>11 DEF Disjoint
    <1>13. QED  BY <1>12 DEF todo2, work2, p

(* What is behind the head of a work list.                                 *)
LEMMA TailElements ==
    ASSUME NEW l \in Seq(Spans), l # <<>>
    PROVE  /\ Head(l) \in Spans /\ Head(l) = l[1] /\ 1 \in DOMAIN l
           /\ Tail(l) \in Seq(Spans)
           /\ \A i \in DOMAIN Tail(l) : i \in Nat \ {0} /\ i + 1 \in DOMAIN l /\ Tail(l)[i] = l[i + 1]
    <1>1. Len(l) \in Nat \ {0} /\ DOMAIN l = 1 .. Len(l)
        BY LenProperties, EmptySeq
    <1>2. Head(l) \in Spans /\ Tail(l) \in Seq(Spans) /\ Len(Tail(l)) = Len(l) - 1
        BY HeadTailProperties
    <1>3. DOMAIN Tail(l) = 1 .. Len(l) - 1  BY <1>1, <1>2, LenProperties
    <1>4. \A i \in 1 .. Len(l) - 1 : Tail(l)[i] = l[i + 1]
        BY <1>1, <1>2, HeadTailProperties
    <1>5. QED  BY <1>1, <1>2, <1>3, <1>4

(* A range cut in two after b.                                             *)
LEMMA SplitRange ==
    ASSUME NEW a \in Int, NEW b \in Int, NEW c \in Int, b <= c
    PROVE  /\ a .. b \subseteq a .. c
           /\ (a .. b) \cap (b + 1 .. c) = {}
           /\ b + 1 >= a => b + 1 .. c \subseteq a .. c
    OBVIOUS

(* The facts about an assignment of at most lump pixels that the rest of   *)
(* the argument uses: the assignment and what is left of the list share no *)
(* pixel, and neither has one that the list had not.                       *)
LEMMA AssignmentTaken ==
    ASSUME fr_todo \in TodoLists, FrameHead \in Seq(Frames), fi \in DOMAIN FrameHead,
           fr_todo[Fr] # <<>>, NEW lump \in Nat \ {0},
           \A i, j \in DOMAIN fr_todo[Fr] :
              i # j => PixelsOf(fr_todo[Fr][i]) \cap PixelsOf(fr_todo[Fr][j]) = {}
    PROVE  /\ Fr \in Frames
           /\ Assignment(lump) \in Spans /\ Assignment(lump).li_frame = Fr
           /\ LinesMsg(lump) \in SrvMessages
           /\ TodoAfter(lump) \in TodoLists
           /\ \A g \in Frames : g # Fr => TodoAfter(lump)[g] = fr_todo[g]
           /\ \A i, j \in DOMAIN TodoAfter(lump)[Fr] :
                 i # j => PixelsOf(TodoAfter(lump)[Fr][i]) \cap PixelsOf(TodoAfter(lump)[Fr][j]) = {}
           /\ PixelsOf(Assignment(lump)) \cap PixelsOfList(TodoAfter(lump)[Fr]) = {}
           /\ PixelsOf(Assignment(lump)) \subseteq PixelsOfList(fr_todo[Fr])
           /\ PixelsOfList(TodoAfter(lump)[Fr]) \subseteq PixelsOfList(fr_todo[Fr])
    <1> DEFINE l == fr_todo[Fr]
               h == Head(l)
               stop == Stop(lump)
               a == Assignment(lump)
               rest == [h EXCEPT !.li_start = stop + 1]
               new == IF stop = h.li_stop THEN Tail(l) ELSE <<rest>> \o Tail(l)
    <1>1. Fr \in Frames
        BY LenProperties, ElementOfSeq DEF Fr
    <1>2. l \in Seq(Spans) /\ \A i \in DOMAIN l : l[i].li_frame = Fr
        BY <1>1 DEF TodoLists
    <1>3. /\ h \in Spans /\ h = l[1] /\ 1 \in DOMAIN l /\ Tail(l) \in Seq(Spans)
          /\ \A i \in DOMAIN Tail(l) : i \in Nat \ {0} /\ i + 1 \in DOMAIN l /\ Tail(l)[i] = l[i + 1]
        BY <1>2, TailElements
    <1>4. h.li_frame = Fr /\ h.li_start \in Nat /\ h.li_stop \in Nat
        BY <1>2, <1>3 DEF Spans
    <1>5. TodoAfter(lump) = [fr_todo EXCEPT ![Fr] = new]
        BY DEF TodoAfter, HeadSpan
    <1>7. stop \in Nat /\ stop <= h.li_stop
        BY <1>4 DEF Stop, HeadSpan
    <1>8. a \in Spans /\ a = [li_frame |-> Fr, li_start |-> h.li_start, li_stop |-> stop]
        BY <1>1, <1>4, <1>7 DEF Assignment, Span, Spans, HeadSpan
    <1>9. LinesMsg(lump) \in SrvMessages
        BY <1>1, <1>4, <1>7 DEF LinesMsg, SrvMessages, WorkMessages, HeadSpan
    <1>10. /\ rest \in Spans
           /\ rest.li_frame = Fr /\ rest.li_start = stop + 1 /\ rest.li_stop = h.li_stop
        <2>1. stop + 1 \in Nat  BY <1>7
        <2>2. QED  BY <1>3, <1>4, <2>1 DEF Spans
    <1>11. /\ PixelsOf(a) \subseteq PixelsOf(h)
           /\ stop # h.li_stop => /\ PixelsOf(rest) \subseteq PixelsOf(h)
                                  /\ PixelsOf(a) \cap PixelsOf(rest) = {}
        <2>1. PixelsOf(a) = h.li_start .. stop  BY <1>8 DEF PixelsOf
        <2>2. PixelsOf(rest) = stop + 1 .. h.li_stop  BY <1>10 DEF PixelsOf
        <2>3. PixelsOf(h) = h.li_start .. h.li_stop  BY DEF PixelsOf
        <2>4. stop # h.li_stop => stop + 1 >= h.li_start  BY <1>4 DEF Stop, HeadSpan
        <2> HIDE DEF h, stop, a, rest
        <2>5. QED  BY <2>1, <2>2, <2>3, <2>4, <1>4, <1>7, SplitRange
    <1>12. \A i \in DOMAIN Tail(l) : /\ PixelsOf(h) \cap PixelsOf(Tail(l)[i]) = {}
                                     /\ PixelsOf(Tail(l)[i]) \subseteq PixelsOfList(l)
                                     /\ Tail(l)[i].li_frame = Fr
        <2>1. SUFFICES ASSUME NEW i \in DOMAIN Tail(l)
                       PROVE  /\ PixelsOf(h) \cap PixelsOf(Tail(l)[i]) = {}
                              /\ PixelsOf(Tail(l)[i]) \subseteq PixelsOfList(l)
                              /\ Tail(l)[i].li_frame = Fr
            OBVIOUS
        <2>2. i + 1 \in DOMAIN l /\ i + 1 # 1 /\ Tail(l)[i] = l[i + 1]  BY <1>3
        <2>3. PixelsOf(l[1]) \cap PixelsOf(l[i + 1]) = {}  BY <1>3, <2>2
        <2>4. PixelsOf(l[i + 1]) \subseteq PixelsOfList(l)  BY <2>2 DEF PixelsOfList
        <2>5. QED  BY <1>2, <1>3, <2>2, <2>3, <2>4
    <1>13. \A i, j \in DOMAIN Tail(l) : i # j => PixelsOf(Tail(l)[i]) \cap PixelsOf(Tail(l)[j]) = {}
        <2>1. SUFFICES ASSUME NEW i \in DOMAIN Tail(l), NEW j \in DOMAIN Tail(l), i # j
                       PROVE  PixelsOf(Tail(l)[i]) \cap PixelsOf(Tail(l)[j]) = {}
            OBVIOUS
        <2>2. i + 1 \in DOMAIN l /\ j + 1 \in DOMAIN l /\ i + 1 # j + 1  BY <1>3, <2>1
        <2>3. PixelsOf(l[i + 1]) \cap PixelsOf(l[j + 1]) = {}  BY <2>2
        <2>4. QED  BY <1>3, <2>3
    <1>14. PixelsOf(h) \subseteq PixelsOfList(l)
        BY <1>3 DEF PixelsOfList
    <1>15. /\ PixelsOf(h) \cap PixelsOfList(Tail(l)) = {}
           /\ PixelsOfList(Tail(l)) \subseteq PixelsOfList(l)
        <2> DEFINE tl == Tail(l)
        <2> HIDE DEF l, h, tl
        <2>1. \A i \in DOMAIN tl : /\ PixelsOf(h) \cap PixelsOf(tl[i]) = {}
                                   /\ PixelsOf(tl[i]) \subseteq PixelsOfList(l)
            BY <1>12 DEF tl
        <2>2. PixelsOfList(tl) = UNION {PixelsOf(tl[i]) : i \in DOMAIN tl}
            BY DEF PixelsOfList
        <2>3. PixelsOf(h) \cap PixelsOfList(tl) = {} /\ PixelsOfList(tl) \subseteq PixelsOfList(l)
            BY <2>1, <2>2
        <2>4. QED  BY <2>3 DEF tl
    <1> HIDE DEF l, h, stop, a, rest
    <1>16. /\ new \in Seq(Spans)
           /\ \A i \in DOMAIN new : new[i].li_frame = Fr
           /\ \A i, j \in DOMAIN new : i # j => PixelsOf(new[i]) \cap PixelsOf(new[j]) = {}
           /\ PixelsOf(a) \cap PixelsOfList(new) = {}
           /\ PixelsOfList(new) \subseteq PixelsOfList(l)
        <2>1. CASE stop = h.li_stop
            BY <2>1, <1>3, <1>11, <1>12, <1>13, <1>15
        <2>2. CASE stop # h.li_stop
            <3> DEFINE p == <<rest>> \o Tail(l)
            <3>1. new = p  BY <2>2
            <3>2. PixelsOf(rest) \cap PixelsOfList(Tail(l)) = {}  BY <1>11, <1>15, <2>2
            <3>3. /\ \A i, j \in DOMAIN p : i # j => PixelsOf(p[i]) \cap PixelsOf(p[j]) = {}
                BY <1>3, <1>10, <1>13, <3>2, PushDisjoint
            <3>4. PixelsOfList(p) = PixelsOf(rest) \cup PixelsOfList(Tail(l))
                BY <1>3, <1>10, PushElements
            <3>5. p \in Seq(Spans)
                BY <1>3, <1>10, <<rest>> \in Seq(Spans), ConcatProperties
            <3>6. \A i \in DOMAIN p : p[i].li_frame = Fr
                <4>1. SUFFICES ASSUME NEW i \in DOMAIN p PROVE p[i].li_frame = Fr
                    OBVIOUS
                <4>2. Len(Tail(l)) \in Nat /\ i \in 1 .. Len(Tail(l)) + 1
                    BY <1>3, <1>10, PushElements, LenProperties
                <4>3. CASE i = 1
                    BY <1>3, <1>10, <4>3, PushElements
                <4>4. CASE i # 1
                    <5>1. i \in 2 .. Len(Tail(l)) + 1  BY <4>2, <4>4
                    <5>2. i - 1 \in DOMAIN Tail(l) /\ p[i] = Tail(l)[i - 1]
                        BY <1>3, <1>10, <5>1, PushElements
                    <5>3. QED  BY <1>12, <5>2
                <4>5. QED  BY <4>3, <4>4
            <3> HIDE DEF p
            <3>7. QED
                BY <1>11, <1>14, <1>15, <2>2, <3>1, <3>3, <3>4, <3>5, <3>6
        <2>3. QED  BY <2>1, <2>2
    <1> HIDE DEF new
    <1>17. TodoAfter(lump) \in TodoLists
        BY <1>1, <1>5, <1>16 DEF TodoLists
    <1>18. TodoAfter(lump)[Fr] = new /\ \A g \in Frames : g # Fr => TodoAfter(lump)[g] = fr_todo[g]
        BY <1>1, <1>5 DEF TodoLists
    <1>19. QED
        BY <1>1, <1>8, <1>9, <1>11, <1>14, <1>16, <1>17, <1>18 DEF a, l

(* An assignment moves pixels from the list to an idle server's hands.     *)
LEMMA AssignDisjoint ==
    ASSUME fr_todo \in TodoLists, sr_work \in [Slots -> Works],
           FrameHead \in Seq(Frames), fi \in DOMAIN FrameHead, fr_todo[Fr] # <<>>,
           NEW lump \in Nat \ {0}, NEW s \in Slots, Disjoint(fr_todo, sr_work)
    PROVE  /\ WorkAfter(s, lump) \in [Slots -> Works]
           /\ Disjoint(TodoAfter(lump), WorkAfter(s, lump))
    <1> DEFINE todo == TodoAfter(lump)
               work == WorkAfter(s, lump)
               a == Assignment(lump)
    <1>1. Fr \in Frames  BY LenProperties, ElementOfSeq DEF Fr
    <1>2. \A i, j \in DOMAIN fr_todo[Fr] :
              i # j => PixelsOf(fr_todo[Fr][i]) \cap PixelsOf(fr_todo[Fr][j]) = {}
        BY <1>1 DEF Disjoint
    <1>3. /\ a \in Spans /\ a.li_frame = Fr
          /\ \A g \in Frames : g # Fr => todo[g] = fr_todo[g]
          /\ \A i, j \in DOMAIN todo[Fr] : i # j => PixelsOf(todo[Fr][i]) \cap PixelsOf(todo[Fr][j]) = {}
          /\ PixelsOf(a) \cap PixelsOfList(todo[Fr]) = {}
          /\ PixelsOf(a) \subseteq PixelsOfList(fr_todo[Fr])
          /\ PixelsOfList(todo[Fr]) \subseteq PixelsOfList(fr_todo[Fr])
        BY <1>2, AssignmentTaken
    <1>4. work \in [Slots -> Works] /\ \A t \in Slots : work[t] = IF t = s THEN a ELSE sr_work[t]
        BY <1>3 DEF WorkAfter, Works
    <1>5. \A t \in Slots : work[t] # NoWork => work[t].li_frame \in Frames
        BY <1>4, WorkIsSpan
    <1>6. NoWork.li_frame # Fr  BY <1>1, FrameIsNotNoFrame DEF NoWork
    <1> HIDE DEF todo, work, a
    <1>7. \A f \in Frames : \A i, j \in DOMAIN todo[f] :
             i # j => PixelsOf(todo[f][i]) \cap PixelsOf(todo[f][j]) = {}
        BY <1>3 DEF Disjoint
    <1>8. ASSUME NEW t \in Slots, work[t] # NoWork
          PROVE  PixelsOf(work[t]) \cap PixelsOfList(todo[work[t].li_frame]) = {}
        <2>1. CASE t = s  BY <2>1, <1>3, <1>4
        <2>2. CASE t # s
            <3>1. work[t] = sr_work[t]  BY <1>4, <2>2
            <3>2. PixelsOf(sr_work[t]) \cap PixelsOfList(fr_todo[sr_work[t].li_frame]) = {}
                BY <1>8, <3>1 DEF Disjoint
            <3>3. QED  BY <1>3, <1>5, <1>8, <3>1, <3>2
        <2>3. QED  BY <2>1, <2>2
    <1>9. \A t \in Slots : t # s /\ work[t].li_frame = Fr => PixelsOf(a) \cap PixelsOf(work[t]) = {}
        <2>1. SUFFICES ASSUME NEW t \in Slots, t # s, work[t].li_frame = Fr
                       PROVE  PixelsOf(a) \cap PixelsOf(work[t]) = {}
            OBVIOUS
        <2>2. work[t] = sr_work[t] /\ sr_work[t] # NoWork  BY <1>4, <1>6, <2>1
        <2>3. PixelsOf(sr_work[t]) \cap PixelsOfList(fr_todo[Fr]) = {}
            BY <2>1, <2>2 DEF Disjoint
        <2>4. QED  BY <1>3, <2>2, <2>3
    <1>10. ASSUME NEW t \in Slots, NEW u \in Slots, t # u, work[t] # NoWork,
                  work[t].li_frame = work[u].li_frame
           PROVE  PixelsOf(work[t]) \cap PixelsOf(work[u]) = {}
        <2>1. CASE t = s  BY <2>1, <1>3, <1>4, <1>9, <1>10
        <2>2. CASE u = s  BY <2>2, <1>3, <1>4, <1>9, <1>10
        <2>3. CASE t # s /\ u # s  BY <2>3, <1>4, <1>10 DEF Disjoint
        <2>4. QED  BY <2>1, <2>2, <2>3
    <1>11. Disjoint(todo, work)  BY <1>7, <1>8, <1>10 DEF Disjoint
    <1>12. QED  BY <1>4, <1>11 DEF todo, work

-----------------------------------------------------------------------------
(* The inductive invariant: the types, with the work lists and the servers *)
(* that hold work taken together, as they are changed together.            *)

WorkOK ==
    /\ sr_state \in [Slots -> States]
    /\ sr_work \in [Slots -> Works]
    /\ sr_curframe \in [Slots -> Frames \cup {NoFrame}]
    /\ clients \subseteq Slots
    /\ fr_todo \in TodoLists
    /\ Disjoint(fr_todo, sr_work)

JobOK ==
    /\ sr_pc \in [Slots -> BOOLEAN]
    /\ FrameHead \in Seq(Frames)
    /\ file \in [Frames -> SUBSET Nat]
    /\ running \in BOOLEAN
    /\ work_allocate_method \in {OPT_FRAME, OPT_LOAD, OPT_MOVIE}

IInv == NetTypeOK /\ RtsrvTypeOK /\ WorkOK /\ JobOK /\ LoopTypeOK

workVars == <<sr_state, sr_work, sr_curframe, clients, fr_todo>>
statusVars == <<sr_pc, FrameHead, file, running, work_allocate_method>>

LEMMA InvImpliesProperties == IInv => TypeOK /\ NoPixelTwice
    <1>1. WorkOK => NoPixelTwice
        BY NoPixelTwiceIsDisjoint DEF WorkOK
    <1>2. WorkOK /\ JobOK => ServersTypeOK /\ JobTypeOK
        BY DEF WorkOK, JobOK, ServersTypeOK, JobTypeOK, TodoLists, Works
    <1>3. QED  BY <1>1, <1>2 DEF IInv, TypeOK

(* drop_server keeps the work lists in order, whatever its caller has done *)
(* to them before.                                                         *)
LEMMA DropKeepsWork ==
    ASSUME WorkOK, NEW s \in Slots, NEW state \in States, NEW todo \in TodoLists,
           NEW work \in [Slots -> Works], Disjoint(todo, work), DropTo(s, state, todo, work)
    PROVE  WorkOK'
    <1>1. /\ sr_state' \in [Slots -> States]
          /\ sr_curframe' \in [Slots -> Frames \cup {NoFrame}]
          /\ clients' \subseteq Slots
        BY DEF DropTo, WorkOK
    <1>2. CASE Requeues(s) /\ work[s] # NoWork
        <2>1. work[s] \in Spans  BY <1>2, WorkIsSpan
        <2>2. /\ fr_todo' = [todo EXCEPT ![work[s].li_frame] = <<work[s]>> \o @]
              /\ sr_work' = [work EXCEPT ![s] = NoWork]
            BY <1>2 DEF DropTo
        <2>3. fr_todo' \in TodoLists  BY <2>1, <2>2, PushTyped
        <2>4. Disjoint(fr_todo', sr_work')  BY <1>2, <2>2, RequeueDisjoint
        <2>5. sr_work' \in [Slots -> Works]  BY <2>2 DEF Works
        <2>6. QED  BY <1>1, <2>3, <2>4, <2>5 DEF WorkOK, Disjoint
    <1>3. CASE ~(Requeues(s) /\ work[s] # NoWork)
        <2>1. fr_todo' = todo /\ sr_work' = work  BY <1>3 DEF DropTo
        <2>2. QED  BY <1>1, <2>1 DEF WorkOK, Disjoint
    <1>4. QED  BY <1>2, <1>3

LEMMA DroppedKeepsWork ==
    ASSUME WorkOK, NEW s \in Slots, Dropped(s)
    PROVE  WorkOK'
    <1>1. "CLOSING" \in States  BY DEF States
    <1>2. fr_todo \in TodoLists /\ sr_work \in [Slots -> Works] /\ Disjoint(fr_todo, sr_work)
        BY DEF WorkOK
    <1>3. DropTo(s, "CLOSING", fr_todo, sr_work)  BY DEF Dropped, Drop
    <1>4. QED  BY <1>1, <1>2, <1>3, DropKeepsWork

(* A change of state alone, and no change at all.                          *)
LEMMA StatechangeKeepsWork ==
    ASSUME WorkOK, NEW s \in Slots, NEW state \in States, statechange(s, state),
           UNCHANGED <<sr_work, sr_curframe, clients, fr_todo>>
    PROVE  WorkOK'
    BY DEF WorkOK, statechange, Disjoint

LEMMA UnchangedKeepsWork ==
    ASSUME WorkOK, UNCHANGED workVars
    PROVE  WorkOK'
    BY DEF WorkOK, workVars, Disjoint

LEMMA UnchangedKeepsJob ==
    ASSUME JobOK, UNCHANGED statusVars
    PROVE  JobOK'
    BY DEF JobOK, statusVars

(* pkg_send puts messages of the protocol on the connection.               *)
LEMMA SendKeepsNet ==
    ASSUME NetTypeOK, NEW s \in Slots, NEW k, NEW n, NEW msgs \in Seq(SrvMessages),
           Send(s, k, n, msgs)
    PROVE  NetTypeOK'
    <1>1. inbuf[s] \o toCtl[s] \in Seq(CtlMessages)
        BY ConcatProperties DEF NetTypeOK
    <1>2. toSrv[s] \o msgs \in Seq(SrvMessages)
        BY ConcatProperties DEF NetTypeOK
    <1>3. inbuf' \in [Slots -> Seq(CtlMessages)] /\ toCtl' \in [Slots -> Seq(CtlMessages)]
        BY <1>1, EmptySeq DEF Send, NetTypeOK
    <1>4. toSrv' \in [Slots -> Seq(SrvMessages)]
        BY <1>2 DEF Send, NetTypeOK
    <1>5. link' \in [Slots -> Links]
        <2>1. CASE link[s] = "fin"
            BY <2>1 DEF Send, NetTypeOK, Links
        <2>2. CASE link[s] # "fin"
            BY <2>2 DEF Send, NetTypeOK
        <2>3. QED  BY <2>1, <2>2
    <1>6. QED  BY <1>3, <1>4, <1>5 DEF Send, NetTypeOK

(* pkg_process takes a message from a buffer.                              *)
LEMMA HandleTyped ==
    ASSUME NetTypeOK, LoopTypeOK, NEW s \in Slots, NEW type, Handle(s, type)
    PROVE  /\ NetTypeOK'
           /\ Head(inbuf[s]) \in CtlMessages /\ Head(inbuf[s]).type = type
           /\ UNCHANGED <<pc, cmd>> => LoopTypeOK'
    <1>1. inbuf[s] \in Seq(CtlMessages) /\ inbuf[s] # <<>>
        BY DEF NetTypeOK, Handle, Comes, Waiting
    <1>2. Head(inbuf[s]) \in CtlMessages /\ Tail(inbuf[s]) \in Seq(CtlMessages)
        BY <1>1, HeadTailProperties
    <1>3. NetTypeOK'
        BY <1>2 DEF NetTypeOK, Handle
    <1>4. cur' \in Nat
        BY DEF Handle, Slots
    <1>5. pc # "task" /\ pc # "cmd" /\ pc # "cmd end"
        BY DEF Handle
    <1>6. UNCHANGED <<pc, cmd>> => LoopTypeOK'
        BY <1>4, <1>5 DEF LoopTypeOK, Handle
    <1>7. QED  BY <1>2, <1>3, <1>6 DEF Handle

-----------------------------------------------------------------------------
(* The handlers of pkgswitch.                                              *)

LEMMA ReplyKeepsIInv ==
    ASSUME IInv, NEW s \in Slots, NEW type, NEW state \in States, Handle(s, type),
           \/ statechange(s, state) /\ UNCHANGED <<sr_work, sr_curframe, clients, fr_todo>>
           \/ Dropped(s),
           UNCHANGED <<sr_pc, FrameHead, file, modeVars, pc, cmd>>, UNCHANGED rtsrvVars
    PROVE  IInv'
    <1>1. RtsrvTypeOK'  BY DEF IInv, RtsrvTypeOK, rtsrvVars
    <1>2. NetTypeOK' /\ LoopTypeOK'  BY HandleTyped DEF IInv
    <1>3. JobOK'  BY UnchangedKeepsJob DEF IInv, statusVars, modeVars
    <1>4. WorkOK'  BY StatechangeKeepsWork, DroppedKeepsWork DEF IInv
    <1>5. QED  BY <1>1, <1>2, <1>3, <1>4 DEF IInv

LEMMA RepliesKeepIInv ==
    ASSUME IInv, NEW s \in Slots,
           ph_version(s) \/ ph_dirbuild_reply(s) \/ ph_gettrees_reply(s), UNCHANGED rtsrvVars
    PROVE  IInv'
    <1>1. "VERSOK" \in States /\ "NEED_TREE" \in States /\ "READY" \in States
        BY DEF States
    <1>2. CASE ph_version(s)
        BY <1>1, <1>2, ReplyKeepsIInv DEF ph_version
    <1>3. CASE ph_dirbuild_reply(s)
        BY <1>1, <1>3, ReplyKeepsIInv DEF ph_dirbuild_reply
    <1>4. CASE ph_gettrees_reply(s)
        BY <1>1, <1>4, ReplyKeepsIInv DEF ph_gettrees_reply
    <1>5. QED  BY <1>2, <1>3, <1>4

LEMMA FileGrows ==
    ASSUME JobOK, WorkOK, NEW s \in Slots, NEW m, Answers(m, s), NEW new \in SUBSET Nat,
           file' = [file EXCEPT ![sr_work[s].li_frame] = @ \cup new]
    PROVE  file' \in [Frames -> SUBSET Nat]
    <1>1. sr_work[s].li_frame \in Frames
        BY WorkIsSpan DEF Answers, Idle, WorkOK
    <1>2. QED  BY <1>1 DEF JobOK

LEMMA PixelsKeepIInv ==
    ASSUME IInv, NEW s \in Slots, ph_pixels(s), UNCHANGED rtsrvVars
    PROVE  IInv'
    <1> DEFINE work == [sr_work EXCEPT ![s] = NoWork]
    <1>1. RtsrvTypeOK'  BY DEF IInv, RtsrvTypeOK, rtsrvVars
    <1>2. Handle(s, "PIXELS") /\ UNCHANGED <<sr_pc, FrameHead, work_allocate_method, pc, cmd>>
        BY DEF ph_pixels, IgnorePixels, FilePixels, FileCannotBeOpened, FileWriteFails,
               srvVars, jobVars, modeVars
    <1>3. NetTypeOK' /\ LoopTypeOK'  BY <1>2, HandleTyped DEF IInv
    <1>4. /\ fr_todo \in TodoLists /\ Disjoint(fr_todo, sr_work) /\ sr_work \in [Slots -> Works]
          /\ work \in [Slots -> Works] /\ Disjoint(fr_todo, work)
        BY ForgetDisjoint DEF IInv, WorkOK, Works
    <1>5. "CLOSING" \in States  BY DEF States
    <1> HIDE DEF work
    <1>6. PixelsOf(sr_work[s]) \subseteq Nat /\ \A n : (sr_work[s].li_start .. n - 1) \subseteq Int
        <2>1. sr_work[s].li_start \in Nat /\ sr_work[s].li_stop \in Nat
            BY <1>4, WorkIsSpan DEF NoWork
        <2>2. QED  BY <2>1 DEF PixelsOf
    <1>7. CASE IgnorePixels(s)
        <2>1. JobOK' /\ WorkOK'
            BY <1>7, UnchangedKeepsJob, UnchangedKeepsWork
            DEF IInv, IgnorePixels, srvVars, jobVars, modeVars, statusVars, workVars
        <2>2. QED  BY <1>1, <1>3, <2>1 DEF IInv
    <1>8. CASE FilePixels(s)
        <2>1. CASE Answers(Head(inbuf[s]), s)
            <3>1. file' \in [Frames -> SUBSET Nat]
                BY <1>6, <1>8, <2>1, FileGrows DEF FilePixels, IInv
            <3>2. JobOK'
                BY <1>8, <3>1 DEF IInv, JobOK, FilePixels, modeVars
            <3>3. CASE Drop(s, fr_todo, work)
                BY <1>1, <1>3, <1>4, <1>5, <3>2, <3>3, DropKeepsWork DEF Drop, IInv
            <3>4. CASE sr_work' = work /\ UNCHANGED <<sr_state, sr_curframe, clients, fr_todo>>
                BY <1>1, <1>3, <1>4, <3>2, <3>4 DEF IInv, WorkOK, Disjoint
            <3>5. QED  BY <1>8, <2>1, <3>3, <3>4 DEF FilePixels, work
        <2>2. CASE ~Answers(Head(inbuf[s]), s)
            <3>1. Dropped(s) /\ UNCHANGED statusVars
                BY <1>8, <2>2 DEF FilePixels, statusVars, modeVars
            <3>2. QED
                BY <1>1, <1>3, <3>1, DroppedKeepsWork, UnchangedKeepsJob DEF IInv
        <2>3. QED  BY <2>1, <2>2
    <1>9. CASE FileCannotBeOpened(s)
        <2>1. JobOK'
            <3>1. UNCHANGED statusVars  BY <1>9 DEF FileCannotBeOpened, modeVars, statusVars
            <3>2. QED  BY <3>1, UnchangedKeepsJob DEF IInv
        <2>2. CASE Drop(s, fr_todo, work)
            BY <1>1, <1>3, <1>4, <1>5, <2>1, <2>2, DropKeepsWork DEF Drop, IInv
        <2>3. CASE sr_work' = work /\ UNCHANGED <<sr_state, sr_curframe, clients, fr_todo>>
            BY <1>1, <1>3, <1>4, <2>1, <2>3 DEF IInv, WorkOK, Disjoint
        <2>4. QED  BY <1>9, <2>2, <2>3 DEF FileCannotBeOpened, work
    <1>10. CASE FileWriteFails(s)
        <2>1. PICK n \in PixelsOf(sr_work[s]) :
                file' = [file EXCEPT ![sr_work[s].li_frame] = @ \cup (sr_work[s].li_start .. n - 1)]
            BY <1>10 DEF FileWriteFails
        <2>2. (sr_work[s].li_start .. n - 1) \subseteq Nat
            <3>1. sr_work[s].li_start \in Nat /\ n \in Nat
                BY <1>4, <1>6, <2>1, WorkIsSpan DEF NoWork
            <3>2. QED  BY <3>1
        <2>3. file' \in [Frames -> SUBSET Nat]
            BY <1>10, <2>1, <2>2, FileGrows DEF FileWriteFails, IInv
        <2>4. JobOK' /\ Dropped(s)
            BY <1>10, <2>3 DEF IInv, JobOK, FileWriteFails
        <2>5. QED  BY <1>1, <1>3, <2>4, DroppedKeepsWork DEF IInv
    <1>11. QED  BY <1>7, <1>8, <1>9, <1>10 DEF ph_pixels

LEMMA CmdKeepsIInv ==
    ASSUME IInv, NEW s \in Slots, ph_cmd(s), UNCHANGED rtsrvVars
    PROVE  IInv'
    <1>1. RtsrvTypeOK'  BY DEF IInv, RtsrvTypeOK, rtsrvVars
    <1>2. Handle(s, "CMD")  BY DEF ph_cmd
    <1>3. NetTypeOK' /\ Head(inbuf[s]).cmd \in CommandNames
        BY <1>2, HandleTyped, CtlMessageContents DEF IInv
    <1>4. WorkOK' /\ JobOK'
        BY UnchangedKeepsJob, UnchangedKeepsWork
        DEF IInv, ph_cmd, srvVars, jobVars, modeVars, statusVars, workVars
    <1>5. cmd' \in [name : CommandNames, from : Slots, ret : {"process1", "process2"}]
        BY <1>2, <1>3 DEF ph_cmd, Handle
    <1>6. cmd' # NoCmd
        BY <1>5 DEF NoCmd, Slots
    <1>7. LoopTypeOK'
        <2>1. cur' = 1 /\ pc' = "cmd" /\ UNCHANGED <<calls, fi, another_pass, nxt_frame, ifdset>>
            BY DEF ph_cmd, Handle
        <2>2. QED  BY <1>5, <1>6, <2>1 DEF IInv, LoopTypeOK
    <1>8. QED  BY <1>1, <1>3, <1>4, <1>7 DEF IInv

-----------------------------------------------------------------------------
(* The commands.                                                           *)

(* Steps that only move on in the loop, or set the mode.                   *)
LEMMA LoopStepKeepsIInv ==
    ASSUME IInv, UNCHANGED <<srvVars, jobVars, netVars, rtsrvVars>>,
           running' \in BOOLEAN, work_allocate_method' \in {OPT_FRAME, OPT_LOAD, OPT_MOVIE},
           LoopTypeOK'
    PROVE  IInv'
    <1>1. RtsrvTypeOK'  BY DEF IInv, RtsrvTypeOK, rtsrvVars
    <1>2. NetTypeOK'  BY DEF IInv, NetTypeOK, netVars
    <1>3. WorkOK'  BY UnchangedKeepsWork DEF IInv, srvVars, jobVars, workVars
    <1>4. JobOK'  BY DEF IInv, JobOK, srvVars, jobVars
    <1>5. QED  BY <1>1, <1>2, <1>3, <1>4 DEF IInv

LEMMA SlotsAreNumbers == 0 \notin Slots /\ \A s \in Slots : s \in Nat /\ s + 1 \in Nat
    BY DEF Slots

(* Leaving for another place in the loop.                                  *)
AllPlaces == {"process1", "select", "accept", "suck", "process2", "transitions",
              "frames", "frame", "task", "cmd", "cmd end", "exit"}

LoopPlaces == AllPlaces \ {"task", "cmd", "cmd end"}

LEMMA GotoNumbers ==
    ASSUME NEW p, Goto(p)
    PROVE  pc' = p /\ cur' \in Nat /\ fi' \in Nat \ {0}
    BY DEF Goto

LEMMA GotoTyped ==
    ASSUME LoopTypeOK, NEW p \in AllPlaces, Goto(p),
           p # "task", p \in LoopPlaces \/ pc = "cmd",
           UNCHANGED <<calls, cmd>>, another_pass' \in BOOLEAN, nxt_frame' \in 0 .. 2,
           ifdset' \subseteq ifdset \/ ifdset' \subseteq Slots
    PROVE  LoopTypeOK'
    <1>1. 0 \notin Slots  BY SlotsAreNumbers
    <1>2. ifdset' \subseteq Slots \cup {0} /\ (0 \in ifdset' => calls' # <<>>)
        BY <1>1 DEF LoopTypeOK
    <1>3. cur' = 1 /\ fi' = 1 /\ pc' = p  BY DEF Goto
    <1>4. pc' \in {"process1", "select", "accept", "suck", "process2", "transitions",
                   "frames", "frame", "task", "cmd", "cmd end", "exit"}
        BY <1>3 DEF AllPlaces
    <1>5. (pc' \in {"cmd", "cmd end"} => cmd' # NoCmd) /\ pc' # "task"
        BY <1>3 DEF LoopTypeOK, LoopPlaces
    <1>6. cmd' \in [name : CommandNames, from : Slots, ret : {"process1", "process2"}] \cup {NoCmd}
        BY DEF LoopTypeOK
    <1>7. cur' \in Nat /\ fi' \in Nat \ {0}
        BY <1>3
    <1>8. (0 \in ifdset => calls # <<>>)'
        BY <1>2
    <1>9. QED  BY <1>2, <1>4, <1>5, <1>6, <1>7, <1>8 DEF LoopTypeOK

LEMMA ModeCommandsKeepIInv ==
    ASSUME IInv, cd_stop \/ cd_go \/ (\E m \in {OPT_FRAME, OPT_LOAD, OPT_MOVIE} : cd_allocate(m))
                   \/ BroadcastEnd,
           UNCHANGED rtsrvVars
    PROVE  IInv'
    <1>1. /\ pc = "cmd" /\ Goto("cmd end")
          /\ UNCHANGED <<srvVars, jobVars, another_pass, nxt_frame, ifdset, cmd, netVars>>
        BY DEF cd_stop, cd_go, cd_allocate, BroadcastEnd, Doing, RestartsAll
    <1>2. running' \in BOOLEAN /\ work_allocate_method' \in {OPT_FRAME, OPT_LOAD, OPT_MOVIE}
        BY DEF IInv, JobOK, cd_stop, cd_go, cd_allocate, BroadcastEnd, modeVars
    <1>3. LoopTypeOK'
        BY <1>1, GotoTyped DEF IInv, LoopTypeOK, netVars, AllPlaces
    <1>4. QED  BY <1>1, <1>2, <1>3, LoopStepKeepsIInv

LEMMA DropCommandKeepsIInv ==
    ASSUME IInv, NEW t \in Slots, cd_drop(t), UNCHANGED rtsrvVars
    PROVE  IInv'
    <1>1. RtsrvTypeOK' /\ NetTypeOK'
        BY DEF IInv, RtsrvTypeOK, rtsrvVars, NetTypeOK, netVars, cd_drop
    <1>2. WorkOK'  BY DroppedKeepsWork DEF IInv, cd_drop
    <1>3. JobOK'  BY UnchangedKeepsJob DEF IInv, cd_drop, statusVars, modeVars
    <1>4. pc = "cmd" /\ Goto("cmd end")
          /\ UNCHANGED <<another_pass, nxt_frame, ifdset, cmd, calls>>
        BY DEF cd_drop, Doing, netVars
    <1>5. LoopTypeOK'  BY <1>4, GotoTyped DEF IInv, LoopTypeOK, AllPlaces
    <1>6. QED  BY <1>1, <1>2, <1>3, <1>5 DEF IInv

LEMMA CmdEndKeepsIInv ==
    ASSUME IInv, CmdEnd, UNCHANGED rtsrvVars
    PROVE  IInv'
    <1>1. RtsrvTypeOK' /\ NetTypeOK'
        BY DEF IInv, RtsrvTypeOK, rtsrvVars, NetTypeOK, netVars, CmdEnd
    <1>2. cmd.from \in Slots /\ cmd.ret \in {"process1", "process2"}
        BY DEF IInv, LoopTypeOK, CmdEnd
    <1>3. WorkOK'  BY <1>2, DroppedKeepsWork DEF IInv, CmdEnd
    <1>4. JobOK'  BY UnchangedKeepsJob DEF IInv, CmdEnd, statusVars, modeVars
    <1>5. /\ cur' \in Nat /\ pc' \in {"process1", "process2"} /\ cmd' = NoCmd
          /\ UNCHANGED <<fi, another_pass, nxt_frame, ifdset, calls>>
        <2>1. cmd.from \in Nat  BY <1>2 DEF Slots
        <2>2. QED  BY <1>2, <2>1 DEF CmdEnd, netVars
    <1>6. LoopTypeOK'  BY <1>5 DEF IInv, LoopTypeOK
    <1>7. QED  BY <1>1, <1>3, <1>4, <1>6 DEF IInv

(* send_restart, and the steps that send something and may drop.           *)
LEMMA SendRestartTyped ==
    ASSUME IInv, NEW t \in Slots, send_restart(t)
    PROVE  NetTypeOK' /\ WorkOK' /\ UNCHANGED calls
    <1>1. PICK k \in Sent(t, 1) :
            /\ Send(t, k, 1, <<[type |-> "RESTART"]>>)
            /\ IF k = 1
               THEN /\ statechange(t, "RESTART")
                    /\ UNCHANGED <<sr_work, sr_curframe, clients, fr_todo>>
               ELSE DropTo(t, "RESTART", fr_todo, sr_work)
        BY DEF send_restart
    <1>2. <<[type |-> "RESTART"]>> \in Seq(SrvMessages)
        <2>1. [type |-> "RESTART"] \in SrvMessages  BY DEF SrvMessages
        <2>2. QED  BY <2>1
    <1>3. NetTypeOK'  BY <1>1, <1>2, SendKeepsNet DEF IInv
    <1>4. "RESTART" \in States  BY DEF States
    <1>5. WorkOK'
        <2>1. CASE k = 1
            BY <1>1, <1>4, <2>1, StatechangeKeepsWork DEF IInv
        <2>2. CASE k # 1
            <3>1. /\ fr_todo \in TodoLists /\ sr_work \in [Slots -> Works]
                  /\ Disjoint(fr_todo, sr_work) /\ WorkOK
                BY DEF IInv, WorkOK
            <3>2. QED  BY <1>1, <1>4, <2>2, <3>1, DropKeepsWork
        <2>3. QED  BY <2>1, <2>2
    <1>6. UNCHANGED calls  BY <1>1 DEF Send
    <1>7. QED  BY <1>3, <1>5, <1>6

LEMMA RestartCommandsKeepIInv ==
    ASSUME IInv, NEW t \in Slots, cd_restart(t) \/ RestartNext(t), UNCHANGED rtsrvVars
    PROVE  IInv'
    <1>1. RtsrvTypeOK'  BY DEF IInv, RtsrvTypeOK, rtsrvVars
    <1>2. NetTypeOK' /\ WorkOK' /\ UNCHANGED calls
        BY SendRestartTyped DEF cd_restart, RestartNext
    <1>3. JobOK'
        BY UnchangedKeepsJob DEF IInv, cd_restart, RestartNext, statusVars, modeVars
    <1>4. LoopTypeOK'
        <2>1. CASE cd_restart(t)
            BY <1>2, <2>1, GotoTyped DEF IInv, LoopTypeOK, cd_restart, Doing, AllPlaces
        <2>2. CASE RestartNext(t)
            <3>1. UNCHANGED <<pc, fi, another_pass, nxt_frame, ifdset, cmd, FrameHead>> /\ cur' = t + 1
                BY <2>2 DEF RestartNext
            <3>2. t + 1 \in Nat  BY DEF Slots
            <3>3. QED  BY <1>2, <3>1, <3>2 DEF IInv, LoopTypeOK
        <2>3. QED  BY <2>1, <2>2
    <1>5. QED  BY <1>1, <1>2, <1>3, <1>4 DEF IInv

LEMMA RdebugKeepsIInv ==
    ASSUME IInv, NEW t \in Slots, RdebugNext(t), UNCHANGED rtsrvVars
    PROVE  IInv'
    <1>1. RtsrvTypeOK'  BY DEF IInv, RtsrvTypeOK, rtsrvVars
    <1>2. PICK k \in Sent(t, 1) :
            /\ Send(t, k, 1, <<[type |-> "OPTIONS"]>>)
            /\ IF k = 1 THEN UNCHANGED <<sr_state, sr_work, sr_curframe, clients, fr_todo>>
                        ELSE Dropped(t)
        BY DEF RdebugNext
    <1>3. <<[type |-> "OPTIONS"]>> \in Seq(SrvMessages)
        <2>1. [type |-> "OPTIONS"] \in SrvMessages  BY DEF SrvMessages, WorkMessages
        <2>2. QED  BY <2>1
    <1>4. NetTypeOK'  BY <1>2, <1>3, SendKeepsNet DEF IInv
    <1>5. WorkOK'
        BY <1>2, UnchangedKeepsWork, DroppedKeepsWork DEF IInv, workVars
    <1>6. JobOK'
        BY UnchangedKeepsJob DEF IInv, RdebugNext, statusVars, modeVars
    <1>7. LoopTypeOK'
        <2>1. UNCHANGED <<calls, pc, fi, another_pass, nxt_frame, ifdset, cmd, FrameHead>> /\ cur' = t + 1
            BY <1>2 DEF RdebugNext, Send
        <2>2. t + 1 \in Nat  BY DEF Slots
        <2>3. QED  BY <2>1, <2>2 DEF IInv, LoopTypeOK
    <1>8. QED  BY <1>1, <1>4, <1>5, <1>6, <1>7 DEF IInv

LEMMA CommandKeepsIInv ==
    ASSUME IInv, Command, UNCHANGED rtsrvVars
    PROVE  IInv'
    BY ModeCommandsKeepIInv, DropCommandKeepsIInv, CmdEndKeepsIInv, RestartCommandsKeepIInv,
       RdebugKeepsIInv
    DEF Command

-----------------------------------------------------------------------------
(* check_input.                                                            *)

LEMMA CheckInputLoopsKeepIInv ==
    ASSUME IInv, ProcessEnd \/ Select \/ SuckEnd \/ TransitionsEnd,
           UNCHANGED rtsrvVars
    PROVE  IInv'
    <1>1. PICK p \in LoopPlaces : Goto(p)
        BY "select" \in LoopPlaces, "transitions" \in LoopPlaces, "accept" \in LoopPlaces,
           "suck" \in LoopPlaces, "process2" \in LoopPlaces, "frames" \in LoopPlaces
        DEF ProcessEnd, Select, SuckEnd, TransitionsEnd, LoopPlaces, AllPlaces
    <1>2. /\ UNCHANGED <<srvVars, jobVars, modeVars, another_pass, nxt_frame, cmd, netVars>>
          /\ UNCHANGED <<calls, running, work_allocate_method>>
        BY DEF ProcessEnd, Select, SuckEnd, TransitionsEnd, netVars, modeVars
    <1>3. CASE ~Select
        <2>1. ifdset' \subseteq ifdset
            BY <1>3 DEF ProcessEnd, SuckEnd, TransitionsEnd
        <2>2. p \in AllPlaces /\ p # "task"  BY <1>1 DEF LoopPlaces
        <2>3. another_pass' \in BOOLEAN /\ nxt_frame' \in 0 .. 2 /\ LoopTypeOK
            BY <1>2 DEF IInv, LoopTypeOK
        <2>4. LoopTypeOK'  BY <1>1, <1>2, <2>1, <2>2, <2>3, GotoTyped
        <2>5. QED  BY <1>2, <2>4, LoopStepKeepsIInv DEF IInv, JobOK
    <1>4. CASE Select
        <2>1. ifdset' \subseteq Slots \cup {0} /\ (0 \in ifdset' => calls' # <<>>)
            <3>1. clients \subseteq Slots  BY DEF IInv, WorkOK
            <3>2. \A s \in Slots : s # 0  BY SlotsAreNumbers
            <3>3. QED  BY <1>2, <1>4, <3>1, <3>2 DEF Select, Readable
        <2>2. pc' \in LoopPlaces /\ cur' \in Nat /\ fi' \in Nat \ {0}  BY <1>1, GotoNumbers
        <2>3. LoopTypeOK'  BY <1>2, <2>1, <2>2 DEF IInv, LoopTypeOK, LoopPlaces, AllPlaces
        <2>4. QED  BY <1>2, <2>3, LoopStepKeepsIInv DEF IInv, JobOK
    <1>5. QED  BY <1>3, <1>4

LEMMA NoClientKeepsIInv ==
    ASSUME IInv, NoClient, UNCHANGED rtsrvVars
    PROVE  IInv'
    <1>1. RtsrvTypeOK'  BY DEF IInv, RtsrvTypeOK, rtsrvVars
    <1>2. UNCHANGED <<srvVars, jobVars, modeVars>>  BY DEF NoClient
    <1>3. calls' \in Seq({"rtsrv", "stale"} \cup CommandNames)
        <2>1. calls \in Seq({"rtsrv", "stale"} \cup CommandNames)  BY DEF IInv, NetTypeOK
        <2>2. CASE UNCHANGED calls  BY <2>1, <2>2
        <2>3. CASE 0 \in ifdset /\ calls' = Tail(calls)
            <3>1. calls # <<>>  BY <2>3 DEF IInv, LoopTypeOK
            <3>2. QED  BY <2>1, <2>3, <3>1, HeadTailProperties
        <2>4. QED  BY <2>2, <2>3 DEF NoClient
    <1>4. NetTypeOK'  BY <1>3 DEF IInv, NetTypeOK, NoClient
    <1>5. WorkOK'  BY <1>2, UnchangedKeepsWork DEF IInv, srvVars, jobVars, workVars
    <1>6. JobOK'  BY <1>2 DEF IInv, JobOK, srvVars, jobVars, modeVars
    <1>7. LoopTypeOK'
        <2>1. pc' = "suck" /\ cur' \in Nat /\ fi' \in Nat \ {0}
            BY GotoNumbers DEF NoClient
        <2>2. ifdset' = ifdset \ {0} /\ UNCHANGED <<another_pass, nxt_frame, cmd>>
            BY DEF NoClient
        <2>3. ifdset' \subseteq Slots \cup {0} /\ 0 \notin ifdset'
            BY <2>2 DEF IInv, LoopTypeOK
        <2>4. QED  BY <2>1, <2>2, <2>3 DEF IInv, LoopTypeOK
    <1>8. QED  BY <1>1, <1>4, <1>5, <1>6, <1>7 DEF IInv

LEMMA AddclientKeepsIInv ==
    ASSUME IInv, NEW s \in Slots, addclient(s), UNCHANGED rtsrvVars
    PROVE  IInv'
    <1>1. RtsrvTypeOK'  BY DEF IInv, RtsrvTypeOK, rtsrvVars
    <1> DEFINE Callees == {"rtsrv", "stale"} \cup CommandNames
    <1>2. calls \in Seq(Callees) /\ calls # <<>>
        BY DEF IInv, NetTypeOK, LoopTypeOK, addclient
    <1>3. Head(calls) \in Callees /\ Tail(calls) \in Seq(Callees)
        BY <1>2, HeadTailProperties
    <1>4. NetTypeOK'
        BY <1>3 DEF IInv, NetTypeOK, addclient, Links
    <1>5. WorkOK'
        <2>1. /\ sr_work' = [sr_work EXCEPT ![s] = NoWork] /\ fr_todo' = fr_todo
              /\ Disjoint(fr_todo, sr_work) /\ sr_work \in [Slots -> Works]
            BY DEF addclient, jobVars, IInv, WorkOK
        <2>2. Disjoint(fr_todo, [sr_work EXCEPT ![s] = NoWork])
            BY <2>1, ForgetDisjoint
        <2>3. Disjoint(fr_todo, sr_work)'  BY <2>1, <2>2 DEF Disjoint
        <2>4. /\ sr_work' \in [Slots -> Works] /\ fr_todo' \in TodoLists
              /\ sr_curframe' \in [Slots -> Frames \cup {NoFrame}]
              /\ clients' \subseteq Slots
            BY <2>1 DEF addclient, IInv, WorkOK, Works, TodoLists
        <2>5. sr_state' \in [Slots -> States]
            BY DEF addclient, statechange, IInv, WorkOK, States
        <2>6. QED  BY <2>3, <2>4, <2>5 DEF WorkOK, TodoLists
    <1>6. JobOK'
        BY DEF IInv, JobOK, addclient, jobVars, modeVars
    <1>7. LoopTypeOK'
        <2>1. pc' = "suck" /\ cur' \in Nat /\ fi' \in Nat \ {0}
            BY GotoNumbers DEF addclient
        <2>2. ifdset' = ifdset \ {0} /\ UNCHANGED <<another_pass, nxt_frame, cmd>>
            BY DEF addclient
        <2>3. ifdset' \subseteq Slots \cup {0} /\ 0 \notin ifdset'
            BY <2>2 DEF IInv, LoopTypeOK
        <2>4. QED  BY <2>1, <2>2, <2>3 DEF IInv, LoopTypeOK
    <1>8. QED  BY <1>1, <1>4, <1>5, <1>6, <1>7 DEF IInv

LEMMA SuckKeepsIInv ==
    ASSUME IInv, NEW s \in Slots, Suck(s), UNCHANGED rtsrvVars
    PROVE  IInv'
    <1>1. RtsrvTypeOK'  BY DEF IInv, RtsrvTypeOK, rtsrvVars
    <1>2. inbuf[s] \o toCtl[s] \in Seq(CtlMessages) /\ <<>> \in Seq(CtlMessages)
        BY ConcatProperties, EmptySeq DEF IInv, NetTypeOK
    <1>3. NetTypeOK'
        <2>1. CASE toCtl[s] # <<>>  BY <1>2, <2>1 DEF IInv, NetTypeOK, Suck
        <2>2. CASE toCtl[s] = <<>>  BY <2>2 DEF IInv, NetTypeOK, Suck
        <2>3. QED  BY <2>1, <2>2
    <1>4. WorkOK'
        BY UnchangedKeepsWork, DroppedKeepsWork DEF IInv, Suck, workVars
    <1>5. JobOK'
        BY UnchangedKeepsJob DEF IInv, Suck, statusVars, modeVars
    <1>6. LoopTypeOK'
        <2>1. UNCHANGED <<calls, pc, fi, another_pass, nxt_frame, ifdset, cmd, FrameHead>>
              /\ cur' = s + 1
            BY DEF Suck
        <2>2. QED  BY <2>1, SlotsAreNumbers DEF IInv, LoopTypeOK
    <1>7. QED  BY <1>1, <1>3, <1>4, <1>5, <1>6 DEF IInv

-----------------------------------------------------------------------------
(* schedule(): state transitions and finished frames.                      *)

LEMMA SendDirbuildKeepsIInv ==
    ASSUME IInv, NEW s \in Slots, SendDirbuild(s), UNCHANGED rtsrvVars
    PROVE  IInv'
    <1>1. RtsrvTypeOK'  BY DEF IInv, RtsrvTypeOK, rtsrvVars
    <1>2. PICK k \in Sent(s, 2) :
            /\ Send(s, k, 2, <<[type |-> "DIRBUILD"]>>)
            /\ IF k = 2
               THEN /\ statechange(s, "DOING_DIRBUILD")
                    /\ UNCHANGED <<sr_work, sr_curframe, clients, fr_todo>>
               ELSE Dropped(s)
        BY DEF SendDirbuild
    <1>3. <<[type |-> "DIRBUILD"]>> \in Seq(SrvMessages)
        <2>1. [type |-> "DIRBUILD"] \in SrvMessages  BY DEF SrvMessages
        <2>2. QED  BY <2>1
    <1>4. NetTypeOK'  BY <1>2, <1>3, SendKeepsNet DEF IInv
    <1>5. "DOING_DIRBUILD" \in States  BY DEF States
    <1>6. WorkOK'
        BY <1>2, <1>5, StatechangeKeepsWork, DroppedKeepsWork DEF IInv
    <1>7. JobOK'
        BY UnchangedKeepsJob DEF IInv, SendDirbuild, statusVars, modeVars
    <1>8. LoopTypeOK'
        <2>1. UNCHANGED <<calls, pc, fi, another_pass, nxt_frame, ifdset, cmd, FrameHead>>
              /\ cur' = s + 1
            BY <1>2 DEF SendDirbuild, Send
        <2>2. QED  BY <2>1, SlotsAreNumbers DEF IInv, LoopTypeOK
    <1>9. QED  BY <1>1, <1>4, <1>6, <1>7, <1>8 DEF IInv

LEMMA ForgetTyped ==
    ASSUME RtsrvTypeOK, NEW s \in Slots, Forget(s)
    PROVE  RtsrvTypeOK'
    BY EmptySeq DEF RtsrvTypeOK, Forget

LEMMA FinalCloseKeepsIInv ==
    ASSUME IInv, NEW s \in Slots, FinalClose(s), Forget(s)
    PROVE  IInv'
    <1>1. RtsrvTypeOK'  BY ForgetTyped DEF IInv
    <1>2. NetTypeOK'
        BY EmptySeq DEF IInv, NetTypeOK, FinalClose, Links
    <1>3. WorkOK'
        BY DEF IInv, WorkOK, FinalClose, statechange, States, jobVars, Disjoint
    <1>4. JobOK'
        BY DEF IInv, JobOK, FinalClose, jobVars, modeVars
    <1>5. LoopTypeOK'
        <2>1. UNCHANGED <<calls, pc, fi, another_pass, nxt_frame, ifdset, cmd, FrameHead>>
              /\ cur' = s + 1
            BY DEF FinalClose, jobVars
        <2>2. QED  BY <2>1, SlotsAreNumbers DEF IInv, LoopTypeOK
    <1>6. QED  BY <1>1, <1>2, <1>3, <1>4, <1>5 DEF IInv

LEMMA WithoutTyped ==
    ASSUME NEW S, NEW seq \in Seq(S), NEW i \in DOMAIN seq
    PROVE  Without(seq, i) \in Seq(S)
    <1>1. Len(seq) \in Nat /\ i \in 1 .. Len(seq)  BY LenProperties
    <1>2. \A j \in 1 .. i - 1 : seq[j] \in S  BY <1>1, ElementOfSeq
    <1>3. \A j \in i + 1 .. Len(seq) : seq[j] \in S  BY <1>1, ElementOfSeq
    <1>4. SubSeq(seq, 1, i - 1) \in Seq(S)  BY <1>1, <1>2, SubSeqProperties
    <1>5. SubSeq(seq, i + 1, Len(seq)) \in Seq(S)  BY <1>1, <1>3, SubSeqProperties
    <1>6. QED  BY <1>4, <1>5, ConcatProperties DEF Without

LEMMA FrameIsDoneKeepsIInv ==
    ASSUME IInv, NEW i \in DOMAIN FrameHead, FrameIsDone(i), UNCHANGED rtsrvVars
    PROVE  IInv'
    <1>1. RtsrvTypeOK'  BY DEF IInv, RtsrvTypeOK, rtsrvVars
    <1>2. NetTypeOK'  BY DEF IInv, NetTypeOK, netVars, FrameIsDone
    <1>3. WorkOK'
        <2>1. sr_curframe' \in [Slots -> Frames \cup {NoFrame}]
            BY DEF IInv, WorkOK, FrameIsDone
        <2>2. UNCHANGED <<sr_state, sr_work, clients, fr_todo>>  BY DEF FrameIsDone
        <2>3. QED  BY <2>1, <2>2 DEF IInv, WorkOK, Disjoint
    <1>4. JobOK'
        <2>1. FrameHead' \in Seq(Frames)
            BY WithoutTyped DEF IInv, JobOK, FrameIsDone
        <2>2. QED  BY <2>1 DEF IInv, JobOK, FrameIsDone, modeVars
    <1>5. LoopTypeOK'
        <2>1. i \in Nat \ {0}
            BY LenProperties DEF IInv, JobOK
        <2>2. UNCHANGED <<calls, pc, cur, another_pass, nxt_frame, ifdset, cmd>>
              /\ fi' = i /\ pc = "frames"
            BY DEF FrameIsDone, netVars
        <2>3. QED  BY <2>1, <2>2 DEF IInv, LoopTypeOK
    <1>6. QED  BY <1>1, <1>2, <1>3, <1>4, <1>5 DEF IInv

LEMMA LeaveTyped ==
    ASSUME Leave
    PROVE  \E p \in LoopPlaces : Goto(p)
    BY "exit" \in LoopPlaces, "process1" \in LoopPlaces DEF Leave, LoopPlaces, AllPlaces

LEMMA FramesEndKeepsIInv ==
    ASSUME IInv, FramesEnd, UNCHANGED rtsrvVars
    PROVE  IInv'
    <1>1. PICK p \in LoopPlaces : Goto(p)
        <2>1. "frame" \in LoopPlaces  BY DEF LoopPlaces, AllPlaces
        <2>2. QED  BY <2>1, LeaveTyped DEF FramesEnd
    <1>2. /\ UNCHANGED <<srvVars, jobVars, netVars, rtsrvVars, calls>>
          /\ UNCHANGED <<work_allocate_method, another_pass, nxt_frame, ifdset, cmd>>
        BY DEF FramesEnd, netVars
    <1>3. running' \in BOOLEAN /\ work_allocate_method' \in {OPT_FRAME, OPT_LOAD, OPT_MOVIE}
        BY <1>2 DEF FramesEnd, IInv, JobOK
    <1>4. p \in AllPlaces /\ p # "task" BY <1>1 DEF LoopPlaces
    <1>5. /\ LoopTypeOK /\ another_pass' \in BOOLEAN /\ nxt_frame' \in 0 .. 2
          /\ ifdset' \subseteq ifdset
        BY <1>2 DEF IInv, LoopTypeOK
    <1>6. LoopTypeOK'  BY <1>1, <1>2, <1>4, <1>5, GotoTyped
    <1>7. QED  BY <1>2, <1>3, <1>6, LoopStepKeepsIInv

LEMMA FrameScanEndKeepsIInv ==
    ASSUME IInv, FrameScanEnd, UNCHANGED rtsrvVars
    PROVE  IInv'
    <1>1. PICK p \in LoopPlaces : Goto(p)
        <2>1. "frame" \in LoopPlaces  BY DEF LoopPlaces, AllPlaces
        <2>2. QED  BY <2>1, LeaveTyped DEF FrameScanEnd
    <1>2. /\ UNCHANGED <<srvVars, jobVars, netVars, rtsrvVars, calls>>
          /\ UNCHANGED <<running, another_pass, ifdset, cmd>>
        BY DEF FrameScanEnd, netVars
    <1>3. running' \in BOOLEAN /\ work_allocate_method' \in {OPT_FRAME, OPT_LOAD, OPT_MOVIE}
        <2>1. work_allocate_method \in 0 .. 2 /\ running \in BOOLEAN
            BY DEF IInv, JobOK, OPT_FRAME, OPT_LOAD, OPT_MOVIE
        <2>2. work_allocate_method' \in 0 .. 2
            BY <2>1 DEF FrameScanEnd
        <2>3. QED  BY <1>2, <2>1, <2>2 DEF OPT_FRAME, OPT_LOAD, OPT_MOVIE
    <1>4. p \in AllPlaces /\ p # "task"  BY <1>1 DEF LoopPlaces
    <1>5. /\ LoopTypeOK /\ another_pass' \in BOOLEAN /\ ifdset' \subseteq ifdset
        BY <1>2 DEF IInv, LoopTypeOK
    <1>6. nxt_frame' \in 0 .. 2
        <2>1. nxt_frame' = 0  BY DEF FrameScanEnd
        <2>2. QED  BY <2>1
    <1>7. LoopTypeOK'  BY <1>1, <1>2, <1>4, <1>5, <1>6, GotoTyped
    <1>8. QED  BY <1>2, <1>3, <1>7, LoopStepKeepsIInv

LEMMA FrameBeginKeepsIInv ==
    ASSUME IInv, FrameBegin, UNCHANGED rtsrvVars
    PROVE  IInv'
    <1>1. /\ UNCHANGED <<srvVars, jobVars, netVars, rtsrvVars, calls, FrameHead>>
          /\ UNCHANGED <<running, work_allocate_method, cur, another_pass, ifdset, cmd>>
        BY DEF FrameBegin, netVars, modeVars, jobVars
    <1>2. nxt_frame' \in 0 .. 2
        <2>1. nxt_frame' = 0  BY DEF FrameBegin
        <2>2. QED  BY <2>1
    <1>3. fi \in Nat \ {0} /\ fi + 1 \in Nat \ {0}
        <2>1. fi \in Nat \ {0}  BY DEF IInv, LoopTypeOK
        <2>2. QED  BY <2>1
    <1>4. fi' \in Nat \ {0} /\ pc' \in {"frame", "task"} /\ (pc' = "task" => fi' <= Len(FrameHead))
        BY <1>3 DEF FrameBegin
    <1>5. LoopTypeOK'  BY <1>1, <1>2, <1>4 DEF IInv, LoopTypeOK
    <1>6. QED  BY <1>1, <1>5, LoopStepKeepsIInv DEF IInv, JobOK

LEMMA PassEndKeepsIInv ==
    ASSUME IInv, PassEnd, UNCHANGED rtsrvVars
    PROVE  IInv'
    <1>1. /\ UNCHANGED <<srvVars, jobVars, netVars, rtsrvVars, calls, FrameHead>>
          /\ UNCHANGED <<running, work_allocate_method, nxt_frame, ifdset, cmd>>
          /\ another_pass' = FALSE
        BY DEF PassEnd, netVars, modeVars, jobVars
    <1>2. cur' \in Nat
        <2>1. cur' = 1  BY DEF PassEnd
        <2>2. QED  BY <2>1
    <1>3. fi \in Nat \ {0} /\ fi + 1 \in Nat \ {0}
        <2>1. fi \in Nat \ {0}  BY DEF IInv, LoopTypeOK
        <2>2. QED  BY <2>1
    <1>4. fi' \in Nat \ {0} /\ pc' \in {"frame", "task"} /\ (pc' = "task" => fi' <= Len(FrameHead))
        <2>1. fi <= Len(FrameHead)  BY DEF PassEnd, IInv, LoopTypeOK
        <2>2. QED  BY <1>3, <2>1 DEF PassEnd
    <1>5. LoopTypeOK'  BY <1>1, <1>2, <1>4 DEF IInv, LoopTypeOK
    <1>6. QED  BY <1>1, <1>5, LoopStepKeepsIInv DEF IInv, JobOK

-----------------------------------------------------------------------------
(* schedule(): assignments.                                                *)

LEMMA ReturnedTyped ==
    ASSUME IInv, NEW s \in Slots, NEW ret, Returned(s, ret), UNCHANGED calls
    PROVE  LoopTypeOK' /\ JobOK'
    <1>1. /\ UNCHANGED <<pc, fi, ifdset, cmd, FrameHead>> /\ pc = "task"
          /\ cur' = IF ret = 2 THEN MaxServers + 1 ELSE s + 1
        BY DEF Returned
    <1>2. cur' \in Nat
        <2>1. MaxServers + 1 \in Nat  BY NetAssumption
        <2>2. QED  BY <1>1, <2>1, SlotsAreNumbers
    <1>3. nxt_frame' \in 0 .. 2
        <2>1. nxt_frame \in 0 .. 2  BY DEF IInv, LoopTypeOK
        <2>2. nxt_frame' \in {1, 2, nxt_frame}
            <3>1. nxt_frame' = CASE ret = 2 -> 1 [] ret = 3 -> 2 [] OTHER -> nxt_frame
                BY DEF Returned
            <3>2. CASE ret = 2 /\ ret # 3  BY <3>1, <3>2
            <3>3. CASE ret # 2 /\ ret = 3  BY <3>1, <3>3
            <3>4. CASE ret # 2 /\ ret # 3  BY <3>1, <3>4
            <3>5. QED  BY <3>2, <3>3, <3>4
        <2>3. QED  BY <2>1, <2>2
    <1>4. another_pass' \in BOOLEAN
        BY DEF Returned, IInv, LoopTypeOK
    <1>5. LoopTypeOK'  BY <1>1, <1>2, <1>3, <1>4 DEF IInv, LoopTypeOK
    <1>6. JobOK'  BY UnchangedKeepsJob DEF Returned, IInv, statusVars, modeVars
    <1>7. QED  BY <1>5, <1>6

(* What task_server may rely on when it hands out work.                    *)
LEMMA HungryFacts ==
    ASSUME IInv, pc = "task", NEW s \in Slots, Hungry(s), NEW lump \in Lumps
    PROVE  /\ fr_todo \in TodoLists /\ sr_work \in [Slots -> Works]
           /\ FrameHead \in Seq(Frames) /\ fi \in DOMAIN FrameHead
           /\ fr_todo[Fr] # <<>> /\ lump \in Nat \ {0} /\ Disjoint(fr_todo, sr_work)
    <1>1. fi \in 1 .. Len(FrameHead)
        <2>1. fi \in Nat \ {0} /\ fi <= Len(FrameHead)  BY DEF IInv, LoopTypeOK
        <2>2. Len(FrameHead) \in Nat  BY LenProperties DEF IInv, JobOK
        <2>3. QED  BY <2>1, <2>2
    <1>2. lump \in Nat \ {0}  BY RemrtAssumption
    <1>3. FrameHead \in Seq(Frames) /\ fi \in DOMAIN FrameHead
        BY <1>1, LenProperties DEF IInv, JobOK
    <1>4. QED  BY <1>2, <1>3 DEF IInv, WorkOK, Hungry

LEMMA AssignmentFacts ==
    ASSUME IInv, pc = "task", NEW s \in Slots, Hungry(s), NEW lump \in Lumps
    PROVE  /\ Fr \in Frames
           /\ LinesMsg(lump) \in SrvMessages /\ MatrixMsg \in SrvMessages
           /\ TodoAfter(lump) \in TodoLists /\ WorkAfter(s, lump) \in [Slots -> Works]
           /\ Disjoint(TodoAfter(lump), WorkAfter(s, lump))
    <1>1. Fr \in Frames
        BY HungryFacts, LenProperties, ElementOfSeq DEF Fr
    <1>2. \A i, j \in DOMAIN fr_todo[Fr] :
              i # j => PixelsOf(fr_todo[Fr][i]) \cap PixelsOf(fr_todo[Fr][j]) = {}
        BY <1>1, HungryFacts DEF Disjoint
    <1>3. LinesMsg(lump) \in SrvMessages /\ TodoAfter(lump) \in TodoLists
        BY <1>2, HungryFacts, AssignmentTaken
    <1>4. WorkAfter(s, lump) \in [Slots -> Works] /\ Disjoint(TodoAfter(lump), WorkAfter(s, lump))
        BY HungryFacts, AssignDisjoint
    <1>5. MatrixMsg \in SrvMessages
        BY <1>1 DEF MatrixMsg, SrvMessages, WorkMessages
    <1>6. QED  BY <1>1, <1>3, <1>4, <1>5

(* An assignment handed out: all work lists are replaced at once.          *)
LEMMA AssignKeepsWork ==
    ASSUME IInv, pc = "task", NEW s \in Slots, Hungry(s), NEW lump \in Lumps,
           fr_todo' = TodoAfter(lump), sr_work' = WorkAfter(s, lump),
           sr_state' \in [Slots -> States],
           sr_curframe' \in [Slots -> Frames \cup {NoFrame}], clients' \subseteq Slots
    PROVE  WorkOK'
    <1>1. Disjoint(TodoAfter(lump), WorkAfter(s, lump)) /\ TodoAfter(lump) \in TodoLists
          /\ WorkAfter(s, lump) \in [Slots -> Works]
        BY AssignmentFacts
    <1>2. QED  BY <1>1 DEF WorkOK, Disjoint

LEMMA DropAssignedKeepsWork ==
    ASSUME IInv, pc = "task", NEW s \in Slots, Hungry(s), NEW lump \in Lumps,
           Drop(s, TodoAfter(lump), WorkAfter(s, lump))
    PROVE  WorkOK'
    <1>1. Disjoint(TodoAfter(lump), WorkAfter(s, lump)) /\ TodoAfter(lump) \in TodoLists
          /\ WorkAfter(s, lump) \in [Slots -> Works]
        BY AssignmentFacts
    <1>2. "CLOSING" \in States  BY DEF States
    <1>3. QED  BY <1>1, <1>2, DropKeepsWork DEF Drop, IInv

LEMMA TaskNothingKeepsIInv ==
    ASSUME IInv, NEW s \in Slots, TaskNothing(s) \/ TaskTardy(s), UNCHANGED rtsrvVars
    PROVE  IInv'
    <1>1. RtsrvTypeOK' /\ NetTypeOK' /\ UNCHANGED calls
        BY DEF IInv, RtsrvTypeOK, rtsrvVars, NetTypeOK, netVars, TaskNothing, TaskTardy
    <1>2. LoopTypeOK' /\ JobOK'
        BY <1>1, ReturnedTyped DEF TaskNothing, TaskTardy
    <1>3. WorkOK'
        BY UnchangedKeepsWork, DroppedKeepsWork DEF IInv, TaskNothing, TaskTardy, workVars
    <1>4. QED  BY <1>1, <1>2, <1>3 DEF IInv

LEMMA TaskLinesKeepsIInv ==
    ASSUME IInv, pc = "task", NEW s \in Slots, NEW lump \in Lumps, TaskLines(s, lump),
           UNCHANGED rtsrvVars
    PROVE  IInv'
    <1>1. RtsrvTypeOK'  BY DEF IInv, RtsrvTypeOK, rtsrvVars
    <1>2. PICK k \in Sent(s, 1) :
            /\ Send(s, k, 1, <<LinesMsg(lump)>>)
            /\ IF k = 1
               THEN /\ Returned(s, 0)
                    /\ fr_todo' = TodoAfter(lump) /\ sr_work' = WorkAfter(s, lump)
                    /\ UNCHANGED <<sr_state, sr_curframe, clients>>
               ELSE /\ Returned(s, 1)
                    /\ Drop(s, TodoAfter(lump), WorkAfter(s, lump))
        BY DEF TaskLines
    <1>3. Hungry(s)  BY DEF TaskLines
    <1>4. <<LinesMsg(lump)>> \in Seq(SrvMessages)  BY <1>3, AssignmentFacts
    <1>5. NetTypeOK' /\ UNCHANGED calls  BY <1>2, <1>4, SendKeepsNet DEF IInv, Send
    <1>6. LoopTypeOK' /\ JobOK'  BY <1>2, <1>5, ReturnedTyped
    <1>7. WorkOK'
        <2>1. CASE k = 1
            BY <1>2, <1>3, <2>1, AssignKeepsWork DEF IInv, WorkOK
        <2>2. CASE k # 1
            BY <1>2, <1>3, <2>2, DropAssignedKeepsWork
        <2>3. QED  BY <2>1, <2>2
    <1>8. QED  BY <1>1, <1>5, <1>6, <1>7 DEF IInv

LEMMA TaskGettreesKeepsIInv ==
    ASSUME IInv, pc = "task", NEW s \in Slots, TaskGettrees(s), UNCHANGED rtsrvVars
    PROVE  IInv'
    <1>1. RtsrvTypeOK'  BY DEF IInv, RtsrvTypeOK, rtsrvVars
    <1>2. PICK k \in Sent(s, 2) :
            /\ Send(s, k, 2, <<MatrixMsg, GettreesMsg>>)
            /\ IF k = 2
               THEN /\ statechange(s, "DOING_GETTREES")
                    /\ sr_curframe' = [sr_curframe EXCEPT ![s] = Fr]
                    /\ UNCHANGED <<sr_work, clients, fr_todo>>
               ELSE Dropped(s)
        BY DEF TaskGettrees
    <1>3. Hungry(s) /\ Returned(s, 1)  BY DEF TaskGettrees
    <1>4. Fr \in Frames /\ MatrixMsg \in SrvMessages
        <2>1. \E lump \in Lumps : TRUE  BY RemrtAssumption
        <2>2. QED  BY <1>3, <2>1, AssignmentFacts
    <1>5. <<MatrixMsg, GettreesMsg>> \in Seq(SrvMessages)
        <2>1. GettreesMsg \in SrvMessages  BY DEF GettreesMsg, SrvMessages, WorkMessages
        <2>2. QED  BY <1>4, <2>1
    <1>6. NetTypeOK' /\ UNCHANGED calls  BY <1>2, <1>5, SendKeepsNet DEF IInv, Send
    <1>7. LoopTypeOK' /\ JobOK'  BY <1>3, <1>6, ReturnedTyped
    <1>8. WorkOK'
        <2>1. CASE k = 2
            <3>1. sr_state' \in [Slots -> States]
                BY <1>2, <2>1, "DOING_GETTREES" \in States DEF statechange, States, IInv, WorkOK
            <3>2. sr_curframe' \in [Slots -> Frames \cup {NoFrame}]
                BY <1>2, <1>4, <2>1 DEF IInv, WorkOK
            <3>3. QED  BY <1>2, <2>1, <3>1, <3>2 DEF IInv, WorkOK, Disjoint
        <2>2. CASE k # 2
            BY <1>2, <2>2, DroppedKeepsWork DEF IInv
        <2>3. QED  BY <2>1, <2>2
    <1>9. QED  BY <1>1, <1>6, <1>7, <1>8 DEF IInv

LEMMA TaskMatrixKeepsIInv ==
    ASSUME IInv, pc = "task", NEW s \in Slots, NEW lump \in Lumps, TaskMatrix(s, lump),
           UNCHANGED rtsrvVars
    PROVE  IInv'
    <1>1. RtsrvTypeOK'  BY DEF IInv, RtsrvTypeOK, rtsrvVars
    <1>2. PICK k \in Sent(s, 2) :
            /\ Send(s, k, 2, <<MatrixMsg, LinesMsg(lump)>>)
            /\ IF k = 2
               THEN /\ Returned(s, 0)
                    /\ fr_todo' = TodoAfter(lump) /\ sr_work' = WorkAfter(s, lump)
                    /\ sr_curframe' = [sr_curframe EXCEPT ![s] = Fr]
                    /\ UNCHANGED <<sr_state, clients>>
               ELSE /\ Returned(s, 1)
                    /\ Drop(s, TodoAfter(lump), WorkAfter(s, lump))
        BY DEF TaskMatrix
    <1>3. Hungry(s)  BY DEF TaskMatrix
    <1>4. <<MatrixMsg, LinesMsg(lump)>> \in Seq(SrvMessages) /\ Fr \in Frames
        <2>1. MatrixMsg \in SrvMessages /\ LinesMsg(lump) \in SrvMessages /\ Fr \in Frames
            BY <1>3, AssignmentFacts
        <2>2. QED  BY <2>1
    <1>5. NetTypeOK' /\ UNCHANGED calls  BY <1>2, <1>4, SendKeepsNet DEF IInv, Send
    <1>6. LoopTypeOK' /\ JobOK'  BY <1>2, <1>5, ReturnedTyped
    <1>7. WorkOK'
        <2>1. CASE k = 2
            <3>1. sr_curframe' \in [Slots -> Frames \cup {NoFrame}]
                BY <1>2, <1>4, <2>1 DEF IInv, WorkOK
            <3>2. sr_state' \in [Slots -> States] /\ clients' \subseteq Slots
                BY <1>2, <2>1 DEF IInv, WorkOK
            <3>3. QED  BY <1>2, <1>3, <2>1, <3>1, <3>2, AssignKeepsWork
        <2>2. CASE k # 2
            BY <1>2, <1>3, <2>2, DropAssignedKeepsWork
        <2>3. QED  BY <2>1, <2>2
    <1>8. QED  BY <1>1, <1>5, <1>6, <1>7 DEF IInv

LEMMA TaskMatrixFailsKeepsIInv ==
    ASSUME IInv, pc = "task", NEW s \in Slots, NEW lump \in Lumps, TaskMatrixFails(s, lump),
           UNCHANGED rtsrvVars
    PROVE  IInv'
    <1>1. RtsrvTypeOK'  BY DEF IInv, RtsrvTypeOK, rtsrvVars
    <1>2. Hungry(s) /\ Returned(s, 0) /\ Send(s, 0, 2, <<>>)  BY DEF TaskMatrixFails
    <1>3. <<>> \in Seq(SrvMessages)  BY EmptySeq
    <1>4. NetTypeOK' /\ UNCHANGED calls  BY <1>2, <1>3, SendKeepsNet DEF IInv, Send
    <1>5. LoopTypeOK' /\ JobOK'  BY <1>2, <1>4, ReturnedTyped
    <1>6. sr_state' \in [Slots -> States]
        BY "CLOSING" \in States DEF TaskMatrixFails, statechange, States, IInv, WorkOK
    <1>7. sr_curframe' \in [Slots -> Frames \cup {NoFrame}] /\ clients' \subseteq Slots
        BY DEF TaskMatrixFails, IInv, WorkOK
    <1>8. fr_todo' = TodoAfter(lump) /\ sr_work' = WorkAfter(s, lump)
        BY DEF TaskMatrixFails
    <1>9. WorkOK'  BY <1>2, <1>6, <1>7, <1>8, AssignKeepsWork
    <1>10. QED  BY <1>1, <1>4, <1>5, <1>9 DEF IInv

LEMMA TaskServerKeepsIInv ==
    ASSUME IInv, NEW s \in Slots, task_server(s), UNCHANGED rtsrvVars
    PROVE  IInv'
    BY TaskNothingKeepsIInv, TaskLinesKeepsIInv, TaskGettreesKeepsIInv, TaskMatrixKeepsIInv,
       TaskMatrixFailsKeepsIInv
    DEF task_server

-----------------------------------------------------------------------------
(* The workers and the environment.                                        *)

LEMMA RemrtUnchanged ==
    ASSUME IInv, UNCHANGED remrtVars, calls # <<>> => calls' # <<>>
    PROVE  WorkOK' /\ JobOK' /\ LoopTypeOK'
    <1>1. WorkOK'
        BY UnchangedKeepsWork DEF IInv, remrtVars, srvVars, jobVars, workVars
    <1>2. JobOK'
        BY UnchangedKeepsJob DEF IInv, remrtVars, srvVars, jobVars, modeVars, statusVars
    <1>3. UNCHANGED <<pc, cur, fi, another_pass, nxt_frame, ifdset, cmd, FrameHead>>
        BY DEF remrtVars, loopVars, jobVars
    <1>4. LoopTypeOK'  BY <1>3 DEF IInv, LoopTypeOK
    <1>5. QED  BY <1>1, <1>2, <1>4

LEMMA SpeakTyped ==
    ASSUME IInv, NEW s \in Slots, Speak(s)
    PROVE  NetTypeOK' /\ RtsrvTypeOK' /\ UNCHANGED calls
    <1> DEFINE m == IF caller[s] \in CommandNames
                    THEN [type |-> "CMD", cmd |-> caller[s]]
                    ELSE [type |-> "VERSION", ok |-> caller[s] = "rtsrv"]
    <1>1. m \in CtlMessages
        <2>1. CASE caller[s] \in CommandNames
            BY <2>1 DEF CtlMessages
        <2>2. CASE caller[s] \notin CommandNames
            <3>1. (caller[s] = "rtsrv") \in BOOLEAN  OBVIOUS
            <3>2. QED  BY <2>2, <3>1 DEF CtlMessages
        <2>3. QED  BY <2>1, <2>2
    <1>2. toCtl' = [toCtl EXCEPT ![s] = Append(@, m)]
        BY DEF Speak
    <1> HIDE DEF m
    <1>3. toCtl' \in [Slots -> Seq(CtlMessages)]
        <2>1. Append(toCtl[s], m) \in Seq(CtlMessages)
            BY <1>1, AppendProperties DEF IInv, NetTypeOK
        <2>2. QED  BY <1>2, <2>1 DEF IInv, NetTypeOK
    <1>4. caller' \in [Slots -> {"none", "leaving", "rtsrv", "stale"} \cup CommandNames]
        BY DEF Speak, IInv, NetTypeOK
    <1>5. NetTypeOK'
        BY <1>3, <1>4 DEF Speak, IInv, NetTypeOK
    <1>6. RtsrvTypeOK'  BY DEF Speak, IInv, RtsrvTypeOK, rtsrvVars
    <1>7. QED  BY <1>5, <1>6 DEF Speak

(* Whoever calls, there is a call waiting.                                 *)
Whos == {"rtsrv", "stale"} \cup CommandNames

LEMMA CallTyped ==
    ASSUME IInv, NEW who \in Whos, calls' = Append(calls, who)
    PROVE  calls' \in Seq({"rtsrv", "stale"} \cup CommandNames) /\ calls' # <<>>
    <1>1. calls \in Seq(Whos)  BY DEF IInv, NetTypeOK, Whos
    <1>2. Append(calls, who) \in Seq(Whos) /\ Append(calls, who) # <<>>
        BY <1>1, AppendProperties
    <1>3. QED  BY <1>2 DEF Whos

LEMMA HangupTyped == \A u : Hangup(u) \in Links
    BY DEF Hangup, Links

(* Reading a message, and taking one off the list.                         *)
LEMMA ReadsTyped ==
    ASSUME IInv, NEW s \in Slots, NEW types, Reads(s, types)
    PROVE  /\ toSrv' \in [Slots -> Seq(SrvMessages)] /\ UNCHANGED <<caller, inbuf>>
           /\ Head(toSrv[s]) \in SrvMessages /\ Head(toSrv[s]).type \in types
    <1>1. toSrv[s] \in Seq(SrvMessages) /\ toSrv[s] # <<>>
        BY DEF IInv, NetTypeOK, Reads
    <1>2. Head(toSrv[s]) \in SrvMessages /\ Tail(toSrv[s]) \in Seq(SrvMessages)
        BY <1>1, HeadTailProperties
    <1>3. QED  BY <1>2 DEF IInv, NetTypeOK, Reads

LEMMA TakesTyped ==
    ASSUME IInv, NEW s \in Slots, NEW type, Takes(s, type)
    PROVE  /\ WorkHead' \in [Slots -> Seq(WorkMessages)]
           /\ UNCHANGED <<calls, caller, link, toSrv, inbuf>>
           /\ Head(WorkHead[s]) \in SrvMessages /\ Head(WorkHead[s]).type = type
    <1>1. WorkHead[s] \in Seq(WorkMessages) /\ WorkHead[s] # <<>>
        BY DEF IInv, RtsrvTypeOK, Takes
    <1>2. Head(WorkHead[s]) \in WorkMessages /\ Tail(WorkHead[s]) \in Seq(WorkMessages)
        BY <1>1, HeadTailProperties
    <1>3. QED  BY <1>2 DEF IInv, RtsrvTypeOK, Takes, SrvMessages

LEMMA ReplyTyped ==
    ASSUME IInv, NEW s \in Slots, NEW m \in CtlMessages, Reply(s, m)
    PROVE  toCtl' \in [Slots -> Seq(CtlMessages)]
    <1>1. Append(toCtl[s], m) \in Seq(CtlMessages)
        BY AppendProperties DEF IInv, NetTypeOK
    <1>2. QED  BY <1>1 DEF IInv, NetTypeOK, Reply

LEMMA WorkerTyped ==
    ASSUME IInv, NEW s \in Slots, RtsrvStep(s)
    PROVE  NetTypeOK' /\ RtsrvTypeOK' /\ (calls # <<>> => calls' # <<>>)
    <1>1. CASE Speak(s)  BY <1>1, SpeakTyped
    <1>2. CASE OneShotExit(s)
        BY <1>2, HangupTyped DEF OneShotExit, IInv, NetTypeOK, RtsrvTypeOK, rtsrvVars
    <1>3. CASE ph_dirbuild(s)
        <2>1. [type |-> "DIRBUILD_REPLY"] \in CtlMessages  BY DEF CtlMessages
        <2>2. toCtl' \in [Slots -> Seq(CtlMessages)]
            BY <1>3, <2>1, ReplyTyped DEF ph_dirbuild, IInv, NetTypeOK
        <2>3. Reads(s, {"DIRBUILD"})  BY <1>3 DEF ph_dirbuild
        <2>4. QED  BY <1>3, <2>2, <2>3, ReadsTyped DEF ph_dirbuild, IInv, NetTypeOK, RtsrvTypeOK
    <1>4. CASE ph_restart(s)
        <2>1. Reads(s, {"RESTART"}) /\ Forget(s)  BY <1>4 DEF ph_restart
        <2>2. RtsrvTypeOK'  BY <2>1, ForgetTyped DEF IInv
        <2>3. calls' \in Seq({"rtsrv", "stale"} \cup CommandNames) /\ calls' # <<>>
            BY <1>4, CallTyped, "rtsrv" \in Whos DEF ph_restart, Whos
        <2>4. QED
            BY <1>4, <2>1, <2>2, <2>3, HangupTyped, ReadsTyped DEF ph_restart, IInv, NetTypeOK
    <1>5. CASE ph_enqueue(s)
        <2>1. Reads(s, {"MATRIX", "GETTREES", "OPTIONS", "LINES"})  BY <1>5 DEF ph_enqueue
        <2>2. Head(toSrv[s]) \in WorkMessages
            BY <2>1, ReadsTyped, WorkMessageContents
        <2>3. Append(WorkHead[s], Head(toSrv[s])) \in Seq(WorkMessages)
            BY <2>2, AppendProperties DEF IInv, RtsrvTypeOK
        <2>4. RtsrvTypeOK'
            BY <1>5, <2>3 DEF ph_enqueue, IInv, RtsrvTypeOK
        <2>5. QED  BY <1>5, <2>1, <2>4, ReadsTyped DEF ph_enqueue, IInv, NetTypeOK
    <1>6. CASE ph_matrix(s)
        <2>1. Takes(s, "MATRIX")  BY <1>6 DEF ph_matrix
        <2>2. Head(WorkHead[s]).frame \in Frames
            BY <2>1, TakesTyped, WorkMessageContents
        <2>3. QED  BY <1>6, <2>1, <2>2, TakesTyped DEF ph_matrix, IInv, NetTypeOK, RtsrvTypeOK
    <1>7. CASE ph_gettrees(s)
        <2>1. Takes(s, "GETTREES") /\ Reply(s, [type |-> "GETTREES_REPLY"])
            BY <1>7 DEF ph_gettrees
        <2>2. [type |-> "GETTREES_REPLY"] \in CtlMessages  BY DEF CtlMessages
        <2>3. toCtl' \in [Slots -> Seq(CtlMessages)]  BY <2>1, <2>2, ReplyTyped
        <2>4. QED  BY <1>7, <2>1, <2>3, TakesTyped DEF ph_gettrees, IInv, NetTypeOK, RtsrvTypeOK
    <1>8. CASE ph_options(s)
        <2>1. Takes(s, "OPTIONS")  BY <1>8 DEF ph_options
        <2>2. QED  BY <1>8, <2>1, TakesTyped DEF ph_options, IInv, NetTypeOK, RtsrvTypeOK
    <1>9. CASE ph_lines(s)
        <2>1. Takes(s, "LINES")  BY <1>9 DEF ph_lines
        <2> DEFINE l == Head(WorkHead[s])
                   m == [type |-> "PIXELS", frame |-> l.frame, start |-> l.start,
                         stop |-> l.stop, view |-> view[s], grid |-> grid[s]]
        <2>2. l.frame \in Frames /\ l.start \in Nat /\ l.stop \in Nat
            BY <2>1, TakesTyped, WorkMessageContents
        <2>3. grid[s] \in Frames \cup {NoFrame} /\ view[s] \in Frames \cup {NoFrame}
            BY DEF IInv, RtsrvTypeOK
        <2>4. view[s] # NoFrame => m \in CtlMessages
            BY <2>2, <2>3 DEF CtlMessages
        <2>5. toCtl' = toCtl \/ (view[s] # NoFrame /\ Reply(s, m))
            <3>1. CASE seen_gettrees[s] /\ view[s] # NoFrame  BY <1>9, <3>1 DEF ph_lines
            <3>2. CASE ~(seen_gettrees[s] /\ view[s] # NoFrame)  BY <1>9, <3>2 DEF ph_lines
            <3>3. QED  BY <3>1, <3>2
        <2> HIDE DEF m
        <2>6. toCtl' \in [Slots -> Seq(CtlMessages)]
            BY <2>4, <2>5, ReplyTyped DEF IInv, NetTypeOK
        <2>7. QED  BY <1>9, <2>1, <2>6, TakesTyped DEF ph_lines, IInv, NetTypeOK, RtsrvTypeOK
    <1>10. QED
        BY <1>1, <1>2, <1>3, <1>4, <1>5, <1>6, <1>7, <1>8, <1>9 DEF RtsrvStep

LEMMA EnvironmentTyped ==
    ASSUME IInv, Environment
    PROVE  NetTypeOK' /\ RtsrvTypeOK' /\ (calls # <<>> => calls' # <<>>)
    <1>1. CASE (CallRtsrv \/ CallCommand) /\ UNCHANGED rtsrvVars
        <2>1. PICK who \in Whos : calls' = Append(calls, who)
            BY <1>1, RemrtAssumption DEF CallRtsrv, CallCommand, Whos
        <2>2. calls' \in Seq({"rtsrv", "stale"} \cup CommandNames) /\ calls' # <<>>
            BY <2>1, CallTyped
        <2>3. UNCHANGED <<caller, link, toCtl, toSrv, inbuf>>
            BY <1>1 DEF CallRtsrv, CallCommand
        <2>4. QED  BY <1>1, <2>2, <2>3 DEF IInv, NetTypeOK, RtsrvTypeOK, rtsrvVars
    <1>2. ASSUME NEW s \in Slots, RtsrvExit(s)
          PROVE  NetTypeOK' /\ RtsrvTypeOK' /\ UNCHANGED calls
        <2>1. RtsrvTypeOK'  BY <1>2, ForgetTyped DEF IInv, RtsrvExit
        <2>2. NetTypeOK'  BY <1>2, HangupTyped DEF IInv, NetTypeOK, RtsrvExit
        <2>3. QED  BY <1>2, <2>1, <2>2 DEF RtsrvExit
    <1>3. ASSUME NEW s \in Slots, NetworkReset(s)
          PROVE  NetTypeOK' /\ RtsrvTypeOK' /\ UNCHANGED calls
        <2>1. RtsrvTypeOK'  BY <1>3, ForgetTyped DEF IInv, NetworkReset
        <2>2. toCtl' \in [Slots -> Seq(CtlMessages)]
            BY <1>3, EmptySeq DEF IInv, NetTypeOK, NetworkReset
        <2>3. NetTypeOK'  BY <1>3, <2>2 DEF IInv, NetTypeOK, NetworkReset, Links
        <2>4. QED  BY <1>3, <2>1, <2>3 DEF NetworkReset
    <1>4. QED  BY <1>1, <1>2, <1>3 DEF Environment

-----------------------------------------------------------------------------
(* The theorem.                                                            *)

LEMMA TodoTyped ==
    ASSUME NEW f \in Frames, NEW c \in Checkpoints
    PROVE  /\ Todo(f, c) \in Seq(Spans)
           /\ \A i \in DOMAIN Todo(f, c) : Todo(f, c)[i].li_frame = f
           /\ \A i, j \in DOMAIN Todo(f, c) :
                 i # j => PixelsOf(Todo(f, c)[i]) \cap PixelsOf(Todo(f, c)[j]) = {}
           /\ c.file \subseteq Nat
    <1> DEFINE Start == [li_frame : {1}, li_start : Nat, li_stop : Nat]
    <1>1. c.file \subseteq Pixels /\ c.todo \in Seq(Start) /\ Ascending(c.todo)
        BY RemrtAssumption DEF CheckpointAssumption
    <1>2. Len(c.todo) \in Nat /\ DOMAIN c.todo = 1 .. Len(c.todo)
        BY <1>1, LenProperties
    <1>3. \A i \in DOMAIN c.todo : c.todo[i] \in Start
        BY <1>1, <1>2, ElementOfSeq
    <1>4. \A i \in DOMAIN c.todo : /\ [c.todo[i] EXCEPT !.li_frame = f] \in Spans
                                   /\ [c.todo[i] EXCEPT !.li_frame = f].li_frame = f
                                   /\ PixelsOf([c.todo[i] EXCEPT !.li_frame = f]) = PixelsOf(c.todo[i])
        BY <1>3 DEF Spans, PixelsOf
    <1>5. Todo(f, c) \in [1 .. Len(c.todo) -> Spans]
        BY <1>2, <1>4 DEF Todo
    <1>6. Todo(f, c) \in Seq(Spans)
        BY <1>2, <1>5, SeqDef
    <1>7. \A i, j \in DOMAIN c.todo : i # j => PixelsOf(c.todo[i]) \cap PixelsOf(c.todo[j]) = {}
        <2>1. SUFFICES ASSUME NEW i \in DOMAIN c.todo, NEW j \in DOMAIN c.todo, i # j
                       PROVE  PixelsOf(c.todo[i]) \cap PixelsOf(c.todo[j]) = {}
            OBVIOUS
        <2>2. /\ c.todo[i].li_start \in Nat /\ c.todo[i].li_stop \in Nat
              /\ c.todo[j].li_start \in Nat /\ c.todo[j].li_stop \in Nat
            BY <1>3
        <2>3. c.todo[i].li_stop < c.todo[j].li_start \/ c.todo[j].li_stop < c.todo[i].li_start
            <3>1. i < j \/ j < i  BY <1>2, <2>1
            <3>2. \A k, l \in DOMAIN c.todo : k < l => c.todo[k].li_stop < c.todo[l].li_start
                BY <1>1 DEF Ascending
            <3>3. QED  BY <3>1, <3>2
        <2>4. QED  BY <2>2, <2>3 DEF PixelsOf
    <1>8. c.file \subseteq Nat  BY <1>1 DEF Pixels
    <1>9. QED  BY <1>2, <1>4, <1>6, <1>7, <1>8 DEF Todo

LEMMA InitEstablishesIInv == FarmInit => IInv
    <1> SUFFICES ASSUME FarmInit PROVE IInv
        OBVIOUS
    <1>1. NetTypeOK
        BY EmptySeq DEF FarmInit, Init, NetInit, NetTypeOK, Links
    <1>2. RtsrvTypeOK
        BY EmptySeq DEF FarmInit, RtsrvInit, RtsrvTypeOK
    <1>3. PICK c \in [Frames -> Checkpoints] :
            /\ fr_todo = [f \in Frames |-> Todo(f, c[f])]
            /\ file = [f \in Frames |-> c[f].file]
        BY DEF FarmInit, Init
    <1>4. fr_todo \in TodoLists /\ file \in [Frames -> SUBSET Nat]
        BY <1>3, TodoTyped DEF TodoLists
    <1>5. sr_work = [s \in Slots |-> NoWork]
        BY DEF FarmInit, Init
    <1>6. Disjoint(fr_todo, sr_work)
        BY <1>3, <1>5, TodoTyped DEF Disjoint
    <1>7. WorkOK
        BY <1>4, <1>5, <1>6 DEF FarmInit, Init, WorkOK, States, Works
    <1>8. FrameHead \in Seq(Frames)
        <2>1. FrameHead = [i \in 1 .. NFrames |-> i] /\ NFrames \in Nat
            BY NetAssumption DEF FarmInit, Init, Frames
        <2>2. FrameHead \in [1 .. NFrames -> Frames]  BY <2>1 DEF Frames
        <2>3. QED  BY <2>1, <2>2, SeqDef
    <1>9. JobOK
        BY <1>4, <1>8 DEF FarmInit, Init, JobOK
    <1>10. LoopTypeOK
        <2>1. /\ pc = "process1" /\ another_pass = FALSE /\ ifdset = {} /\ cmd = NoCmd
              /\ cur \in Nat /\ fi \in Nat \ {0} /\ nxt_frame \in 0 .. 2
            BY DEF FarmInit, Init
        <2>2. QED  BY <2>1 DEF LoopTypeOK
    <1>11. QED  BY <1>1, <1>2, <1>7, <1>9, <1>10 DEF IInv

LEMMA StepKeepsIInv == IInv /\ [FarmNext]_farmVars => IInv'
    <1> SUFFICES ASSUME IInv, [FarmNext]_farmVars PROVE IInv'
        OBVIOUS
    <1>1. CASE RemrtStep /\ UNCHANGED rtsrvVars
        BY <1>1, RepliesKeepIInv, PixelsKeepIInv, CmdKeepsIInv, CommandKeepsIInv,
           CheckInputLoopsKeepIInv, NoClientKeepsIInv, AddclientKeepsIInv, SuckKeepsIInv,
           SendDirbuildKeepsIInv,
           FrameIsDoneKeepsIInv, FramesEndKeepsIInv, FrameBeginKeepsIInv, FrameScanEndKeepsIInv,
           PassEndKeepsIInv, TaskServerKeepsIInv
        DEF RemrtStep
    <1>2. CASE \E s \in Slots : FinalClose(s) /\ Forget(s)
        BY <1>2, FinalCloseKeepsIInv
    <1>3. CASE \E s \in Slots : Worker(s)
        BY <1>3, WorkerTyped, RemrtUnchanged DEF Worker, IInv
    <1>4. CASE Environment
        BY <1>4, EnvironmentTyped, RemrtUnchanged DEF Environment, IInv
    <1>5. CASE (Terminated /\ UNCHANGED rtsrvVars) \/ UNCHANGED farmVars
        <2>1. UNCHANGED <<remrtVars, netVars, rtsrvVars, calls>>
            BY <1>5 DEF Terminated, farmVars, netVars
        <2>2. NetTypeOK' /\ RtsrvTypeOK'
            BY <2>1 DEF IInv, NetTypeOK, netVars, RtsrvTypeOK, rtsrvVars
        <2>3. QED  BY <2>1, <2>2, RemrtUnchanged DEF IInv
    <1>6. QED
        BY <1>1, <1>2, <1>3, <1>4, <1>5 DEF FarmNext, Dispatcher

(* IInv is an inductive invariant of the farm.                             *)
THEOREM Invariance == Spec => []IInv
    <1>1. QED  BY InitEstablishesIInv, StepKeepsIInv, PTL DEF Spec

(* Every variable of the farm has its type, in every reachable state.      *)
THEOREM TypeCorrect == Spec => []TypeOK
    <1>1. IInv => TypeOK  BY InvImpliesProperties
    <1>2. QED  BY <1>1, Invariance, PTL

(* No pixel is ever in two places: the splitting of work in task_server,   *)
(* the requeueing in drop_server and the filing in ph_pixels hand every    *)
(* pixel on or forget it, and never double it, whatever the workers, the   *)
(* network and the commands do.                                            *)
THEOREM PixelsNeverDoubled == Spec => []NoPixelTwice
    <1>1. IInv => NoPixelTwice  BY InvImpliesProperties
    <1>2. QED  BY <1>1, Invariance, PTL

=============================================================================
