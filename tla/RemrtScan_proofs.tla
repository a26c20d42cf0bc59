-------------------------- MODULE RemrtScan_proofs --------------------------
(***************************************************************************)
(* Proofs about module RemrtScan, for every size of frame and every file   *)
(* an earlier run may have left, one of a larger picture too.              *)
(***************************************************************************)
EXTENDS RemrtScan, SequenceTheorems, TLAPS

FrameSpans == [li_frame : {1}, li_start : Int, li_stop : Int]

(* The list while the scan goes on: what has been read is cut out of it,   *)
(* so that only the last span can reach what is still to be read; it goes  *)
(* on to the end of the frame.                                             *)
ListBehind(l, n) ==
    /\ \A i \in 1 .. Len(l) :
          /\ l[i].li_start = 0 \/ l[i].li_start \in 0 .. n - 1
          /\ l[i].li_stop \in 0 .. NPixels - 1
          /\ l[i].li_stop = NPixels - 1 \/ l[i].li_stop + 1 < n
          /\ l[i].li_stop < NPixels - 1 \/ FileMax < NPixels => l[i].li_start <= l[i].li_stop
    /\ \A i, j \in 1 .. Len(l) :
          i < j => l[i].li_stop < l[j].li_start /\ l[i].li_stop < l[j].li_stop

ScanInv ==
    /\ file \subseteq 0 .. FileMax
    /\ pno \in Nat
    /\ fr_todo \in Seq(FrameSpans)
    /\ ListBehind(fr_todo, pno)
    /\ RemainderExact

-----------------------------------------------------------------------------
(* What is left of a span stands for what is left of its pixels.           *)
LEMMA RemnantPixels ==
    ASSUME NEW sp \in FrameSpans, NEW a \in Int, NEW b \in Int, a <= b, Hit(sp, a, b)
    PROVE  /\ Remnant(sp, a, b) \in Seq(FrameSpans)
           /\ Len(Remnant(sp, a, b)) \in 0 .. 2
           /\ UNION {PixelsOf(Remnant(sp, a, b)[i]) : i \in 1 .. Len(Remnant(sp, a, b))}
                 = PixelsOf(sp) \ (a .. b)
    <1>1. CASE sp.li_start = a /\ sp.li_stop = b
        BY <1>1 DEF Remnant, PixelsOf, FrameSpans
    <1>2. CASE sp.li_start = a /\ sp.li_stop # b
        <2> DEFINE r == [sp EXCEPT !.li_start = b + 1]
        <2>1. r \in FrameSpans /\ r.li_start = b + 1 /\ r.li_stop = sp.li_stop
            BY DEF FrameSpans
        <2>2. Remnant(sp, a, b) = <<r>>  BY <1>2 DEF Remnant
        <2>3. UNION {PixelsOf(<<r>>[i]) : i \in 1 .. 1} = PixelsOf(r)  OBVIOUS
        <2>4. PixelsOf(r) = PixelsOf(sp) \ (a .. b)
            BY <1>2, <2>1 DEF PixelsOf, FrameSpans
        <2> HIDE DEF r
        <2>5. Len(<<r>>) = 1 /\ <<r>> \in Seq(FrameSpans)  BY <2>1
        <2>6. QED  BY <2>2, <2>3, <2>4, <2>5
    <1>3. CASE sp.li_start # a /\ sp.li_stop = b
        <2> DEFINE r == [sp EXCEPT !.li_stop = a - 1]
        <2>1. r \in FrameSpans /\ r.li_start = sp.li_start /\ r.li_stop = a - 1
            BY DEF FrameSpans
        <2>2. Remnant(sp, a, b) = <<r>>  BY <1>3 DEF Remnant
        <2>3. UNION {PixelsOf(<<r>>[i]) : i \in 1 .. 1} = PixelsOf(r)  OBVIOUS
        <2>4. PixelsOf(r) = PixelsOf(sp) \ (a .. b)
            BY <1>3, <2>1 DEF PixelsOf, FrameSpans
        <2> HIDE DEF r
        <2>5. Len(<<r>>) = 1 /\ <<r>> \in Seq(FrameSpans)  BY <2>1
        <2>6. QED  BY <2>2, <2>3, <2>4, <2>5
    <1>4. CASE sp.li_start # a /\ sp.li_stop # b
        <2> DEFINE r == [sp EXCEPT !.li_stop = a - 1]
                   s == [sp EXCEPT !.li_start = b + 1]
        <2>1. /\ r \in FrameSpans /\ r.li_start = sp.li_start /\ r.li_stop = a - 1
              /\ s \in FrameSpans /\ s.li_start = b + 1 /\ s.li_stop = sp.li_stop
            BY DEF FrameSpans
        <2>2. Remnant(sp, a, b) = <<r, s>>  BY <1>4 DEF Remnant
        <2> HIDE DEF r, s
        <2>3. PixelsOf(r) \cup PixelsOf(s) = PixelsOf(sp) \ (a .. b)
            <3>1. a <= sp.li_stop /\ b >= sp.li_start  BY <1>4 DEF Hit
            <3>2. sp.li_start \in Int /\ sp.li_stop \in Int  BY DEF FrameSpans
            <3>3. (sp.li_start .. a - 1) \cup (b + 1 .. sp.li_stop)
                     = (sp.li_start .. sp.li_stop) \ (a .. b)
                BY <3>1, <3>2
            <3>4. QED  BY <2>1, <3>3 DEF PixelsOf
        <2>4. Len(<<r, s>>) = 2 /\ <<r, s>>[1] = r /\ <<r, s>>[2] = s
            OBVIOUS
        <2>5. UNION {PixelsOf(<<r, s>>[i]) : i \in 1 .. 2} = PixelsOf(r) \cup PixelsOf(s)
            <3>1. 1 .. 2 = {1, 2}  OBVIOUS
            <3>2. QED  BY <2>4, <3>1
        <2>6. <<r, s>> \in Seq(FrameSpans)  BY <2>1
        <2>7. QED  BY <2>2, <2>3, <2>4, <2>5, <2>6
    <1>5. QED  BY <1>1, <1>2, <1>3, <1>4

(* list_remove when no span but the last is hit.                           *)
HitsLast(l, a, b) == \A i \in DOMAIN l : Hit(l[i], a, b) => i = Len(l)
LastHit(l, a, b) == l # << >> /\ Hit(l[Len(l)], a, b)

LEMMA ListRemoveLast ==
    ASSUME NEW l \in Seq(FrameSpans), NEW a \in Int, NEW b \in Int, HitsLast(l, a, b)
    PROVE  /\ LastHit(l, a, b) =>
                 ListRemove(l, a, b) = SubSeq(l, 1, Len(l) - 1) \o Remnant(l[Len(l)], a, b)
           /\ ~LastHit(l, a, b) =>
                 ListRemove(l, a, b) = l /\ \A i \in DOMAIN l : ~Hit(l[i], a, b)
    <1> DEFINE n == Len(l)
    <1>1. n \in Nat /\ DOMAIN l = 1 .. n /\ (l # << >> => n > 0)
        BY LenProperties, EmptySeq
    <1>2. CASE LastHit(l, a, b)
        <2>1. n \in DOMAIN l /\ Hit(l[n], a, b)  BY <1>1, <1>2 DEF LastHit
        <2>2. \A i \in DOMAIN l : Hit(l[i], a, b) => i = n  BY DEF HitsLast
        <2>3. (CHOOSE i \in DOMAIN l : /\ Hit(l[i], a, b)
                                       /\ \A j \in DOMAIN l : Hit(l[j], a, b) => i <= j) = n
            <3>1. \A j \in DOMAIN l : Hit(l[j], a, b) => n <= j
                BY ONLY <1>1, <2>2
            <3>2. QED  BY ONLY <2>1, <2>2, <3>1, Zenon
        <2>4. SubSeq(l, n + 1, n) = << >> /\ SubSeq(l, 1, n - 1) \in Seq(FrameSpans)
            BY ONLY <1>1, l \in Seq(FrameSpans)
        <2>5. ListRemove(l, a, b) =
                  SubSeq(l, 1, n - 1) \o Remnant(l[n], a, b) \o SubSeq(l, n + 1, n)
            <3>1. ~ \A i \in DOMAIN l : ~Hit(l[i], a, b)  BY ONLY <2>1, Zenon
            <3>2. QED  BY <2>3, <3>1, Zenon DEF ListRemove
        <2>6. SubSeq(l, 1, n - 1) \o Remnant(l[n], a, b) \in Seq(FrameSpans)
            <3>1. l[n] \in FrameSpans
                BY ONLY <1>1, <2>1, l \in Seq(FrameSpans)
            <3>2. Remnant(l[n], a, b) \in Seq(FrameSpans)
                <4> DEFINE sp == l[n]
                <4>0. sp \in FrameSpans  BY <3>1
                <4> HIDE DEF sp
                <4>1. /\ [sp EXCEPT !.li_start = b + 1] \in FrameSpans
                      /\ [sp EXCEPT !.li_stop = a - 1] \in FrameSpans
                    BY ONLY <4>0, a \in Int, b \in Int DEF FrameSpans
                <4>2. Remnant(sp, a, b) \in Seq(FrameSpans)
                    BY ONLY <4>1 DEF Remnant
                <4>3. QED  BY <4>2 DEF sp
            <3>3. QED  BY ONLY <2>4, <3>2, ConcatProperties
        <2> DEFINE s == SubSeq(l, 1, n - 1) \o Remnant(l[n], a, b)
        <2>7. s \o << >> = s  
            <3> HIDE DEF s
            <3>1. s \in Seq(FrameSpans)  BY <2>6 DEF s
            <3>2. QED  BY ONLY <3>1, ConcatEmptySeq
        <2>8. ListRemove(l, a, b) = s  BY <2>4, <2>5, <2>7, Zenon
        <2>9. QED  BY <1>2, <2>8, Zenon
    <1>3. CASE ~LastHit(l, a, b)
        <2>1. \A i \in DOMAIN l : ~Hit(l[i], a, b)
            <3>1. SUFFICES ASSUME NEW i \in DOMAIN l, Hit(l[i], a, b)
                           PROVE  FALSE
                BY Zenon
            <3>2. i = n  BY ONLY <3>1, HitsLast(l, a, b), Zenon DEF HitsLast
            <3>3. l # << >>
                BY ONLY <1>1, i \in DOMAIN l, l \in Seq(FrameSpans), EmptySeq
            <3>4. QED  BY <1>3, <3>1, <3>2, <3>3, Zenon DEF LastHit
        <2>2. QED  BY <1>3, <2>1, Zenon DEF ListRemove
    <1>4. QED  BY <1>2, <1>3, Zenon

(* The first spans of a list, and others put in the place of the last.     *)
LEMMA ReplaceLast ==
    ASSUME NEW l \in Seq(FrameSpans), l # << >>, NEW r \in Seq(FrameSpans)
    PROVE  /\ SubSeq(l, 1, Len(l) - 1) \o r \in Seq(FrameSpans)
           /\ Len(l) \in Nat \ {0} /\ Len(r) \in Nat
           /\ Len(SubSeq(l, 1, Len(l) - 1) \o r) = Len(l) - 1 + Len(r)
           /\ \A i \in 1 .. Len(l) - 1 + Len(r) :
                 (SubSeq(l, 1, Len(l) - 1) \o r)[i] =
                     IF i <= Len(l) - 1 THEN l[i] ELSE r[i - (Len(l) - 1)]
    <1> DEFINE f == SubSeq(l, 1, Len(l) - 1)
    <1>1. Len(l) \in Nat \ {0} /\ Len(r) \in Nat
        BY LenProperties, EmptySeq
    <1>2. /\ f \in Seq(FrameSpans) /\ Len(f) = Len(l) - 1
          /\ \A i \in 1 .. Len(l) - 1 : f[i] = l[i]
        <2>1. \A i \in 1 .. Len(l) - 1 : l[i] \in FrameSpans
            BY LenProperties
        <2>2. /\ f \in Seq(FrameSpans)
              /\ Len(f) = IF 1 <= Len(l) - 1 THEN Len(l) - 1 - 1 + 1 ELSE 0
              /\ \A i \in 1 .. Len(l) - 1 - 1 + 1 : f[i] = l[1 + i - 1]
            BY ONLY <1>1, <2>1, SubSeqProperties
        <2>3. \A i \in 1 .. Len(l) - 1 : i \in 1 .. Len(l) - 1 - 1 + 1 /\ 1 + i - 1 = i
            BY ONLY <1>1
        <2>4. \A i \in 1 .. Len(l) - 1 : f[i] = l[i]
            BY ONLY <2>2, <2>3, Zenon
        <2> HIDE DEF f
        <2>5. Len(f) = Len(l) - 1
            <3> DEFINE k == Len(l)
            <3>1. k \in Nat \ {0} /\ Len(f) = IF 1 <= k - 1 THEN k - 1 - 1 + 1 ELSE 0
                BY <1>1, <2>2
            <3> HIDE DEF k
            <3>2. Len(f) = k - 1  BY ONLY <3>1
            <3>3. QED  BY <3>2 DEF k
        <2>6. QED  BY ONLY <2>2, <2>4, <2>5
    <1> HIDE DEF f
    <1>3. /\ f \o r \in Seq(FrameSpans) /\ Len(f \o r) = Len(f) + Len(r)
          /\ \A i \in 1 .. Len(f) + Len(r) :
                (f \o r)[i] = IF i <= Len(f) THEN f[i] ELSE r[i - Len(f)]
        BY ONLY <1>2, r \in Seq(FrameSpans), ConcatProperties
    <1>4. QED  BY ONLY <1>1, <1>2, <1>3 DEF f

(* list_remove takes the range's pixels out of the list, and nothing else. *)
LEMMA ListRemovePixels ==
    ASSUME NEW l \in Seq(FrameSpans), NEW a \in Int, NEW b \in Int, a <= b,
           HitsLast(l, a, b)
    PROVE  /\ ListRemove(l, a, b) \in Seq(FrameSpans)
           /\ PixelsOfList(ListRemove(l, a, b)) = PixelsOfList(l) \ (a .. b)
    <1>1. Len(l) \in Nat /\ DOMAIN l = 1 .. Len(l)
        BY LenProperties
    <1>2. \A i \in DOMAIN l : ~Hit(l[i], a, b) => PixelsOf(l[i]) \cap (a .. b) = {}
        <2>1. SUFFICES ASSUME NEW i \in DOMAIN l, ~Hit(l[i], a, b)
                       PROVE  PixelsOf(l[i]) \cap (a .. b) = {}
            BY Zenon
        <2>2. l[i] \in FrameSpans
            BY ONLY <1>1, l \in Seq(FrameSpans), i \in DOMAIN l
        <2>3. ~(a <= l[i].li_stop /\ b >= l[i].li_start)
            BY ONLY <2>1, Zenon DEF Hit
        <2>4. l[i].li_start \in Int /\ l[i].li_stop \in Int
            BY ONLY <2>2 DEF FrameSpans
        <2>5. (l[i].li_start .. l[i].li_stop) \cap (a .. b) = {}
            BY ONLY <2>3, <2>4, a \in Int, b \in Int
        <2>6. QED  BY ONLY <2>5, Zenon DEF PixelsOf
    <1>3. CASE LastHit(l, a, b)
        <2> DEFINE n == Len(l)
                   r == Remnant(l[n], a, b)
                   s == SubSeq(l, 1, n - 1) \o r
        <2>1. l # << >> /\ Hit(l[n], a, b)  BY <1>3, Zenon DEF LastHit
        <2>2. n \in DOMAIN l /\ l[n] \in FrameSpans
            BY ONLY <1>1, <2>1, l \in Seq(FrameSpans), EmptySeq
        <2>3. /\ r \in Seq(FrameSpans)
              /\ UNION {PixelsOf(r[i]) : i \in 1 .. Len(r)} = PixelsOf(l[n]) \ (a .. b)
            BY ONLY <2>1, <2>2, a \in Int, b \in Int, a <= b, RemnantPixels, Zenon
        <2>4. ListRemove(l, a, b) = s
            BY <1>3, ListRemoveLast, Zenon
        <2> HIDE DEF r
        <2>5. /\ s \in Seq(FrameSpans) /\ Len(r) \in Nat /\ n \in Nat \ {0}
              /\ Len(s) = n - 1 + Len(r)
              /\ \A i \in 1 .. n - 1 + Len(r) :
                    s[i] = IF i <= n - 1 THEN l[i] ELSE r[i - (n - 1)]
            BY ONLY <2>1, <2>3, l \in Seq(FrameSpans), ReplaceLast
        <2> HIDE DEF s
        <2>6. DOMAIN s = 1 .. n - 1 + Len(r)
            BY ONLY <2>5
        <2>7. \A i \in 1 .. n - 1 : ~Hit(l[i], a, b)
            <3>1. \A i \in 1 .. n - 1 : i \in DOMAIN l /\ i # n
                <4> HIDE DEF n
                <4>1. n \in Nat /\ DOMAIN l = 1 .. n  BY <1>1 DEF n
                <4>2. QED  BY ONLY <4>1
            <3>2. QED  BY <3>1, Zenon DEF HitsLast
        <2>8. PixelsOfList(s) \subseteq PixelsOfList(l) \ (a .. b)
            <3>1. SUFFICES ASSUME NEW i \in DOMAIN s
                           PROVE  PixelsOf(s[i]) \subseteq PixelsOfList(l) \ (a .. b)
                BY Zenon DEF PixelsOfList
            <3>2. CASE i <= n - 1
                <4>1. s[i] = l[i] /\ i \in 1 .. n - 1 /\ i \in DOMAIN l
                    BY ONLY <1>1, <2>5, <2>6, <3>2, i \in DOMAIN s
                <4>2. QED  BY <1>2, <2>7, <4>1, Zenon DEF PixelsOfList
            <3>3. CASE ~(i <= n - 1)
                <4>1. s[i] = r[i - (n - 1)] /\ i - (n - 1) \in 1 .. Len(r)
                    BY ONLY <2>5, <2>6, <3>3, i \in DOMAIN s
                <4>2. PixelsOf(s[i]) \subseteq PixelsOf(l[n]) \ (a .. b)
                    BY <2>3, <4>1, Zenon
                <4>3. QED  BY <2>2, <4>2, Zenon DEF PixelsOfList
            <3>4. QED  BY <3>2, <3>3, Zenon
        <2>9. PixelsOfList(l) \ (a .. b) \subseteq PixelsOfList(s)
            <3>1. SUFFICES ASSUME NEW i \in DOMAIN l
                           PROVE  PixelsOf(l[i]) \ (a .. b) \subseteq PixelsOfList(s)
                BY Zenon DEF PixelsOfList
            <3>2. CASE i # n
                <4>1. s[i] = l[i] /\ i \in DOMAIN s
                    BY ONLY <1>1, <2>5, <2>6, <3>2, i \in DOMAIN l
                <4>2. QED  BY <4>1, Zenon DEF PixelsOfList
            <3>3. CASE i = n
                <4>1. \A k \in 1 .. Len(r) :
                         n - 1 + k \in DOMAIN s /\ s[n - 1 + k] = r[k]
                    <5>1. SUFFICES ASSUME NEW k \in 1 .. Len(r)
                                   PROVE  n - 1 + k \in DOMAIN s /\ s[n - 1 + k] = r[k]
                        OBVIOUS
                    <5> DEFINE m == n - 1 + k
                    <5>2. m \in 1 .. n - 1 + Len(r) /\ ~(m <= n - 1) /\ m - (n - 1) = k
                        BY ONLY <2>5, k \in 1 .. Len(r)
                    <5> HIDE DEF m
                    <5>3. s[m] = r[k]  BY ONLY <2>5, <5>2
                    <5>4. QED  BY <2>6, <5>2, <5>3, Zenon DEF m
                <4>2. UNION {PixelsOf(r[k]) : k \in 1 .. Len(r)} \subseteq PixelsOfList(s)
                    BY <4>1, Zenon DEF PixelsOfList
                <4>3. QED  BY <2>3, <3>3, <4>2, Zenon
            <3>4. QED  BY <3>2, <3>3, Zenon
        <2>10. QED  BY <2>4, <2>5, <2>8, <2>9, Zenon
    <1>4. CASE ~LastHit(l, a, b)
        <2>1. ListRemove(l, a, b) = l /\ \A i \in DOMAIN l : ~Hit(l[i], a, b)
            BY <1>4, ListRemoveLast, Zenon
        <2>2. QED  BY <1>2, <2>1, Zenon DEF PixelsOfList
    <1>5. QED  BY <1>3, <1>4, Zenon

-----------------------------------------------------------------------------
(* The list behind the scan.                                               *)

(* A run of finished pixels hits no span but the last.                     *)
LEMMA RunHitsLast ==
    ASSUME NEW l \in Seq(FrameSpans), NEW n \in Nat, ListBehind(l, n),
           NEW a \in Int, NEW b \in Int, n <= a, a <= b
    PROVE  /\ HitsLast(l, a, b)
           /\ LastHit(l, a, b) => l[Len(l)].li_stop = NPixels - 1
    <1>1. Len(l) \in Nat /\ DOMAIN l = 1 .. Len(l)
        BY LenProperties
    <1>2. \A i \in DOMAIN l : Hit(l[i], a, b) => l[i].li_stop = NPixels - 1
        <2>1. SUFFICES ASSUME NEW i \in DOMAIN l, Hit(l[i], a, b), l[i].li_stop # NPixels - 1
                       PROVE  FALSE
            BY Zenon
        <2>2. /\ l[i].li_start = 0 \/ l[i].li_start \in 0 .. n - 1
              /\ l[i].li_stop \in 0 .. NPixels - 1
              /\ l[i].li_stop = NPixels - 1 \/ l[i].li_stop + 1 < n
              /\ l[i].li_stop < NPixels - 1 \/ FileMax < NPixels => l[i].li_start <= l[i].li_stop
            BY <1>1, Zenon DEF ListBehind
        <2>3. l[i].li_start = a \/ l[i].li_stop = b \/ a <= l[i].li_stop
            BY ONLY <2>1, Zenon DEF Hit
        <2>4. QED
            BY ONLY <2>1, <2>2, <2>3, ScanAssumption, n \in Nat, a \in Int, b \in Int,
                    n <= a, a <= b
    <1>3. HitsLast(l, a, b)
        <2>1. SUFFICES ASSUME NEW i \in DOMAIN l, Hit(l[i], a, b), i # Len(l)
                       PROVE  FALSE
            BY Zenon DEF HitsLast
        <2>2. i \in 1 .. Len(l) /\ Len(l) \in 1 .. Len(l) /\ i < Len(l)
            <3> DEFINE m == Len(l)
            <3>1. m \in Nat /\ i \in 1 .. m /\ i # m  BY <1>1, <2>1
            <3> HIDE DEF m
            <3>2. i \in 1 .. m /\ m \in 1 .. m /\ i < m  BY ONLY <3>1
            <3>3. QED  BY <3>2 DEF m
        <2>3. l[i].li_stop < l[Len(l)].li_stop /\ l[Len(l)].li_stop \in 0 .. NPixels - 1
            BY <2>2, Zenon DEF ListBehind
        <2>4. l[i].li_stop = NPixels - 1  BY <1>2, <2>1
        <2>5. QED  BY ONLY <2>3, <2>4, ScanAssumption
    <1>4. LastHit(l, a, b) => l[Len(l)].li_stop = NPixels - 1
        <2>1. SUFFICES ASSUME LastHit(l, a, b)
                       PROVE  l[Len(l)].li_stop = NPixels - 1
            OBVIOUS
        <2>2. l # << >> /\ Hit(l[Len(l)], a, b)  BY <2>1, Zenon DEF LastHit
        <2>3. Len(l) \in DOMAIN l
            BY ONLY <1>1, <2>2, l \in Seq(FrameSpans), EmptySeq
        <2>4. QED  BY <1>2, <2>2, <2>3, Zenon
    <1>5. QED  BY <1>3, <1>4, Zenon

(* The pieces left of the last span, and how they lie.                     *)
LEMMA RemnantPieces ==
    ASSUME NEW sp \in FrameSpans, NEW a \in Int, NEW b \in Int
    PROVE  \/ Remnant(sp, a, b) = << >>
           \/ \E r \in FrameSpans :
                 /\ Remnant(sp, a, b) = <<r>>
                 /\ \/ /\ sp.li_start = a /\ sp.li_stop # b
                       /\ r.li_start = b + 1 /\ r.li_stop = sp.li_stop
                    \/ /\ sp.li_start # a /\ sp.li_stop = b
                       /\ r.li_start = sp.li_start /\ r.li_stop = a - 1
           \/ \E r, s \in FrameSpans :
                 /\ Remnant(sp, a, b) = <<r, s>>
                 /\ sp.li_start # a /\ sp.li_stop # b
                 /\ r.li_start = sp.li_start /\ r.li_stop = a - 1
                 /\ s.li_start = b + 1 /\ s.li_stop = sp.li_stop
    <1> DEFINE r == [sp EXCEPT !.li_stop = a - 1]
               s == [sp EXCEPT !.li_start = b + 1]
    <1>1. /\ r \in FrameSpans /\ r.li_start = sp.li_start /\ r.li_stop = a - 1
          /\ s \in FrameSpans /\ s.li_start = b + 1 /\ s.li_stop = sp.li_stop
        BY DEF FrameSpans
    <1>2. \/ sp.li_start = a /\ sp.li_stop = b /\ Remnant(sp, a, b) = << >>
          \/ sp.li_start = a /\ sp.li_stop # b /\ Remnant(sp, a, b) = <<s>>
          \/ sp.li_start # a /\ sp.li_stop = b /\ Remnant(sp, a, b) = <<r>>
          \/ sp.li_start # a /\ sp.li_stop # b /\ Remnant(sp, a, b) = <<r, s>>
        BY DEF Remnant
    <1> HIDE DEF r, s
    <1>3. QED  BY ONLY <1>1, <1>2, Zenon

(* Taking a run out of the list behind the scan leaves the list behind the *)
(* scan, which has then read the black pixel after the run, too.           *)
LEMMA RunLeavesBehind ==
    ASSUME NEW l \in Seq(FrameSpans), NEW n \in Nat, ListBehind(l, n),
           NEW a \in Int, NEW b \in Int, n <= a, a <= b, b <= FileMax
    PROVE  ListBehind(ListRemove(l, a, b), b + 2)
    <1>1. HitsLast(l, a, b) /\ (LastHit(l, a, b) => l[Len(l)].li_stop = NPixels - 1)
        BY RunHitsLast
    <1>2. \A i \in 1 .. Len(l) :
             /\ l[i].li_start \in Nat /\ l[i].li_stop \in 0 .. NPixels - 1
             /\ l[i].li_start = 0 \/ l[i].li_start <= n - 1
             /\ l[i].li_stop = NPixels - 1 \/ l[i].li_stop + 1 < n
             /\ l[i].li_stop < NPixels - 1 \/ FileMax < NPixels => l[i].li_start <= l[i].li_stop
        <2>1. SUFFICES ASSUME NEW i \in 1 .. Len(l)
                       PROVE  /\ l[i].li_start \in Nat /\ l[i].li_stop \in 0 .. NPixels - 1
                              /\ l[i].li_start = 0 \/ l[i].li_start <= n - 1
                              /\ l[i].li_stop = NPixels - 1 \/ l[i].li_stop + 1 < n
                              /\ l[i].li_stop < NPixels - 1 \/ FileMax < NPixels => l[i].li_start <= l[i].li_stop
            BY Zenon
        <2>2. /\ l[i].li_start = 0 \/ l[i].li_start \in 0 .. n - 1
              /\ l[i].li_stop \in 0 .. NPixels - 1
              /\ l[i].li_stop = NPixels - 1 \/ l[i].li_stop + 1 < n
              /\ l[i].li_stop < NPixels - 1 \/ FileMax < NPixels => l[i].li_start <= l[i].li_stop
            BY Zenon DEF ListBehind
        <2>3. QED  BY ONLY <2>2, ScanAssumption, n \in Nat
    <1>3. \A i, j \in 1 .. Len(l) :
             i < j => l[i].li_stop < l[j].li_start /\ l[i].li_stop < l[j].li_stop
        BY Zenon DEF ListBehind
    <1>4. CASE ~LastHit(l, a, b)
        <2>1. ListRemove(l, a, b) = l
            BY <1>1, <1>4, ListRemoveLast, Zenon
        <2>2. \A i \in 1 .. Len(l) :
                 /\ l[i].li_start = 0 \/ l[i].li_start \in 0 .. b + 2 - 1
                 /\ l[i].li_stop = NPixels - 1 \/ l[i].li_stop + 1 < b + 2
            <3>1. SUFFICES ASSUME NEW i \in 1 .. Len(l)
                           PROVE  /\ l[i].li_start = 0 \/ l[i].li_start \in 0 .. b + 2 - 1
                                  /\ l[i].li_stop = NPixels - 1 \/ l[i].li_stop + 1 < b + 2
                BY Zenon
            <3> DEFINE x == l[i].li_start
                       y == l[i].li_stop
            <3>2. /\ x \in Nat /\ y \in 0 .. NPixels - 1
                  /\ x = 0 \/ x <= n - 1
                  /\ y = NPixels - 1 \/ y + 1 < n
                BY <1>2
            <3> HIDE DEF x, y
            <3>3. /\ x = 0 \/ x \in 0 .. b + 2 - 1
                  /\ y = NPixels - 1 \/ y + 1 < b + 2
                BY ONLY <3>2, ScanAssumption, n \in Nat, a \in Int, b \in Int, n <= a, a <= b
            <3>4. QED  BY <3>3 DEF x, y
        <2>3. ListBehind(l, b + 2)
            BY <1>2, <1>3, <2>2 DEF ListBehind
        <2>4. QED  BY ONLY <2>1, <2>3, Zenon
    <1>5. CASE LastHit(l, a, b)
        <2> DEFINE m == Len(l)
                   sp == l[m]
                   r == Remnant(sp, a, b)
                   s == SubSeq(l, 1, m - 1) \o r
        <2>1. l # << >> /\ Hit(sp, a, b)  BY <1>5, Zenon DEF LastHit
        <2>2. m \in Nat \ {0}  BY <2>1, LenProperties, EmptySeq
        <2>3. m \in 1 .. m /\ \A i \in 1 .. m - 1 : i \in 1 .. m /\ i < m
            <3> HIDE DEF m
            <3>1. QED  BY <2>2
        <2>4. sp \in FrameSpans  BY <2>3, LenProperties
        <2>5. ListRemove(l, a, b) = s
            BY <1>1, <1>5, ListRemoveLast, Zenon
        <2>6. /\ sp.li_stop = NPixels - 1 /\ sp.li_start \in Nat
              /\ sp.li_start = 0 \/ sp.li_start <= n - 1
            BY <1>1, <1>2, <1>5, <2>3
        <2>7. a <= NPixels - 1
            <3>1. sp.li_start = a \/ sp.li_stop = b \/ a <= sp.li_stop
                BY <2>1, Zenon DEF Hit
            <3> HIDE DEF sp
            <3>2. QED
                BY ONLY <2>6, <3>1, ScanAssumption, n \in Nat, a \in Int, b \in Int,
                        n <= a, a <= b
        (* The spans before the last, and the pieces in place of it. *)
        <2>8. \A i \in 1 .. m - 1 :
                 /\ l[i].li_start \in Nat /\ l[i].li_stop \in Nat
                 /\ l[i].li_start = 0 \/ l[i].li_start <= n - 1
                 /\ l[i].li_stop < NPixels - 1 /\ l[i].li_stop + 1 < n
                 /\ l[i].li_start <= l[i].li_stop
                 /\ l[i].li_stop < sp.li_start
            <3>1. SUFFICES ASSUME NEW i \in 1 .. m - 1
                           PROVE  /\ l[i].li_start \in Nat /\ l[i].li_stop \in Nat
                                  /\ l[i].li_start = 0 \/ l[i].li_start <= n - 1
                                  /\ l[i].li_stop < NPixels - 1 /\ l[i].li_stop + 1 < n
                                  /\ l[i].li_start <= l[i].li_stop
                                  /\ l[i].li_stop < sp.li_start
                BY Zenon
            <3> DEFINE x == l[i].li_start
                       y == l[i].li_stop
                       z == sp.li_start
                       w == sp.li_stop
            <3>2. y < z /\ y < w  BY <1>3, <2>3, Zenon
            <3>3. /\ x \in Nat /\ y \in 0 .. NPixels - 1
                  /\ x = 0 \/ x <= n - 1
                  /\ y = NPixels - 1 \/ y + 1 < n
                  /\ y < NPixels - 1 \/ FileMax < NPixels => x <= y
                BY <1>2, <2>3, Zenon
            <3>4. w = NPixels - 1  BY <2>6
            <3> HIDE DEF x, y, z, w
            <3>5. /\ x \in Nat /\ y \in Nat
                  /\ x = 0 \/ x <= n - 1
                  /\ y < NPixels - 1 /\ y + 1 < n
                  /\ x <= y
                  /\ y < z
                BY ONLY <3>2, <3>3, <3>4, ScanAssumption, n \in Nat
            <3>6. QED  BY ONLY <3>5, Zenon DEF x, y, z
        <2> DEFINE Piece(q) ==
                       /\ q.li_start = 0 \/ q.li_start \in 0 .. b + 2 - 1
                       /\ q.li_stop \in 0 .. NPixels - 1
                       /\ q.li_stop = NPixels - 1 \/ q.li_stop + 1 < b + 2
                       /\ q.li_stop < NPixels - 1 \/ FileMax < NPixels => q.li_start <= q.li_stop
                       /\ q.li_start = sp.li_start \/ q.li_start = b + 1
                       /\ q.li_stop = a - 1 \/ q.li_stop = NPixels - 1
        <2> HIDE DEF sp
        <2>9. \/ r = << >>
              \/ \E q \in FrameSpans : r = <<q>> /\ Piece(q)
              \/ \E q, t \in FrameSpans :
                    /\ r = <<q, t>> /\ Piece(q) /\ Piece(t)
                    /\ q.li_stop < t.li_start /\ q.li_stop < t.li_stop
            <3>1. CASE r = << >>
                BY <3>1
            <3>2. ASSUME NEW q \in FrameSpans, r = <<q>>,
                         \/ /\ sp.li_start = a /\ sp.li_stop # b
                            /\ q.li_start = b + 1 /\ q.li_stop = sp.li_stop
                         \/ /\ sp.li_start # a /\ sp.li_stop = b
                            /\ q.li_start = sp.li_start /\ q.li_stop = a - 1
                  PROVE  Piece(q)
                BY ONLY <3>2, <2>6, <2>7, ScanAssumption, n \in Nat, a \in Int, b \in Int,
                        n <= a, a <= b, b <= FileMax
            <3>3. ASSUME NEW q \in FrameSpans, NEW t \in FrameSpans, r = <<q, t>>,
                         sp.li_start # a /\ sp.li_stop # b,
                         q.li_start = sp.li_start /\ q.li_stop = a - 1,
                         t.li_start = b + 1 /\ t.li_stop = sp.li_stop
                  PROVE  /\ Piece(q) /\ Piece(t)
                         /\ q.li_stop < t.li_start /\ q.li_stop < t.li_stop
                BY ONLY <3>3, <2>6, <2>7, ScanAssumption, n \in Nat, a \in Int, b \in Int,
                        n <= a, a <= b, b <= FileMax
            <3> HIDE DEF Piece
            <3>4. QED  BY <2>4, <3>1, <3>2, <3>3, RemnantPieces
        <2> DEFINE Pieces(q) ==
                       /\ q \in Seq(FrameSpans) /\ Len(q) \in 0 .. 2
                       /\ \A i \in 1 .. Len(q) : Piece(q[i])
                       /\ \A i, j \in 1 .. Len(q) :
                             i < j => q[i].li_stop < q[j].li_start /\ q[i].li_stop < q[j].li_stop
        <2>10. Pieces(r)
            <3> HIDE DEF Piece, r
            <3>1. CASE r = << >>
                BY ONLY <3>1
            <3>2. ASSUME NEW q \in FrameSpans, r = <<q>>, Piece(q)
                  PROVE  Pieces(r)
                <4>1. Len(r) = 1 /\ r[1] = q /\ r \in Seq(FrameSpans)
                    BY ONLY <3>2, q \in FrameSpans
                <4>2. 1 .. 1 = {1} /\ 1 \in 0 .. 2 /\ ~(1 < 1)  OBVIOUS
                <4>3. QED  BY ONLY <3>2, <4>1, <4>2, Zenon
            <3>3. ASSUME NEW q \in FrameSpans, NEW t \in FrameSpans, r = <<q, t>>,
                         Piece(q), Piece(t), q.li_stop < t.li_start, q.li_stop < t.li_stop
                  PROVE  Pieces(r)
                <4>1. Len(r) = 2 /\ r[1] = q /\ r[2] = t /\ r \in Seq(FrameSpans)
                    BY ONLY <3>3, q \in FrameSpans, t \in FrameSpans
                <4>2. 1 .. 2 = {1, 2} /\ 2 \in 0 .. 2 /\ ~(1 < 1) /\ ~(2 < 1) /\ ~(2 < 2)
                    OBVIOUS
                <4>3. QED  BY ONLY <3>3, <4>1, <4>2, Zenon
            <3> HIDE DEF Pieces
            <3>4. QED  BY <2>9, <3>1, <3>2, <3>3, Zenon
        <2> HIDE DEF r
        <2>11. /\ Len(s) = m - 1 + Len(r)
               /\ \A i \in 1 .. m - 1 + Len(r) :
                     s[i] = IF i <= m - 1 THEN l[i] ELSE r[i - (m - 1)]
            BY ONLY <2>1, <2>10, l \in Seq(FrameSpans), ReplaceLast, Zenon
        <2> HIDE DEF s, m
        <2>12. \A i \in 1 .. Len(s) :
                  \/ i \in 1 .. m - 1 /\ s[i] = l[i]
                  \/ i >= m /\ i - (m - 1) \in 1 .. Len(r) /\ s[i] = r[i - (m - 1)]
            BY ONLY <2>2, <2>10, <2>11
        <2>13. \A i \in 1 .. Len(s) :
                  /\ s[i].li_start = 0 \/ s[i].li_start \in 0 .. b + 2 - 1
                  /\ s[i].li_stop \in 0 .. NPixels - 1
                  /\ s[i].li_stop = NPixels - 1 \/ s[i].li_stop + 1 < b + 2
                  /\ s[i].li_stop < NPixels - 1 \/ FileMax < NPixels => s[i].li_start <= s[i].li_stop
            <3>1. SUFFICES ASSUME NEW i \in 1 .. Len(s)
                           PROVE  /\ s[i].li_start = 0 \/ s[i].li_start \in 0 .. b + 2 - 1
                                  /\ s[i].li_stop \in 0 .. NPixels - 1
                                  /\ s[i].li_stop = NPixels - 1 \/ s[i].li_stop + 1 < b + 2
                                  /\ s[i].li_stop < NPixels - 1 \/ FileMax < NPixels => s[i].li_start <= s[i].li_stop
                BY Zenon
            <3>2. CASE i \in 1 .. m - 1 /\ s[i] = l[i]
                <4> DEFINE x == s[i].li_start
                           y == s[i].li_stop
                <4>1. /\ x \in Nat /\ y \in Nat
                      /\ x = 0 \/ x <= n - 1
                      /\ y < NPixels - 1 /\ y + 1 < n
                      /\ x <= y
                    BY <2>8, <3>2, Zenon
                <4> HIDE DEF x, y
                <4>2. /\ x = 0 \/ x \in 0 .. b + 2 - 1
                      /\ y \in 0 .. NPixels - 1
                      /\ y = NPixels - 1 \/ y + 1 < b + 2
                      /\ y < NPixels - 1 \/ FileMax < NPixels => x <= y
                    BY ONLY <4>1, ScanAssumption, n \in Nat, a \in Int, b \in Int, n <= a, a <= b
                <4>3. QED  BY ONLY <4>2, Zenon DEF x, y
            <3>3. CASE i >= m /\ i - (m - 1) \in 1 .. Len(r) /\ s[i] = r[i - (m - 1)]
                <4> HIDE DEF Piece
                <4>1. Piece(s[i])  BY <2>10, <3>3, Zenon
                <4> USE DEF Piece
                <4>2. QED  BY <4>1, Zenon
            <3>4. QED  BY <2>12, <3>2, <3>3, Zenon
        <2>14. \A i, j \in 1 .. Len(s) :
                  i < j => s[i].li_stop < s[j].li_start /\ s[i].li_stop < s[j].li_stop
            <3>1. SUFFICES ASSUME NEW i \in 1 .. Len(s), NEW j \in 1 .. Len(s), i < j
                           PROVE  s[i].li_stop < s[j].li_start /\ s[i].li_stop < s[j].li_stop
                BY Zenon
            <3>2. CASE j \in 1 .. m - 1 /\ s[j] = l[j]
                <4>1. i \in 1 .. m - 1 /\ ~(i >= m)
                    BY ONLY <2>2, <2>10, <2>11, <3>1, <3>2
                <4>2. s[i] = l[i]  BY <2>12, <4>1, Zenon
                <4>3. l[i].li_stop < l[j].li_start /\ l[i].li_stop < l[j].li_stop
                    BY <1>3, <2>3, <3>1, <3>2, <4>1, Zenon DEF m
                <4>4. QED  BY ONLY <3>2, <4>2, <4>3, Zenon
            <3>3. CASE j >= m /\ j - (m - 1) \in 1 .. Len(r) /\ s[j] = r[j - (m - 1)]
                <4>1. Piece(s[j])  BY <2>10, <3>3, Zenon
                <4>2. CASE i \in 1 .. m - 1 /\ s[i] = l[i]
                    <5> DEFINE x == s[i].li_start
                               y == s[i].li_stop
                    <5>1. /\ y \in Nat /\ y < NPixels - 1 /\ y + 1 < n
                          /\ y < sp.li_start
                        BY <2>8, <4>2, Zenon DEF sp
                    <5>2. /\ s[j].li_start = sp.li_start \/ s[j].li_start = b + 1
                          /\ s[j].li_stop = a - 1 \/ s[j].li_stop = NPixels - 1
                        BY <4>1
                    <5> HIDE DEF x, y
                    <5>3. y < s[j].li_start /\ y < s[j].li_stop
                        BY ONLY <5>1, <5>2, ScanAssumption, n \in Nat, a \in Int, b \in Int,
                                n <= a, a <= b
                    <5>4. QED  BY ONLY <5>3, Zenon DEF y
                <4>3. CASE i >= m /\ i - (m - 1) \in 1 .. Len(r) /\ s[i] = r[i - (m - 1)]
                    <5>1. i - (m - 1) < j - (m - 1)
                        BY ONLY <2>2, <2>10, <2>11, <3>1
                    <5>2. QED  BY <2>10, <3>3, <4>3, <5>1, Zenon
                <4>4. QED  BY <2>12, <4>2, <4>3, Zenon
            <3>4. QED  BY <2>12, <3>2, <3>3, Zenon
        <2>15. ListBehind(s, b + 2)
            BY <2>13, <2>14 DEF ListBehind
        <2>16. QED  BY ONLY <2>5, <2>15, Zenon
    <1>6. QED  BY <1>4, <1>5, Zenon

-----------------------------------------------------------------------------
(* The scan.                                                               *)

LEMMA ScanInitInv == ScanInit => ScanInv
    <1> SUFFICES ASSUME ScanInit PROVE ScanInv
        OBVIOUS
    <1> DEFINE sp == Span(1, 0, NPixels - 1)
    <1>1. sp \in FrameSpans /\ sp.li_start = 0 /\ sp.li_stop = NPixels - 1
        BY ScanAssumption DEF Span, FrameSpans
    <1> HIDE DEF sp
    <1>2. fr_todo = <<sp>> /\ pno = 0 /\ file \subseteq 0 .. FileMax
        BY DEF ScanInit, sp
    <1>3. fr_todo \in Seq(FrameSpans) /\ Len(fr_todo) = 1 /\ fr_todo[1] = sp
        BY <1>1, <1>2
    <1>4. 1 .. 1 = {1} /\ ~(1 < 1) /\ NPixels - 1 \in 0 .. NPixels - 1
          /\ ~(NPixels - 1 < NPixels - 1) /\ 0 <= NPixels - 1
        BY ScanAssumption
    <1>5. ListBehind(fr_todo, pno)
        BY ONLY <1>1, <1>3, <1>4, Zenon DEF ListBehind
    <1>6. DOMAIN fr_todo = {1}
        BY <1>3, <1>4, LenProperties
    <1>7. PixelsOfList(fr_todo) = 0 .. NPixels - 1
        BY ONLY <1>1, <1>3, <1>6, Zenon DEF PixelsOfList, PixelsOf
    <1>8. {p \in file : p < pno} = {}
        <2>1. \A p \in file : p \in Nat  BY <1>2
        <2>2. \A p \in file : ~(p < pno)  BY ONLY <1>2, <2>1
        <2>3. QED  BY <2>2, Zenon
    <1>9. QED  BY <1>2, <1>3, <1>5, <1>7, <1>8, Zenon DEF ScanInv, RemainderExact, Pixels

LEMMA ScanStepInv == ScanInv /\ [ScanNext]_scanVars => ScanInv'
    <1> SUFFICES ASSUME ScanInv, [ScanNext]_scanVars PROVE ScanInv'
        OBVIOUS
    <1>1. CASE UNCHANGED scanVars
        BY <1>1 DEF ScanInv, RemainderExact, scanVars, ListBehind, PixelsOfList
    <1>2. CASE ScanEnd
        BY <1>2 DEF ScanEnd, ScanInv, RemainderExact, scanVars, ListBehind, PixelsOfList
    <1>3. ASSUME NEW first \in 0 .. FileMax, NEW last \in 0 .. FileMax,
                 DeleteRun(first, last)
          PROVE  ScanInv'
        <2>1. /\ first \in Nat /\ last \in Nat /\ first \in Int /\ last \in Int
              /\ pno \in Nat /\ pno <= first /\ first <= last /\ last <= FileMax
            BY <1>3, ScanAssumption DEF DeleteRun, Run, ScanInv
        <2>2. ListBehind(fr_todo, pno) /\ fr_todo \in Seq(FrameSpans)
            BY DEF ScanInv
        <2>3. HitsLast(fr_todo, first, last)
            BY ONLY <2>1, <2>2, RunHitsLast
        <2>4. /\ fr_todo' \in Seq(FrameSpans)
              /\ PixelsOfList(fr_todo') = PixelsOfList(fr_todo) \ (first .. last)
            BY <1>3, <2>1, <2>2, <2>3, ListRemovePixels DEF DeleteRun
        <2>5. ListBehind(fr_todo', pno')
            BY <1>3, <2>1, <2>2, RunLeavesBehind DEF DeleteRun
        <2>6. pno' = last + 2 /\ file' = file /\ pno' \in Nat
            BY <1>3, <2>1 DEF DeleteRun
        (* What the turn has read is the run, and one black pixel after it. *)
        <2>7. {p \in file : p < pno'} = {p \in file : p < pno} \cup (first .. last)
            <3>1. file \subseteq Nat
                BY ScanAssumption DEF ScanInv
            <3>2. /\ \A p \in file : p >= pno => p >= first
                  /\ first .. last \subseteq file /\ last + 1 \notin file
                BY <1>3 DEF DeleteRun, Run
            <3>3. \A p \in file : p < pno' <=> p < pno \/ p \in first .. last
                <4>1. SUFFICES ASSUME NEW p \in file
                               PROVE  p < last + 2 <=> p < pno \/ p \in first .. last
                    BY <2>6
                <4>2. /\ p \in Nat /\ p # last + 1
                      /\ p >= pno => p >= first
                    BY <3>1, <3>2
                <4>3. QED  BY ONLY <2>1, <4>2
            <3>4. QED  BY ONLY <3>2, <3>3, Zenon
        <2>8. PixelsOfList(fr_todo) = Pixels \ {p \in file : p < pno}
            BY DEF ScanInv, RemainderExact
        <2>9. RemainderExact'
            <3>1. PixelsOfList(fr_todo') = Pixels \ {p \in file : p < pno'}
                BY ONLY <2>4, <2>7, <2>8, Zenon
            <3>2. QED  BY <2>6, <3>1 DEF RemainderExact, Pixels
        <2>10. QED  BY <2>4, <2>5, <2>6, <2>9 DEF ScanInv
    <1>4. QED  BY <1>1, <1>2, <1>3 DEF ScanNext

(* prep_frame, scan_frame_for_finished_pixels: nothing that is still black *)
(* is lost from the work list and nothing rendered stays in it, at every   *)
(* turn of the scan, though the file be that of a larger picture.          *)
THEOREM RemainderIsExact == ScanSpec => []RemainderExact
    <1>1. ScanInv => RemainderExact  BY DEF ScanInv
    <1>2. QED  BY <1>1, ScanInitInv, ScanStepInv, PTL DEF ScanSpec

(* Every span of the list is one of frame 1, and the scan stays in range.  *)
THEOREM ScanTypeCorrect == ScanSpec => []ScanTypeOK
    <1>1. ScanInv => ScanTypeOK
        BY LenProperties DEF ScanInv, ScanTypeOK, FrameSpans
    <1>2. QED  BY <1>1, ScanInitInv, ScanStepInv, PTL DEF ScanSpec

(* list_remove leaves nonempty spans in ascending order, which the lumps   *)
(* of task_server rely on, when the file is no larger than the frame.      *)
THEOREM TodoStaysAscending ==
    ASSUME FileMax < NPixels
    PROVE  ScanSpec => []TodoAscending
    <1>1. ScanInv => TodoAscending
        <2> SUFFICES ASSUME ScanInv PROVE Ascending(fr_todo)
            BY DEF TodoAscending
        <2>1. DOMAIN fr_todo = 1 .. Len(fr_todo)
            BY LenProperties DEF ScanInv
        <2>2. \A i \in 1 .. Len(fr_todo) : fr_todo[i].li_start <= fr_todo[i].li_stop
            BY DEF ScanInv, ListBehind
        <2>3. \A i, j \in 1 .. Len(fr_todo) :
                 i < j => fr_todo[i].li_stop < fr_todo[j].li_start
            BY DEF ScanInv, ListBehind
        <2>4. QED  BY <2>1, <2>2, <2>3, Zenon DEF Ascending
    <1>2. QED  BY <1>1, ScanInitInv, ScanStepInv, PTL DEF ScanSpec
=============================================================================
