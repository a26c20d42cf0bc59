---------------------------- MODULE DbFile_proofs ----------------------------
(***************************************************************************)
(* Proofs about the database file.  The first half is about the tables of  *)
(* a process: its directory and its map of holes never give the same       *)
(* storage to two owners.  That holds for every number of processes that   *)
(* write the same file, whatever fails: what is in the file only matters   *)
(* when it is opened, and whatever it is then, the objects a scan finds do *)
(* not overlap.  The second half is about the file of one process that     *)
(* works alone, as long as nothing it writes is cut short: it can be       *)
(* opened at every step but two, and the tables are those of the file.     *)
(***************************************************************************)
EXTENDS DbFile, WellFoundedInduction, TLAPS

-----------------------------------------------------------------------------
(* The invariant.                                                          *)

Units == [img : Images, at : 0 .. FileMax, end : BOOLEAN]
Entries == [d_addr : -1 .. FileMax, d_len : 0 .. FileMax]
Ops == [name : Names \cup {"none"}, size : Sizes \cup {0}, old : 0 .. FileMax,
        then : Sizes \cup {0}]
Places == {"closed", "idle", "ident", "update", "shrink", "shrink back", "release",
           "place", "erase", "write", "delete"}
Spots == [m_addr : Nat, m_size : Nat]

Types ==
    /\ disk \in [0 .. FileMax - 1 -> Units]
    /\ disk[0] = Unit(Image("header", 1), 0)
    /\ dir \in [Users -> [Names -> Entries]]
    /\ freep \in [Users -> SUBSET Spots]
    /\ dbi_eof \in [Users -> 0 .. FileMax]
    /\ dbi_read_only \in [Users -> BOOLEAN]
    /\ pc \in [Users -> Places]
    /\ op \in [Users -> Ops]
    /\ hurt \in 0 .. MaxHurt

(* The range lo .. hi - 1 is clear of the range addr .. addr + size - 1,   *)
(* of the holes of a map, of an object that has storage.                   *)
Clear(lo, hi, addr, size) == addr + size <= lo \/ hi <= addr
ClearOf(lo, hi, map) == \A h \in map : Clear(lo, hi, h.m_addr, h.m_size)
ClearOfEntry(lo, hi, e) == e.d_addr = Phony \/ Clear(lo, hi, e.d_addr, e.d_len)

(* A map all of which lies between the header and e.                       *)
MapIn(map, e) ==
    /\ map \subseteq Spots
    /\ Coalesced(map)
    /\ \A h \in map : h.m_addr >= 1 /\ After(h) <= e

EntryIn(x, e) == x.d_addr = Phony \/ (x.d_addr >= 1 /\ x.d_len >= 1 /\ x.d_addr + x.d_len <= e)

Apart(d, m) ==
    /\ \A n \in Names : d[n].d_addr # Phony =>
          ClearOf(d[n].d_addr, d[n].d_addr + d[n].d_len, m)
    /\ \A n, k \in Names : n # k /\ d[n].d_addr # Phony =>
          ClearOfEntry(d[n].d_addr, d[n].d_addr + d[n].d_len, d[k])

(* What the operation under way relies on: that the entry has storage, or  *)
(* that it has none, and how long it is.  Between the two writes that      *)
(* shrink an object, its end is nobody's.                                  *)
Underway(d, m, e, p, o) ==
    /\ p \in {"shrink", "shrink back", "release", "erase", "write", "delete"} =>
          d[o.name].d_addr # Phony
    /\ p = "place" => d[o.name].d_addr = Phony
    /\ p \in {"shrink", "shrink back", "release", "place", "erase", "write"} => o.size \in Sizes
    /\ p = "shrink" => o.size < d[o.name].d_len /\ o.old = d[o.name].d_len
    /\ p \in {"shrink back", "erase", "write"} => o.size = d[o.name].d_len
    /\ p = "shrink back" =>
          LET lo == d[o.name].d_addr + o.size
              hi == d[o.name].d_addr + o.old
          IN  /\ o.size < o.old /\ hi <= e
              /\ ClearOf(lo, hi, m)
              /\ \A n \in Names : ClearOfEntry(lo, hi, d[n])

(* Of the tables of one process: directory d, map m, end of file e.        *)
Sane(d, m, e, ro, p, o) ==
    /\ MapIn(m, e)
    /\ \A n \in Names : /\ EntryIn(d[n], e)
                        /\ d[n].d_addr = Phony /\ d[n].d_len # 0 => p = "place" /\ o.name = n
    /\ ro = FALSE => Apart(d, m)
    /\ p # "closed" => e >= 1
    /\ p \in {"ident", "update"} => ro = FALSE
    /\ p = "update" => o.then \in Sizes
    /\ p \notin {"closed", "idle", "ident", "update"} =>
          ro = FALSE /\ o.name \in Names /\ Underway(d, m, e, p, o)

SaneOf(u) == Sane(dir[u], freep[u], dbi_eof[u], dbi_read_only[u], pc[u], op[u])

IInv == Types /\ \A u \in Users : SaneOf(u)

-----------------------------------------------------------------------------
(* Sets of numbers have a least element, and a greatest if bounded.        *)

Less == {p \in Nat \X Nat : p[1] < p[2]}

LEMMA LessIsWellFounded == IsWellFoundedOn(Less, Nat)
    <1>1. OpToRel(<, Nat) = Less  BY Zenon DEF OpToRel, Less
    <1>2. QED  BY <1>1, NatLessThanWellFounded, Zenon

LEMMA LeastOf ==
    ASSUME NEW T \in SUBSET Nat, T # {}
    PROVE  \E x \in T : \A y \in T : x <= y
    <1>1. PICK x \in T : \A y \in T : ~ (<<y, x>> \in Less)
        BY LessIsWellFounded, WFMin, Zenon
    <1>2. ASSUME NEW y \in T, y < x PROVE FALSE
        <2>1. <<y, x>> \in Nat \X Nat /\ <<y, x>>[1] < <<y, x>>[2]  BY <1>2
        <2>2. <<y, x>> \in Less  BY <2>1, Zenon DEF Less
        <2>3. QED  BY <1>1, <2>2
    <1>3. QED  BY <1>2

LEMMA GreatestOf ==
    ASSUME NEW T \in SUBSET Nat, T # {}, NEW b \in Nat, \A x \in T : x <= b
    PROVE  \E x \in T : \A y \in T : y <= x
    <1> DEFINE R == {b - x : x \in T}
    <1>1. R \in SUBSET Nat /\ R # {}
        <2>1. \A x \in T : x \in Nat /\ x <= b  OBVIOUS
        <2>2. \A x \in T : b - x \in Nat  BY <2>1
        <2>3. QED  BY <2>2
    <1> HIDE DEF R
    <1>2. PICK r \in R : \A y \in R : r <= y  BY <1>1, LeastOf
    <1>3. PICK x \in T : r = b - x  BY <1>2 DEF R
    <1>4. ASSUME NEW y \in T PROVE y <= x
        <2>1. b - y \in R  BY DEF R
        <2>2. b - x <= b - y  BY <1>2, <1>3, <2>1
        <2>3. x \in Nat /\ y \in Nat  OBVIOUS
        <2>4. QED  BY <2>2, <2>3
    <1>5. QED  BY <1>4

LEMMA MaxOf ==
    ASSUME NEW T \in SUBSET Nat, T # {}, NEW b \in Nat, \A x \in T : x <= b
    PROVE  Max(T) \in T /\ \A y \in T : y <= Max(T)
    <1>1. \E x \in T : \A y \in T : x >= y  BY GreatestOf
    <1>2. Max(T) \in T /\ \A y \in T : Max(T) >= y  BY <1>1, Zenon DEF Max
    <1>3. QED  BY <1>2

LEMMA MinOf ==
    ASSUME NEW T \in SUBSET Nat, T # {}
    PROVE  Min(T) \in T /\ \A y \in T : Min(T) <= y
    <1>1. \E x \in T : \A y \in T : x <= y  BY LeastOf
    <1>2. QED  BY <1>1, Zenon DEF Min

-----------------------------------------------------------------------------
(* The map: what rt_memfree does to a map with nothing overlapping.        *)

LEMMA NextHole ==
    ASSUME NEW map \in SUBSET Spots, NEW addr \in Nat,
           NEW h \in map, h.m_addr > addr
    PROVE  \E g \in CurOf(map, addr) : g.m_addr <= h.m_addr
    <1> DEFINE T == {g.m_addr : g \in {k \in map : k.m_addr > addr}}
    <1>1. T \in SUBSET Nat /\ h.m_addr \in T  BY DEF Spots
    <1>2. PICK x \in T : \A y \in T : x <= y  BY <1>1, LeastOf
    <1>3. PICK g \in map : g.m_addr > addr /\ g.m_addr = x  BY <1>2
    <1>4. \A k \in map : k.m_addr > addr => k.m_addr \in T  OBVIOUS
    <1>5. \A k \in map : k.m_addr > addr => k.m_addr >= g.m_addr
        BY <1>1, <1>2, <1>3, <1>4 DEF Spots
    <1>6. g \in CurOf(map, addr)  BY <1>3, <1>5 DEF CurOf
    <1>7. QED  BY <1>1, <1>2, <1>3, <1>6

LEMMA PreviousHole ==
    ASSUME NEW map \in SUBSET Spots, NEW addr \in Nat,
           NEW h \in map, h.m_addr <= addr
    PROVE  \E g \in PrevOf(map, addr) : h.m_addr <= g.m_addr
    <1> DEFINE T == {g.m_addr : g \in {k \in map : k.m_addr <= addr}}
    <1>1. T \in SUBSET Nat /\ h.m_addr \in T /\ \A x \in T : x <= addr  BY DEF Spots
    <1>2. PICK x \in T : \A y \in T : y <= x  BY <1>1, GreatestOf
    <1>3. PICK g \in map : g.m_addr <= addr /\ g.m_addr = x  BY <1>2
    <1>4. \A k \in map : k.m_addr <= addr => k.m_addr \in T  OBVIOUS
    <1>5. \A k \in map : k.m_addr <= addr => k.m_addr <= g.m_addr
        BY <1>1, <1>2, <1>3, <1>4 DEF Spots
    <1>6. g \in PrevOf(map, addr)  BY <1>3, <1>5 DEF PrevOf
    <1>7. QED  BY <1>1, <1>2, <1>3, <1>6

(* What a freed range becomes: it grows by the hole that ends where it     *)
(* begins and by the one that begins where it ends.                        *)
Merged(map, size, addr, start, stop, bottom, top) ==
    /\ rt_memfree(map, size, addr) = (map \ (bottom \cup top)) \cup {Hole(start, stop - start)}
    /\ start = addr \/ \E h \in map : h.m_addr = start /\ After(h) = addr
    /\ stop = addr + size \/ \E h \in map : h.m_addr = addr + size /\ After(h) = stop
    /\ start <= addr /\ addr + size <= stop
    /\ \A h \in map \ (bottom \cup top) : After(h) < start \/ stop < h.m_addr
    /\ \A h \in bottom \cup top : start <= h.m_addr /\ After(h) <= stop

LEMMA HoleMade ==
    ASSUME NEW map \in SUBSET Spots, Coalesced(map), NEW addr \in Nat, NEW size \in Nat,
           size # 0, ~ Overflows(map, size, addr)
    PROVE  \E start \in Nat, stop \in Nat, bottom \in SUBSET map, top \in SUBSET map :
              Merged(map, size, addr, start, stop, bottom, top)
    <1> DEFINE bottom == {h \in PrevOf(map, addr) : After(h) = addr}
               top    == {h \in CurOf(map, addr) : h.m_addr = addr + size}
               start  == IF bottom = {} THEN addr ELSE (CHOOSE h \in bottom : TRUE).m_addr
               stop   == IF top = {} THEN addr + size ELSE After(CHOOSE h \in top : TRUE)
    <1>1. rt_memfree(map, size, addr) = (map \ (bottom \cup top)) \cup {Hole(start, stop - start)}
        BY DEF rt_memfree
    <1>2. bottom \in SUBSET map /\ top \in SUBSET map  BY DEF PrevOf, CurOf
    <1>3. \A h \in map : h.m_addr \in Nat /\ h.m_size \in Nat /\ h.m_size > 0
        BY DEF Spots, Coalesced
    <1>4. \A h, g \in map : h = g \/ After(h) < g.m_addr \/ After(g) < h.m_addr
        BY DEF Coalesced
    <1>5. ASSUME NEW h \in map, h.m_addr <= addr
          PROVE  After(h) <= addr /\ (After(h) = addr => h \in bottom)
        <2>1. PICK g \in PrevOf(map, addr) : h.m_addr <= g.m_addr
            BY <1>5, PreviousHole
        <2>2. g \in map /\ g.m_addr <= addr  BY <2>1 DEF PrevOf
        <2>3. After(g) <= addr  BY <2>1, <2>2, <1>3 DEF Overflows, After
        <2>4. h = g \/ After(h) < g.m_addr
            BY <1>3, <1>4, <2>1, <2>2 DEF After
        <2>5. CASE h = g  BY <2>1, <2>3, <2>5
        <2>6. CASE After(h) < g.m_addr
            BY <1>3, <2>2, <2>6 DEF After
        <2>7. QED  BY <2>4, <2>5, <2>6
    <1>6. ASSUME NEW h \in map, h.m_addr > addr
          PROVE  addr + size <= h.m_addr /\ (h.m_addr = addr + size => h \in top)
        <2>1. PICK g \in CurOf(map, addr) : g.m_addr <= h.m_addr
            BY <1>6, NextHole
        <2>2. g \in map /\ g.m_addr > addr  BY <2>1 DEF CurOf
        <2>3. addr + size <= g.m_addr  BY <2>1, <2>2, <1>3 DEF Overflows
        <2>4. h = g \/ After(g) < h.m_addr
            BY <1>3, <1>4, <2>1, <2>2 DEF After
        <2>5. CASE h = g  BY <2>1, <2>3, <2>5
        <2>6. CASE After(g) < h.m_addr
            BY <1>3, <2>2, <2>3, <2>6 DEF After
        <2>7. QED  BY <2>4, <2>5, <2>6
    <1>7. bottom # {} => \E b \in map : /\ b \in bottom /\ start = b.m_addr /\ After(b) = addr
        <2>1. SUFFICES ASSUME bottom # {}
                       PROVE  \E b \in map : /\ b \in bottom /\ start = b.m_addr /\ After(b) = addr
            OBVIOUS
        <2> DEFINE b == CHOOSE h \in bottom : TRUE
        <2>2. b \in bottom /\ start = b.m_addr  BY <2>1
        <2>3. QED  BY <2>2, <1>2
    <1>8. top # {} => \E b \in map : /\ b \in top /\ stop = After(b) /\ b.m_addr = addr + size
        <2>1. SUFFICES ASSUME top # {}
                       PROVE  \E b \in map : /\ b \in top /\ stop = After(b) /\ b.m_addr = addr + size
            OBVIOUS
        <2> DEFINE b == CHOOSE h \in top : TRUE
        <2>2. b \in top /\ stop = After(b)  BY <2>1
        <2>3. QED  BY <2>2, <1>2
    <1>9. bottom = {} => start = addr  OBVIOUS
    <1>10. top = {} => stop = addr + size  OBVIOUS
    <1> HIDE DEF bottom, top, start, stop
    <1>11. start \in Nat /\ start <= addr
        BY <1>3, <1>7, <1>9 DEF After
    <1>12. stop \in Nat /\ addr + size <= stop
        BY <1>3, <1>8, <1>10 DEF After
    <1>13. ASSUME NEW h \in map \ (bottom \cup top)
           PROVE  After(h) < start \/ stop < h.m_addr
        <2>1. CASE h.m_addr <= addr
            <3>1. After(h) < addr  BY <1>3, <1>5, <2>1 DEF After
            <3>2. CASE bottom = {}  BY <3>1, <3>2, <1>9
            <3>3. CASE bottom # {}
                <4>1. PICK b \in map : b \in bottom /\ start = b.m_addr /\ After(b) = addr
                    BY <3>3, <1>7
                <4>2. h # b  BY <4>1
                <4>3. After(h) < b.m_addr \/ After(b) < h.m_addr  BY <4>2, <1>4
                <4>4. QED  BY <4>1, <4>3, <3>1, <1>3, <2>1 DEF After
            <3>4. QED  BY <3>2, <3>3
        <2>2. CASE h.m_addr > addr
            <3>1. addr + size < h.m_addr  BY <1>3, <1>6, <2>2
            <3>2. CASE top = {}  BY <3>1, <3>2, <1>10
            <3>3. CASE top # {}
                <4>1. PICK b \in map : b \in top /\ stop = After(b) /\ b.m_addr = addr + size
                    BY <3>3, <1>8
                <4>2. h # b  BY <4>1
                <4>3. After(h) < b.m_addr \/ After(b) < h.m_addr  BY <4>2, <1>4
                <4>4. QED  BY <4>1, <4>3, <3>1, <1>3 DEF After
            <3>4. QED  BY <3>2, <3>3
        <2>3. QED  BY <2>1, <2>2, <1>3
    <1>14. start = addr \/ \E h \in map : h.m_addr = start /\ After(h) = addr
        BY <1>7, <1>9
    <1>15. stop = addr + size \/ \E h \in map : h.m_addr = addr + size /\ After(h) = stop
        BY <1>8, <1>10
    <1>16. ASSUME NEW h \in bottom \cup top PROVE start <= h.m_addr /\ After(h) <= stop
        <2>1. h \in map  BY <1>2
        <2>2. CASE h \in bottom
            <3>1. PICK b \in map : b \in bottom /\ start = b.m_addr /\ After(b) = addr
                BY <2>2, <1>7
            <3>2. After(h) = addr  BY <2>2 DEF bottom
            <3>3. h = b  BY <3>1, <3>2, <2>1, <1>3, <1>4 DEF After
            <3>4. QED  BY <3>1, <3>2, <3>3, <1>3, <1>12
        <2>3. CASE h \in top
            <3>1. PICK b \in map : b \in top /\ stop = After(b) /\ b.m_addr = addr + size
                BY <2>3, <1>8
            <3>2. h.m_addr = addr + size  BY <2>3 DEF top
            <3>3. h = b  BY <3>1, <3>2, <2>1, <1>3, <1>4 DEF After
            <3>4. QED  BY <3>1, <3>2, <3>3, <1>3, <1>11, <1>12
        <2>4. QED  BY <2>2, <2>3
    <1>17. Merged(map, size, addr, start, stop, bottom, top)
        BY <1>1, <1>11, <1>12, <1>13, <1>14, <1>15, <1>16 DEF Merged
    <1>18. QED  BY <1>2, <1>11, <1>12, <1>17

(* A map stays one of separate holes, in the same bounds, and clear of     *)
(* whatever it and the freed range are clear of.                           *)
LEMMA FreeKeepsMap ==
    ASSUME NEW map \in SUBSET Spots, Coalesced(map), NEW addr \in Nat, NEW size \in Nat
    PROVE  /\ rt_memfree(map, size, addr) \in SUBSET Spots
           /\ Coalesced(rt_memfree(map, size, addr))
           /\ \A e \in Nat : MapIn(map, e) /\ addr >= 1 /\ addr + size <= e
                                => MapIn(rt_memfree(map, size, addr), e)
           /\ \A lo, hi \in Nat : lo < hi /\ ClearOf(lo, hi, map) /\ Clear(lo, hi, addr, size)
                                => ClearOf(lo, hi, rt_memfree(map, size, addr))
    <1>1. CASE size = 0 \/ Overflows(map, size, addr)
        BY <1>1 DEF rt_memfree
    <1>2. CASE size # 0 /\ ~ Overflows(map, size, addr)
        <2>0. PICK start \in Nat, stop \in Nat, bottom \in SUBSET map, top \in SUBSET map :
                  Merged(map, size, addr, start, stop, bottom, top)
            BY <1>2, HoleMade, Zenon
        <2>1. /\ rt_memfree(map, size, addr)
                    = (map \ (bottom \cup top)) \cup {Hole(start, stop - start)}
              /\ start = addr \/ \E h \in map : h.m_addr = start /\ After(h) = addr
              /\ stop = addr + size \/ \E h \in map : h.m_addr = addr + size /\ After(h) = stop
              /\ start <= addr /\ addr + size <= stop
              /\ \A h \in map \ (bottom \cup top) : After(h) < start \/ stop < h.m_addr
            BY <2>0 DEF Merged
        <2> DEFINE new == Hole(start, stop - start)
                   r == rt_memfree(map, size, addr)
        <2>2. start < stop /\ stop - start \in Nat /\ stop - start > 0  BY <1>2, <2>1
        <2>3. /\ new \in Spots /\ new.m_addr = start /\ new.m_size = stop - start
              /\ After(new) = stop
            BY <2>2 DEF Hole, Spots, After
        <2>4. \A h \in r : h = new \/ (h \in map /\ (After(h) < start \/ stop < h.m_addr))
            BY <2>1
        <2>5. new \in r  BY <2>1
        <2> HIDE DEF new, r
        <2>6. \A h \in map : h \in Spots /\ h.m_addr \in Nat /\ h.m_size \in Nat /\ h.m_size > 0
            BY DEF Spots, Coalesced
        <2>7. r \in SUBSET Spots
            BY <2>3, <2>4, <2>6
        <2>8. Coalesced(r)
            <3>1. \A h \in r : h.m_size > 0  BY <2>2, <2>3, <2>4, <2>6
            <3>2. \A h, g \in r : h = g \/ After(h) < g.m_addr \/ After(g) < h.m_addr
                BY <2>3, <2>4 DEF Coalesced
            <3>3. QED  BY <3>1, <3>2 DEF Coalesced
        <2>9. ASSUME NEW e \in Nat, MapIn(map, e), addr >= 1, addr + size <= e
              PROVE  MapIn(r, e)
            <3>1. \A h \in map : h.m_addr >= 1 /\ After(h) <= e  BY <2>9 DEF MapIn
            <3>2. start >= 1 /\ stop <= e  BY <2>1, <2>9, <3>1
            <3>3. \A h \in r : h.m_addr >= 1 /\ After(h) <= e
                BY <2>3, <2>4, <3>1, <3>2
            <3>4. QED  BY <2>7, <2>8, <3>3 DEF MapIn
        <2>10. ASSUME NEW lo \in Nat, NEW hi \in Nat, lo < hi, ClearOf(lo, hi, map),
                      Clear(lo, hi, addr, size)
               PROVE  ClearOf(lo, hi, r)
            <3>1. \A h \in map : h.m_addr + h.m_size <= lo \/ hi <= h.m_addr
                BY <2>10 DEF ClearOf, Clear
            <3>2. stop <= lo \/ hi <= start
                <4>1. CASE addr + size <= lo
                    BY <4>1, <2>1, <2>6, <2>10, <3>1 DEF After
                <4>2. CASE hi <= addr
                    BY <4>2, <2>1, <2>6, <2>10, <3>1 DEF After
                <4>3. QED  BY <4>1, <4>2, <2>10 DEF Clear
            <3>3. start + (stop - start) = stop  OBVIOUS
            <3>4. \A h \in r : h.m_addr + h.m_size <= lo \/ hi <= h.m_addr
                BY <2>3, <2>4, <3>1, <3>2, <3>3
            <3>5. QED  BY <3>4 DEF ClearOf, Clear
        <2>11. QED  BY <2>7, <2>8, <2>9, <2>10 DEF r
    <1>3. QED  BY <1>1, <1>2

-----------------------------------------------------------------------------
(* The scan.                                                               *)

ObjLen(a) == disk[a].img.len
NextOf(a) == a + ObjLen(a)

LEMMA EofTyped ==
    ASSUME Types
    PROVE  Eof \in 1 .. FileMax
    <1> DEFINE T == {i \in DOMAIN disk : disk[i] # Zero}
    <1>1. DOMAIN disk = 0 .. FileMax - 1 /\ FileMax \in Nat \ {0}
        BY DbAssumption DEF Types
    <1>2. disk[0] # Zero
        <2>1. disk[0].img.name = "header"  BY DEF Types, Unit, Image
        <2>2. Zero.img.name = "zero"  BY DEF Unit, Image, Zero
        <2>3. QED  BY <2>1, <2>2
    <1>3. T \in SUBSET Nat /\ T # {} /\ \A x \in T : x <= FileMax - 1
        BY <1>1, <1>2
    <1>4. FileMax - 1 \in Nat  BY <1>1
    <1> HIDE DEF T
    <1>5. Max(T) \in T  BY <1>3, <1>4, MaxOf
    <1>6. Eof = 1 + Max(T)  BY DEF Eof, T
    <1>7. Max(T) \in 0 .. FileMax - 1  BY <1>1, <1>5 DEF T
    <1>8. QED  BY <1>1, <1>6, <1>7

LEMMA ReadableTyped ==
    ASSUME Types, NEW a \in 0 .. FileMax, Readable(a)
    PROVE  /\ a \in 0 .. FileMax - 1 /\ ObjLen(a) \in Nat /\ ObjLen(a) > 0
           /\ NextOf(a) <= Eof /\ NextOf(a) \in 0 .. FileMax
    <1>1. FileMax \in Nat /\ Eof \in 1 .. FileMax /\ a < Eof
        BY EofTyped, DbAssumption DEF Readable
    <1>2. a \in 0 .. FileMax - 1  BY <1>1
    <1>3. disk[a] \in Units  BY <1>2 DEF Types
    <1>4. ObjLen(a) \in Nat  BY <1>3 DEF ObjLen, Units, Images
    <1>5. QED  BY <1>1, <1>2, <1>4 DEF Readable, ObjLen, NextOf

(* ScanFrom is well defined.                                               *)
ScansTo(k, f) ==
    /\ DOMAIN f = FileMax - k .. FileMax
    /\ \A a \in FileMax - k .. FileMax : f[a] = IF Readable(a) THEN {a} \cup f[NextOf(a)] ELSE {}

LEMMA ScanExists ==
    ASSUME Types
    PROVE  \A k \in 0 .. FileMax : \E f : ScansTo(k, f)
    <1> USE DbAssumption
    <1> DEFINE T == {k \in 0 .. FileMax : ~ \E f : ScansTo(k, f)}
    <1>1. SUFFICES ASSUME T # {} PROVE FALSE  OBVIOUS
    <1>2. T \in SUBSET Nat  OBVIOUS
    <1> HIDE DEF T
    <1>3. PICK k \in T : \A j \in T : k <= j  BY <1>1, <1>2, LeastOf
    <1>4. k \in 0 .. FileMax /\ ~ \E f : ScansTo(k, f)  BY DEF T
    <1>5. ~ Readable(FileMax)
        BY EofTyped DEF Readable
    <1>6. k # 0
        <2>1. ASSUME k = 0 PROVE FALSE
            <3> DEFINE g == [a \in FileMax - 0 .. FileMax |-> {}]
            <3>1. \A a \in FileMax - 0 .. FileMax : a = FileMax  OBVIOUS
            <3>2. ScansTo(0, g)  BY <1>5, <3>1 DEF ScansTo
            <3>3. QED  BY <3>2, <2>1, <1>4
        <2>2. QED  BY <2>1
    <1>7. k - 1 \in 0 .. FileMax /\ k - 1 \notin T  BY <1>3, <1>4, <1>6, <1>2
    <1>8. PICK f : ScansTo(k - 1, f)  BY <1>7 DEF T
    <1> DEFINE low == FileMax - k
               h == [a \in FileMax - k .. FileMax |->
                        IF a = low THEN IF Readable(a) THEN {a} \cup f[NextOf(a)] ELSE {}
                        ELSE f[a]]
    <1>9. ScansTo(k, h)
        <2>1. DOMAIN h = FileMax - k .. FileMax  OBVIOUS
        <2>2. ASSUME NEW a \in FileMax - k .. FileMax
              PROVE  h[a] = IF Readable(a) THEN {a} \cup h[NextOf(a)] ELSE {}
            <3>1. a \in 0 .. FileMax /\ low \in 0 .. FileMax  BY <1>4
            <3>2. Readable(a) => NextOf(a) \in low + 1 .. FileMax
                BY <3>1, ReadableTyped DEF NextOf
            <3>3. Readable(a) => h[NextOf(a)] = f[NextOf(a)]  BY <3>1, <3>2
            <3>4. CASE a = low  BY <3>3, <3>4
            <3>5. CASE a # low
                <4>1. a \in FileMax - (k - 1) .. FileMax  BY <3>5, <3>1, <1>4
                <4>2. f[a] = IF Readable(a) THEN {a} \cup f[NextOf(a)] ELSE {}
                    BY <4>1, <1>8 DEF ScansTo
                <4>3. QED  BY <4>2, <3>3, <3>5
            <3>6. QED  BY <3>4, <3>5
        <2> HIDE DEF h
        <2>3. QED  BY <2>1, <2>2 DEF ScansTo
    <1>10. QED  BY <1>9, <1>4

LEMMA ScanFromIs ==
    ASSUME Types
    PROVE  \A a \in 0 .. FileMax :
              ScanFrom[a] = IF Readable(a) THEN {a} \cup ScanFrom[NextOf(a)] ELSE {}
    <1>1. FileMax \in Nat /\ FileMax \in 0 .. FileMax  BY DbAssumption
    <1>2. PICK f : ScansTo(FileMax, f)  BY <1>1, ScanExists
    <1>3. FileMax - FileMax = 0  BY <1>1
    <1>4. DOMAIN f = 0 .. FileMax
          /\ \A a \in 0 .. FileMax : f[a] = IF Readable(a) THEN {a} \cup f[NextOf(a)] ELSE {}
        BY <1>2, <1>3 DEF ScansTo
    <1> DEFINE g == [a \in 0 .. FileMax |-> f[a]]
    <1>5. \A a \in 0 .. FileMax : Readable(a) => NextOf(a) \in 0 .. FileMax
        BY ReadableTyped
    <1>6. g = [a \in 0 .. FileMax |->
                  IF Readable(a) THEN {a} \cup g[a + disk[a].img.len] ELSE {}]
        BY <1>4, <1>5 DEF NextOf, ObjLen
    <1> HIDE DEF g
    <1>7. \E s : s = [a \in 0 .. FileMax |->
                         IF Readable(a) THEN {a} \cup s[a + disk[a].img.len] ELSE {}]
        BY <1>6
    <1>8. ScanFrom = [a \in 0 .. FileMax |->
                         IF Readable(a) THEN {a} \cup ScanFrom[a + disk[a].img.len] ELSE {}]
        BY <1>7, Zenon DEF ScanFrom
    <1>9. QED  BY <1>8 DEF NextOf, ObjLen

(* The objects a scan finds do not overlap.                                *)
ApartFrom(a) ==
    /\ \A x \in ScanFrom[a] : x \in a .. FileMax /\ Readable(x)
    /\ \A x, y \in ScanFrom[a] : x < y => NextOf(x) <= y

LEMMA ScanApart ==
    ASSUME Types
    PROVE  \A a \in 0 .. FileMax : ApartFrom(a)
    <1> USE DbAssumption
    <1> DEFINE T == {a \in 0 .. FileMax : ~ ApartFrom(a)}
    <1>1. SUFFICES ASSUME T # {} PROVE FALSE  OBVIOUS
    <1>2. T \in SUBSET Nat /\ \A a \in T : a <= FileMax  OBVIOUS
    <1> HIDE DEF T
    <1>3. PICK a \in T : \A b \in T : b <= a  BY <1>1, <1>2, GreatestOf
    <1>4. a \in 0 .. FileMax /\ ~ ApartFrom(a)  BY DEF T
    <1>5. CASE ~ Readable(a)
        <2>1. ScanFrom[a] = {}  BY <1>4, <1>5, ScanFromIs
        <2>2. QED  BY <2>1, <1>4 DEF ApartFrom
    <1>6. CASE Readable(a)
        <2> DEFINE b == NextOf(a)
        <2>1. b \in 0 .. FileMax /\ a < b /\ a \in Nat
            BY <1>4, <1>6, ReadableTyped DEF NextOf
        <2> HIDE DEF b
        <2>2. b \notin T  BY <1>3, <1>4, <2>1
        <2>3. ApartFrom(b)  BY <2>1, <2>2 DEF T
        <2>4. ScanFrom[a] = {a} \cup ScanFrom[b]  BY <1>4, <1>6, ScanFromIs DEF b
        <2>5. \A x \in ScanFrom[b] : x \in b .. FileMax /\ Readable(x)
            BY <2>3 DEF ApartFrom
        <2>6. \A x \in ScanFrom[a] : x \in a .. FileMax /\ Readable(x)
            BY <1>4, <1>6, <2>1, <2>4, <2>5
        <2>7. ASSUME NEW x \in ScanFrom[a], NEW y \in ScanFrom[a], x < y
              PROVE  NextOf(x) <= y
            <3>1. CASE x = a
                <4>1. y \in ScanFrom[b]  BY <2>4, <2>6, <2>7, <3>1
                <4>2. b <= y  BY <4>1, <2>5, <2>1
                <4>3. QED  BY <4>2, <3>1 DEF b
            <3>2. CASE x # a
                <4>1. x \in ScanFrom[b]  BY <2>4, <3>2
                <4>2. y # a  BY <4>1, <2>1, <2>5, <2>7
                <4>3. y \in ScanFrom[b]  BY <2>4, <4>2
                <4>4. QED  BY <2>3, <2>7, <4>1, <4>3 DEF ApartFrom
            <3>3. QED  BY <3>1, <3>2
        <2>8. QED  BY <2>6, <2>7, <1>4 DEF ApartFrom
    <1>7. QED  BY <1>5, <1>6

(* They lie between the header, which is one of them, and where the scan   *)
(* stops.                                                                  *)
LEMMA ChainIs ==
    ASSUME Types
    PROVE  /\ StopAt \in 1 .. Eof
           /\ \A x \in Chain : /\ x \in 0 .. FileMax - 1 /\ ObjLen(x) \in 1 .. FileMax
                               /\ NextOf(x) <= StopAt
                               /\ disk[x].img.name \notin {"header"} => x >= 1
           /\ \A x, y \in Chain : x < y => NextOf(x) <= y
    <1>1. 0 \in 0 .. FileMax /\ FileMax \in Nat \ {0} /\ Eof \in 1 .. FileMax
        BY DbAssumption, EofTyped
    <1>2. ApartFrom(0)  BY <1>1, ScanApart
    <1>3. disk[0].img.len = 1 /\ disk[0].img.name = "header" /\ disk[0].at = 0 /\ disk[0].end
        <2>1. disk[0] = Unit(Image("header", 1), 0)  BY DEF Types
        <2>2. Image("header", 1).len = 1 /\ Image("header", 1).name = "header"  BY DEF Image
        <2>3. 0 = Image("header", 1).len - 1  BY <2>2
        <2>4. \A img : 0 = img.len - 1 => Unit(img, 0).end  BY Zenon DEF Unit
        <2>5. \A img : Unit(img, 0).img = img /\ Unit(img, 0).at = 0  BY Zenon DEF Unit
        <2>6. QED  BY <2>1, <2>2, <2>3, <2>4, <2>5, Zenon
    <1>4. Readable(0)
        <2>1. 0 + 1 - 1 = 0 /\ 0 < Eof /\ 0 + 1 <= Eof  BY <1>1
        <2>2. QED  BY <1>3, <2>1 DEF Readable
    <1>5. 0 \in Chain  BY <1>1, <1>4, ScanFromIs DEF Chain
    <1>6. \A x \in Chain : x \in 0 .. FileMax /\ Readable(x)
        BY <1>2 DEF ApartFrom, Chain
    <1>7. \A x \in Chain : /\ x \in 0 .. FileMax - 1 /\ ObjLen(x) \in 1 .. FileMax
                           /\ NextOf(x) <= Eof /\ NextOf(x) \in Nat
        BY <1>1, <1>6, ReadableTyped DEF NextOf
    <1> DEFINE T == {NextOf(x) : x \in Chain}
    <1>8. T \in SUBSET Nat /\ T # {} /\ \A y \in T : y <= Eof  BY <1>5, <1>7
    <1>9. Eof \in Nat  BY <1>1
    <1>10. StopAt = Max(T)  BY DEF StopAt, NextOf, ObjLen
    <1> HIDE DEF T
    <1>11. Max(T) \in T /\ \A y \in T : y <= Max(T)  BY <1>8, <1>9, MaxOf
    <1>12. \A x \in Chain : NextOf(x) \in T  BY DEF T
    <1>13. NextOf(0) = 1  BY <1>3 DEF NextOf, ObjLen
    <1>14. StopAt \in 1 .. Eof
        <2>1. 1 \in T  BY <1>5, <1>12, <1>13
        <2>2. Max(T) \in Nat /\ Max(T) <= Eof /\ 1 <= Max(T)  BY <1>8, <1>11, <2>1
        <2>3. QED  BY <1>9, <1>10, <2>2
    <1>15. \A x \in Chain : NextOf(x) <= StopAt  BY <1>10, <1>11, <1>12
    <1>16. \A x \in Chain : disk[x].img.name # "header" => x >= 1
        BY <1>3, <1>7
    <1>17. QED  BY <1>2, <1>7, <1>14, <1>15, <1>16 DEF ApartFrom, Chain

(* HolesBelow is well defined: f is what the scan has made of the first k  *)
(* addresses.                                                              *)
Gather(f, a) == CASE a = 0 -> {}
                  [] a > 0 /\ a - 1 \in Found("free") ->
                         rt_memfree(f[a - 1], disk[a - 1].img.len, a - 1)
                  [] OTHER -> f[a - 1]

Gathers(k, f) == DOMAIN f = 0 .. k /\ \A a \in 0 .. k : f[a] = Gather(f, a)

LEMMA GatherExists == \A k \in 0 .. FileMax : \E f : Gathers(k, f)
    <1> USE DbAssumption
    <1> DEFINE T == {k \in 0 .. FileMax : ~ \E f : Gathers(k, f)}
    <1>1. SUFFICES ASSUME T # {} PROVE FALSE  OBVIOUS
    <1>2. T \in SUBSET Nat  OBVIOUS
    <1> HIDE DEF T
    <1>3. PICK k \in T : \A j \in T : k <= j  BY <1>1, <1>2, LeastOf
    <1>4. k \in 0 .. FileMax /\ ~ \E f : Gathers(k, f)  BY DEF T
    <1>5. k # 0
        <2>1. ASSUME k = 0 PROVE FALSE
            <3> DEFINE g == [a \in 0 .. 0 |-> {}]
            <3>1. \A a \in 0 .. 0 : a = 0  OBVIOUS
            <3>2. \A a \in 0 .. 0 : g[a] = Gather(g, a)  BY <3>1 DEF Gather
            <3>3. Gathers(0, g)  BY <3>2 DEF Gathers
            <3>4. QED  BY <3>3, <2>1, <1>4
        <2>2. QED  BY <2>1
    <1>6. k - 1 \in 0 .. FileMax /\ k - 1 \notin T  BY <1>3, <1>4, <1>5, <1>2
    <1>7. PICK f : Gathers(k - 1, f)  BY <1>6 DEF T
    <1> DEFINE h == [a \in 0 .. k |-> IF a = k THEN Gather(f, k) ELSE f[a]]
    <1>8. ASSUME NEW a \in 0 .. k PROVE h[a] = Gather(h, a)
        <2>1. k \in Nat /\ a \in Nat /\ a <= k  BY <1>4
        <2>2. a # 0 => a - 1 \in 0 .. k - 1 /\ h[a - 1] = f[a - 1]
            BY <2>1
        <2> HIDE DEF h
        <2>3. Gather(h, a) = Gather(f, a)  BY <2>1, <2>2 DEF Gather
        <2>4. a # k => a \in 0 .. k - 1 /\ f[a] = Gather(f, a)
            BY <2>1, <1>7 DEF Gathers
        <2>5. h[a] = IF a = k THEN Gather(f, k) ELSE f[a]  BY DEF h
        <2>6. QED  BY <2>3, <2>4, <2>5
    <1>9. DOMAIN h = 0 .. k  OBVIOUS
    <1> HIDE DEF h
    <1>10. Gathers(k, h)  BY <1>8, <1>9 DEF Gathers
    <1>11. QED  BY <1>10, <1>4

LEMMA HolesBelowIs == \A a \in 0 .. FileMax : HolesBelow[a] = Gather(HolesBelow, a)
    <1>1. FileMax \in 0 .. FileMax  BY DbAssumption
    <1>2. PICK f : Gathers(FileMax, f)  BY <1>1, GatherExists
    <1> DEFINE g == [a \in 0 .. FileMax |-> f[a]]
    <1>3. \A a \in 0 .. FileMax : g[a] = Gather(g, a)
        <2>1. \A a \in 0 .. FileMax : a # 0 => a - 1 \in 0 .. FileMax /\ g[a - 1] = f[a - 1]
            BY DbAssumption
        <2>2. \A a \in 0 .. FileMax : Gather(g, a) = Gather(f, a)
            <3> HIDE DEF g
            <3> QED  BY <2>1, DbAssumption DEF Gather
        <2>3. QED  BY <2>2, <1>2 DEF Gathers
    <1>4. g = [a \in 0 .. FileMax |-> Gather(g, a)]
        <2> DEFINE q == [a \in 0 .. FileMax |-> Gather(g, a)]
        <2>1. \A a \in 0 .. FileMax : q[a] = f[a]  BY <1>3
        <2>2. QED  BY <2>1
    <1> HIDE DEF g
    <1>5. \E s : s = [a \in 0 .. FileMax |-> Gather(s, a)]  BY <1>4
    <1>6. HolesBelow = [a \in 0 .. FileMax |-> Gather(HolesBelow, a)]
        BY <1>5, Zenon DEF HolesBelow, Gather
    <1>7. QED  BY <1>6

(* The map of holes a scan makes lies between the header and where it      *)
(* stops, and is clear of every other object.                              *)
HolesAt(a) ==
    /\ MapIn(HolesBelow[a], StopAt)
    /\ \A x \in Chain : disk[x].img.name # "free" => ClearOf(x, NextOf(x), HolesBelow[a])

LEMMA HolesSound ==
    ASSUME Types
    PROVE  \A a \in 0 .. FileMax : HolesAt(a)
    <1> USE DbAssumption
    <1> DEFINE T == {a \in 0 .. FileMax : ~ HolesAt(a)}
    <1>1. SUFFICES ASSUME T # {} PROVE FALSE  OBVIOUS
    <1>2. T \in SUBSET Nat  OBVIOUS
    <1> HIDE DEF T
    <1>3. PICK a \in T : \A b \in T : a <= b  BY <1>1, <1>2, LeastOf
    <1>4. a \in 0 .. FileMax /\ ~ HolesAt(a)  BY DEF T
    <1>5. HolesBelow[a] = Gather(HolesBelow, a)  BY <1>4, HolesBelowIs
    <1>6. CASE a = 0
        <2>1. HolesBelow[a] = {}  BY <1>5, <1>6 DEF Gather
        <2>2. HolesAt(a)
            BY <2>1 DEF HolesAt, MapIn, Coalesced, ClearOf
        <2>3. QED  BY <2>2, <1>4
    <1>7. CASE a # 0
        <2> DEFINE x == a - 1
                   old == HolesBelow[x]
        <2>1. x \in 0 .. FileMax /\ x \notin T /\ a > 0  BY <1>2, <1>3, <1>4, <1>7
        <2>2. HolesAt(x)  BY <2>1 DEF T
        <2>3. CASE x \notin Found("free")
            <3>1. HolesBelow[a] = old  BY <1>5, <1>7, <2>1, <2>3 DEF Gather
            <3>2. QED  BY <3>1, <2>2, <1>4 DEF HolesAt
        <2>4. CASE x \in Found("free")
            <3>1. x \in Chain /\ disk[x].img.name = "free"  BY <2>4 DEF Found
            <3>2. /\ x \in Nat /\ x >= 1 /\ ObjLen(x) \in Nat /\ ObjLen(x) > 0
                  /\ NextOf(x) <= StopAt /\ StopAt \in Nat
                BY <3>1, ChainIs, EofTyped
            <3> HIDE DEF x, old
            <3>3. HolesBelow[a] = rt_memfree(old, ObjLen(x), x)
                BY <1>5, <1>7, <2>1, <2>4 DEF Gather, ObjLen, x, old
            <3>4. MapIn(old, StopAt)
                  /\ \A y \in Chain : disk[y].img.name # "free" => ClearOf(y, NextOf(y), old)
                BY <2>2 DEF HolesAt, old
            <3>5. old \in SUBSET Spots /\ Coalesced(old)  BY <3>4 DEF MapIn
            <3>6. MapIn(HolesBelow[a], StopAt)
                BY <3>2, <3>3, <3>4, <3>5, FreeKeepsMap DEF NextOf
            <3>7. ASSUME NEW y \in Chain, disk[y].img.name # "free"
                  PROVE  ClearOf(y, NextOf(y), HolesBelow[a])
                <4>1. y \in Nat /\ ObjLen(y) \in Nat /\ ObjLen(y) > 0  BY ChainIs
                <4>2. NextOf(y) \in Nat /\ y < NextOf(y)  BY <4>1 DEF NextOf
                <4>3. y # x  BY <3>1, <3>7
                <4>4. NextOf(x) <= y \/ NextOf(y) <= x
                    BY <3>1, <3>2, <4>1, <4>3, ChainIs
                <4>5. Clear(y, NextOf(y), x, ObjLen(x))
                    BY <4>4 DEF Clear, NextOf
                <4>6. ClearOf(y, NextOf(y), old)  BY <3>4, <3>7
                <4>7. QED  BY <4>1, <4>2, <4>5, <4>6, <3>2, <3>3, <3>5, FreeKeepsMap
            <3>8. QED  BY <3>6, <3>7, <1>4 DEF HolesAt
        <2>5. QED  BY <2>3, <2>4
    <1>8. QED  BY <1>6, <1>7

(* The directory a scan makes.                                             *)
LEMMA EntryIs ==
    ASSUME Types, NEW n \in Names
    PROVE  \/ Entry(n) = NoEntry
           \/ \E x \in Chain : /\ disk[x].img.name = n /\ x >= 1
                               /\ Entry(n) = [d_addr |-> x, d_len |-> ObjLen(x)]
    <1>1. CASE Found(n) = {}
        BY <1>1 DEF Entry
    <1>2. CASE Found(n) # {}
        <2>1. Found(n) \in SUBSET Nat  BY ChainIs, DbAssumption DEF Found
        <2>2. Min(Found(n)) \in Found(n)  BY <1>2, <2>1, MinOf
        <2>3. PICK x \in Chain : x = Min(Found(n)) /\ disk[x].img.name = n
            BY <2>2 DEF Found
        <2>4. n \notin {"header"}  BY DbAssumption
        <2>5. x >= 1  BY <2>3, <2>4, ChainIs
        <2>6. Entry(n) = [d_addr |-> x, d_len |-> ObjLen(x)]
            BY <1>2, <2>3 DEF Entry, ObjLen
        <2>7. QED  BY <2>3, <2>5, <2>6
    <1>3. QED  BY <1>1, <1>2

(* What a process has in memory when it has opened the file, whatever is   *)
(* in it.                                                                  *)
LEMMA ScannedSane ==
    ASSUME Types, NEW d, d = [n \in Names |-> Entry(n)], NEW e \in Nat, StopAt <= e,
           NEW o, NEW p \in {"idle", "ident"}
    PROVE  /\ Sane(d, Holes, e, FALSE, p, o)
           /\ Holes \in SUBSET Spots
           /\ d \in [Names -> Entries]
    <1>1. FileMax \in 0 .. FileMax /\ FileMax \in Nat \ {0}  BY DbAssumption
    <1>2. HolesAt(FileMax)  BY <1>1, HolesSound
    <1>3. StopAt \in 1 .. Eof /\ Eof \in 1 .. FileMax  BY ChainIs, EofTyped
    <1>4. MapIn(Holes, StopAt)  BY <1>2 DEF HolesAt, Holes
    <1>5. MapIn(Holes, e)
        <2>1. \A h \in Holes : h.m_addr \in Nat /\ h.m_size \in Nat /\ After(h) <= StopAt
            BY <1>4 DEF MapIn, Spots
        <2>2. \A h \in Holes : After(h) <= e  BY <2>1, <1>3 DEF After
        <2>3. QED  BY <1>4, <2>2 DEF MapIn
    <1>6. \A n \in Names : d[n] = Entry(n)  OBVIOUS
    <1>7. NoEntry.d_addr = Phony /\ NoEntry.d_len = 0 /\ Phony = -1
        BY DEF NoEntry, Phony
    <1>8. ASSUME NEW n \in Names
          PROVE  /\ d[n] \in Entries /\ EntryIn(d[n], e)
                 /\ d[n].d_addr = Phony => d[n].d_len = 0
                 /\ d[n].d_addr # Phony =>
                       /\ d[n].d_addr \in Chain /\ disk[d[n].d_addr].img.name = n
                       /\ d[n].d_addr + d[n].d_len = NextOf(d[n].d_addr)
        <2>1. CASE Entry(n) = NoEntry
            BY <2>1, <1>1, <1>6, <1>7 DEF Entries, EntryIn, NoEntry, Phony
        <2>2. CASE \E x \in Chain : /\ disk[x].img.name = n /\ x >= 1
                                    /\ Entry(n) = [d_addr |-> x, d_len |-> ObjLen(x)]
            <3>1. PICK x \in Chain : /\ disk[x].img.name = n /\ x >= 1
                                     /\ Entry(n) = [d_addr |-> x, d_len |-> ObjLen(x)]
                BY <2>2
            <3>2. d[n].d_addr = x /\ d[n].d_len = ObjLen(x) /\ d[n] = [d_addr |-> x, d_len |-> ObjLen(x)]
                BY <1>6, <3>1
            <3>3. x \in 0 .. FileMax - 1 /\ ObjLen(x) \in 1 .. FileMax /\ NextOf(x) <= StopAt
                BY ChainIs
            <3>4. x \in -1 .. FileMax /\ ObjLen(x) \in 0 .. FileMax /\ x # -1 /\ x + ObjLen(x) <= e
                BY <1>1, <1>3, <3>3 DEF NextOf
            <3>5. QED
                BY <3>1, <3>2, <3>3, <3>4, <1>7 DEF Entries, EntryIn, NextOf
        <2>3. QED  BY <2>1, <2>2, EntryIs
    <1>9. Apart(d, Holes)
        <2>1. ASSUME NEW n \in Names, d[n].d_addr # Phony
              PROVE  ClearOf(d[n].d_addr, d[n].d_addr + d[n].d_len, Holes)
            <3>1. n # "free"  BY DbAssumption
            <3>2. ClearOf(d[n].d_addr, NextOf(d[n].d_addr), HolesBelow[FileMax])
                BY <1>2, <1>8, <2>1, <3>1 DEF HolesAt
            <3>3. QED  BY <1>8, <2>1, <3>2 DEF Holes
        <2>2. ASSUME NEW n \in Names, NEW k \in Names, n # k, d[n].d_addr # Phony, d[k].d_addr # Phony
              PROVE  Clear(d[n].d_addr, d[n].d_addr + d[n].d_len, d[k].d_addr, d[k].d_len)
            <3> DEFINE x == d[n].d_addr
                       y == d[k].d_addr
            <3>1. x \in Chain /\ y \in Chain /\ x # y  BY <1>8, <2>2
            <3>2. x \in Nat /\ y \in Nat  BY <3>1, ChainIs
            <3>3. NextOf(x) <= y \/ NextOf(y) <= x  BY <3>1, <3>2, ChainIs
            <3>4. QED  BY <1>8, <2>2, <3>3 DEF Clear
        <2>3. QED  BY <2>1, <2>2 DEF Apart, ClearOfEntry
    <1>10. Holes \in SUBSET Spots  BY <1>4 DEF MapIn
    <1>11. d \in [Names -> Entries]  BY <1>8
    <1>12. e >= 1  BY <1>3
    <1>13. QED
        BY <1>5, <1>8, <1>9, <1>10, <1>11, <1>12 DEF Sane

-----------------------------------------------------------------------------
(* What operations do to a directory d and a map m.                        *)

LEMMA EntryTyped ==
    ASSUME NEW d \in [Names -> Entries], NEW n \in Names
    PROVE  /\ d[n].d_addr \in Int /\ d[n].d_len \in Nat /\ d[n].d_len <= FileMax
           /\ d[n].d_addr # Phony => d[n].d_addr \in Nat
    BY DbAssumption DEF Entries, Phony

LEMMA SetKeepsApart ==
    ASSUME NEW d \in [Names -> Entries], NEW m \in SUBSET Spots, Apart(d, m),
           NEW n \in Names, NEW x \in Entries,
           x.d_addr # Phony =>
              /\ ClearOf(x.d_addr, x.d_addr + x.d_len, m)
              /\ \A k \in Names \ {n} : ClearOfEntry(x.d_addr, x.d_addr + x.d_len, d[k])
    PROVE  Apart([d EXCEPT ![n] = x], m)
    <1> DEFINE dd == [d EXCEPT ![n] = x]
    <1>1. dd \in [Names -> Entries] /\ dd[n] = x /\ \A k \in Names \ {n} : dd[k] = d[k]
        OBVIOUS
    <1> HIDE DEF dd
    <1>2. ASSUME NEW k \in Names, dd[k].d_addr # Phony
          PROVE  ClearOf(dd[k].d_addr, dd[k].d_addr + dd[k].d_len, m)
        BY <1>1, <1>2 DEF Apart
    <1>3. ASSUME NEW k \in Names, NEW l \in Names, k # l, dd[k].d_addr # Phony
          PROVE  ClearOfEntry(dd[k].d_addr, dd[k].d_addr + dd[k].d_len, dd[l])
        <2>1. dd[k].d_addr \in Int /\ dd[k].d_len \in Nat /\ dd[l].d_addr \in Int /\ dd[l].d_len \in Nat
            BY <1>1, EntryTyped
        <2>2. CASE k = n  BY <2>2, <1>1, <1>3
        <2>3. CASE l = n
            <3>1. CASE x.d_addr = Phony  BY <3>1, <2>3, <1>1 DEF ClearOfEntry
            <3>2. CASE x.d_addr # Phony
                <4>1. ClearOfEntry(dd[l].d_addr, dd[l].d_addr + dd[l].d_len, dd[k])
                    BY <3>2, <2>3, <1>1, <1>3
                <4>2. QED  BY <4>1, <2>1, <1>3 DEF ClearOfEntry, Clear
            <3>3. QED  BY <3>1, <3>2
        <2>4. CASE k # n /\ l # n  BY <2>4, <1>1, <1>3 DEF Apart
        <2>5. QED  BY <2>2, <2>3, <2>4
    <1>4. Apart(dd, m)  BY <1>2, <1>3 DEF Apart
    <1>5. QED  BY <1>4 DEF dd

(* A part of an object's storage is clear of what all of it is clear of.   *)
LEMMA PartKept ==
    ASSUME NEW d \in [Names -> Entries], NEW m \in SUBSET Spots, Apart(d, m),
           NEW n \in Names, d[n].d_addr # Phony,
           NEW lo \in Nat, NEW hi \in Nat, d[n].d_addr <= lo, hi <= d[n].d_addr + d[n].d_len
    PROVE  ClearOf(lo, hi, m) /\ \A k \in Names \ {n} : ClearOfEntry(lo, hi, d[k])
    <1>1. ClearOf(d[n].d_addr, d[n].d_addr + d[n].d_len, m)
          /\ \A k \in Names \ {n} : ClearOfEntry(d[n].d_addr, d[n].d_addr + d[n].d_len, d[k])
        BY DEF Apart
    <1>2. \A h \in m : h.m_addr \in Nat /\ h.m_size \in Nat  BY DEF Spots
    <1>3. \A k \in Names : d[k].d_addr \in Int /\ d[k].d_len \in Nat  BY EntryTyped
    <1>4. ClearOf(lo, hi, m)  BY <1>1, <1>2, <1>3 DEF ClearOf, Clear
    <1>5. \A k \in Names \ {n} : ClearOfEntry(lo, hi, d[k])
        BY <1>1, <1>3 DEF ClearOfEntry, Clear
    <1>6. QED  BY <1>4, <1>5

(* A range given to the map is clear of what it was clear of.              *)
LEMMA FreeKeepsApart ==
    ASSUME NEW d \in [Names -> Entries], NEW m \in SUBSET Spots, NEW e, Coalesced(m), Apart(d, m),
           \A n \in Names : EntryIn(d[n], e),
           NEW addr \in Nat, NEW size \in Nat,
           \A n \in Names : ClearOfEntry(addr, addr + size, d[n])
    PROVE  Apart(d, rt_memfree(m, size, addr))
    <1>1. ASSUME NEW n \in Names, d[n].d_addr # Phony
          PROVE  ClearOf(d[n].d_addr, d[n].d_addr + d[n].d_len, rt_memfree(m, size, addr))
        <2> DEFINE lo == d[n].d_addr
                   hi == lo + d[n].d_len
        <2>1. lo \in Nat /\ hi \in Nat /\ lo < hi /\ d[n].d_len \in Nat
            BY <1>1, EntryTyped DEF EntryIn
        <2>2. ClearOf(lo, hi, m)  BY <1>1 DEF Apart
        <2>3. Clear(lo, hi, addr, size)
            BY <1>1, <2>1 DEF ClearOfEntry, Clear
        <2>4. QED  BY <2>1, <2>2, <2>3, FreeKeepsMap
    <1>2. QED  BY <1>1 DEF Apart

(* A part of a hole is clear of the other holes and of all objects.        *)
LEMMA HoleClear ==
    ASSUME NEW d \in [Names -> Entries], NEW m \in SUBSET Spots, NEW e \in Nat, MapIn(m, e),
           Apart(d, m), NEW h \in m
    PROVE  /\ h.m_addr \in Nat /\ h.m_addr >= 1 /\ h.m_size \in Nat /\ h.m_size >= 1
           /\ h.m_addr + h.m_size <= e
           /\ \A lo, hi \in Nat : h.m_addr <= lo /\ hi <= h.m_addr + h.m_size =>
                 /\ ClearOf(lo, hi, m \ {h})
                 /\ \A n \in Names : ClearOfEntry(lo, hi, d[n])
    <1>1. \A g \in m : g.m_addr \in Nat /\ g.m_size \in Nat  BY DEF Spots
    <1>2. h.m_addr >= 1 /\ h.m_addr + h.m_size <= e /\ h.m_size > 0
        BY DEF MapIn, Coalesced, After
    <1>3. ASSUME NEW lo \in Nat, NEW hi \in Nat, h.m_addr <= lo, hi <= h.m_addr + h.m_size
          PROVE  /\ ClearOf(lo, hi, m \ {h})
                 /\ \A n \in Names : ClearOfEntry(lo, hi, d[n])
        <2>1. \A g \in m \ {h} : g.m_addr + g.m_size < h.m_addr \/ h.m_addr + h.m_size < g.m_addr
            BY DEF MapIn, Coalesced, After
        <2>2. \A g \in m \ {h} : g.m_addr + g.m_size <= lo \/ hi <= g.m_addr
            BY <1>1, <1>3, <2>1
        <2>3. ClearOf(lo, hi, m \ {h})  BY <2>2 DEF ClearOf, Clear
        <2>4. ASSUME NEW n \in Names, d[n].d_addr # Phony
              PROVE  Clear(lo, hi, d[n].d_addr, d[n].d_len)
            <3>1. Clear(d[n].d_addr, d[n].d_addr + d[n].d_len, h.m_addr, h.m_size)
                BY <2>4 DEF Apart, ClearOf
            <3>2. d[n].d_addr \in Int /\ d[n].d_len \in Nat  BY EntryTyped
            <3>3. QED  BY <3>1, <3>2, <1>1, <1>3 DEF Clear
        <2>5. QED  BY <2>3, <2>4 DEF ClearOfEntry
    <1>4. /\ h.m_addr \in Nat /\ h.m_addr >= 1 /\ h.m_size \in Nat /\ h.m_size >= 1
          /\ h.m_addr + h.m_size <= e
        BY <1>1, <1>2
    <1>5. QED  BY <1>3, <1>4, Zenon

LEMMA FewerHoles ==
    ASSUME NEW d, NEW m, NEW r \in SUBSET m, NEW e, MapIn(m, e)
    PROVE  /\ MapIn(r, e) /\ Coalesced(r) /\ r \in SUBSET Spots
           /\ Apart(d, m) => Apart(d, r)
           /\ \A lo, hi : ClearOf(lo, hi, m) => ClearOf(lo, hi, r)
    BY DEF MapIn, Coalesced, Apart, ClearOf

-----------------------------------------------------------------------------
(* What is written to the file.                                            *)

DiskTyped(d) == d \in [0 .. FileMax - 1 -> Units] /\ d[0] = Unit(Image("header", 1), 0)

LEMMA WrittenTyped ==
    ASSUME NEW d, DiskTyped(d), NEW a \in Nat, a >= 1, NEW img \in Images, NEW k \in Int, k <= img.len
    PROVE  DiskTyped(Written(d, a, img, k))
    <1>1. DOMAIN d = 0 .. FileMax - 1 /\ FileMax \in Nat \ {0}  BY DbAssumption DEF DiskTyped
    <1>2. img.len \in 0 .. FileMax  BY DEF Images
    <1>3. ASSUME NEW i \in 0 .. FileMax - 1, i \in a .. a + k - 1
          PROVE  Unit(img, i - a) \in Units
        <2>1. i - a \in 0 .. FileMax  BY <1>1, <1>2, <1>3
        <2>2. (i - a = img.len - 1) \in BOOLEAN  OBVIOUS
        <2>3. QED  BY <2>1, <2>2, Zenon DEF Unit, Units
    <1>4. ASSUME NEW i \in 0 .. FileMax - 1
          PROVE  (IF i \in a .. a + k - 1 THEN Unit(img, i - a) ELSE d[i]) \in Units
        BY <1>3 DEF DiskTyped
    <1>5. Written(d, a, img, k) \in [0 .. FileMax - 1 -> Units]
        BY <1>1, <1>4 DEF Written
    <1>6. 0 \in 0 .. FileMax - 1 /\ 0 \notin a .. a + k - 1  BY <1>1
    <1>7. Written(d, a, img, k)[0] = d[0]  BY <1>1, <1>6 DEF Written
    <1>8. QED  BY <1>5, <1>7 DEF DiskTyped

LEMMA FreeTyped ==
    ASSUME DiskTyped(disk), NEW a \in Nat, a >= 1, NEW n \in 1 .. FileMax
    PROVE  /\ DiskTyped(FreeWritten(disk, a, n))
           /\ \A d \in FreeTorn(a, n) : DiskTyped(d)
    <1>1. FileMax \in Nat \ {0} /\ WholeFree \in Nat \ {0} /\ n \in Nat  BY DbAssumption
    <1>2. Image("free", n) \in Images /\ Image("free", n).len = n
        BY <1>1 DEF Image, Images
    <1>3. ASSUME NEW k \in Int, k <= n PROVE DiskTyped(Written(disk, a, Image("free", n), k))
        BY <1>2, <1>3, WrittenTyped
    <1>4. n > WholeFree => 2 <= n  BY <1>1
    <1>5. ASSUME n > WholeFree PROVE DiskTyped(FreeWritten(disk, a, n))
        <2> DEFINE w == Written(disk, a, Image("free", n), 2)
                   v == [w EXCEPT ![a + n - 1].end = TRUE]
        <2>1. DiskTyped(w)  BY <1>3, <1>4, <1>5
        <2> HIDE DEF w
        <2>2. a + n - 1 # 0  BY <1>1
        <2>3. DOMAIN v = 0 .. FileMax - 1 /\ 0 \in 0 .. FileMax - 1  BY <2>1, <1>1 DEF DiskTyped
        <2>4. v[0] = w[0]  BY <2>1, <2>2, <2>3 DEF DiskTyped
        <2>5. ASSUME NEW i \in 0 .. FileMax - 1 PROVE v[i] \in Units
            <3>1. w[i] \in Units  BY <2>1 DEF DiskTyped
            <3>2. [w[i] EXCEPT !.end = TRUE] \in Units  BY <3>1 DEF Units
            <3>3. v[i] = IF i = a + n - 1 THEN [w[i] EXCEPT !.end = TRUE] ELSE w[i]
                BY <2>1 DEF DiskTyped
            <3>4. QED  BY <3>1, <3>2, <3>3
        <2>6. v = [i \in 0 .. FileMax - 1 |-> v[i]]  BY <2>1 DEF DiskTyped
        <2> HIDE DEF v
        <2>7. v \in [0 .. FileMax - 1 -> Units]  BY <2>5, <2>6
        <2>8. DiskTyped(v)  BY <2>1, <2>4, <2>7 DEF DiskTyped
        <2>9. FreeWritten(disk, a, n) = v
            BY <1>1, <1>5 DEF FreeWritten, v, w
        <2>10. QED  BY <2>8, <2>9
    <1>6. ASSUME n <= WholeFree PROVE DiskTyped(FreeWritten(disk, a, n))
        BY <1>1, <1>3, <1>6 DEF FreeWritten
    <1>7. ASSUME NEW d \in FreeTorn(a, n) PROVE DiskTyped(d)
        <2>1. PICK k \in IF n <= WholeFree THEN 0 .. n - 1 ELSE 0 .. 2 :
                  d = Written(disk, a, Image("free", n), k)
            BY <1>7 DEF FreeTorn
        <2>2. k \in Int /\ k <= n  BY <1>1, <1>4, <2>1
        <2>3. QED  BY <1>3, <2>1, <2>2
    <1>8. QED  BY <1>1, <1>5, <1>6, <1>7

LEMMA ObjectTyped ==
    ASSUME DiskTyped(disk), NEW a \in Nat, a >= 1, NEW name \in Names, NEW len \in 1 .. FileMax
    PROVE  /\ DiskTyped(Written(disk, a, Image(name, len), Image(name, len).len))
           /\ \A d \in ObjectTorn(a, Image(name, len)) : DiskTyped(d)
    <1>1. Image(name, len) \in Images /\ Image(name, len).len = len /\ len \in Int
        BY DbAssumption DEF Image, Images
    <1>2. ASSUME NEW k \in Int, k <= len PROVE DiskTyped(Written(disk, a, Image(name, len), k))
        BY <1>1, <1>2, WrittenTyped
    <1>3. ASSUME NEW d \in ObjectTorn(a, Image(name, len)) PROVE DiskTyped(d)
        <2>1. PICK k \in 0 .. len - 1 : d = Written(disk, a, Image(name, len), k)
            BY <1>1, <1>3 DEF ObjectTorn
        <2>2. k \in Int /\ k <= len  BY <1>1, <2>1
        <2>3. QED  BY <1>2, <2>1, <2>2
    <1>4. QED  BY <1>1, <1>2, <1>3

-----------------------------------------------------------------------------
(* The steps: what they have in common.                                    *)

LEMMA UserSteps ==
    ASSUME IInv, NEW u \in Users, NEW d \in [Names -> Entries], NEW m \in SUBSET Spots,
           NEW e \in 0 .. FileMax, NEW ro \in BOOLEAN, NEW p \in Places, NEW o \in Ops,
           dir' = [dir EXCEPT ![u] = d], freep' = [freep EXCEPT ![u] = m],
           dbi_eof' = [dbi_eof EXCEPT ![u] = e],
           dbi_read_only' = [dbi_read_only EXCEPT ![u] = ro],
           pc' = [pc EXCEPT ![u] = p], op' = [op EXCEPT ![u] = o],
           DiskTyped(disk'), hurt' \in 0 .. MaxHurt,
           Sane(d, m, e, ro, p, o)
    PROVE  IInv'
    <1>1. Types  BY DEF IInv
    <1>2. Types'  BY <1>1 DEF Types, DiskTyped
    <1>3. ASSUME NEW v \in Users PROVE SaneOf(v)'
        <2>1. CASE v = u
            <3>1. /\ dir'[v] = d /\ freep'[v] = m /\ dbi_eof'[v] = e
                  /\ dbi_read_only'[v] = ro /\ pc'[v] = p /\ op'[v] = o
                BY <1>1, <2>1 DEF Types
            <3>2. QED  BY <3>1 DEF SaneOf
        <2>2. CASE v # u
            <3>1. /\ dir'[v] = dir[v] /\ freep'[v] = freep[v] /\ dbi_eof'[v] = dbi_eof[v]
                  /\ dbi_read_only'[v] = dbi_read_only[v] /\ pc'[v] = pc[v] /\ op'[v] = op[v]
                BY <1>1, <2>2 DEF Types
            <3>2. SaneOf(v)  BY DEF IInv
            <3>3. QED  BY <3>1, <3>2 DEF SaneOf
        <2>3. QED  BY <2>1, <2>2
    <1>4. QED  BY <1>2, <1>3 DEF IInv

LEMMA Unchanged ==
    ASSUME Types, NEW u \in Users
    PROVE  /\ dir = [dir EXCEPT ![u] = dir[u]] /\ freep = [freep EXCEPT ![u] = freep[u]]
           /\ dbi_eof = [dbi_eof EXCEPT ![u] = dbi_eof[u]]
           /\ dbi_read_only = [dbi_read_only EXCEPT ![u] = dbi_read_only[u]]
           /\ op = [op EXCEPT ![u] = op[u]]
    BY DEF Types

LEMMA Local ==
    ASSUME IInv, NEW u \in Users
    PROVE  /\ Types /\ DiskTyped(disk) /\ hurt \in 0 .. MaxHurt
           /\ dir[u] \in [Names -> Entries] /\ freep[u] \in SUBSET Spots
           /\ dbi_eof[u] \in 0 .. FileMax /\ dbi_read_only[u] \in BOOLEAN
           /\ pc[u] \in Places /\ op[u] \in Ops
           /\ SaneOf(u)
    BY DEF IInv, Types, DiskTyped

LEMMA EntrySet ==
    ASSUME Types, NEW u \in Users, NEW a, NEW n, SetEntry(u, a, n)
    PROVE  dir' = [dir EXCEPT ![u] = [dir[u] EXCEPT ![op[u].name] = [d_addr |-> a, d_len |-> n]]]
    BY DEF SetEntry, Types

LEMMA Wrote ==
    ASSUME IInv, NEW u, NEW d, NEW torn, NEW next,
           DiskTyped(d), \A x \in torn : DiskTyped(x),
           WriteGoes(u, d, torn, next) \/ WriteFails(u, torn)
    PROVE  DiskTyped(disk') /\ hurt' \in 0 .. MaxHurt
    <1>1. hurt \in 0 .. MaxHurt /\ MaxHurt \in Nat  BY DbAssumption DEF IInv, Types
    <1>2. hurt' = hurt \/ (hurt < MaxHurt /\ hurt' = hurt + 1)
        BY DEF WriteGoes, WriteFails
    <1>3. QED  BY <1>1, <1>2 DEF WriteGoes, WriteFails

(* After a failed write nothing is asked of the tables but their bounds.   *)
LEMMA FailsSane ==
    ASSUME IInv, NEW u \in Users, NEW torn, NEW d \in [Names -> Entries], NEW m \in SUBSET Spots,
           dir' = [dir EXCEPT ![u] = d], freep' = [freep EXCEPT ![u] = m],
           WriteFails(u, torn), DiskTyped(disk'), hurt' \in 0 .. MaxHurt,
           dbi_eof[u] >= 1, MapIn(m, dbi_eof[u]),
           \A n \in Names : EntryIn(d[n], dbi_eof[u]) /\ (d[n].d_addr = Phony => d[n].d_len = 0)
    PROVE  IInv'
    <1> DEFINE e == dbi_eof[u]
    <1>1. Sane(d, m, e, TRUE, "idle", op[u])
        BY DEF Sane
    <1>2. Types /\ e \in 0 .. FileMax /\ op[u] \in Ops  BY Local
    <1>3. /\ dbi_eof' = [dbi_eof EXCEPT ![u] = e] /\ op' = [op EXCEPT ![u] = op[u]]
          /\ dbi_read_only' = [dbi_read_only EXCEPT ![u] = TRUE]
          /\ pc' = [pc EXCEPT ![u] = "idle"]
        BY <1>2, Unchanged DEF WriteFails, Go
    <1>4. "idle" \in Places /\ TRUE \in BOOLEAN  BY DEF Places
    <1> HIDE DEF e
    <1>5. QED  BY <1>1, <1>2, <1>3, <1>4, UserSteps

LEMMA GoesSane ==
    ASSUME IInv, NEW u \in Users, NEW w, NEW torn, NEW next \in Places,
           NEW d \in [Names -> Entries], NEW m \in SUBSET Spots,
           dir' = [dir EXCEPT ![u] = d], freep' = [freep EXCEPT ![u] = m],
           WriteGoes(u, w, torn, next), DiskTyped(disk'), hurt' \in 0 .. MaxHurt,
           Sane(d, m, dbi_eof[u], dbi_read_only[u], next, op[u])
    PROVE  IInv'
    <1> DEFINE e == dbi_eof[u]
               ro == dbi_read_only[u]
    <1>1. Types /\ e \in 0 .. FileMax /\ ro \in BOOLEAN /\ op[u] \in Ops  BY Local
    <1>2. /\ dbi_eof' = [dbi_eof EXCEPT ![u] = e] /\ op' = [op EXCEPT ![u] = op[u]]
          /\ dbi_read_only' = [dbi_read_only EXCEPT ![u] = ro]
          /\ pc' = [pc EXCEPT ![u] = next]
        BY <1>1, Unchanged DEF WriteGoes, Go
    <1> HIDE DEF e, ro
    <1>3. Sane(d, m, e, ro, next, op[u])  BY DEF e, ro
    <1>4. QED  BY <1>1, <1>2, <1>3, UserSteps

(* What is known of a process in the middle of an operation: d is its      *)
(* directory, x the entry of the object in question.                       *)
Held(u, d, o, x, m, e) ==
    d = dir[u] /\ o = op[u] /\ x = d[o.name] /\ m = freep[u] /\ e = dbi_eof[u]

LEMMA DirSet ==
    ASSUME IInv, NEW u \in Users, NEW d, NEW x, NEW m, NEW e, NEW o, Held(u, d, o, x, m, e),
           NEW a, NEW n, SetEntry(u, a, n)
    PROVE  dir' = [dir EXCEPT ![u] = [d EXCEPT ![o.name] = [d_addr |-> a, d_len |-> n]]]
    <1>1. Types  BY Local
    <1>2. QED  BY <1>1, EntrySet DEF Held

LEMMA DirKept ==
    ASSUME IInv, NEW u \in Users, NEW d, NEW x, NEW m, NEW e, NEW o, Held(u, d, o, x, m, e),
           dir' = dir
    PROVE  dir' = [dir EXCEPT ![u] = d]
    BY Local, Unchanged DEF Held

LEMMA MapKept ==
    ASSUME IInv, NEW u \in Users, NEW d, NEW x, NEW m, NEW e, NEW o, Held(u, d, o, x, m, e),
           freep' = freep
    PROVE  freep' = [freep EXCEPT ![u] = m]
    BY Local, Unchanged DEF Held

Known(u, d, o, x, m, e) ==
    /\ Types /\ DiskTyped(disk)
    /\ d \in [Names -> Entries] /\ m \in SUBSET Spots
    /\ e \in Nat /\ e >= 1 /\ e <= FileMax /\ FileMax \in Nat
    /\ o \in Ops /\ o.name \in Names /\ dbi_read_only[u] = FALSE
    /\ x \in Entries /\ x.d_addr \in Int /\ x.d_len \in Nat /\ x.d_len <= FileMax
    /\ x.d_addr # Phony => x.d_addr \in Nat /\ x.d_addr >= 1 /\ x.d_len >= 1
                           /\ x.d_addr + x.d_len <= e
    /\ MapIn(m, e) /\ Coalesced(m) /\ Apart(d, m)
    /\ \A n \in Names : EntryIn(d[n], e)
    /\ pc[u] # "place" => \A n \in Names : d[n].d_addr = Phony => d[n].d_len = 0
    /\ \A n \in Names : d[n].d_addr = Phony /\ d[n].d_len # 0 => o.name = n
    /\ Underway(d, m, e, pc[u], o)
    /\ o.size \in Sizes => o.size \in Nat /\ o.size >= 1

LEMMA Amid ==
    ASSUME IInv, NEW u \in Users, pc[u] \notin {"closed", "idle", "ident", "update"},
           NEW d, NEW x, NEW m, NEW e, NEW o, Held(u, d, o, x, m, e)
    PROVE  Known(u, d, o, x, m, e)
    <1> USE DEF Held
    <1>1. /\ Types /\ DiskTyped(disk) /\ d \in [Names -> Entries] /\ m \in SUBSET Spots
          /\ e \in 0 .. FileMax /\ o \in Ops /\ SaneOf(u)
        BY Local
    <1>2. Sane(d, m, e, dbi_read_only[u], pc[u], o)  BY <1>1 DEF SaneOf
    <1>3. dbi_read_only[u] = FALSE /\ o.name \in Names /\ Underway(d, m, e, pc[u], o) /\ e >= 1
        <2>1. pc[u] # "closed"  OBVIOUS
        <2>2. e >= 1  BY <1>2, <2>1, Zenon DEF Sane
        <2>3. dbi_read_only[u] = FALSE /\ o.name \in Names /\ Underway(d, m, e, pc[u], o)
            BY <1>2, Zenon DEF Sane
        <2>4. QED  BY <2>2, <2>3
    <1>4. FileMax \in Nat /\ (o.size \in Sizes => o.size \in Nat /\ o.size >= 1)
        <2>1. \A s \in Sizes : s \in Nat /\ s >= 1  BY DbAssumption
        <2>2. FileMax \in Nat  BY DbAssumption
        <2>3. QED  BY <2>1, <2>2
    <1>5. x \in Entries /\ x.d_addr \in Int /\ x.d_len \in Nat /\ x.d_len <= FileMax
          /\ (x.d_addr # Phony => x.d_addr \in Nat)
        BY <1>1, <1>3, EntryTyped
    <1>6. MapIn(m, e) /\ Coalesced(m) /\ Apart(d, m)  BY <1>2, <1>3 DEF Sane, MapIn
    <1>7. \A n \in Names : /\ EntryIn(d[n], e)
                           /\ d[n].d_addr = Phony /\ d[n].d_len # 0 => pc[u] = "place" /\ o.name = n
        BY <1>2 DEF Sane
    <1>8. x.d_addr # Phony => x.d_addr >= 1 /\ x.d_len >= 1 /\ x.d_addr + x.d_len <= e
        BY <1>3, <1>7 DEF EntryIn
    <1>9. e \in Nat /\ e <= FileMax  BY <1>1, <1>4
    <1>10. /\ \A n \in Names : EntryIn(d[n], e)
           /\ pc[u] # "place" => \A n \in Names : d[n].d_addr = Phony => d[n].d_len = 0
           /\ \A n \in Names : d[n].d_addr = Phony /\ d[n].d_len # 0 => o.name = n
        <2> HIDE DEF Held
        <2>1. QED  BY <1>7, Zenon
    <1> HIDE DEF Held
    <1>11. QED  BY <1>1, <1>3, <1>4, <1>5, <1>6, <1>8, <1>9, <1>10, Zenon DEF Known

-----------------------------------------------------------------------------
(* The steps, one by one.                                                  *)

LEMMA ShrinkFrontKeeps ==
    ASSUME IInv, NEW u \in Users, ShrinkFront(u) PROVE IInv'
    <1>1. PICK d, o, x, m, e : Held(u, d, o, x, m, e)  BY DEF Held
    <1> DEFINE y == [d_addr |-> x.d_addr, d_len |-> o.size]
               dd == [d EXCEPT ![o.name] = y]
    <1>2. pc[u] = "shrink" /\ SetEntry(u, x.d_addr, o.size) /\ freep' = freep
          /\ \/ WriteGoes(u, FreeWritten(disk, x.d_addr, o.size), FreeTorn(x.d_addr, o.size), "shrink back")
             \/ WriteFails(u, FreeTorn(x.d_addr, o.size))
        BY <1>1, Zenon DEF ShrinkFront, Dp, Held
    <1>3. dir' = [dir EXCEPT ![u] = dd] /\ freep' = [freep EXCEPT ![u] = m]
        <2>1. freep' = [freep EXCEPT ![u] = m]  BY <1>1, <1>2, MapKept
        <2>2. SetEntry(u, x.d_addr, o.size)  BY <1>2
        <2>3. dir' = [dir EXCEPT ![u] = [d EXCEPT ![o.name] = [d_addr |-> x.d_addr, d_len |-> o.size]]]
            BY <1>1, <2>2, DirSet
        <2>4. QED  BY <2>1, <2>3
    <1>4. Known(u, d, o, x, m, e)  BY <1>1, <1>2, Amid
    <1>5. /\ x.d_addr # Phony /\ o.size \in Sizes /\ o.size \in Nat /\ o.size >= 1
          /\ o.size < x.d_len /\ o.old = x.d_len
        BY <1>1, <1>2, <1>4 DEF Underway, Known, Held
    <1>6. x.d_addr \in Nat /\ x.d_addr >= 1 /\ x.d_addr + x.d_len <= e
        BY <1>4, <1>5 DEF Known
    <1>7. o.size \in 1 .. FileMax  BY <1>4, <1>5 DEF Known
    <1>8. DiskTyped(disk') /\ hurt' \in 0 .. MaxHurt
        BY <1>2, <1>4, <1>6, <1>7, FreeTyped, Wrote DEF Known
    <1>9. y \in Entries /\ y.d_addr = x.d_addr /\ y.d_len = o.size
        BY <1>4, <1>7 DEF Entries, Known
    <1> HIDE DEF y
    <1>10. dd \in [Names -> Entries] /\ dd[o.name] = y /\ \A n \in Names \ {o.name} : dd[n] = d[n]
        BY <1>4, <1>9 DEF Known
    <1>11. ASSUME NEW lo \in Nat, NEW hi \in Nat, x.d_addr <= lo, lo < hi, hi <= x.d_addr + x.d_len
           PROVE  ClearOf(lo, hi, m) /\ \A n \in Names \ {o.name} : ClearOfEntry(lo, hi, d[n])
        BY <1>1, <1>4, <1>5, <1>11, PartKept DEF Known, Held
    <1>12. x.d_addr + o.size \in Nat /\ x.d_addr + o.size < x.d_addr + x.d_len
           /\ x.d_addr < x.d_addr + o.size /\ x.d_addr + o.size <= e /\ x.d_addr + x.d_len \in Nat
           /\ x.d_addr + x.d_len <= x.d_addr + x.d_len /\ x.d_addr <= x.d_addr + o.size
           /\ x.d_addr + o.size <= x.d_addr + x.d_len /\ x.d_addr <= x.d_addr
        BY <1>4, <1>5, <1>6 DEF Known
    <1>13. Apart(dd, m)
        <2>1. ClearOf(y.d_addr, y.d_addr + y.d_len, m)
              /\ \A n \in Names \ {o.name} : ClearOfEntry(y.d_addr, y.d_addr + y.d_len, d[n])
            BY <1>6, <1>9, <1>11, <1>12
        <2>2. d \in [Names -> Entries] /\ m \in SUBSET Spots /\ Apart(d, m) /\ o.name \in Names
            BY <1>4 DEF Known
        <2>3. QED  BY <2>1, <2>2, <1>9, SetKeepsApart
    <1> HIDE DEF dd
    <1>14. \A n \in Names : EntryIn(dd[n], e) /\ (dd[n].d_addr = Phony => dd[n].d_len = 0)
        <2>1. EntryIn(y, e) /\ y.d_addr # Phony
            BY <1>5, <1>6, <1>9, <1>12 DEF EntryIn
        <2>2. \A n \in Names : EntryIn(d[n], e) /\ (d[n].d_addr = Phony => d[n].d_len = 0)
            BY <1>2, <1>4 DEF Known
        <2>3. QED  BY <2>1, <2>2, <1>10
    <1>15. Underway(dd, m, e, "shrink back", o)
        <2>1. \A n \in Names : ClearOfEntry(x.d_addr + o.size, x.d_addr + x.d_len, dd[n])
            <3>1. ClearOfEntry(x.d_addr + o.size, x.d_addr + x.d_len, y)
                BY <1>6, <1>9, <1>12 DEF ClearOfEntry, Clear
            <3>2. QED  BY <3>1, <1>6, <1>10, <1>11, <1>12
        <2>2. ClearOf(x.d_addr + o.size, x.d_addr + x.d_len, m)
            BY <1>6, <1>11, <1>12
        <2>3. QED
            BY <2>1, <2>2, <1>5, <1>6, <1>9, <1>10 DEF Underway
    <1>16. e = dbi_eof[u] /\ o = op[u] /\ e >= 1 /\ MapIn(m, e) /\ m \in SUBSET Spots
           /\ dbi_read_only[u] = FALSE /\ o.name \in Names
        BY <1>1, <1>4 DEF Held, Known
    <1>17. CASE WriteFails(u, FreeTorn(x.d_addr, o.size))
        BY <1>17, <1>3, <1>8, <1>10, <1>14, <1>16, FailsSane
    <1>18. CASE WriteGoes(u, FreeWritten(disk, x.d_addr, o.size), FreeTorn(x.d_addr, o.size), "shrink back")
        <2>1. Sane(dd, m, e, FALSE, "shrink back", o)
            BY <1>13, <1>14, <1>15, <1>16 DEF Sane
        <2>2. Sane(dd, m, dbi_eof[u], dbi_read_only[u], "shrink back", op[u]) /\ "shrink back" \in Places
            BY <2>1, <1>16, Zenon DEF Places
        <2>3. QED  BY <1>18, <1>3, <1>8, <1>10, <1>16, <2>2, GoesSane
    <1>19. QED  BY <1>2, <1>17, <1>18

LEMMA ShrinkBackKeeps ==
    ASSUME IInv, NEW u \in Users, ShrinkBack(u) PROVE IInv'
    <1>1. PICK d, o, x, m, e : Held(u, d, o, x, m, e)  BY DEF Held
    <1> DEFINE lo == x.d_addr + o.size
               rest == o.old - o.size
               mm == rt_memfree(m, rest, lo)
               y == [d_addr |-> lo, d_len |-> rest]
               dd == [d EXCEPT ![o.name] = y]
    <1>2. /\ pc[u] = "shrink back"
          /\ \/ /\ WriteGoes(u, FreeWritten(disk, lo, rest), FreeTorn(lo, rest), "write")
                /\ freep' = [freep EXCEPT ![u] = mm]
                /\ dir' = dir
             \/ /\ WriteFails(u, FreeTorn(lo, rest))
                /\ SetEntry(u, lo, rest)
                /\ freep' = freep
        BY <1>1, Zenon DEF ShrinkBack, Dp, Held
    <1> HIDE DEF lo, rest
    <1>3. Known(u, d, o, x, m, e)  BY <1>1, <1>2, Amid
    <1>4. /\ x.d_addr # Phony /\ o.size \in Sizes /\ o.size = x.d_len
          /\ o.size < o.old /\ x.d_addr + o.old <= e
          /\ ClearOf(lo, x.d_addr + o.old, m)
          /\ \A n \in Names : ClearOfEntry(lo, x.d_addr + o.old, d[n])
        BY <1>1, <1>2, <1>3 DEF Underway, Known, Held, lo
    <1>5. x.d_addr \in Nat /\ x.d_addr >= 1 /\ o.size \in Nat /\ o.size >= 1 /\ o.old \in Nat
          /\ e \in Nat /\ e <= FileMax /\ FileMax \in Nat
        BY <1>3, <1>4 DEF Known, Ops
    <1>6. /\ lo \in Nat /\ lo >= 1 /\ rest \in Nat /\ rest >= 1 /\ rest \in 1 .. FileMax
          /\ lo + rest = x.d_addr + o.old /\ lo + rest <= e
        BY <1>4, <1>5 DEF lo, rest
    <1>7. DiskTyped(disk') /\ hurt' \in 0 .. MaxHurt
        BY <1>2, <1>3, <1>6, FreeTyped, Wrote DEF Known
    <1>8. /\ e = dbi_eof[u] /\ o = op[u] /\ e >= 1 /\ MapIn(m, e) /\ m \in SUBSET Spots
          /\ dbi_read_only[u] = FALSE /\ o.name \in Names /\ d \in [Names -> Entries]
          /\ Coalesced(m) /\ Apart(d, m)
          /\ \A n \in Names : EntryIn(d[n], e) /\ (d[n].d_addr = Phony => d[n].d_len = 0)
        BY <1>1, <1>2, <1>3 DEF Held, Known
    <1>9. CASE /\ WriteGoes(u, FreeWritten(disk, lo, rest), FreeTorn(lo, rest), "write")
               /\ freep' = [freep EXCEPT ![u] = mm]
               /\ dir' = dir
        <2>1. mm \in SUBSET Spots /\ MapIn(mm, e)
            BY <1>5, <1>6, <1>8, FreeKeepsMap
        <2>2. Apart(d, mm)
            BY <1>4, <1>6, <1>8, FreeKeepsApart
        <2> HIDE DEF mm
        <2>3. Underway(d, mm, e, "write", o)
            BY <1>1, <1>4 DEF Underway, Held
        <2>4. Sane(d, mm, e, FALSE, "write", o)
            BY <2>1, <2>2, <2>3, <1>8 DEF Sane
        <2>5. Sane(d, mm, dbi_eof[u], dbi_read_only[u], "write", op[u]) /\ "write" \in Places
            BY <2>4, <1>8, Zenon DEF Places
        <2>6. dir' = [dir EXCEPT ![u] = d]  BY <1>1, <1>9, DirKept
        <2>7. QED  BY <1>9, <1>7, <1>8, <2>1, <2>5, <2>6, GoesSane
    <1>10. CASE /\ WriteFails(u, FreeTorn(lo, rest))
                /\ SetEntry(u, lo, rest)
                /\ freep' = freep
        <2>1. dir' = [dir EXCEPT ![u] = dd]  BY <1>1, <1>10, DirSet
        <2>2. freep' = [freep EXCEPT ![u] = m]  BY <1>1, <1>10, MapKept
        <2>3. y \in Entries /\ EntryIn(y, e) /\ y.d_addr # Phony
            BY <1>5, <1>6 DEF Entries, EntryIn, Phony
        <2> HIDE DEF y
        <2>4. dd \in [Names -> Entries] /\ dd[o.name] = y /\ \A n \in Names \ {o.name} : dd[n] = d[n]
            BY <1>8, <2>3
        <2> HIDE DEF dd
        <2>5. \A n \in Names : EntryIn(dd[n], e) /\ (dd[n].d_addr = Phony => dd[n].d_len = 0)
            BY <1>8, <2>3, <2>4
        <2>6. QED  BY <1>10, <1>7, <1>8, <2>1, <2>2, <2>4, <2>5, FailsSane
    <1>11. QED  BY <1>2, <1>9, <1>10

LEMMA ReleaseKeeps ==
    ASSUME IInv, NEW u \in Users, Release(u) PROVE IInv'
    <1>1. PICK d, o, x, m, e : Held(u, d, o, x, m, e)  BY DEF Held
    <1> DEFINE a == x.d_addr
               len == x.d_len
               mm == rt_memfree(m, len, a)
               y == [d_addr |-> Phony, d_len |-> len]
               dd == [d EXCEPT ![o.name] = y]
    <1>2. /\ pc[u] = "release"
          /\ freep' = [freep EXCEPT ![u] = mm]
          /\ \/ /\ WriteGoes(u, FreeWritten(disk, a, len), FreeTorn(a, len), "place")
                /\ SetEntry(u, Phony, len)
             \/ /\ WriteFails(u, FreeTorn(a, len))
                /\ dir' = dir
        BY <1>1, Zenon DEF Release, Dp, Held
    <1>3. Known(u, d, o, x, m, e)  BY <1>1, <1>2, Amid
    <1>4. a # Phony /\ o.size \in Sizes
        BY <1>1, <1>2, <1>3 DEF Underway, Known, Held
    <1>5. /\ a \in Nat /\ a >= 1 /\ len \in Nat /\ len >= 1 /\ a + len <= e
          /\ e \in Nat /\ e <= FileMax /\ FileMax \in Nat /\ len \in 1 .. FileMax /\ a + len \in Nat
        BY <1>3, <1>4 DEF Known
    <1>6. DiskTyped(disk') /\ hurt' \in 0 .. MaxHurt
        BY <1>2, <1>3, <1>5, FreeTyped, Wrote DEF Known
    <1>7. /\ e = dbi_eof[u] /\ o = op[u] /\ e >= 1 /\ MapIn(m, e) /\ m \in SUBSET Spots
          /\ dbi_read_only[u] = FALSE /\ o.name \in Names /\ d \in [Names -> Entries]
          /\ Coalesced(m) /\ Apart(d, m) /\ x = d[o.name]
          /\ \A n \in Names : EntryIn(d[n], e) /\ (d[n].d_addr = Phony => d[n].d_len = 0)
        BY <1>1, <1>2, <1>3 DEF Held, Known
    <1>8. mm \in SUBSET Spots /\ MapIn(mm, e)
        BY <1>5, <1>7, FreeKeepsMap
    <1>9. CASE WriteGoes(u, FreeWritten(disk, a, len), FreeTorn(a, len), "place") /\ SetEntry(u, Phony, len)
        <2>1. dir' = [dir EXCEPT ![u] = dd]  BY <1>1, <1>9, DirSet
        <2>2. y \in Entries /\ EntryIn(y, e) /\ y.d_addr = Phony
            BY <1>5 DEF Entries, EntryIn, Phony
        <2> HIDE DEF y
        <2>3. dd \in [Names -> Entries] /\ dd[o.name] = y /\ \A n \in Names \ {o.name} : dd[n] = d[n]
            BY <1>7, <2>2
        <2>4. Apart(dd, m)  BY <1>7, <2>2, SetKeepsApart
        <2> HIDE DEF dd
        <2>5. \A n \in Names : EntryIn(dd[n], e) /\ (dd[n].d_addr = Phony /\ dd[n].d_len # 0 => o.name = n)
            BY <1>7, <2>2, <2>3
        <2>6. \A n \in Names : ClearOfEntry(a, a + len, dd[n])
            <3>1. ClearOfEntry(a, a + len, y)  BY <2>2 DEF ClearOfEntry
            <3>2. \A n \in Names \ {o.name} : ClearOfEntry(a, a + len, d[n])
                BY <1>4, <1>7 DEF Apart
            <3>3. QED  BY <3>1, <3>2, <2>3
        <2>7. Apart(dd, mm)
            BY <1>5, <1>7, <2>3, <2>4, <2>5, <2>6, FreeKeepsApart
        <2> HIDE DEF mm
        <2>8. Underway(dd, mm, e, "place", o)
            BY <1>4, <2>2, <2>3 DEF Underway
        <2>9. Sane(dd, mm, e, FALSE, "place", o)
            BY <1>7, <1>8, <2>5, <2>7, <2>8 DEF Sane
        <2>10. Sane(dd, mm, dbi_eof[u], dbi_read_only[u], "place", op[u]) /\ "place" \in Places
            BY <2>9, <1>7, Zenon DEF Places
        <2>11. QED  BY <1>9, <1>2, <1>6, <1>7, <1>8, <2>1, <2>3, <2>10, GoesSane
    <1>10. CASE WriteFails(u, FreeTorn(a, len)) /\ dir' = dir
        <2>1. dir' = [dir EXCEPT ![u] = d]  BY <1>1, <1>10, DirKept
        <2> HIDE DEF mm
        <2>2. QED  BY <1>10, <1>2, <1>6, <1>7, <1>8, <2>1, FailsSane
    <1>11. QED  BY <1>2, <1>9, <1>10

(* An object is given a place: a of the length it is to have.              *)
LEMMA PlaceSane ==
    ASSUME NEW u, NEW d, NEW o, NEW x, NEW m, NEW e, Known(u, d, o, x, m, e), pc[u] = "place",
           NEW mm \in SUBSET Spots, NEW ee \in Nat, e <= ee, ee <= FileMax,
           MapIn(mm, ee), Apart(d, mm),
           NEW a \in Nat, a >= 1, a + o.size <= ee, ClearOf(a, a + o.size, mm),
           \A n \in Names : ClearOfEntry(a, a + o.size, d[n]),
           NEW p \in {"write", "erase"}
    PROVE  /\ [d EXCEPT ![o.name] = [d_addr |-> a, d_len |-> o.size]] \in [Names -> Entries]
           /\ Sane([d EXCEPT ![o.name] = [d_addr |-> a, d_len |-> o.size]], mm, ee, FALSE, p, o)
    <1> DEFINE y == [d_addr |-> a, d_len |-> o.size]
               dd == [d EXCEPT ![o.name] = y]
    <1>1. o.size \in Sizes /\ o.size \in Nat /\ o.size >= 1
        BY DEF Underway, Known
    <1>2. y \in Entries /\ y.d_addr = a /\ y.d_len = o.size /\ y.d_addr # Phony
        BY <1>1 DEF Entries, Phony, Known
    <1> HIDE DEF y
    <1>3. /\ o.name \in Names /\ d \in [Names -> Entries] /\ e \in Nat /\ e >= 1
          /\ \A n \in Names : EntryIn(d[n], e)
          /\ \A n \in Names : d[n].d_addr = Phony /\ d[n].d_len # 0 => o.name = n
        BY DEF Known
    <1>4. dd \in [Names -> Entries] /\ dd[o.name] = y /\ \A n \in Names \ {o.name} : dd[n] = d[n]
        BY <1>2, <1>3
    <1>5. Apart(dd, mm)
        BY <1>2, <1>3, SetKeepsApart
    <1> HIDE DEF dd
    <1>6. \A n \in Names : EntryIn(dd[n], ee) /\ (dd[n].d_addr = Phony => dd[n].d_len = 0)
        <2>1. EntryIn(y, ee)  BY <1>1, <1>2 DEF EntryIn
        <2>2. \A n \in Names : d[n].d_addr \in Int /\ d[n].d_len \in Nat  BY <1>3, EntryTyped
        <2>3. \A n \in Names : EntryIn(d[n], ee)  BY <1>3, <2>2 DEF EntryIn
        <2>4. QED  BY <2>1, <2>3, <1>2, <1>3, <1>4
    <1>7. Underway(dd, mm, ee, p, o)
        BY <1>1, <1>2, <1>4 DEF Underway
    <1>8. ee >= 1  BY <1>3
    <1>9. Sane(dd, mm, ee, FALSE, p, o)
        BY <1>3, <1>5, <1>6, <1>7, <1>8 DEF Sane
    <1>10. QED  BY <1>4, <1>9 DEF dd, y

LEMMA ExtendKeeps ==
    ASSUME IInv, NEW u \in Users, Extend(u) PROVE IInv'
    <1>1. PICK d, o, x, m, e : Held(u, d, o, x, m, e)  BY DEF Held
    <1> DEFINE s == o.size
               dd == [d EXCEPT ![o.name] = [d_addr |-> e, d_len |-> s]]
    <1>2. /\ pc[u] = "place" /\ e + s <= FileMax /\ SetEntry(u, e, s)
          /\ dbi_eof' = [dbi_eof EXCEPT ![u] = e + s]
          /\ pc' = [pc EXCEPT ![u] = "write"]
          /\ UNCHANGED <<disk, freep, dbi_read_only, op, hurt>>
        BY <1>1, Zenon DEF Extend, Go, Held
    <1>3. Known(u, d, o, x, m, e)  BY <1>1, <1>2, Amid
    <1>4. s \in Nat /\ s >= 1  BY <1>1, <1>2, <1>3 DEF Underway, Known
    <1>5. /\ e \in Nat /\ e >= 1 /\ FileMax \in Nat /\ MapIn(m, e) /\ m \in SUBSET Spots /\ Apart(d, m)
          /\ d \in [Names -> Entries] /\ \A n \in Names : EntryIn(d[n], e)
          /\ dbi_read_only[u] = FALSE /\ DiskTyped(disk) /\ o.name \in Names
        BY <1>3 DEF Known
    <1>6. e + s \in 0 .. FileMax /\ e + s \in Nat /\ e <= e + s /\ e + s <= e + s
        BY <1>2, <1>4, <1>5
    <1>7. \A h \in m : h.m_addr \in Nat /\ h.m_size \in Nat /\ h.m_addr >= 1 /\ h.m_addr + h.m_size <= e
        BY <1>5 DEF MapIn, Spots, After
    <1>8. MapIn(m, e + s)
        <2>1. \A h \in m : h.m_addr >= 1 /\ After(h) <= e + s  BY <1>4, <1>5, <1>7 DEF After
        <2>2. QED  BY <2>1, <1>5 DEF MapIn
    <1>9. ClearOf(e, e + s, m)  BY <1>7 DEF ClearOf, Clear
    <1>10. \A n \in Names : ClearOfEntry(e, e + s, d[n])
        BY <1>5 DEF EntryIn, ClearOfEntry, Clear
    <1>11. dd \in [Names -> Entries] /\ Sane(dd, m, e + s, FALSE, "write", o)
        BY <1>2, <1>3, <1>5, <1>6, <1>8, <1>9, <1>10, PlaceSane
    <1>12. dir' = [dir EXCEPT ![u] = dd]
        BY <1>1, <1>2, DirSet
    <1>13. freep' = [freep EXCEPT ![u] = m]  BY <1>1, <1>2, MapKept
    <1>14. /\ dbi_read_only' = [dbi_read_only EXCEPT ![u] = FALSE] /\ op' = [op EXCEPT ![u] = o]
           /\ o \in Ops
        BY <1>1, <1>2, <1>3, <1>5, Unchanged DEF Known, Held
    <1>15. DiskTyped(disk') /\ hurt' \in 0 .. MaxHurt
        BY <1>2, <1>5, Local
    <1>16. "write" \in Places /\ FALSE \in BOOLEAN  BY DEF Places
    <1> HIDE DEF dd, s
    <1>17. QED  BY <1>2, <1>5, <1>6, <1>11, <1>12, <1>13, <1>14, <1>15, <1>16, UserSteps

LEMMA TakeHoleKeeps ==
    ASSUME IInv, NEW u \in Users, TakeHole(u) PROVE IInv'
    <1>1. PICK d, o, x, m, e : Held(u, d, o, x, m, e)  BY DEF Held
    <1> DEFINE s == o.size
    <1>2. pc[u] = "place" /\ pc' = [pc EXCEPT ![u] = "write"]
          /\ UNCHANGED <<disk, dbi_eof, dbi_read_only, op, hurt>>
        BY DEF TakeHole, Go
    <1>3. PICK h \in BestFit(m, s) : /\ h.m_size = s
                                     /\ SetEntry(u, h.m_addr, h.m_size)
                                     /\ freep' = [freep EXCEPT ![u] = m \ {h}]
        BY <1>1, Zenon DEF TakeHole, Held
    <1> DEFINE dd == [d EXCEPT ![o.name] = [d_addr |-> h.m_addr, d_len |-> s]]
               mm == m \ {h}
    <1>4. Known(u, d, o, x, m, e)  BY <1>1, <1>2, Amid
    <1>5. /\ e \in Nat /\ e <= e /\ e <= FileMax /\ MapIn(m, e) /\ m \in SUBSET Spots /\ Apart(d, m)
          /\ d \in [Names -> Entries] /\ dbi_read_only[u] = FALSE /\ DiskTyped(disk)
          /\ e \in 0 .. FileMax
        BY <1>4 DEF Known
    <1>6. h \in m  BY DEF BestFit, Fits
    <1>7. /\ h.m_addr \in Nat /\ h.m_addr >= 1 /\ h.m_size \in Nat /\ h.m_addr + h.m_size <= e
          /\ ClearOf(h.m_addr, h.m_addr + h.m_size, mm)
          /\ \A n \in Names : ClearOfEntry(h.m_addr, h.m_addr + h.m_size, d[n])
        <2>1. /\ h.m_addr \in Nat /\ h.m_addr >= 1 /\ h.m_size \in Nat /\ h.m_addr + h.m_size <= e
              /\ \A i, j \in Nat : h.m_addr <= i /\ j <= h.m_addr + h.m_size =>
                    ClearOf(i, j, mm) /\ \A n \in Names : ClearOfEntry(i, j, d[n])
            BY <1>5, <1>6, HoleClear
        <2>2. h.m_addr + h.m_size \in Nat /\ h.m_addr <= h.m_addr
              /\ h.m_addr + h.m_size <= h.m_addr + h.m_size
            BY <2>1
        <2> HIDE DEF mm
        <2>3. QED  BY <2>1, <2>2
    <1>8. mm \in SUBSET Spots /\ MapIn(mm, e) /\ Apart(d, mm)
        BY <1>5, FewerHoles
    <1> HIDE DEF mm
    <1>9. dd \in [Names -> Entries] /\ Sane(dd, mm, e, FALSE, "write", o)
        BY <1>2, <1>3, <1>4, <1>5, <1>7, <1>8, PlaceSane
    <1>10. SetEntry(u, h.m_addr, s)  BY <1>3
    <1>11. dir' = [dir EXCEPT ![u] = dd]  BY <1>1, <1>10, DirSet
    <1>12. /\ dbi_read_only' = [dbi_read_only EXCEPT ![u] = FALSE] /\ op' = [op EXCEPT ![u] = o]
           /\ dbi_eof' = [dbi_eof EXCEPT ![u] = e] /\ o \in Ops
        BY <1>1, <1>2, <1>4, <1>5, Unchanged DEF Known, Held
    <1>13. DiskTyped(disk') /\ hurt' \in 0 .. MaxHurt
        BY <1>2, <1>5, Local
    <1>14. "write" \in Places /\ FALSE \in BOOLEAN /\ freep' = [freep EXCEPT ![u] = mm]
        BY <1>3 DEF Places, mm
    <1> HIDE DEF dd
    <1>15. QED  BY <1>2, <1>5, <1>8, <1>9, <1>11, <1>12, <1>13, <1>14, UserSteps

LEMMA SplitHoleKeeps ==
    ASSUME IInv, NEW u \in Users, SplitHole(u) PROVE IInv'
    <1>1. PICK d, o, x, m, e : Held(u, d, o, x, m, e)  BY DEF Held
    <1> DEFINE s == o.size
    <1>2. pc[u] = "place"  BY DEF SplitHole
    <1>3. PICK h \in BestFit(m, s) :
              LET surplus == Hole(h.m_addr + s, h.m_size - s)
              IN  /\ h.m_size > s
                  /\ \/ /\ WriteGoes(u, FreeWritten(disk, surplus.m_addr, surplus.m_size),
                                        FreeTorn(surplus.m_addr, surplus.m_size), "erase")
                        /\ freep' = [freep EXCEPT ![u] =
                                         rt_memfree(m \ {h}, surplus.m_size, surplus.m_addr)]
                        /\ SetEntry(u, h.m_addr, s)
                     \/ /\ WriteFails(u, FreeTorn(surplus.m_addr, surplus.m_size))
                        /\ freep' = [freep EXCEPT ![u] = m \ {h}]
                        /\ SetEntry(u, surplus.m_addr, surplus.m_size)
        BY <1>1, Zenon DEF SplitHole, Held
    <1> DEFINE lo == h.m_addr + s
               rest == h.m_size - s
               less == m \ {h}
               mm == rt_memfree(less, rest, lo)
    <1>4. Hole(lo, rest).m_addr = lo /\ Hole(lo, rest).m_size = rest  BY DEF Hole
    <1>5. /\ h.m_size > s
          /\ \/ /\ WriteGoes(u, FreeWritten(disk, lo, rest), FreeTorn(lo, rest), "erase")
                /\ freep' = [freep EXCEPT ![u] = mm]
                /\ SetEntry(u, h.m_addr, s)
             \/ /\ WriteFails(u, FreeTorn(lo, rest))
                /\ freep' = [freep EXCEPT ![u] = less]
                /\ SetEntry(u, lo, rest)
        BY <1>3, <1>4, Zenon
    <1> HIDE DEF lo, rest
    <1>6. Known(u, d, o, x, m, e)  BY <1>1, <1>2, Amid
    <1>7. /\ e \in Nat /\ e >= 1 /\ e <= e /\ e <= FileMax /\ MapIn(m, e) /\ m \in SUBSET Spots
          /\ Apart(d, m) /\ d \in [Names -> Entries] /\ dbi_read_only[u] = FALSE /\ DiskTyped(disk)
          /\ FileMax \in Nat /\ o.name \in Names /\ \A n \in Names : EntryIn(d[n], e)
          /\ e = dbi_eof[u] /\ o = op[u]
          /\ \A n \in Names : d[n].d_addr = Phony /\ d[n].d_len # 0 => o.name = n
        BY <1>1, <1>6 DEF Known, Held
    <1>8. h \in m  BY DEF BestFit, Fits
    <1>9. s \in Nat /\ s >= 1  BY <1>2, <1>6 DEF Underway, Known
    <1>10. /\ h.m_addr \in Nat /\ h.m_addr >= 1 /\ h.m_size \in Nat /\ h.m_addr + h.m_size <= e
           /\ \A i, j \in Nat : h.m_addr <= i /\ j <= h.m_addr + h.m_size =>
                 ClearOf(i, j, less) /\ \A n \in Names : ClearOfEntry(i, j, d[n])
        BY <1>7, <1>8, HoleClear
    <1>11. /\ lo \in Nat /\ lo >= 1 /\ rest \in Nat /\ rest \in 1 .. FileMax /\ lo + rest \in Nat
           /\ lo + rest = h.m_addr + h.m_size /\ lo = h.m_addr + s /\ h.m_addr < lo /\ h.m_addr <= lo
           /\ lo <= lo + rest /\ lo + rest <= lo + rest /\ lo + rest <= e /\ h.m_addr <= h.m_addr
           /\ lo <= h.m_addr + h.m_size /\ lo <= e
        BY <1>5, <1>7, <1>9, <1>10 DEF lo, rest
    <1>12. less \in SUBSET Spots /\ MapIn(less, e) /\ Coalesced(less) /\ Apart(d, less)
        BY <1>7, FewerHoles
    <1>13. /\ ClearOf(h.m_addr, lo, less) /\ \A n \in Names : ClearOfEntry(h.m_addr, lo, d[n])
           /\ \A n \in Names : ClearOfEntry(lo, lo + rest, d[n])
        BY <1>10, <1>11
    <1>14. DiskTyped(disk') /\ hurt' \in 0 .. MaxHurt
        <2>1. DiskTyped(FreeWritten(disk, lo, rest)) /\ \A w \in FreeTorn(lo, rest) : DiskTyped(w)
            BY <1>7, <1>11, FreeTyped
        <2>2. \/ WriteGoes(u, FreeWritten(disk, lo, rest), FreeTorn(lo, rest), "erase")
              \/ WriteFails(u, FreeTorn(lo, rest))
            BY <1>5
        <2>3. QED  BY <2>1, <2>2, Wrote
    <1> HIDE DEF less
    <1>15. CASE /\ WriteGoes(u, FreeWritten(disk, lo, rest), FreeTorn(lo, rest), "erase")
                /\ freep' = [freep EXCEPT ![u] = mm]
                /\ SetEntry(u, h.m_addr, s)
        <2> DEFINE dd == [d EXCEPT ![o.name] = [d_addr |-> h.m_addr, d_len |-> s]]
        <2>1. mm \in SUBSET Spots /\ MapIn(mm, e)
            BY <1>7, <1>11, <1>12, FreeKeepsMap
        <2>2. Apart(d, mm)
            BY <1>7, <1>11, <1>12, <1>13, FreeKeepsApart
        <2>3. ClearOf(h.m_addr, lo, mm)
            <3>1. Clear(h.m_addr, lo, lo, rest)  BY <1>11 DEF Clear
            <3>2. QED  BY <3>1, <1>10, <1>11, <1>12, <1>13, FreeKeepsMap
        <2> HIDE DEF mm
        <2>4. dd \in [Names -> Entries] /\ Sane(dd, mm, e, FALSE, "erase", o)
            BY <1>2, <1>6, <1>7, <1>10, <1>11, <1>13, <2>1, <2>2, <2>3, PlaceSane
        <2>5. dir' = [dir EXCEPT ![u] = dd]  BY <1>1, <1>15, DirSet
        <2> HIDE DEF dd
        <2>6. Sane(dd, mm, dbi_eof[u], dbi_read_only[u], "erase", op[u]) /\ "erase" \in Places
            BY <2>4, <1>7, Zenon DEF Places
        <2>7. QED  BY <1>14, <1>15, <2>1, <2>4, <2>5, <2>6, GoesSane
    <1>16. CASE /\ WriteFails(u, FreeTorn(lo, rest))
                /\ freep' = [freep EXCEPT ![u] = less]
                /\ SetEntry(u, lo, rest)
        <2> DEFINE y == [d_addr |-> lo, d_len |-> rest]
                   dd == [d EXCEPT ![o.name] = y]
        <2>1. dir' = [dir EXCEPT ![u] = dd]  BY <1>1, <1>16, DirSet
        <2>2. y \in Entries /\ EntryIn(y, e) /\ y.d_addr # Phony
            BY <1>7, <1>11 DEF Entries, EntryIn, Phony
        <2> HIDE DEF y
        <2>3. dd \in [Names -> Entries] /\ dd[o.name] = y /\ \A n \in Names \ {o.name} : dd[n] = d[n]
            BY <1>7, <2>2
        <2> HIDE DEF dd
        <2>4. \A n \in Names : EntryIn(dd[n], e) /\ (dd[n].d_addr = Phony => dd[n].d_len = 0)
            BY <1>7, <2>2, <2>3
        <2>5. QED  BY <1>7, <1>12, <1>14, <1>16, <2>1, <2>3, <2>4, FailsSane
    <1>17. QED  BY <1>5, <1>15, <1>16

LEMMA EraseFrontKeeps ==
    ASSUME IInv, NEW u \in Users, EraseFront(u) PROVE IInv'
    <1>1. PICK d, o, x, m, e : Held(u, d, o, x, m, e)  BY DEF Held
    <1> DEFINE w == FreeWritten(disk, x.d_addr, x.d_len)
               torn == FreeTorn(x.d_addr, x.d_len)
    <1>2. /\ pc[u] = "erase" /\ dir' = dir /\ freep' = freep
          /\ WriteGoes(u, w, torn, "write") \/ WriteFails(u, torn)
        BY <1>1, Zenon DEF EraseFront, Dp, Held
    <1>3. Known(u, d, o, x, m, e)  BY <1>1, <1>2, Amid
    <1>4. x.d_addr # Phony  BY <1>1, <1>2, <1>3 DEF Underway, Known, Held
    <1>5. x.d_addr \in Nat /\ x.d_addr >= 1 /\ x.d_len \in 1 .. FileMax
        BY <1>3, <1>4 DEF Known
    <1>6. DiskTyped(w) /\ \A z \in torn : DiskTyped(z)
        BY <1>3, <1>5, FreeTyped DEF Known
    <1> HIDE DEF w, torn
    <1>7. DiskTyped(disk') /\ hurt' \in 0 .. MaxHurt
        BY <1>2, <1>6, Wrote
    <1>8. /\ e = dbi_eof[u] /\ o = op[u] /\ e >= 1 /\ MapIn(m, e) /\ m \in SUBSET Spots
          /\ dbi_read_only[u] = FALSE /\ o.name \in Names /\ d \in [Names -> Entries] /\ Apart(d, m)
          /\ \A n \in Names : EntryIn(d[n], e) /\ (d[n].d_addr = Phony => d[n].d_len = 0)
        BY <1>1, <1>2, <1>3 DEF Held, Known
    <1>9. dir' = [dir EXCEPT ![u] = d] /\ freep' = [freep EXCEPT ![u] = m]
        BY <1>1, <1>2, DirKept, MapKept
    <1>10. CASE WriteFails(u, torn)
        BY <1>7, <1>8, <1>9, <1>10, FailsSane
    <1>11. CASE WriteGoes(u, w, torn, "write")
        <2>1. Underway(d, m, e, "write", o)  BY <1>2, <1>3 DEF Known, Underway
        <2>2. Sane(d, m, e, FALSE, "write", o)  BY <2>1, <1>8 DEF Sane
        <2>3. Sane(d, m, dbi_eof[u], dbi_read_only[u], "write", op[u]) /\ "write" \in Places
            BY <2>2, <1>8, Zenon DEF Places
        <2>4. QED  BY <1>7, <1>8, <1>9, <1>11, <2>3, GoesSane
    <1>12. QED  BY <1>2, <1>10, <1>11

LEMMA WriteObjectKeeps ==
    ASSUME IInv, NEW u \in Users, WriteObject(u) PROVE IInv'
    <1>1. PICK d, o, x, m, e : Held(u, d, o, x, m, e)  BY DEF Held
    <1> DEFINE img == Image(o.name, o.size)
               w == Written(disk, x.d_addr, img, img.len)
               torn == ObjectTorn(x.d_addr, img)
               p == IF o.then = 0 THEN "idle" ELSE "update"
    <1>2. /\ pc[u] = "write" /\ dir' = dir /\ freep' = freep
          /\ WriteGoes(u, w, torn, p) \/ WriteFails(u, torn)
        BY <1>1, Zenon DEF WriteObject, Dp, Held
    <1>3. Known(u, d, o, x, m, e)  BY <1>1, <1>2, Amid
    <1>4. x.d_addr # Phony /\ o.size = x.d_len
        BY <1>1, <1>2, <1>3 DEF Underway, Known, Held
    <1>5. x.d_addr \in Nat /\ x.d_addr >= 1 /\ o.size \in 1 .. FileMax
        BY <1>3, <1>4 DEF Known
    <1>6. DiskTyped(w) /\ \A z \in torn : DiskTyped(z)
        BY <1>3, <1>5, ObjectTyped DEF Known
    <1> HIDE DEF w, torn
    <1>7. DiskTyped(disk') /\ hurt' \in 0 .. MaxHurt
        BY <1>2, <1>6, Wrote
    <1>8. /\ e = dbi_eof[u] /\ o = op[u] /\ e >= 1 /\ MapIn(m, e) /\ m \in SUBSET Spots
          /\ dbi_read_only[u] = FALSE /\ d \in [Names -> Entries] /\ Apart(d, m)
          /\ \A n \in Names : EntryIn(d[n], e) /\ (d[n].d_addr = Phony => d[n].d_len = 0)
        BY <1>1, <1>2, <1>3 DEF Held, Known
    <1>9. dir' = [dir EXCEPT ![u] = d] /\ freep' = [freep EXCEPT ![u] = m]
        BY <1>1, <1>2, DirKept, MapKept
    <1>10. CASE WriteFails(u, torn)
        BY <1>7, <1>8, <1>9, <1>10, FailsSane
    <1>11. CASE WriteGoes(u, w, torn, p)
        <2>1. p \in {"idle", "update"} /\ (p = "update" => o.then \in Sizes)
            BY <1>3 DEF Known, Ops
        <2> HIDE DEF p
        <2>2. Sane(d, m, dbi_eof[u], dbi_read_only[u], p, op[u]) /\ p \in Places
            <3>1. Sane(d, m, e, FALSE, p, o)  BY <2>1, <1>8 DEF Sane
            <3>2. p \in Places  BY <2>1 DEF Places
            <3>3. QED  BY <3>1, <3>2, <1>8, Zenon
        <2>3. QED  BY <1>7, <1>8, <1>9, <1>11, <2>2, GoesSane
    <1>12. QED  BY <1>2, <1>10, <1>11

LEMMA DeleteKeeps ==
    ASSUME IInv, NEW u \in Users, db_delete(u) PROVE IInv'
    <1>1. PICK d, o, x, m, e : Held(u, d, o, x, m, e)  BY DEF Held
    <1> DEFINE a == x.d_addr
               len == x.d_len
               mm == rt_memfree(m, len, a)
               y == [d_addr |-> Phony, d_len |-> 0]
               dd == [d EXCEPT ![o.name] = y]
    <1>2. /\ pc[u] = "delete"
          /\ freep' = [freep EXCEPT ![u] = mm]
          /\ SetEntry(u, Phony, 0)
          /\ \/ WriteGoes(u, FreeWritten(disk, a, len), FreeTorn(a, len), "idle")
             \/ WriteFails(u, FreeTorn(a, len))
        BY <1>1, Zenon DEF db_delete, Dp, Held
    <1>3. Known(u, d, o, x, m, e)  BY <1>1, <1>2, Amid
    <1>4. a # Phony  BY <1>1, <1>2, <1>3 DEF Underway, Known, Held
    <1>5. /\ a \in Nat /\ a >= 1 /\ len \in Nat /\ len >= 1 /\ a + len <= e
          /\ e \in Nat /\ e <= FileMax /\ FileMax \in Nat /\ len \in 1 .. FileMax /\ a + len \in Nat
        BY <1>3, <1>4 DEF Known
    <1>6. DiskTyped(disk') /\ hurt' \in 0 .. MaxHurt
        <2>1. DiskTyped(FreeWritten(disk, a, len)) /\ \A w \in FreeTorn(a, len) : DiskTyped(w)
            BY <1>3, <1>5, FreeTyped DEF Known
        <2>2. QED  BY <1>2, <2>1, Wrote
    <1>7. /\ e = dbi_eof[u] /\ o = op[u] /\ e >= 1 /\ MapIn(m, e) /\ m \in SUBSET Spots
          /\ dbi_read_only[u] = FALSE /\ o.name \in Names /\ d \in [Names -> Entries]
          /\ Coalesced(m) /\ Apart(d, m) /\ x = d[o.name]
          /\ \A n \in Names : EntryIn(d[n], e) /\ (d[n].d_addr = Phony => d[n].d_len = 0)
        BY <1>1, <1>2, <1>3 DEF Held, Known
    <1>8. mm \in SUBSET Spots /\ MapIn(mm, e)
        BY <1>5, <1>7, FreeKeepsMap
    <1>9. dir' = [dir EXCEPT ![u] = dd]  BY <1>1, <1>2, DirSet
    <1>10. y \in Entries /\ EntryIn(y, e) /\ y.d_addr = Phony /\ y.d_len = 0
        BY <1>5 DEF Entries, EntryIn, Phony
    <1> HIDE DEF y
    <1>11. dd \in [Names -> Entries] /\ dd[o.name] = y /\ \A n \in Names \ {o.name} : dd[n] = d[n]
        BY <1>7, <1>10
    <1>12. Apart(dd, m)  BY <1>7, <1>10, SetKeepsApart
    <1> HIDE DEF dd
    <1>13. \A n \in Names : EntryIn(dd[n], e) /\ (dd[n].d_addr = Phony => dd[n].d_len = 0)
        BY <1>7, <1>10, <1>11
    <1>14. \A n \in Names : ClearOfEntry(a, a + len, dd[n])
        <2>1. ClearOfEntry(a, a + len, y)  BY <1>10 DEF ClearOfEntry
        <2>2. \A n \in Names \ {o.name} : ClearOfEntry(a, a + len, d[n])
            BY <1>4, <1>7 DEF Apart
        <2>3. QED  BY <2>1, <2>2, <1>11
    <1>15. Apart(dd, mm)
        BY <1>5, <1>7, <1>11, <1>12, <1>13, <1>14, FreeKeepsApart
    <1> HIDE DEF mm
    <1>16. Sane(dd, mm, e, FALSE, "idle", o)
        BY <1>7, <1>8, <1>13, <1>15 DEF Sane
    <1>17. Sane(dd, mm, dbi_eof[u], dbi_read_only[u], "idle", op[u]) /\ "idle" \in Places
        BY <1>16, <1>7, Zenon DEF Places
    <1>18. CASE WriteGoes(u, FreeWritten(disk, a, len), FreeTorn(a, len), "idle")
        BY <1>18, <1>2, <1>6, <1>8, <1>9, <1>11, <1>17, GoesSane
    <1>19. CASE WriteFails(u, FreeTorn(a, len))
        BY <1>19, <1>2, <1>6, <1>7, <1>8, <1>9, <1>11, <1>13, FailsSane
    <1>20. QED  BY <1>2, <1>18, <1>19

(* An operation begins: only op and pc change.                             *)
Begins(u, o, p) ==
    /\ op' = [op EXCEPT ![u] = o] /\ pc' = [pc EXCEPT ![u] = p]
    /\ UNCHANGED <<disk, dir, freep, dbi_eof, dbi_read_only, hurt>>

LEMMA BeginKeeps ==
    ASSUME IInv, NEW u \in Users, pc[u] \in Resting, ~ dbi_read_only[u],
           NEW o \in Ops, o.name \in Names, NEW p \in Places, p \notin {"closed", "idle", "ident", "update"},
           Begins(u, o, p), Underway(dir[u], freep[u], dbi_eof[u], p, o)
    PROVE  IInv'
    <1>1. /\ Types /\ DiskTyped(disk) /\ hurt \in 0 .. MaxHurt
          /\ dir[u] \in [Names -> Entries] /\ freep[u] \in SUBSET Spots
          /\ dbi_eof[u] \in 0 .. FileMax /\ dbi_read_only[u] \in BOOLEAN /\ SaneOf(u)
        BY Local
    <1>2. dbi_read_only[u] = FALSE  BY <1>1
    <1>3. Sane(dir[u], freep[u], dbi_eof[u], dbi_read_only[u], p, o)
        <2>1. /\ MapIn(freep[u], dbi_eof[u]) /\ Apart(dir[u], freep[u]) /\ dbi_eof[u] >= 1
              /\ \A n \in Names : /\ EntryIn(dir[u][n], dbi_eof[u])
                                  /\ dir[u][n].d_addr = Phony => dir[u][n].d_len = 0
            BY <1>1, <1>2 DEF SaneOf, Sane, Resting
        <2>2. QED  BY <2>1, <1>2 DEF Sane
    <1>4. DiskTyped(disk') /\ hurt' \in 0 .. MaxHurt  BY <1>1 DEF Begins
    <1>5. /\ dir' = [dir EXCEPT ![u] = dir[u]] /\ freep' = [freep EXCEPT ![u] = freep[u]]
          /\ dbi_eof' = [dbi_eof EXCEPT ![u] = dbi_eof[u]]
          /\ dbi_read_only' = [dbi_read_only EXCEPT ![u] = dbi_read_only[u]]
        BY <1>1, Unchanged DEF Begins
    <1>6. PICK d, m, e, ro : d = dir[u] /\ m = freep[u] /\ e = dbi_eof[u] /\ ro = dbi_read_only[u]
        OBVIOUS
    <1>7. /\ d \in [Names -> Entries] /\ m \in SUBSET Spots /\ e \in 0 .. FileMax /\ ro \in BOOLEAN
          /\ dir' = [dir EXCEPT ![u] = d] /\ freep' = [freep EXCEPT ![u] = m]
          /\ dbi_eof' = [dbi_eof EXCEPT ![u] = e] /\ dbi_read_only' = [dbi_read_only EXCEPT ![u] = ro]
        <2>1. d \in [Names -> Entries] /\ m \in SUBSET Spots /\ e \in 0 .. FileMax /\ ro \in BOOLEAN
            BY <1>1, <1>6
        <2>2. dir' = [dir EXCEPT ![u] = d]  BY <1>5, <1>6
        <2>3. freep' = [freep EXCEPT ![u] = m]  BY <1>5, <1>6
        <2>4. dbi_eof' = [dbi_eof EXCEPT ![u] = e]  BY <1>5, <1>6
        <2>5. dbi_read_only' = [dbi_read_only EXCEPT ![u] = ro]  BY <1>5, <1>6
        <2>6. QED  BY <2>1, <2>2, <2>3, <2>4, <2>5
    <1>8. Sane(d, m, e, ro, p, o)  BY <1>3, <1>6, Zenon
    <1>9. p \in Places /\ op' = [op EXCEPT ![u] = o] /\ pc' = [pc EXCEPT ![u] = p]  BY DEF Begins
    <1>10. QED  BY <1>4, <1>7, <1>8, <1>9, UserSteps

LEMMA PutKeeps ==
    ASSUME IInv, NEW u \in Users, pc[u] \in Resting, ~ dbi_read_only[u],
           NEW n \in Names, NEW s \in Sizes, NEW t \in Sizes \cup {0}, Put(u, n, s, t)
    PROVE  IInv'
    <1> DEFINE dp == dir[u][n]
               o == [name |-> n, size |-> s, old |-> dp.d_len, then |-> t]
               p == CASE dp.d_len = s /\ dp.d_addr # Phony -> "write"
                      [] s < dp.d_len -> "shrink"
                      [] s > dp.d_len /\ dp.d_addr # Phony -> "release"
                      [] OTHER -> "place"
    <1>1. /\ op' = [op EXCEPT ![u] = o]
          /\ pc' = [pc EXCEPT ![u] = p]
          /\ UNCHANGED <<disk, dir, freep, dbi_eof, dbi_read_only, hurt>>
        BY Zenon DEF Put, Go
    <1>2. /\ dir[u] \in [Names -> Entries] /\ SaneOf(u)  BY Local
    <1>3. /\ dp.d_addr = Phony => dp.d_len = 0
          /\ dp.d_len \in Nat /\ dp.d_len <= FileMax /\ s \in Nat /\ s >= 1 /\ FileMax \in Nat
        <2>1. dp.d_addr = Phony => dp.d_len = 0  BY <1>2 DEF SaneOf, Sane, Resting
        <2>2. dp.d_len \in Nat /\ dp.d_len <= FileMax  BY <1>2, EntryTyped
        <2>3. s \in Nat /\ s >= 1 /\ FileMax \in Nat  BY DbAssumption
        <2>4. QED  BY <2>1, <2>2, <2>3
    <1> HIDE DEF dp
    <1>4. \/ p = "write" /\ dp.d_len = s /\ dp.d_addr # Phony
          \/ p = "shrink" /\ s < dp.d_len /\ dp.d_addr # Phony
          \/ p = "release" /\ dp.d_addr # Phony
          \/ p = "place" /\ dp.d_addr = Phony
        BY <1>3
    <1>5. o \in Ops /\ o.name = n /\ o.size = s /\ o.old = dp.d_len
        BY <1>3 DEF Ops
    <1> HIDE DEF p, o
    <1>6. p \in Places \ {"closed", "idle", "ident", "update"}  BY <1>4 DEF Places
    <1>7. dir[u][o.name] = dp  BY <1>5 DEF dp
    <1>8. Underway(dir[u], freep[u], dbi_eof[u], p, o)
        BY <1>4, <1>5, <1>7 DEF Underway
    <1>9. Begins(u, o, p) /\ p \in Places /\ p \notin {"closed", "idle", "ident", "update"}  BY <1>1, <1>6 DEF Begins
    <1>10. QED  BY <1>5, <1>8, <1>9, BeginKeeps

LEMMA UserPutKeeps ==
    ASSUME IInv, NEW u \in Users, NEW n \in Names, NEW s \in Sizes, db_put_external5(u, n, s)
    PROVE  IInv'
    <1>1. pc[u] \in Resting /\ ~ dbi_read_only[u] /\ Put(u, n, s, 0) /\ 0 \in Sizes \cup {0}
        BY DEF db_put_external5, Resting
    <1>2. QED  BY <1>1, PutKeeps

(* The puts of db5_update_ident are of lengths that objects may have, and  *)
(* no write has failed before them.                                        *)
LEMMA IdentPuts ==
    ASSUME IInv, NEW u \in Users, db5_update_ident(u)
    PROVE  /\ pc[u] \in Resting /\ ~ dbi_read_only[u] /\ Global \in Names
           /\ \E s \in Sizes : \E t \in Sizes \cup {0} : Put(u, Global, s, t)
    <1>1. SaneOf(u)  BY Local
    <1>2. /\ pc[u] \in {"ident", "update"} /\ Global \in Names
          /\ \/ Put(u, Global, EmptyGlobal, FullGlobal)
             \/ pc[u] = "update" /\ Put(u, Global, op[u].then, 0)
        BY DEF db5_update_ident
    <1>3. dbi_read_only[u] = FALSE /\ (pc[u] = "update" => op[u].then \in Sizes)
        BY <1>1, <1>2 DEF SaneOf, Sane
    <1>4. EmptyGlobal \in Sizes /\ FullGlobal \in Sizes \cup {0} /\ 0 \in Sizes \cup {0}
        BY DbAssumption
    <1>5. QED  BY <1>2, <1>3, <1>4 DEF Resting

LEMMA IdentKeeps ==
    ASSUME IInv, NEW u \in Users, db5_update_ident(u) PROVE IInv'
    BY IdentPuts, PutKeeps

LEMMA KillKeeps ==
    ASSUME IInv, NEW u \in Users, NEW n \in Names, kill(u, n)
    PROVE  IInv'
    <1> DEFINE dp == dir[u][n]
               o == [NoOp EXCEPT !.name = n, !.old = dp.d_len]
    <1>1. /\ pc[u] = "idle" /\ ~ dbi_read_only[u] /\ op' = [op EXCEPT ![u] = o]
          /\ pc' = [pc EXCEPT ![u] = "delete"] /\ dp.d_addr # Phony
          /\ UNCHANGED <<disk, dir, freep, dbi_eof, dbi_read_only, hurt>>
        BY Zenon DEF kill, Go
    <1>2. dir[u] \in [Names -> Entries]  BY Local
    <1>3. dp.d_len \in Nat /\ dp.d_len <= FileMax /\ FileMax \in Nat
        BY <1>2, EntryTyped, DbAssumption
    <1> HIDE DEF dp
    <1>4. o \in Ops /\ o.name = n
        <2>1. NoOp \in Ops  BY DbAssumption DEF NoOp, Ops
        <2>2. dp.d_len \in 0 .. FileMax  BY <1>3
        <2>3. QED  BY <2>1, <2>2 DEF Ops
    <1> HIDE DEF o
    <1>5. dir[u][o.name].d_addr # Phony  BY <1>1, <1>4 DEF dp
    <1>6. Underway(dir[u], freep[u], dbi_eof[u], "delete", o)
        BY <1>5 DEF Underway
    <1>7. Begins(u, o, "delete") /\ "delete" \in Places /\ "delete" \notin {"closed", "idle", "ident", "update"}
        BY <1>1 DEF Begins, Places
    <1>8. pc[u] \in Resting  BY <1>1 DEF Resting
    <1>9. QED  BY <1>1, <1>4, <1>6, <1>7, <1>8, BeginKeeps

(* A process that has not opened the file knows nothing.                   *)
LEMMA ClosedSane ==
    ASSUME NEW d, d = [n \in Names |-> NoEntry], NEW o
    PROVE  d \in [Names -> Entries] /\ Sane(d, {}, 0, FALSE, "closed", o)
    <1>1. NoEntry \in Entries /\ NoEntry.d_addr = Phony /\ NoEntry.d_len = 0
        BY DbAssumption DEF NoEntry, Entries, Phony
    <1>2. d \in [Names -> Entries] /\ \A n \in Names : d[n] = NoEntry  BY <1>1
    <1>3. MapIn({}, 0)  BY DEF MapIn, Coalesced
    <1>4. Apart(d, {})  BY <1>1, <1>2 DEF Apart
    <1>5. QED  BY <1>1, <1>2, <1>3, <1>4 DEF Sane, EntryIn

LEMMA CloseKeeps ==
    ASSUME IInv, NEW u \in Users, Close(u) PROVE IInv'
    <1> DEFINE d == [n \in Names |-> NoEntry]
    <1>1. /\ dir' = [dir EXCEPT ![u] = d] /\ freep' = [freep EXCEPT ![u] = {}]
          /\ dbi_eof' = [dbi_eof EXCEPT ![u] = 0]
          /\ dbi_read_only' = [dbi_read_only EXCEPT ![u] = FALSE]
          /\ op' = [op EXCEPT ![u] = NoOp] /\ pc' = [pc EXCEPT ![u] = "closed"]
          /\ disk' = disk /\ hurt' <= MaxHurt /\ (hurt' = hurt \/ hurt' = hurt + 1)
        BY DEF Close, Go
    <1>2. d \in [Names -> Entries] /\ Sane(d, {}, 0, FALSE, "closed", NoOp)
        BY ClosedSane
    <1>3. NoOp \in Ops /\ 0 \in 0 .. FileMax /\ {} \in SUBSET Spots /\ FALSE \in BOOLEAN
          /\ "closed" \in Places
        BY DbAssumption DEF NoOp, Ops, Places
    <1>4. DiskTyped(disk) /\ hurt \in 0 .. MaxHurt /\ MaxHurt \in Nat  BY Local, DbAssumption
    <1>5. DiskTyped(disk') /\ hurt' \in 0 .. MaxHurt  BY <1>1, <1>4
    <1> HIDE DEF d
    <1>6. QED  BY <1>1, <1>2, <1>3, <1>5, UserSteps

LEMMA DirbuildKeeps ==
    ASSUME IInv, NEW u \in Users, db_dirbuild(u) PROVE IInv'
    <1> DEFINE d == [n \in Names |-> Entry(n)]
               p == IF Global \in Names /\ Entry(Global) = NoEntry THEN "ident" ELSE "idle"
    <1>1. /\ \/ Walkable /\ dbi_eof' = [dbi_eof EXCEPT ![u] = Eof]
             \/ ReadsShort(StopAt) /\ dbi_eof' = [dbi_eof EXCEPT ![u] = StopAt + 1]
          /\ dir' = [dir EXCEPT ![u] = d] /\ freep' = [freep EXCEPT ![u] = Holes]
          /\ dbi_read_only' = [dbi_read_only EXCEPT ![u] = FALSE]
          /\ pc' = [pc EXCEPT ![u] = p] /\ p \in {"idle", "ident"}
          /\ UNCHANGED <<disk, op, hurt>>
        BY DEF db_dirbuild, Go
    <1>2. /\ Types /\ DiskTyped(disk) /\ hurt \in 0 .. MaxHurt /\ op[u] \in Ops
        BY Local
    <1>3. StopAt \in 1 .. Eof /\ Eof \in 1 .. FileMax /\ FileMax \in Nat
        BY <1>2, ChainIs, EofTyped, DbAssumption
    <1>4. PICK e \in 0 .. FileMax : StopAt <= e /\ dbi_eof' = [dbi_eof EXCEPT ![u] = e]
        <2>1. Eof \in 0 .. FileMax /\ StopAt <= Eof  BY <1>3
        <2>2. CASE ReadsShort(StopAt) /\ dbi_eof' = [dbi_eof EXCEPT ![u] = StopAt + 1]
            <3>1. StopAt < Eof  BY <2>2 DEF ReadsShort
            <3>2. StopAt + 1 \in 0 .. FileMax /\ StopAt <= StopAt + 1  BY <1>3, <3>1
            <3>3. QED  BY <2>2, <3>2
        <2>3. QED  BY <1>1, <2>1, <2>2
    <1>5. e \in Nat  BY <1>3
    <1> HIDE DEF p
    <1>6. /\ Sane(d, Holes, e, FALSE, p, op[u])
          /\ Holes \in SUBSET Spots /\ d \in [Names -> Entries]
        <2>1. p \in {"idle", "ident"} /\ Types /\ StopAt <= e  BY <1>1, <1>2, <1>4
        <2>2. QED  BY <2>1, <1>5, ScannedSane, Zenon
    <1>7. op' = [op EXCEPT ![u] = op[u]]  BY <1>1, <1>2, Unchanged
    <1>8. p \in Places /\ FALSE \in BOOLEAN  BY <1>1 DEF Places
    <1>9. DiskTyped(disk') /\ hurt' \in 0 .. MaxHurt  BY <1>1, <1>2
    <1> HIDE DEF d
    <1>10. QED  BY <1>1, <1>2, <1>4, <1>6, <1>7, <1>8, <1>9, UserSteps

-----------------------------------------------------------------------------
(* The invariant holds.                                                    *)

LEMMA InitIInv == Init => IInv
    <1> SUFFICES ASSUME Init PROVE IInv  OBVIOUS
    <1> USE DbAssumption
    <1> DEFINE none == [n \in Names |-> NoEntry]
    <1>1. none \in [Names -> Entries] /\ \A o : Sane(none, {}, 0, FALSE, "closed", o)
        BY ClosedSane
    <1>2. DiskTyped(disk)
        <2>1. Image("header", 1) \in Images /\ Image("zero", 0) \in Images
            BY DEF Image, Images
        <2>2. \A img \in Images : Unit(img, 0) \in Units
            <3>1. TAKE img \in Images
            <3>2. (0 = img.len - 1) \in BOOLEAN /\ 0 \in 0 .. FileMax  OBVIOUS
            <3>3. QED  BY <3>2, Zenon DEF Unit, Units
        <2>3. Unit(Image("header", 1), 0) \in Units /\ Zero \in Units
            BY <2>1, <2>2 DEF Zero
        <2>4. 0 \in 0 .. FileMax - 1  OBVIOUS
        <2>5. QED  BY <2>3, <2>4 DEF Init, DiskTyped
    <1>3. NoOp \in Ops /\ "closed" \in Places /\ 0 \in 0 .. FileMax /\ 0 \in 0 .. MaxHurt
        BY DEF NoOp, Ops, Places
    <1>4. Types
        BY <1>1, <1>2, <1>3 DEF Init, Types, DiskTyped
    <1>5. ASSUME NEW u \in Users PROVE SaneOf(u)
        <2>1. /\ dir[u] = none /\ freep[u] = {} /\ dbi_eof[u] = 0 /\ dbi_read_only[u] = FALSE
              /\ pc[u] = "closed"
            BY DEF Init
        <2> HIDE DEF none
        <2>2. Sane(none, {}, 0, FALSE, "closed", op[u])  BY <1>1
        <2>3. QED  BY <2>1, <2>2 DEF SaneOf
    <1>6. QED  BY <1>4, <1>5 DEF IInv

LEMMA StepKeepsIInv == IInv /\ [Next]_vars => IInv'
    <1> SUFFICES ASSUME IInv, [Next]_vars PROVE IInv'  OBVIOUS
    <1>1. CASE UNCHANGED vars
        BY <1>1 DEF vars, IInv, Types, SaneOf
    <1>2. ASSUME NEW u \in Users, db_dirbuild(u) PROVE IInv'  BY <1>2, DirbuildKeeps
    <1>3. ASSUME NEW u \in Users, Realloc(u) PROVE IInv'
        BY <1>3, ShrinkFrontKeeps, ShrinkBackKeeps, ReleaseKeeps, ExtendKeeps,
           TakeHoleKeeps, SplitHoleKeeps, EraseFrontKeeps DEF Realloc
    <1>4. ASSUME NEW u \in Users, WriteObject(u) PROVE IInv'  BY <1>4, WriteObjectKeeps
    <1>5. ASSUME NEW u \in Users, db_delete(u) PROVE IInv'  BY <1>5, DeleteKeeps
    <1>6. ASSUME NEW u \in Users, Close(u) PROVE IInv'  BY <1>6, CloseKeeps
    <1>7. ASSUME NEW u \in Users, NEW n \in Names, kill(u, n) PROVE IInv'  BY <1>7, KillKeeps
    <1>8. ASSUME NEW u \in Users, NEW n \in Names, NEW s \in Sizes, db_put_external5(u, n, s)
          PROVE  IInv'
        BY <1>8, UserPutKeeps
    <1>9. ASSUME NEW u \in Users, db5_update_ident(u) PROVE IInv'  BY <1>9, IdentKeeps
    <1>10. QED
        BY <1>1, <1>2, <1>3, <1>4, <1>5, <1>6, <1>7, <1>8, <1>9 DEF Next

(* Whatever a process has in memory is sane at every step, for every       *)
(* number of processes and whatever fails.                                 *)
THEOREM IndInv == Spec => []IInv
    <1>1. QED  BY InitIInv, StepKeepsIInv, PTL DEF Spec

(* The tables and the file stay within their types and their bounds.       *)
THEOREM TypeCorrect == Spec => []TypeOK
    <1>1. IInv => TypeOK
        <2> SUFFICES ASSUME IInv PROVE TypeOK  OBVIOUS
        <2>1. Types /\ \A u \in Users : SaneOf(u)  BY DEF IInv
        <2>2. ASSUME NEW u \in Users
              PROVE  freep[u] \subseteq [m_addr : 1 .. FileMax, m_size : 1 .. FileMax]
            <3>1. freep[u] \in SUBSET Spots /\ dbi_eof[u] \in 0 .. FileMax /\ FileMax \in Nat
                BY <2>1, DbAssumption DEF Types
            <3>2. MapIn(freep[u], dbi_eof[u])  BY <2>1 DEF SaneOf, Sane
            <3>3. \A h \in freep[u] : /\ h \in Spots /\ h.m_addr \in Nat /\ h.m_size \in Nat
                                      /\ h.m_size > 0 /\ h.m_addr >= 1
                                      /\ h.m_addr + h.m_size <= dbi_eof[u]
                BY <3>1, <3>2 DEF MapIn, Coalesced, After, Spots
            <3>4. \A h \in freep[u] : h.m_addr \in 1 .. FileMax /\ h.m_size \in 1 .. FileMax
                BY <3>1, <3>3
            <3>5. QED  BY <3>3, <3>4 DEF Spots
        <2>3. QED
            BY <2>1, <2>2 DEF Types, TypeOK, Units, Entries, Ops, Places
    <1>2. QED  BY <1>1, IndInv, PTL

LEMMA OwnedOnce == IInv => SpaceOwnedOnce
    <1> SUFFICES ASSUME IInv, NEW u \in Users, ~ dbi_read_only[u]
                 PROVE  /\ \A n \in Names : Extent(dir[u][n]) \subseteq 1 .. dbi_eof[u] - 1
                        /\ \A m, n \in Names : m # n => Extent(dir[u][m]) \cap Extent(dir[u][n]) = {}
                        /\ \A n \in Names : Extent(dir[u][n]) \cap UnitsOf(freep[u]) = {}
                        /\ UnitsOf(freep[u]) \subseteq 1 .. dbi_eof[u] - 1
        BY DEF SpaceOwnedOnce
    <1>1. PICK d, map, e : d = dir[u] /\ map = freep[u] /\ e = dbi_eof[u]  OBVIOUS
    <1>2. /\ d \in [Names -> Entries] /\ map \in SUBSET Spots /\ e \in 0 .. FileMax /\ FileMax \in Nat
          /\ SaneOf(u) /\ dbi_read_only[u] = FALSE
        BY <1>1, Local, DbAssumption
    <1>3. MapIn(map, e) /\ Apart(d, map) /\ \A n \in Names : EntryIn(d[n], e)
        BY <1>1, <1>2 DEF SaneOf, Sane
    <1>4. e \in Nat  BY <1>2
    <1>5. \A n \in Names : d[n].d_addr \in Int /\ d[n].d_len \in Nat  BY <1>2, EntryTyped
    <1>6. \A h \in map : /\ h.m_addr \in Nat /\ h.m_size \in Nat
                         /\ h.m_addr >= 1 /\ h.m_addr + h.m_size <= e
        BY <1>2, <1>3 DEF MapIn, After, Spots
    <1>7. \A n \in Names : \A i \in Extent(d[n]) :
              /\ d[n].d_addr # Phony /\ i \in Int
              /\ d[n].d_addr <= i /\ i < d[n].d_addr + d[n].d_len
        BY <1>5 DEF Extent
    <1>8. \A i \in UnitsOf(map) : \E h \in map : /\ h.m_addr <= i /\ i < h.m_addr + h.m_size
                                                 /\ i \in Int
        BY <1>6 DEF UnitsOf, After
    <1>9. ASSUME NEW n \in Names PROVE Extent(d[n]) \subseteq 1 .. e - 1
        BY <1>3, <1>4, <1>5, <1>7 DEF EntryIn
    <1>10. ASSUME NEW k \in Names, NEW n \in Names, k # n PROVE Extent(d[k]) \cap Extent(d[n]) = {}
        <2>1. SUFFICES ASSUME NEW i \in Extent(d[k]), i \in Extent(d[n]) PROVE FALSE  OBVIOUS
        <2>2. Clear(d[k].d_addr, d[k].d_addr + d[k].d_len, d[n].d_addr, d[n].d_len)
            BY <1>3, <1>7, <1>10, <2>1 DEF Apart, ClearOfEntry
        <2>3. QED  BY <1>5, <1>7, <2>1, <2>2 DEF Clear
    <1>11. ASSUME NEW n \in Names PROVE Extent(d[n]) \cap UnitsOf(map) = {}
        <2>1. SUFFICES ASSUME NEW i \in Extent(d[n]), i \in UnitsOf(map) PROVE FALSE  OBVIOUS
        <2>2. PICK h \in map : h.m_addr <= i /\ i < h.m_addr + h.m_size  BY <1>8, <2>1
        <2>3. Clear(d[n].d_addr, d[n].d_addr + d[n].d_len, h.m_addr, h.m_size)
            <3>1. d[n].d_addr # Phony  BY <1>7, <2>1
            <3>2. ClearOf(d[n].d_addr, d[n].d_addr + d[n].d_len, map)  BY <1>3, <3>1 DEF Apart
            <3>3. QED  BY <3>2 DEF ClearOf
        <2>4. i \in Int /\ d[n].d_addr <= i /\ i < d[n].d_addr + d[n].d_len  BY <1>7, <2>1
        <2>5. d[n].d_addr \in Int /\ d[n].d_len \in Nat /\ h.m_addr \in Nat /\ h.m_size \in Nat
            BY <1>5, <1>6
        <2>6. QED  BY <2>2, <2>3, <2>4, <2>5 DEF Clear
    <1>12. UnitsOf(map) \subseteq 1 .. e - 1  BY <1>4, <1>6, <1>8
    <1>13. QED  BY <1>1, <1>9, <1>10, <1>11, <1>12

(* While a process may still write, no unit of the file is owned twice:    *)
(* by two objects, or by an object and the map of holes; whatever writes   *)
(* fail, and however many processes write to the same file.                *)
THEOREM StorageOwnedOnce == Spec => []SpaceOwnedOnce
    <1>1. QED  BY IndInv, OwnedOnce, PTL

-----------------------------------------------------------------------------
(* The file of a process that works alone, as long as no write failed, is  *)
(* cut at the addresses of a set B: Adj says where one piece begins and    *)
(* ends.  Every unit before E has been written, and a scan that comes to a *)
(* piece goes on behind it, unless it is one of gap.                       *)

Adj(B, a, b) == a \in B /\ b \in B /\ a < b /\ \A c \in B : c <= a \/ b <= c

Marked(dk, a, n) == dk[a].at = 0 /\ dk[a].img.len = n /\ dk[a + n - 1].end

Layout(dk, B, E, gap) ==
    /\ E \in 1 .. FileMax
    /\ \A i \in 0 .. FileMax - 1 : IF i < E THEN dk[i].img.len > 0 ELSE dk[i] = Zero
    /\ B \subseteq 0 .. E /\ 0 \in B /\ E \in B
    /\ \A a, b \in B : Adj(B, a, b) /\ a \notin gap => Marked(dk, a, b - a)

LEMMA Borders ==
    ASSUME NEW dk, NEW B, NEW E, NEW gap, Layout(dk, B, E, gap)
    PROVE  /\ B \in SUBSET Nat /\ 0 \in B /\ E \in B /\ E \in Nat /\ E >= 1 /\ E <= FileMax
           /\ FileMax \in Nat /\ \A b \in B : b \in Nat /\ b <= E
    BY DbAssumption DEF Layout

(* After each border but the last there is another.                        *)
LEMMA NextBorder ==
    ASSUME NEW B \in SUBSET Nat, NEW a \in B, NEW e \in B, a < e
    PROVE  \E b \in B : Adj(B, a, b) /\ b <= e
    <1> DEFINE T == {b \in B : a < b}
    <1>1. T \in SUBSET Nat /\ e \in T  OBVIOUS
    <1>2. PICK b \in T : \A c \in T : b <= c  BY <1>1, LeastOf
    <1>3. b \in B /\ a < b /\ \A c \in B : a < c => b <= c  BY <1>2
    <1>4. b <= e  BY <1>1, <1>2
    <1> HIDE DEF T
    <1>5. \A c \in B : c <= a \/ b <= c  BY <1>3
    <1>6. QED  BY <1>3, <1>4, <1>5 DEF Adj

(* Every unit is in a piece.                                               *)
LEMMA PieceOf ==
    ASSUME NEW B \in SUBSET Nat, NEW i \in Nat, NEW lo \in B, NEW hi \in B, lo <= i, i < hi
    PROVE  \E a, b \in B : Adj(B, a, b) /\ a <= i /\ i < b /\ lo <= a /\ b <= hi
    <1> DEFINE T == {a \in B : a <= i}
    <1>1. T \in SUBSET Nat /\ lo \in T /\ \A x \in T : x <= i  OBVIOUS
    <1>2. PICK a \in T : \A y \in T : y <= a  BY <1>1, GreatestOf
    <1>3. a \in B /\ a <= i /\ lo <= a /\ \A y \in B : y <= i => y <= a  BY <1>1, <1>2
    <1> HIDE DEF T
    <1>4. a \in Nat /\ hi \in Nat /\ a < hi  BY <1>3
    <1>5. PICK b \in B : Adj(B, a, b) /\ b <= hi  BY <1>3, <1>4, NextBorder
    <1>6. a < b /\ b \in Nat  BY <1>5 DEF Adj
    <1>7. i < b
        <2>1. b <= i => b <= a  BY <1>3, <1>5
        <2>2. QED  BY <2>1, <1>4, <1>6
    <1>8. QED  BY <1>3, <1>5, <1>7

(* The same for a piece that lies between two borders or outside them.     *)
LEMMA Beside ==
    ASSUME NEW B \in SUBSET Nat, NEW a, NEW b, Adj(B, a, b), NEW c \in B
    PROVE  /\ a \in B /\ b \in B /\ a \in Nat /\ b \in Nat /\ c \in Nat /\ a < b
           /\ c <= a \/ b <= c
    BY DEF Adj

(* The units from a to c are written, and the borders between them change: *)
(* the pieces outside stay as they are.                                    *)
Rewrites(dk, B, gap, a, c, dk2, B2, gap2) ==
    /\ a \in B /\ c \in B /\ a < c /\ B2 \in SUBSET Nat
    /\ \A i \in Nat : i <= a \/ c <= i => (i \in B2 <=> i \in B)
    /\ \A i \in 0 .. FileMax - 1 : i < a \/ c <= i => dk2[i] = dk[i]
    /\ \A i \in 0 .. FileMax - 1 : a <= i /\ i < c => dk2[i].img.len > 0 \/ dk2[i].img = dk[i].img
    /\ \A i \in gap : i < a \/ c <= i => i \in gap2
    /\ \A x, z \in B2 : Adj(B2, x, z) /\ a <= x /\ z <= c /\ x \notin gap2 => Marked(dk2, x, z - x)

LEMMA Rewritten ==
    ASSUME NEW dk, NEW B, NEW E, NEW gap, Layout(dk, B, E, gap),
           NEW a, NEW c, NEW dk2, NEW B2, NEW gap2, Rewrites(dk, B, gap, a, c, dk2, B2, gap2)
    PROVE  /\ Layout(dk2, B2, E, gap2)
           /\ \A x, z \in B2 : Adj(B2, x, z) =>
                 \/ a <= x /\ z <= c
                 \/ Adj(B, x, z) /\ (z <= a \/ c <= x) /\ dk2[x] = dk[x]
           /\ \A x, z \in B : Adj(B, x, z) /\ (z <= a \/ c <= x) => Adj(B2, x, z) /\ dk2[x] = dk[x]
    <1>1. /\ B \in SUBSET Nat /\ 0 \in B /\ E \in B /\ E \in Nat /\ E >= 1 /\ E <= FileMax
          /\ FileMax \in Nat /\ \A b \in B : b \in Nat /\ b <= E
        BY Borders
    <1>0. /\ a \in B /\ c \in B /\ a < c /\ B2 \in SUBSET Nat
          /\ \A i \in Nat : i <= a \/ c <= i => (i \in B2 <=> i \in B)
          /\ \A i \in 0 .. FileMax - 1 : i < a \/ c <= i => dk2[i] = dk[i]
          /\ \A i \in 0 .. FileMax - 1 : a <= i /\ i < c => dk2[i].img.len > 0 \/ dk2[i].img = dk[i].img
          /\ \A i \in gap : i < a \/ c <= i => i \in gap2
          /\ \A x, z \in B2 : Adj(B2, x, z) /\ a <= x /\ z <= c /\ x \notin gap2 => Marked(dk2, x, z - x)
        BY DEF Rewrites
    <1>2. a \in Nat /\ c \in Nat /\ c <= E /\ a \in B2 /\ c \in B2
        <2>1. a \in Nat /\ c \in Nat /\ c <= E /\ a <= a /\ c <= c  BY <1>0, <1>1
        <2>2. QED  BY <2>1, <1>0
    <1>3. B2 \subseteq 0 .. E /\ 0 \in B2 /\ E \in B2
        <2>1. 0 <= a /\ c <= E  BY <1>2
        <2>2. 0 \in B2 /\ E \in B2  BY <1>0, <1>1, <2>1
        <2>3. ASSUME NEW i \in B2 PROVE i \in 0 .. E
            <3>1. i \in Nat  BY <1>0
            <3>2. CASE i <= a \/ c <= i  BY <3>1, <3>2, <1>0, <1>1
            <3>3. CASE a < i /\ i < c  BY <3>1, <3>3, <1>1, <1>2
            <3>4. QED  BY <3>1, <3>2, <3>3, <1>2
        <2>4. QED  BY <2>2, <2>3
    <1>4. ASSUME NEW x \in B2, NEW z \in B2, Adj(B2, x, z)
          PROVE  \/ a <= x /\ z <= c
                 \/ Adj(B, x, z) /\ (z <= a \/ c <= x) /\ dk2[x] = dk[x]
        <2>1. x \in Nat /\ z \in Nat /\ x < z /\ (a <= x \/ z <= a) /\ (c <= x \/ z <= c)
            BY <1>0, <1>2, <1>4, Beside
        <2>2. CASE z <= a \/ c <= x
            <3>1. x <= a \/ c <= x  BY <2>1, <2>2, <1>2
            <3>2. z <= a \/ c <= z  BY <2>1, <2>2, <1>2
            <3>3. x \in B /\ z \in B  BY <2>1, <3>1, <3>2, <1>0
            <3>4. ASSUME NEW i \in B PROVE i <= x \/ z <= i
                <4>1. i \in Nat  BY <1>1
                <4>2. CASE i <= a \/ c <= i
                    BY <4>1, <4>2, <1>0, <1>4 DEF Adj
                <4>3. CASE a < i /\ i < c
                    BY <4>1, <4>3, <2>1, <2>2, <1>2
                <4>4. QED  BY <4>1, <4>2, <4>3, <1>2
            <3>5. Adj(B, x, z)  BY <2>1, <3>3, <3>4 DEF Adj
            <3>6. x \in 0 .. FileMax - 1 /\ (x < a \/ c <= x)
                BY <2>1, <2>2, <3>3, <1>1, <1>2
            <3>7. QED  BY <2>2, <3>5, <3>6, <1>0
        <2>3. QED  BY <2>1, <2>2, <1>2
    <1>5. ASSUME NEW x \in B, NEW z \in B, Adj(B, x, z), z <= a \/ c <= x
          PROVE  Adj(B2, x, z) /\ dk2[x] = dk[x]
        <2>1. x \in Nat /\ z \in Nat /\ x < z  BY <1>1, <1>5, Beside
        <2>2. (x <= a \/ c <= x) /\ (z <= a \/ c <= z)  BY <2>1, <1>2, <1>5
        <2>3. x \in B2 /\ z \in B2  BY <2>1, <2>2, <1>0
        <2>4. ASSUME NEW i \in B2 PROVE i <= x \/ z <= i
            <3>1. i \in Nat  BY <1>0
            <3>2. CASE i <= a \/ c <= i  BY <3>1, <3>2, <1>0, <1>5 DEF Adj
            <3>3. CASE a < i /\ i < c  BY <3>1, <3>3, <2>1, <1>5, <1>2
            <3>4. QED  BY <3>1, <3>2, <3>3, <1>2
        <2>5. Adj(B2, x, z)  BY <2>1, <2>3, <2>4 DEF Adj
        <2>6. x \in 0 .. FileMax - 1 /\ (x < a \/ c <= x)
            BY <2>1, <1>5, <1>1, <1>2
        <2>7. QED  BY <2>5, <2>6, <1>0
    <1>6. ASSUME NEW i \in 0 .. FileMax - 1
          PROVE  IF i < E THEN dk2[i].img.len > 0 ELSE dk2[i] = Zero
        <2>1. IF i < E THEN dk[i].img.len > 0 ELSE dk[i] = Zero  BY DEF Layout
        <2>2. CASE i < a \/ c <= i  BY <2>1, <2>2, <1>0
        <2>3. CASE a <= i /\ i < c  BY <2>1, <2>3, <1>0, <1>1, <1>2
        <2>4. QED  BY <2>2, <2>3, <1>1, <1>2
    <1>7. ASSUME NEW x \in B2, NEW z \in B2, Adj(B2, x, z), x \notin gap2
          PROVE  Marked(dk2, x, z - x)
        <2>1. CASE a <= x /\ z <= c  BY <2>1, <1>0, <1>7
        <2>2. CASE Adj(B, x, z) /\ (z <= a \/ c <= x) /\ dk2[x] = dk[x]
            <3>1. x \in B /\ z \in B /\ x \in Nat /\ z \in Nat /\ x < z /\ z <= E
                BY <2>2, <1>1, Beside
            <3>2. x < a \/ c <= x  BY <2>2, <3>1, <1>2
            <3>3. x \notin gap  BY <3>2, <1>0, <1>7
            <3>4. Marked(dk, x, z - x)  BY <2>2, <3>1, <3>3 DEF Layout
            <3>5. x + (z - x) - 1 = z - 1 /\ z - 1 \in 0 .. FileMax - 1 /\ (z - 1 < a \/ c <= z - 1)
                BY <2>2, <3>1, <1>1, <1>2
            <3>6. dk2[z - 1] = dk[z - 1]  BY <3>5, <1>0
            <3>7. QED  BY <3>4, <3>5, <3>6, <2>2 DEF Marked
        <2>3. QED  BY <1>4, <1>7, <2>1, <2>2
    <1>8. E \in 1 .. FileMax  BY DEF Layout
    <1>9. Layout(dk2, B2, E, gap2)  BY <1>3, <1>6, <1>7, <1>8 DEF Layout
    <1>10. QED  BY <1>4, <1>5, <1>9


(* What a free object, or an object, written from a to a + n leaves.       *)
Wrote1(dk, dk2, a, n, name) ==
    /\ \A i \in 0 .. FileMax - 1 : i < a \/ a + n <= i => dk2[i] = dk[i]
    /\ \A i \in 0 .. FileMax - 1 : a <= i /\ i < a + n => dk2[i].img.len > 0 \/ dk2[i].img = dk[i].img
    /\ Marked(dk2, a, n) /\ dk2[a].img.name = name

LEMMA UnitsWritten ==
    ASSUME NEW dk, DiskTyped(dk), NEW a \in Nat, NEW name, NEW n \in Nat, NEW k \in Nat, k >= 1, k <= n,
           a + n <= FileMax,
           NEW dk2, dk2 = Written(dk, a, Image(name, n), k)
    PROVE  /\ DOMAIN dk2 = 0 .. FileMax - 1
           /\ \A i \in 0 .. FileMax - 1 : i < a \/ a + k <= i => dk2[i] = dk[i]
           /\ \A i \in 0 .. FileMax - 1 : a <= i /\ i < a + k =>
                 /\ dk2[i].img.len = n /\ dk2[i].img.name = name /\ dk2[i].at = i - a
                 /\ dk2[i].end = (i - a = n - 1)
    <1>1. DOMAIN dk = 0 .. FileMax - 1 /\ FileMax \in Nat  BY DbAssumption DEF DiskTyped
    <1>2. DOMAIN dk2 = 0 .. FileMax - 1  BY <1>1, Zenon DEF Written
    <1>3. \A i \in 0 .. FileMax - 1 :
              dk2[i] = IF i \in a .. a + k - 1 THEN Unit(Image(name, n), i - a) ELSE dk[i]
        BY <1>1, Zenon DEF Written
    <1>4. ASSUME NEW i \in 0 .. FileMax - 1, i < a \/ a + k <= i PROVE dk2[i] = dk[i]
        <2>1. i \notin a .. a + k - 1  BY <1>4
        <2>2. QED  BY <1>3, <2>1
    <1>5. Image(name, n).len = n /\ Image(name, n).name = name  BY DEF Image
    <1>6. \A img, j : Unit(img, j).img = img /\ Unit(img, j).at = j /\ Unit(img, j).end = (j = img.len - 1)
        BY Zenon DEF Unit
    <1>7. ASSUME NEW i \in 0 .. FileMax - 1, a <= i, i < a + k
          PROVE  /\ dk2[i].img.len = n /\ dk2[i].img.name = name /\ dk2[i].at = i - a
                 /\ dk2[i].end = (i - a = n - 1)
        <2>1. i \in a .. a + k - 1  BY <1>7
        <2>2. dk2[i] = Unit(Image(name, n), i - a)  BY <1>3, <2>1
        <2>3. PICK img, j : img = Image(name, n) /\ j = i - a  OBVIOUS
        <2>4. Unit(img, j).img = img /\ Unit(img, j).at = j /\ Unit(img, j).end = (j = img.len - 1)
            BY <1>6
        <2>41. dk2[i] = Unit(img, j)  BY <2>2, <2>3, Zenon
        <2>42. dk2[i].img = img /\ dk2[i].at = j /\ dk2[i].end = (j = img.len - 1)  BY <2>4, <2>41, Zenon
        <2>5. dk2[i].end = (i - a = n - 1)  BY <2>42, <2>3, <1>5, Zenon
        <2>6. dk2[i].img.len = n /\ dk2[i].img.name = name /\ dk2[i].at = i - a  BY <2>42, <2>3, <1>5, Zenon
        <2>7. QED  BY <2>5, <2>6
    <1>8. QED  BY <1>2, <1>4, <1>7

LEMMA ObjectDone ==
    ASSUME NEW dk, DiskTyped(dk), NEW a \in Nat, NEW name, NEW n \in Nat, n >= 1, a + n <= FileMax
    PROVE  Wrote1(dk, Written(dk, a, Image(name, n), n), a, n, name)
    <1> DEFINE dk2 == Written(dk, a, Image(name, n), n)
    <1>1. /\ \A i \in 0 .. FileMax - 1 : i < a \/ a + n <= i => dk2[i] = dk[i]
          /\ \A i \in 0 .. FileMax - 1 : a <= i /\ i < a + n =>
                /\ dk2[i].img.len = n /\ dk2[i].img.name = name /\ dk2[i].at = i - a
                /\ dk2[i].end = (i - a = n - 1)
        BY UnitsWritten
    <1> HIDE DEF dk2
    <1>2. FileMax \in Nat /\ a \in 0 .. FileMax - 1 /\ a + n - 1 \in 0 .. FileMax - 1
          /\ a <= a /\ a < a + n /\ a <= a + n - 1 /\ a + n - 1 < a + n
          /\ (a + n - 1) - a = n - 1 /\ a - a = 0
        BY DbAssumption
    <1>3. dk2[a].img.len = n /\ dk2[a].img.name = name /\ dk2[a].at = 0  BY <1>1, <1>2
    <1>4. dk2[a + n - 1].end  BY <1>1, <1>2
    <1>5. Marked(dk2, a, n)  BY <1>3, <1>4 DEF Marked
    <1>6. Wrote1(dk, dk2, a, n, name)  BY <1>1, <1>3, <1>5 DEF Wrote1
    <1>7. QED  BY <1>6 DEF dk2

LEMMA FreeDone ==
    ASSUME NEW dk, DiskTyped(dk), NEW a \in Nat, NEW n \in Nat, n >= 1, a + n <= FileMax
    PROVE  Wrote1(dk, FreeWritten(dk, a, n), a, n, "free")
    <1>1. CASE n <= WholeFree
        <2>1. FreeWritten(dk, a, n) = Written(dk, a, Image("free", n), n)
            BY <1>1 DEF FreeWritten
        <2>2. QED  BY <2>1, ObjectDone
    <1>2. CASE ~ (n <= WholeFree)
        <2> DEFINE w == Written(dk, a, Image("free", n), 2)
                   v == [w EXCEPT ![a + n - 1].end = TRUE]
        <2>1. n >= 2 /\ FileMax \in Nat  BY <1>2, DbAssumption
        <2>2. /\ DOMAIN w = 0 .. FileMax - 1
              /\ \A i \in 0 .. FileMax - 1 : i < a \/ a + 2 <= i => w[i] = dk[i]
              /\ \A i \in 0 .. FileMax - 1 : a <= i /\ i < a + 2 =>
                    /\ w[i].img.len = n /\ w[i].img.name = "free" /\ w[i].at = i - a
            <3>1. PICK ww : ww = w  OBVIOUS
            <3>2. ww = Written(dk, a, Image("free", n), 2) /\ 2 \in Nat /\ 2 >= 1 /\ 2 <= n  BY <3>1, <2>1
            <3> HIDE DEF w
            <3>3. /\ DOMAIN ww = 0 .. FileMax - 1
                  /\ \A i \in 0 .. FileMax - 1 : i < a \/ a + 2 <= i => ww[i] = dk[i]
                  /\ \A i \in 0 .. FileMax - 1 : a <= i /\ i < a + 2 =>
                        /\ ww[i].img.len = n /\ ww[i].img.name = "free" /\ ww[i].at = i - a
                BY <3>2, UnitsWritten
            <3>4. QED  BY <3>1, <3>3
        <2>3. FreeWritten(dk, a, n) = v  BY <1>2 DEF FreeWritten
        <2>4. a + n - 1 \in 0 .. FileMax - 1 /\ a \in 0 .. FileMax - 1 /\ a - a = 0 /\ a < a + 2
              /\ a # a + n - 1 /\ a <= a
            BY <2>1
        <2>5. DiskTyped(w) \/ TRUE  OBVIOUS
        <2> HIDE DEF w
        <2>6. \A i \in 0 .. FileMax - 1 : i # a + n - 1 => v[i] = w[i]  BY <2>2
        <2>7. v[a + n - 1] = [w[a + n - 1] EXCEPT !.end = TRUE]  BY <2>2, <2>4
        <2>8. dk[a + n - 1] \in Units  BY <2>4 DEF DiskTyped
        <2>9. v[a + n - 1].end /\ v[a + n - 1].img = w[a + n - 1].img
            <3>1. \/ w[a + n - 1] = dk[a + n - 1]
                  \/ a + n - 1 = a + 1 /\ w[a + n - 1] = Unit(Image("free", n), 1)
                <4>1. CASE n = 2
                    <5>1. a + n - 1 = a + 1 /\ a + 1 \in a .. a + 2 - 1 /\ (a + 1) - a = 1  BY <4>1
                    <5>2. DOMAIN dk = 0 .. FileMax - 1  BY DEF DiskTyped
                    <5>3. w[a + 1] = Unit(Image("free", n), (a + 1) - a)
                        BY <5>1, <5>2, <2>4, Zenon DEF w, Written
                    <5>4. QED  BY <5>1, <5>3
                <4>2. CASE n # 2
                    BY <4>2, <2>1, <2>2, <2>4
                <4>3. QED  BY <4>1, <4>2
            <3>2. CASE w[a + n - 1] = dk[a + n - 1]
                BY <3>2, <2>7, <2>8 DEF Units
            <3>3. CASE w[a + n - 1] = Unit(Image("free", n), 1)
                BY <3>3, <2>7 DEF Unit
            <3>4. QED  BY <3>1, <3>2, <3>3
        <2> HIDE DEF v
        <2>10. \A i \in 0 .. FileMax - 1 : v[i].img = w[i].img  BY <2>6, <2>9
        <2>11. v[a] = w[a]  BY <2>4, <2>6
        <2>12. Marked(v, a, n)  BY <2>11, <2>9, <2>4, <2>2 DEF Marked
        <2>13. v[a].img.name = "free"  BY <2>11, <2>4, <2>2
        <2>14. \A i \in 0 .. FileMax - 1 : i < a \/ a + n <= i => v[i] = dk[i]
            BY <2>6, <2>2, <2>1
        <2>15. \A i \in 0 .. FileMax - 1 : a <= i /\ i < a + n => v[i].img.len > 0 \/ v[i].img = dk[i].img
            <3>1. TAKE i \in 0 .. FileMax - 1
            <3>2. HAVE a <= i /\ i < a + n
            <3>3. CASE i < a + 2  BY <3>2, <3>3, <2>1, <2>2, <2>10
            <3>4. CASE ~ (i < a + 2)
                <4>1. w[i] = dk[i]  BY <3>4, <2>2
                <4>2. QED  BY <4>1, <2>10
            <3>5. QED  BY <3>3, <3>4
        <2>16. QED  BY <2>3, <2>12, <2>13, <2>14, <2>15 DEF Wrote1
    <1>3. QED  BY <1>1, <1>2

-----------------------------------------------------------------------------
(* A scan of a file that is well cut.                                      *)

LEMMA LayoutEof ==
    ASSUME Types, NEW B, NEW E, NEW gap, Layout(disk, B, E, gap)
    PROVE  Eof = E
    <1> DEFINE T == {i \in DOMAIN disk : disk[i] # Zero}
    <1>1. E \in Nat /\ E >= 1 /\ E <= FileMax /\ FileMax \in Nat  BY Borders
    <1>2. DOMAIN disk = 0 .. FileMax - 1  BY DEF Types
    <1>3. Zero.img.len = 0  BY DEF Zero, Unit, Image
    <1>4. \A i \in 0 .. FileMax - 1 : IF i < E THEN disk[i].img.len > 0 ELSE disk[i] = Zero
        BY DEF Layout
    <1>5. \A i \in 0 .. FileMax - 1 : i \in T <=> i < E
        <2>1. TAKE i \in 0 .. FileMax - 1
        <2>2. i < E => disk[i] # Zero  BY <1>3, <1>4
        <2>3. QED  BY <2>2, <1>2, <1>4
    <1>6. T \in SUBSET Nat /\ \A x \in T : x <= E - 1
        <2>1. \A x \in T : x \in 0 .. FileMax - 1  BY <1>2
        <2>2. QED  BY <2>1, <1>1, <1>5
    <1>7. E - 1 \in T /\ E - 1 \in Nat
        <2>1. E - 1 \in 0 .. FileMax - 1 /\ E - 1 < E  BY <1>1
        <2>2. QED  BY <2>1, <1>5
    <1> HIDE DEF T
    <1>8. Max(T) \in T /\ \A y \in T : y <= Max(T)
        <2>1. T # {}  BY <1>7
        <2>2. QED  BY <2>1, <1>6, <1>7, MaxOf
    <1>9. Max(T) \in Nat /\ Max(T) <= E - 1 /\ E - 1 <= Max(T)  BY <1>6, <1>7, <1>8
    <1>10. Max(T) = E - 1  BY <1>1, <1>9
    <1>11. Eof = 1 + Max(T)  BY DEF Eof, T
    <1>12. QED  BY <1>1, <1>10, <1>11

LEMMA LayoutReads ==
    ASSUME Types, NEW B, NEW E, Layout(disk, B, E, {}), NEW a \in B
    PROVE  /\ a \in 0 .. FileMax
           /\ a # E => /\ Readable(a) /\ NextOf(a) \in B /\ Adj(B, a, NextOf(a))
                       /\ NextOf(a) \in 0 .. FileMax /\ a < NextOf(a) /\ NextOf(a) <= E
           /\ a = E => ~ Readable(a)
    <1>1. /\ B \in SUBSET Nat /\ E \in B /\ E \in Nat /\ E <= FileMax
          /\ FileMax \in Nat /\ \A b \in B : b \in Nat /\ b <= E /\ Eof = E
        BY Borders, LayoutEof
    <1>2. a \in 0 .. FileMax /\ a \in Nat /\ a <= E /\ Eof = E /\ E \in Nat  BY <1>1
    <1>3. ASSUME a = E PROVE ~ Readable(a)
        BY <1>2, <1>3 DEF Readable
    <1>4. ASSUME a # E
          PROVE  /\ Readable(a) /\ NextOf(a) \in B /\ Adj(B, a, NextOf(a))
                 /\ NextOf(a) \in 0 .. FileMax /\ a < NextOf(a) /\ NextOf(a) <= E
        <2>1. a < E  BY <1>2, <1>4
        <2>2. PICK b \in B : Adj(B, a, b) /\ b <= E  BY <1>1, <2>1, NextBorder
        <2>3. Marked(disk, a, b - a)  BY <2>2 DEF Layout
        <2>4. b \in Nat /\ a < b /\ b <= E  BY <1>1, <2>2 DEF Adj
        <2>5. disk[a].img.len = b - a /\ disk[a].at = 0 /\ disk[a + (b - a) - 1].end
            BY <2>3 DEF Marked
        <2>6. NextOf(a) = b  BY <2>4, <2>5, <1>2 DEF NextOf, ObjLen
        <2>7. Readable(a)
            <3>1. b - a > 0 /\ a + (b - a) <= Eof /\ a < Eof  BY <2>1, <2>4, <1>2
            <3>2. QED  BY <2>5, <3>1 DEF Readable
        <2>8. b \in 0 .. FileMax  BY <2>4, <1>1
        <2>9. QED  BY <2>2, <2>4, <2>6, <2>7, <2>8
    <1>5. QED  BY <1>2, <1>3, <1>4

(* It finds every piece, and comes to the end.                             *)
LEMMA LayoutScan ==
    ASSUME Types, NEW B, NEW E, Layout(disk, B, E, {})
    PROVE  /\ Chain = B \ {E} /\ StopAt = E /\ Eof = E
           /\ \A a \in Chain : Adj(B, a, NextOf(a)) /\ NextOf(a) <= E
    <1>1. /\ B \in SUBSET Nat /\ 0 \in B /\ E \in B /\ E \in Nat /\ E <= FileMax /\ E >= 1
          /\ FileMax \in Nat /\ \A b \in B : b \in Nat /\ b <= E
        BY Borders
    <1> DEFINE Rest(a) == {x \in B : a <= x /\ x # E}
               T == {a \in B : ScanFrom[a] # Rest(a)}
    <1>2. T = {}
        <2>1. SUFFICES ASSUME T # {} PROVE FALSE  OBVIOUS
        <2>2. T \in SUBSET Nat /\ \A x \in T : x <= E  BY <1>1
        <2> HIDE DEF T
        <2>3. PICK a \in T : \A b \in T : b <= a  BY <2>1, <2>2, <1>1, GreatestOf
        <2>4. a \in B /\ ScanFrom[a] # Rest(a)  BY DEF T
        <2>5. /\ a \in 0 .. FileMax
              /\ a # E => /\ Readable(a) /\ NextOf(a) \in B /\ Adj(B, a, NextOf(a))
                          /\ NextOf(a) \in 0 .. FileMax /\ a < NextOf(a) /\ NextOf(a) <= E
              /\ a = E => ~ Readable(a)
            BY <2>4, LayoutReads
        <2>6. ScanFrom[a] = IF Readable(a) THEN {a} \cup ScanFrom[NextOf(a)] ELSE {}
            BY <2>5, ScanFromIs
        <2>7. CASE a = E
            <3>1. ScanFrom[a] = {}  BY <2>5, <2>6, <2>7
            <3>2. \A x \in B : a <= x => x = E  BY <2>7, <1>1
            <3>3. Rest(a) = {}  BY <3>2
            <3>4. QED  BY <3>1, <3>3, <2>4
        <2>8. CASE a # E
            <3>1. PICK b : b = NextOf(a)  OBVIOUS
            <3>2. b \in B /\ Adj(B, a, b) /\ a < b /\ a \in Nat /\ b \in Nat
                BY <2>5, <2>8, <3>1, <1>1, <2>4
            <3>3. b \notin T  BY <2>3, <3>2
            <3>4. ScanFrom[b] = Rest(b)  BY <3>2, <3>3 DEF T
            <3>5. ScanFrom[a] = {a} \cup Rest(b)  BY <2>5, <2>6, <2>8, <3>1, <3>4
            <3>6. Rest(a) = {a} \cup Rest(b)
                <4>1. \A x \in B : a <= x <=> x = a \/ b <= x
                    BY <3>2, <1>1 DEF Adj
                <4>2. QED  BY <4>1, <2>4, <2>8
            <3>7. QED  BY <3>5, <3>6, <2>4
        <2>9. QED  BY <2>7, <2>8
    <1>3. ScanFrom[0] = Rest(0)  BY <1>1, <1>2
    <1>4. Chain = B \ {E}
        <2>0. \A x \in B : 0 <= x  BY <1>1
        <2>1. Rest(0) = B \ {E}  BY <2>0
        <2>2. QED  BY <1>3, <2>1 DEF Chain
    <1>5. \A a \in Chain : Adj(B, a, NextOf(a)) /\ NextOf(a) <= E /\ NextOf(a) \in Nat /\ a < NextOf(a)
        BY <1>4, LayoutReads
    <1> DEFINE N == {NextOf(a) : a \in Chain}
    <1>6. N \in SUBSET Nat /\ \A x \in N : x <= E  BY <1>5
    <1>7. E \in N
        <2>1. E - 1 \in Nat /\ 0 <= E - 1 /\ E - 1 < E  BY <1>1
        <2>2. PICK a, b \in B : Adj(B, a, b) /\ a <= E - 1 /\ E - 1 < b /\ b <= E
            BY <1>1, <2>1, PieceOf
        <2>3. b = E /\ a # E /\ a \in Nat
            BY <2>2, <1>1
        <2>4. a \in Chain  BY <2>2, <2>3, <1>4
        <2>5. NextOf(a) \in B /\ NextOf(a) \in Nat /\ a < NextOf(a) /\ NextOf(a) <= E
            BY <2>4, <1>5 DEF Adj
        <2>6. NextOf(a) = E
            BY <2>5, <2>2, <2>3, <1>1 DEF Adj
        <2>7. QED  BY <2>4, <2>6
    <1> HIDE DEF N
    <1>8. Max(N) \in N /\ \A y \in N : y <= Max(N)
        <2>1. N # {}  BY <1>7
        <2>2. QED  BY <2>1, <1>1, <1>6, MaxOf
    <1>9. Max(N) = E
        <2>1. Max(N) \in Nat /\ Max(N) <= E /\ E <= Max(N)  BY <1>6, <1>7, <1>8
        <2>2. QED  BY <2>1, <1>1
    <1>10. StopAt = Max(N)  BY DEF StopAt, N, NextOf, ObjLen
    <1>11. QED  BY <1>4, <1>5, <1>9, <1>10, LayoutEof


-----------------------------------------------------------------------------
(* The range from a to b lies in a hole of the map, in the storage of an   *)
(* entry.                                                                  *)

InMap(m, a, b) == \E h \in m : h.m_addr <= a /\ b <= After(h)
InEntry(y, a, b) == y.d_addr <= a /\ b <= y.d_addr + y.d_len

OnBorders(m, B) == \A h \in m : h.m_addr \in B /\ After(h) \in B

(* A freed range that no hole reaches into is in the map, and what was in  *)
(* it still is; holes begin and end where holes or the range did.          *)
LEMMA FreeCovers ==
    ASSUME NEW map \in SUBSET Spots, Coalesced(map), NEW addr \in Nat, NEW size \in Nat, size >= 1,
           ClearOf(addr, addr + size, map)
    PROVE  /\ \A a, b \in Int : InMap(map, a, b) => InMap(rt_memfree(map, size, addr), a, b)
           /\ InMap(rt_memfree(map, size, addr), addr, addr + size)
           /\ \A B : addr \in B /\ addr + size \in B /\ OnBorders(map, B)
                        => OnBorders(rt_memfree(map, size, addr), B)
    <1>1. \A h \in map : /\ h.m_addr \in Nat /\ h.m_size \in Nat /\ h.m_size > 0
                         /\ h.m_addr + h.m_size <= addr \/ addr + size <= h.m_addr
        BY DEF Spots, Coalesced, ClearOf, Clear
    <1>2. ~ Overflows(map, size, addr)
        <2>1. ASSUME NEW h \in PrevOf(map, addr), After(h) > addr PROVE FALSE
            <3>1. h \in map /\ h.m_addr <= addr  BY DEF PrevOf
            <3>2. QED  BY <3>1, <2>1, <1>1 DEF After
        <2>2. ASSUME NEW h \in CurOf(map, addr), addr + size > h.m_addr PROVE FALSE
            <3>1. h \in map /\ h.m_addr > addr  BY DEF CurOf
            <3>2. QED  BY <3>1, <2>2, <1>1
        <2>3. QED  BY <2>1, <2>2 DEF Overflows
    <1>3. PICK start \in Nat, stop \in Nat, bottom \in SUBSET map, top \in SUBSET map :
              Merged(map, size, addr, start, stop, bottom, top)
        <2>1. size # 0  OBVIOUS
        <2>2. QED  BY <1>2, <2>1, HoleMade, Zenon
    <1>4. PICK new, r : new = Hole(start, stop - start) /\ r = rt_memfree(map, size, addr)  OBVIOUS
    <1>5. new.m_addr = start /\ After(new) = stop /\ new \in r
        <2>1. start + (stop - start) = stop  OBVIOUS
        <2>2. new.m_addr = start /\ new.m_size = stop - start  BY <1>4 DEF Hole
        <2>3. QED  BY <1>3, <1>4, <2>1, <2>2 DEF After, Merged
    <1>6. r = (map \ (bottom \cup top)) \cup {new}  BY <1>3, <1>4 DEF Merged
    <1>7. ASSUME NEW a \in Int, NEW b \in Int, InMap(map, a, b) PROVE InMap(r, a, b)
        <2>1. PICK h \in map : h.m_addr <= a /\ b <= After(h)  BY <1>7 DEF InMap
        <2>2. CASE h \in bottom \cup top
            <3>1. start <= h.m_addr /\ After(h) <= stop  BY <2>2, <1>3 DEF Merged
            <3>2. h.m_addr \in Nat /\ After(h) \in Nat  BY <1>1 DEF After
            <3>3. start <= a /\ b <= stop  BY <2>1, <3>1, <3>2
            <3>4. QED  BY <3>3, <1>5 DEF InMap
        <2>3. CASE h \notin bottom \cup top
            <3>1. h \in r  BY <2>3, <1>6
            <3>2. QED  BY <2>1, <3>1 DEF InMap
        <2>4. QED  BY <2>2, <2>3
    <1>8. InMap(r, addr, addr + size)  BY <1>3, <1>5 DEF InMap, Merged
    <1>9. ASSUME NEW B, addr \in B, addr + size \in B, OnBorders(map, B) PROVE OnBorders(r, B)
        <2>1. start \in B /\ stop \in B  BY <1>9, <1>3 DEF OnBorders, Merged
        <2>2. QED  BY <2>1, <1>5, <1>6, <1>9 DEF OnBorders
    <1>10. QED  BY <1>4, <1>7, <1>8, <1>9

(* The map a scan makes of a file that is well cut has every free object,  *)
(* and its holes begin and end with objects.                               *)
CoveredAt(k, B) ==
    /\ OnBorders(HolesBelow[k], B)
    /\ \A h \in HolesBelow[k] : \A y \in B : k <= y => After(h) <= y
    /\ \A x \in Found("free") : x < k => InMap(HolesBelow[k], x, NextOf(x))

LEMMA HolesCover ==
    ASSUME Types, NEW B, NEW E, Layout(disk, B, E, {})
    PROVE  \A k \in 0 .. FileMax : CoveredAt(k, B)
    <1> USE DbAssumption
    <1> DEFINE T == {k \in 0 .. FileMax : ~ CoveredAt(k, B)}
    <1>1. SUFFICES ASSUME T # {} PROVE FALSE  OBVIOUS
    <1>2. T \in SUBSET Nat  OBVIOUS
    <1> HIDE DEF T
    <1>3. PICK a \in T : \A b \in T : a <= b  BY <1>1, <1>2, LeastOf
    <1>4. a \in 0 .. FileMax /\ ~ CoveredAt(a, B)  BY DEF T
    <1>5. HolesBelow[a] = Gather(HolesBelow, a)  BY <1>4, HolesBelowIs
    <1>6. /\ Chain = B \ {E} /\ StopAt = E
          /\ \A x \in Chain : Adj(B, x, NextOf(x)) /\ NextOf(x) <= E
          /\ B \in SUBSET Nat /\ E \in Nat
        BY LayoutScan, Borders
    <1>7. CASE a = 0
        <2>1. HolesBelow[a] = {}  BY <1>5, <1>7 DEF Gather
        <2>2. \A x \in Found("free") : x \in Nat  BY <1>6 DEF Found
        <2>3. CoveredAt(a, B)  BY <2>1, <2>2, <1>7 DEF CoveredAt, OnBorders
        <2>4. QED  BY <2>3, <1>4
    <1>8. CASE a # 0
        <2>1. PICK x, old : x = a - 1 /\ old = HolesBelow[x]  OBVIOUS
        <2>2. x \in 0 .. FileMax /\ x \notin T /\ x \in Nat /\ a = x + 1 /\ a > 0 /\ a \in Nat
            BY <1>2, <1>3, <1>4, <1>8, <2>1
        <2>3. CoveredAt(x, B)  BY <2>2 DEF T
        <2>4. /\ OnBorders(old, B)
              /\ \A h \in old : \A y \in B : x <= y => After(h) <= y
              /\ \A z \in Found("free") : z < x => InMap(old, z, NextOf(z))
            BY <2>1, <2>3 DEF CoveredAt
        <2>5. CASE x \notin Found("free")
            <3>1. HolesBelow[a] = old  BY <1>5, <1>8, <2>1, <2>2, <2>5 DEF Gather
            <3>2. \A y \in B : a <= y => x <= y  BY <2>2, <1>6
            <3>3. \A z \in Found("free") : z < a => z < x
                <4>1. \A z \in Found("free") : z \in Nat /\ z # x  BY <1>6, <2>5 DEF Found
                <4>2. QED  BY <4>1, <2>2
            <3>4. CoveredAt(a, B)  BY <2>4, <3>1, <3>2, <3>3 DEF CoveredAt
            <3>5. QED  BY <3>4, <1>4
        <2>6. CASE x \in Found("free")
            <3>1. x \in Chain /\ disk[x].img.name = "free"  BY <2>6 DEF Found
            <3>2. /\ x >= 1 /\ ObjLen(x) \in Nat /\ ObjLen(x) >= 1
                  /\ Adj(B, x, NextOf(x)) /\ NextOf(x) <= E
                BY <3>1, <1>6, ChainIs
            <3>3. x \in B /\ NextOf(x) \in B /\ NextOf(x) \in Nat /\ x < NextOf(x)
                  /\ NextOf(x) = x + ObjLen(x)
                BY <3>2, <1>6 DEF Adj, NextOf
            <3>4. HolesBelow[a] = rt_memfree(old, ObjLen(x), x)
                BY <1>5, <1>8, <2>1, <2>2, <2>6 DEF Gather, ObjLen
            <3>5. MapIn(old, E)  BY <2>1, <2>2, <1>6, HolesSound DEF HolesAt
            <3>6. old \in SUBSET Spots /\ Coalesced(old)
                  /\ \A h \in old : h.m_addr >= 1 /\ h.m_addr \in Nat /\ h.m_size \in Nat /\ After(h) <= x
                BY <3>3, <3>5, <2>2, <2>4 DEF MapIn, Spots
            <3>7. ClearOf(x, x + ObjLen(x), old)
                BY <3>6 DEF ClearOf, Clear, After
            <3>8. /\ \A p, q \in Int : InMap(old, p, q) => InMap(HolesBelow[a], p, q)
                  /\ InMap(HolesBelow[a], x, NextOf(x))
                  /\ OnBorders(HolesBelow[a], B)
                BY <3>2, <3>3, <3>4, <3>6, <3>7, <2>2, <2>4, FreeCovers
            <3>9. ASSUME NEW h \in HolesBelow[a], NEW y \in B, a <= y PROVE After(h) <= y
                <4>1. NextOf(x) <= y /\ y \in Nat
                    BY <3>2, <3>9, <2>2, <1>6 DEF Adj
                <4>2. MapIn(old, y)
                    <5>1. \A g \in old : After(g) <= y
                        BY <3>6, <3>3, <4>1, <2>2 DEF After
                    <5>2. QED  BY <5>1, <3>6 DEF MapIn
                <4>3. x >= 1 /\ x + ObjLen(x) <= y  BY <3>2, <3>3, <4>1
                <4>4. MapIn(HolesBelow[a], y)
                    BY <4>1, <4>2, <4>3, <3>2, <3>4, <3>6, <2>2, FreeKeepsMap
                <4>5. QED  BY <4>4, <3>9 DEF MapIn
            <3>10. ASSUME NEW z \in Found("free"), z < a PROVE InMap(HolesBelow[a], z, NextOf(z))
                <4>1. z \in Nat /\ NextOf(z) \in Nat  BY <1>6 DEF Found, Adj
                <4>2. CASE z = x  BY <4>2, <3>8
                <4>3. CASE z # x
                    <5>1. z < x  BY <4>1, <4>3, <3>10, <2>2
                    <5>2. QED  BY <5>1, <4>1, <2>4, <3>8
                <4>4. QED  BY <4>2, <4>3
            <3>11. CoveredAt(a, B)  BY <3>8, <3>9, <3>10 DEF CoveredAt
            <3>12. QED  BY <3>11, <1>4
        <2>7. QED  BY <2>5, <2>6
    <1>9. QED  BY <1>7, <1>8


-----------------------------------------------------------------------------
(* The tables of a process and the file: a piece of the file is an object  *)
(* that the directory knows, or free and in the map, or in y, the storage  *)
(* the object of the operation under way is given; every object the        *)
(* directory knows is a piece, but perhaps those of q.                     *)

Owned(dk, d, m, y, a, b) ==
    \/ dk[a].img.name \in Names /\ d[dk[a].img.name] = [d_addr |-> a, d_len |-> b - a]
    \/ dk[a].img.name = "free" /\ (InMap(m, a, b) \/ InEntry(y, a, b))

Stored(dk, B, n, x) == Adj(B, x.d_addr, x.d_addr + x.d_len) /\ dk[x.d_addr].img.name = n

Told(dk, d, m, y, q, B, gap) ==
    /\ \A a, b \in B : Adj(B, a, b) /\ a \notin gap \cup {0} => Owned(dk, d, m, y, a, b)
    /\ \A n \in Names \ q : d[n].d_addr # Phony => Stored(dk, B, n, d[n])
    /\ OnBorders(m, B)

(* The operations that have given the object its new storage and not yet   *)
(* written it, and the piece that is no object in the meantime.            *)
Busy == {"shrink back", "erase", "write"}

Gap(x, p, o) == CASE p = "shrink back" -> {x.d_addr + o.size}
                  [] p = "erase" -> {x.d_addr}
                  [] OTHER -> {}

Taken(d, p, o) == IF p \in Busy THEN d[o.name] ELSE NoEntry
Target(p, o) == IF p \in Busy THEN {o.name} ELSE {}

(* Where the end of the file is, on paper and in the file, and where the   *)
(* pieces of the operation under way begin and end.                        *)
Placed(x, e, B, E) ==
    \/ e = E /\ x.d_addr \in B /\ x.d_addr + x.d_len \in B
    \/ x.d_addr = E /\ e = E + x.d_len

Pending(x, e, p, o, B, E) ==
    /\ p \in {"shrink back", "erase"} => Adj(B, x.d_addr, x.d_addr + x.d_len)
    /\ p = "shrink back" => Adj(B, x.d_addr + o.size, x.d_addr + o.old)
    /\ IF p = "write" THEN Placed(x, e, B, E) ELSE e = E

Laid(dk, d, m, e, p, o, B, E) ==
    /\ Layout(dk, B, E, Gap(d[o.name], p, o))
    /\ Told(dk, d, m, Taken(d, p, o), Target(p, o), B, Gap(d[o.name], p, o))
    /\ Pending(d[o.name], e, p, o, B, E)

(* A file that may be opened.                                              *)
WellFormed(dk, B, E) ==
    /\ Layout(dk, B, E, {})
    /\ \A a \in B \ {0, E} : dk[a].img.name \in Names \cup {"free"}
    /\ \A a, b \in B \ {E} : dk[a].img.name = dk[b].img.name /\ dk[a].img.name \in Names => a = b

FileInv ==
    hurt = 0 =>
        /\ \A u \in Users : dbi_read_only[u] = FALSE
        /\ (\A u \in Users : pc[u] = "closed") => \E B, E : WellFormed(disk, B, E)
        /\ \A u \in Users : pc[u] # "closed" =>
               \E B, E : Laid(disk, dir[u], freep[u], dbi_eof[u], pc[u], op[u], B, E)

(* One process only.                                                       *)
Alone == \A u, v \in Users : u = v

LEMMA LaidAtRest ==
    ASSUME NEW dk, NEW d, NEW m, NEW e, NEW p, NEW o, NEW B, NEW E, p \notin Busy
    PROVE  Laid(dk, d, m, e, p, o, B, E) <=>
               Layout(dk, B, E, {}) /\ Told(dk, d, m, NoEntry, {}, B, {}) /\ e = E
    <1>1. PICK x : x = d[o.name]  OBVIOUS
    <1>2. Gap(x, p, o) = {} /\ Taken(d, p, o) = NoEntry /\ Target(p, o) = {}
          /\ (Pending(x, e, p, o, B, E) <=> e = E)
        BY DEF Gap, Taken, Target, Pending, Busy
    <1>3. QED  BY <1>1, <1>2, Zenon DEF Laid

LEMMA LaidToWrite ==
    ASSUME NEW d, NEW o, NEW x, x = d[o.name], NEW dk, NEW m, NEW B, NEW E,
           Layout(dk, B, E, {}), Told(dk, d, m, x, {o.name}, B, {}), NEW e, Placed(x, e, B, E)
    PROVE  Laid(dk, d, m, e, "write", o, B, E)
    <1>1. Gap(x, "write", o) = {} /\ Taken(d, "write", o) = x /\ Target("write", o) = {o.name}
          /\ Pending(x, e, "write", o, B, E)
        BY DEF Gap, Taken, Target, Pending, Busy
    <1>2. QED  BY <1>1, Zenon DEF Laid

LEMMA LaidToErase ==
    ASSUME NEW d, NEW o, NEW x, x = d[o.name], NEW dk, NEW m, NEW B, NEW E,
           Layout(dk, B, E, {x.d_addr}), Told(dk, d, m, x, {o.name}, B, {x.d_addr}),
           Adj(B, x.d_addr, x.d_addr + x.d_len)
    PROVE  Laid(dk, d, m, E, "erase", o, B, E)
    <1>1. Gap(x, "erase", o) = {x.d_addr} /\ Taken(d, "erase", o) = x /\ Target("erase", o) = {o.name}
          /\ Pending(x, E, "erase", o, B, E)
        BY DEF Gap, Taken, Target, Pending, Busy
    <1>2. QED  BY <1>1, Zenon DEF Laid

LEMMA LaidToShrink ==
    ASSUME NEW d, NEW o, NEW x, x = d[o.name], NEW dk, NEW m, NEW B, NEW E, NEW b,
           Layout(dk, B, E, {b}), Told(dk, d, m, x, {o.name}, B, {b}), b = x.d_addr + o.size,
           Adj(B, x.d_addr, x.d_addr + x.d_len), Adj(B, b, x.d_addr + o.old)
    PROVE  Laid(dk, d, m, E, "shrink back", o, B, E)
    <1>1. Gap(x, "shrink back", o) = {b} /\ Taken(d, "shrink back", o) = x
          /\ Target("shrink back", o) = {o.name} /\ Pending(x, E, "shrink back", o, B, E)
        BY DEF Gap, Taken, Target, Pending, Busy
    <1>2. QED  BY <1>1, Zenon DEF Laid

LEMMA LaidInWrite ==
    ASSUME NEW dk, NEW d, NEW m, NEW e, NEW o, NEW B, NEW E, Laid(dk, d, m, e, "write", o, B, E)
    PROVE  /\ Layout(dk, B, E, {}) /\ Told(dk, d, m, d[o.name], {o.name}, B, {})
           /\ Placed(d[o.name], e, B, E)
    <1>1. PICK x : x = d[o.name]  OBVIOUS
    <1>2. Gap(x, "write", o) = {} /\ Taken(d, "write", o) = x /\ Target("write", o) = {o.name}
          /\ (Pending(x, e, "write", o, B, E) => Placed(x, e, B, E))
        BY <1>1 DEF Gap, Taken, Target, Pending, Busy
    <1>3. QED  BY <1>1, <1>2, Zenon DEF Laid

LEMMA LaidInErase ==
    ASSUME NEW dk, NEW d, NEW m, NEW e, NEW o, NEW B, NEW E, Laid(dk, d, m, e, "erase", o, B, E)
    PROVE  /\ Layout(dk, B, E, {d[o.name].d_addr})
           /\ Told(dk, d, m, d[o.name], {o.name}, B, {d[o.name].d_addr})
           /\ Adj(B, d[o.name].d_addr, d[o.name].d_addr + d[o.name].d_len) /\ e = E
    <1>1. PICK x : x = d[o.name]  OBVIOUS
    <1>2. Gap(x, "erase", o) = {x.d_addr} /\ Taken(d, "erase", o) = x /\ Target("erase", o) = {o.name}
          /\ (Pending(x, e, "erase", o, B, E) => Adj(B, x.d_addr, x.d_addr + x.d_len) /\ e = E)
        BY <1>1 DEF Gap, Taken, Target, Pending, Busy
    <1>3. QED  BY <1>1, <1>2, Zenon DEF Laid

LEMMA LaidInShrink ==
    ASSUME NEW dk, NEW d, NEW m, NEW e, NEW o, NEW B, NEW E,
           Laid(dk, d, m, e, "shrink back", o, B, E)
    PROVE  /\ Layout(dk, B, E, {d[o.name].d_addr + o.size})
           /\ Told(dk, d, m, d[o.name], {o.name}, B, {d[o.name].d_addr + o.size})
           /\ Adj(B, d[o.name].d_addr, d[o.name].d_addr + d[o.name].d_len)
           /\ Adj(B, d[o.name].d_addr + o.size, d[o.name].d_addr + o.old) /\ e = E
    <1>1. PICK x : x = d[o.name]  OBVIOUS
    <1>2. Gap(x, "shrink back", o) = {x.d_addr + o.size} /\ Taken(d, "shrink back", o) = x
          /\ Target("shrink back", o) = {o.name}
          /\ (Pending(x, e, "shrink back", o, B, E) =>
                 /\ Adj(B, x.d_addr, x.d_addr + x.d_len)
                 /\ Adj(B, x.d_addr + o.size, x.d_addr + o.old) /\ e = E)
        BY <1>1 DEF Gap, Taken, Target, Pending, Busy
    <1>3. QED  BY <1>1, <1>2, Zenon DEF Laid

(* What the tables say of the pieces that are not written to.              *)
Retells(dk, a, c, dk2, B2, gap2, d, m, y, q, d2, m2, y2, q2) ==
    /\ a # 0
    /\ OnBorders(m2, B2)
    /\ \A x, z \in Nat : x < z /\ (z <= a \/ c <= x) /\ Owned(dk, d, m, y, x, z)
                             => Owned(dk, d2, m2, y2, x, z)
    /\ \A x, z \in B2 : Adj(B2, x, z) /\ a <= x /\ z <= c /\ x \notin gap2
                             => Owned(dk2, d2, m2, y2, x, z)
    /\ \A n \in Names \ q2 : d2[n].d_addr # Phony =>
          \/ Stored(dk2, B2, n, d2[n])
          \/ /\ n \notin q /\ d2[n] = d[n]
             /\ d[n].d_addr + d[n].d_len <= a \/ c <= d[n].d_addr

LEMMA Retold ==
    ASSUME NEW dk, NEW B, NEW E, NEW gap, Layout(dk, B, E, gap),
           NEW a, NEW c, NEW dk2, NEW B2, NEW gap2, Rewrites(dk, B, gap, a, c, dk2, B2, gap2),
           NEW d, NEW m, NEW y, NEW q, Told(dk, d, m, y, q, B, gap),
           NEW d2, NEW m2, NEW y2, NEW q2,
           Retells(dk, a, c, dk2, B2, gap2, d, m, y, q, d2, m2, y2, q2)
    PROVE  Layout(dk2, B2, E, gap2) /\ Told(dk2, d2, m2, y2, q2, B2, gap2)
    <1>1. /\ Layout(dk2, B2, E, gap2)
          /\ \A x, z \in B2 : Adj(B2, x, z) =>
                \/ a <= x /\ z <= c
                \/ Adj(B, x, z) /\ (z <= a \/ c <= x) /\ dk2[x] = dk[x]
          /\ \A x, z \in B : Adj(B, x, z) /\ (z <= a \/ c <= x) => Adj(B2, x, z) /\ dk2[x] = dk[x]
        BY Rewritten
    <1>2. /\ a \in B /\ c \in B /\ B \in SUBSET Nat /\ a < c
          /\ \A i \in gap : i < a \/ c <= i => i \in gap2
          /\ a # 0
        BY Borders DEF Rewrites, Retells
    <1>3. ASSUME NEW x \in B2, NEW z \in B2, Adj(B2, x, z), x \notin gap2 \cup {0}
          PROVE  Owned(dk2, d2, m2, y2, x, z)
        <2>1. CASE a <= x /\ z <= c  BY <2>1, <1>3 DEF Retells
        <2>2. CASE Adj(B, x, z) /\ (z <= a \/ c <= x) /\ dk2[x] = dk[x]
            <3>1. x \in B /\ z \in B /\ x \in Nat /\ z \in Nat /\ x < z
                BY <2>2, <1>2 DEF Adj
            <3>2. x < a \/ c <= x  BY <2>2, <3>1, <1>2
            <3>3. x \notin gap \cup {0}  BY <3>2, <1>2, <1>3
            <3>4. Owned(dk, d, m, y, x, z)  BY <2>2, <3>1, <3>3 DEF Told
            <3>5. Owned(dk, d2, m2, y2, x, z)  BY <2>2, <3>1, <3>4 DEF Retells
            <3>6. QED  BY <2>2, <3>5 DEF Owned
        <2>3. QED  BY <1>1, <1>3, <2>1, <2>2
    <1>4. ASSUME NEW n \in Names \ q2, d2[n].d_addr # Phony
          PROVE  Stored(dk2, B2, n, d2[n])
        <2>1. CASE /\ n \notin q /\ d2[n] = d[n]
                   /\ d[n].d_addr + d[n].d_len <= a \/ c <= d[n].d_addr
            <3>1. Stored(dk, B, n, d[n])  BY <2>1, <1>4 DEF Told
            <3>2. Adj(B, d[n].d_addr, d[n].d_addr + d[n].d_len)
                  /\ d[n].d_addr \in B /\ d[n].d_addr + d[n].d_len \in B
                BY <3>1 DEF Stored, Adj
            <3>3. Adj(B2, d[n].d_addr, d[n].d_addr + d[n].d_len) /\ dk2[d[n].d_addr] = dk[d[n].d_addr]
                BY <2>1, <3>2, <1>1
            <3>4. QED  BY <2>1, <3>1, <3>3 DEF Stored
        <2>2. QED  BY <2>1, <1>4 DEF Retells
    <1>5. OnBorders(m2, B2)  BY DEF Retells
    <1>6. QED  BY <1>1, <1>3, <1>4, <1>5 DEF Told


(* The borders when the pieces from a to c become one, and when they       *)
(* become two.                                                             *)
Joined(B, a, c) == {i \in B : i <= a \/ c <= i}
Parted(B, a, b, c) == Joined(B, a, c) \cup {b}

LEMMA JoinedIs ==
    ASSUME NEW B \in SUBSET Nat, NEW a \in B, NEW c \in B, a < c
    PROVE  /\ Joined(B, a, c) \in SUBSET Nat /\ a \in Joined(B, a, c) /\ c \in Joined(B, a, c)
           /\ \A i \in Nat : i <= a \/ c <= i => (i \in Joined(B, a, c) <=> i \in B)
           /\ Adj(Joined(B, a, c), a, c)
           /\ \A x, z \in Joined(B, a, c) :
                 Adj(Joined(B, a, c), x, z) /\ a <= x /\ z <= c => x = a /\ z = c
    <1> DEFINE J == Joined(B, a, c)
    <1>1. a \in Nat /\ c \in Nat /\ a <= a /\ c <= c /\ a \in B /\ c \in B
        <2>1. a \in Nat /\ c \in Nat /\ a \in B /\ c \in B  OBVIOUS
        <2>2. QED  BY <2>1
    <1>2. \A i : i \in J <=> i \in B /\ (i <= a \/ c <= i)  BY DEF Joined
    <1> HIDE DEF J
    <1>3. J \in SUBSET Nat /\ a \in J /\ c \in J
        <2>1. a \in J /\ c \in J  BY <1>1, <1>2
        <2>2. \A i \in J : i \in Nat  BY <1>2
        <2>3. QED  BY <2>1, <2>2
    <1>4. \A i \in Nat : i <= a \/ c <= i => (i \in J <=> i \in B)  BY <1>2
    <1>5. Adj(J, a, c)  BY <1>2, <1>3 DEF Adj
    <1>6. ASSUME NEW x \in J, NEW z \in J, Adj(J, x, z), a <= x, z <= c PROVE x = a /\ z = c
        <2>1. x \in Nat /\ z \in Nat /\ x < z /\ (x <= a \/ c <= x) /\ (z <= a \/ c <= z)
            BY <1>2, <1>3, <1>6 DEF Adj
        <2>2. QED  BY <2>1, <1>1, <1>6
    <1>7. QED  BY <1>3, <1>4, <1>5, <1>6 DEF J

LEMMA PartedIs ==
    ASSUME NEW B \in SUBSET Nat, NEW a \in B, NEW c \in B, NEW b \in Nat, a < b, b < c
    PROVE  /\ Parted(B, a, b, c) \in SUBSET Nat /\ a \in Parted(B, a, b, c)
           /\ b \in Parted(B, a, b, c) /\ c \in Parted(B, a, b, c)
           /\ \A i \in Nat : i <= a \/ c <= i => (i \in Parted(B, a, b, c) <=> i \in B)
           /\ Adj(Parted(B, a, b, c), a, b) /\ Adj(Parted(B, a, b, c), b, c)
           /\ \A x, z \in Parted(B, a, b, c) :
                 Adj(Parted(B, a, b, c), x, z) /\ a <= x /\ z <= c
                    => (x = a /\ z = b) \/ (x = b /\ z = c)
    <1> DEFINE J == Parted(B, a, b, c)
    <1>1. a \in Nat /\ c \in Nat /\ a <= a /\ c <= c /\ a \in B /\ c \in B
        <2>1. a \in Nat /\ c \in Nat /\ a \in B /\ c \in B  OBVIOUS
        <2>2. QED  BY <2>1
    <1>2. \A i : i \in J <=> (i \in B /\ (i <= a \/ c <= i)) \/ i = b  BY DEF Parted, Joined
    <1> HIDE DEF J
    <1>3. J \in SUBSET Nat /\ a \in J /\ c \in J /\ b \in J
        <2>1. a \in J /\ c \in J /\ b \in J  BY <1>1, <1>2
        <2>2. \A i \in J : i \in Nat  BY <1>2
        <2>3. QED  BY <2>1, <2>2
    <1>4. \A i \in Nat : i <= a \/ c <= i => (i \in J <=> i \in B)  BY <1>1, <1>2
    <1>5. Adj(J, a, b) /\ Adj(J, b, c)
        <2>1. \A i \in J : i \in Nat /\ (i <= a \/ c <= i \/ i = b)  BY <1>2, <1>3
        <2>2. QED  BY <2>1, <1>1, <1>3 DEF Adj
    <1>6. ASSUME NEW x \in J, NEW z \in J, Adj(J, x, z), a <= x, z <= c
          PROVE  (x = a /\ z = b) \/ (x = b /\ z = c)
        <2>1. x \in Nat /\ z \in Nat /\ x < z /\ (b <= x \/ z <= b)
              /\ (x <= a \/ c <= x \/ x = b) /\ (z <= a \/ c <= z \/ z = b)
            BY <1>2, <1>3, <1>6 DEF Adj
        <2>2. QED  BY <2>1, <1>1, <1>6
    <1>7. QED  BY <1>3, <1>4, <1>5, <1>6 DEF J

(* The pieces from a to c are written as one.                              *)
LEMMA PieceWritten ==
    ASSUME NEW dk, NEW B, NEW E, NEW gap, Layout(dk, B, E, gap), NEW a \in B, NEW c \in B, a < c,
           NEW n \in Nat, a + n = c, NEW dk2, NEW name, Wrote1(dk, dk2, a, n, name),
           NEW gap2, \A i \in gap : i < a \/ c <= i => i \in gap2
    PROVE  Rewrites(dk, B, gap, a, c, dk2, Joined(B, a, c), gap2)
    <1>1. B \in SUBSET Nat  BY Borders
    <1>2. /\ Joined(B, a, c) \in SUBSET Nat
          /\ \A i \in Nat : i <= a \/ c <= i => (i \in Joined(B, a, c) <=> i \in B)
          /\ \A x, z \in Joined(B, a, c) :
                Adj(Joined(B, a, c), x, z) /\ a <= x /\ z <= c => x = a /\ z = c
        BY <1>1, JoinedIs
    <1>3. /\ \A i \in 0 .. FileMax - 1 : i < a \/ c <= i => dk2[i] = dk[i]
          /\ \A i \in 0 .. FileMax - 1 : a <= i /\ i < c => dk2[i].img.len > 0 \/ dk2[i].img = dk[i].img
          /\ Marked(dk2, a, n)
        BY DEF Wrote1
    <1>4. Marked(dk2, a, c - a)
        <2>1. a \in Nat /\ c \in Nat  BY <1>1
        <2>2. c - a = n  BY <2>1
        <2>3. QED  BY <1>3, <2>2
    <1>5. QED  BY <1>2, <1>3, <1>4 DEF Rewrites


-----------------------------------------------------------------------------
(* The steps and the file: what they have in common.                       *)

LEMMA LaidNow ==
    ASSUME FileInv, hurt = 0, NEW u \in Users, pc[u] # "closed",
           NEW d, NEW o, NEW x, NEW m, NEW e, Held(u, d, o, x, m, e)
    PROVE  \E B, E : Laid(disk, d, m, e, pc[u], o, B, E)
    BY DEF FileInv, Held

LEMMA LaidNext ==
    ASSUME Alone, NEW u \in Users, NEW d, NEW m, NEW e, NEW p, NEW o, p # "closed",
           dir'[u] = d, freep'[u] = m, dbi_eof'[u] = e, pc'[u] = p, op'[u] = o,
           dbi_read_only'[u] = FALSE,
           NEW dk, disk' = dk, NEW B, NEW E, Laid(dk, d, m, e, p, o, B, E)
    PROVE  FileInv'
    <1>1. \A v \in Users : v = u  BY DEF Alone
    <1>2. \E BB, EE : Laid(disk', dir'[u], freep'[u], dbi_eof'[u], pc'[u], op'[u], BB, EE)
        <2>1. Laid(disk', dir'[u], freep'[u], dbi_eof'[u], pc'[u], op'[u], B, E)
            OBVIOUS
        <2>2. QED  BY <2>1
    <1>3. pc'[u] # "closed"  OBVIOUS
    <1>4. \A v \in Users : dbi_read_only'[v] = FALSE  BY <1>1
    <1>5. ~ (\A v \in Users : pc'[v] = "closed")  BY <1>3
    <1>6. \A v \in Users : pc'[v] # "closed" =>
              \E BB, EE : Laid(disk', dir'[v], freep'[v], dbi_eof'[v], pc'[v], op'[v], BB, EE)
        BY <1>1, <1>2
    <1>7. QED  BY <1>4, <1>5, <1>6, Zenon DEF FileInv

LEMMA GoesWell ==
    ASSUME IInv, NEW u \in Users, NEW w, NEW torn, NEW next, WriteGoes(u, w, torn, next), hurt' = 0
    PROVE  /\ hurt = 0 /\ disk' = w /\ pc'[u] = next /\ dbi_read_only'[u] = dbi_read_only[u]
           /\ dbi_eof'[u] = dbi_eof[u] /\ op'[u] = op[u]
    <1>1. hurt \in 0 .. MaxHurt /\ Types  BY Local
    <1>2. hurt + 1 # 0  BY <1>1
    <1>3. pc' = [pc EXCEPT ![u] = next] /\ pc'[u] = next  BY <1>1 DEF WriteGoes, Go, Types
    <1>4. QED  BY <1>2, <1>3 DEF WriteGoes

LEMMA FailsHurt ==
    ASSUME IInv, NEW u \in Users, NEW torn, WriteFails(u, torn)
    PROVE  hurt' # 0
    <1>1. hurt \in 0 .. MaxHurt  BY Local
    <1>2. QED  BY <1>1 DEF WriteFails

(* A piece that is an object, or free, lies apart from any other range     *)
(* between the same two borders.                                           *)
LEMMA Named ==
    ASSUME NEW dk, NEW d, NEW m, NEW y, NEW x, NEW z, Owned(dk, d, m, y, x, z),
           NEW d2, NEW m2, NEW y2,
           \A n \in Names : d[n].d_addr = x /\ d[n] = [d_addr |-> x, d_len |-> z - x] => d2[n] = d[n],
           InMap(m, x, z) => InMap(m2, x, z) \/ InEntry(y2, x, z),
           InEntry(y, x, z) => InMap(m2, x, z) \/ InEntry(y2, x, z)
    PROVE  Owned(dk, d2, m2, y2, x, z)
    <1>1. CASE dk[x].img.name \in Names /\ d[dk[x].img.name] = [d_addr |-> x, d_len |-> z - x]
        <2>1. d[dk[x].img.name].d_addr = x  BY <1>1
        <2>2. d2[dk[x].img.name] = d[dk[x].img.name]  BY <1>1, <2>1
        <2>3. QED  BY <1>1, <2>2 DEF Owned
    <1>2. CASE dk[x].img.name = "free" /\ (InMap(m, x, z) \/ InEntry(y, x, z))
        BY <1>2 DEF Owned
    <1>3. QED  BY <1>1, <1>2 DEF Owned

LEMMA NotInNone ==
    ASSUME NEW x \in Nat, NEW z \in Nat PROVE ~ InEntry(NoEntry, x, z)
    BY DEF InEntry, NoEntry, Phony

LEMMA EntryBecomes ==
    ASSUME IInv, NEW u \in Users, NEW d, NEW o, NEW x, NEW m, NEW e, Held(u, d, o, x, m, e),
           o.name \in Names, NEW a, NEW n, SetEntry(u, a, n)
    PROVE  \E y, dd : /\ y.d_addr = a /\ y.d_len = n
                      /\ dir'[u] = dd /\ dd[o.name] = y /\ \A k \in Names \ {o.name} : dd[k] = d[k]
    <1>1. PICK y, dd : y = [d_addr |-> a, d_len |-> n] /\ dd = [d EXCEPT ![o.name] = y]  OBVIOUS
    <1>2. dir' = [dir EXCEPT ![u] = [d EXCEPT ![o.name] = [d_addr |-> a, d_len |-> n]]]
        BY DirSet
    <1>3. dir' = [dir EXCEPT ![u] = dd]  BY <1>1, <1>2
    <1>4. dir'[u] = dd /\ d \in [Names -> Entries]
        <2>1. Types /\ d \in [Names -> Entries]  BY Local DEF Held
        <2>2. QED  BY <2>1, <1>3 DEF Types
    <1>5. dd[o.name] = y /\ \A k \in Names \ {o.name} : dd[k] = d[k]  BY <1>1, <1>4
    <1>6. y.d_addr = a /\ y.d_len = n  BY <1>1
    <1>7. QED  BY <1>1, <1>4, <1>5, <1>6


-----------------------------------------------------------------------------
(* The steps and the file, one by one.                                     *)

LEMMA ShrinkFrontLaid ==
    ASSUME IInv, Alone, FileInv, NEW u \in Users, ShrinkFront(u), hurt' = 0 PROVE FileInv'
    <1>1. PICK d, o, x, m, e : Held(u, d, o, x, m, e)  BY DEF Held
    <1>2. pc[u] = "shrink" /\ SetEntry(u, x.d_addr, o.size) /\ freep' = freep
          /\ \/ WriteGoes(u, FreeWritten(disk, x.d_addr, o.size), FreeTorn(x.d_addr, o.size), "shrink back")
             \/ WriteFails(u, FreeTorn(x.d_addr, o.size))
        BY <1>1, Zenon DEF ShrinkFront, Dp, Held
    <1>3. PICK a, s, b, c, dk2 :
              /\ a = x.d_addr /\ s = o.size /\ b = a + s /\ c = a + x.d_len
              /\ dk2 = FreeWritten(disk, a, s)
        OBVIOUS
    <1>4. /\ hurt = 0 /\ disk' = dk2 /\ pc'[u] = "shrink back" /\ dbi_read_only'[u] = dbi_read_only[u]
          /\ dbi_eof'[u] = dbi_eof[u] /\ op'[u] = op[u]
        BY <1>2, <1>3, FailsHurt, GoesWell
    <1>5. /\ DiskTyped(disk) /\ Underway(d, m, e, pc[u], o)
          /\ d \in [Names -> Entries] /\ m \in SUBSET Spots /\ Apart(d, m)
          /\ o.name \in Names /\ dbi_read_only[u] = FALSE /\ x = d[o.name] /\ x.d_len \in Nat
          /\ x.d_addr # Phony => x.d_addr \in Nat /\ x.d_addr >= 1 /\ x.d_len >= 1
                                 /\ x.d_addr + x.d_len <= e
          /\ o.size \in Sizes => o.size \in Nat /\ o.size >= 1
          /\ e \in Nat /\ FileMax \in Nat /\ e <= FileMax
        <2>1. pc[u] \notin {"closed", "idle", "ident", "update"}  BY <1>2
        <2>2. Known(u, d, o, x, m, e)  BY <1>1, <2>1, Amid, Zenon
        <2>3. x = d[o.name]  BY <1>1 DEF Held
        <2>4. QED  BY <2>2, <2>3 DEF Known
    <1>6. PICK B, E : Laid(disk, d, m, e, "shrink", o, B, E)
        <2>1. pc[u] # "closed"  BY <1>2
        <2>2. QED  BY <1>1, <1>2, <1>4, <2>1, LaidNow, Zenon
    <1>7. Layout(disk, B, E, {}) /\ Told(disk, d, m, NoEntry, {}, B, {}) /\ e = E /\ B \in SUBSET Nat
        <2>1. "shrink" \notin Busy  BY DEF Busy
        <2>2. Layout(disk, B, E, {}) /\ Told(disk, d, m, NoEntry, {}, B, {}) /\ e = E
            BY <1>6, <2>1, LaidAtRest
        <2>3. B \in SUBSET Nat  BY <2>2, Borders
        <2>4. QED  BY <2>2, <2>3
    <1>8. x.d_addr # Phony /\ s \in Nat /\ s >= 1 /\ s < x.d_len /\ o.old = x.d_len
        BY <1>2, <1>3, <1>5 DEF Underway
    <1>9. /\ a \in Nat /\ a >= 1 /\ a # 0 /\ a < b /\ b < c /\ c <= e /\ b \in Nat /\ c \in Nat /\ a < c
          /\ b <= FileMax /\ b - a = s /\ c = a + o.old
        BY <1>3, <1>5, <1>8
    <1>10. Stored(disk, B, o.name, x)  BY <1>5, <1>7, <1>8 DEF Told
    <1>11. Adj(B, a, c) /\ a \in B /\ c \in B  BY <1>3, <1>10 DEF Stored, Adj
    <1>12. Wrote1(disk, dk2, a, s, "free")
        BY <1>3, <1>5, <1>8, <1>9, FreeDone
    <1>13. PICK B2 :
           /\ B2 \in SUBSET Nat /\ a \in B2 /\ b \in B2 /\ c \in B2
           /\ \A i \in Nat : i <= a \/ c <= i => (i \in B2 <=> i \in B)
           /\ Adj(B2, a, b) /\ Adj(B2, b, c)
           /\ \A v, z \in B2 : Adj(B2, v, z) /\ a <= v /\ z <= c => (v = a /\ z = b) \/ (v = b /\ z = c)
        <2>1. B \in SUBSET Nat /\ a \in B /\ c \in B /\ b \in Nat /\ a < b /\ b < c  BY <1>7, <1>9, <1>11
        <2>2. PICK B2 : B2 = Parted(B, a, b, c)  OBVIOUS
        <2>3. /\ B2 \in SUBSET Nat /\ a \in B2 /\ b \in B2 /\ c \in B2
              /\ \A i \in Nat : i <= a \/ c <= i => (i \in B2 <=> i \in B)
              /\ Adj(B2, a, b) /\ Adj(B2, b, c)
              /\ \A v, z \in B2 : Adj(B2, v, z) /\ a <= v /\ z <= c
                                     => (v = a /\ z = b) \/ (v = b /\ z = c)
            BY <2>1, <2>2, PartedIs
        <2>4. QED  BY <2>3, Zenon
    <1>14. Rewrites(disk, B, {}, a, c, dk2, B2, {b})
        <2>1. \A i \in 0 .. FileMax - 1 : i < a \/ c <= i => dk2[i] = disk[i]
            BY <1>3, <1>9, <1>12 DEF Wrote1
        <2>2. \A i \in 0 .. FileMax - 1 : a <= i /\ i < c => dk2[i].img.len > 0 \/ dk2[i].img = disk[i].img
            <3>1. \A i \in 0 .. FileMax - 1 : i < a + s \/ a + s <= i  BY <1>3, <1>9
            <3>2. QED  BY <3>1, <1>12 DEF Wrote1
        <2>3. ASSUME NEW v \in B2, NEW z \in B2, Adj(B2, v, z), a <= v, z <= c, v \notin {b}
              PROVE  Marked(dk2, v, z - v)
            <3>1. v = a /\ z = b  BY <2>3, <1>13
            <3>2. z - v = s  BY <3>1, <1>9
            <3>3. QED  BY <3>1, <3>2, <1>12, Zenon DEF Wrote1
        <2>4. QED  BY <2>1, <2>2, <2>3, <1>9, <1>11, <1>13 DEF Rewrites
    <1>15. PICK y, dd : /\ y.d_addr = x.d_addr /\ y.d_len = o.size
                        /\ dir'[u] = dd /\ dd[o.name] = y /\ \A k \in Names \ {o.name} : dd[k] = d[k]
        <2>1. SetEntry(u, x.d_addr, o.size) /\ o.name \in Names  BY <1>2, <1>5
        <2>2. QED  BY <1>1, <2>1, EntryBecomes
    <1>16. y.d_addr = a /\ y.d_len = s  BY <1>3, <1>15
    <1>17. Retells(disk, a, c, dk2, B2, {b}, d, m, NoEntry, {}, dd, m, y, {o.name})
        <2>1. OnBorders(m, B2)
            <3>1. \A h \in m : h.m_addr \in B /\ After(h) \in B /\ h.m_addr \in Nat /\ After(h) \in Nat
                BY <1>5, <1>7 DEF Told, OnBorders, Spots, After
            <3>2. \A i \in B : i <= a \/ c <= i  BY <1>11 DEF Adj
            <3>3. QED  BY <3>1, <3>2, <1>13 DEF OnBorders
        <2>2. ASSUME NEW v \in Nat, NEW z \in Nat, v < z, z <= a \/ c <= v,
                     Owned(disk, d, m, NoEntry, v, z)
              PROVE  Owned(disk, dd, m, y, v, z)
            <3>1. ~ InEntry(NoEntry, v, z)  BY NotInNone
            <3>2. ASSUME NEW n \in Names, d[n].d_addr = v PROVE dd[n] = d[n]
                BY <3>2, <2>2, <1>3, <1>5, <1>9, <1>15
            <3>3. QED  BY <2>2, <3>1, <3>2, Named
        <2>3. ASSUME NEW v \in B2, NEW z \in B2, Adj(B2, v, z), a <= v, z <= c, v \notin {b}
              PROVE  Owned(dk2, dd, m, y, v, z)
            <3>1. v = a /\ z = b  BY <2>3, <1>13
            <3>2. InEntry(y, v, z)  BY <3>1, <1>3, <1>9, <1>16 DEF InEntry
            <3>3. QED  BY <3>1, <3>2, <1>12 DEF Owned, Wrote1
        <2>4. ASSUME NEW n \in Names \ {o.name}, dd[n].d_addr # Phony
              PROVE  /\ n \notin {} /\ dd[n] = d[n]
                     /\ d[n].d_addr + d[n].d_len <= a \/ c <= d[n].d_addr
            <3>1. d[n].d_addr # Phony /\ dd[n] = d[n]  BY <1>15, <2>4
            <3>2. Clear(x.d_addr, x.d_addr + x.d_len, d[n].d_addr, d[n].d_len)
                BY <3>1, <2>4, <1>5, <1>8 DEF Apart, ClearOfEntry
            <3>3. QED  BY <3>1, <3>2, <1>3 DEF Clear
        <2>5. QED  BY <1>9, <2>1, <2>2, <2>3, <2>4 DEF Retells
    <1>18. Layout(dk2, B2, E, {b}) /\ Told(dk2, dd, m, y, {o.name}, B2, {b})
        BY <1>7, <1>14, <1>17, Retold, Zenon
    <1>19. Laid(dk2, dd, m, e, "shrink back", o, B2, E)
        <2>1. y.d_addr + y.d_len = b /\ y.d_addr + o.size = b /\ y.d_addr + o.old = c
            BY <1>3, <1>9, <1>16
        <2>2. PICK p, q : p = y.d_addr /\ q = y.d_addr + o.old  OBVIOUS
        <2>3. Adj(B2, p, y.d_addr + y.d_len) /\ Adj(B2, b, q)
            <3>1. p = a /\ y.d_addr + y.d_len = b /\ q = c  BY <2>1, <2>2, <1>16
            <3>2. QED  BY <3>1, <1>13, Zenon
        <2>4. Adj(B2, y.d_addr, y.d_addr + y.d_len) /\ Adj(B2, b, y.d_addr + o.old)
            BY <2>2, <2>3
        <2>5. y = dd[o.name] /\ b = y.d_addr + o.size  BY <2>1, <1>15
        <2>6. Laid(dk2, dd, m, E, "shrink back", o, B2, E)  BY <2>4, <2>5, <1>18, LaidToShrink
        <2>7. QED  BY <2>6, <1>7
    <1>20. dir'[u] = dd /\ freep'[u] = m  BY <1>1, <1>2, <1>15 DEF Held
    <1>21. dbi_eof'[u] = e /\ op'[u] = o /\ dbi_read_only'[u] = FALSE
        BY <1>1, <1>4, <1>5 DEF Held
    <1>22. QED  BY <1>4, <1>19, <1>20, <1>21, LaidNext

-----------------------------------------------------------------------------
(* What becomes of the pieces from a to c: they are freed as one, or       *)
(* written in place as one.                                                *)

LEMMA ClearBorders ==
    ASSUME NEW B, NEW m \in SUBSET Spots, OnBorders(m, B), NEW a \in Nat, NEW c \in Nat, a < c,
           ClearOf(a, c, m), NEW B2, \A i \in Nat : i <= a \/ c <= i => (i \in B2 <=> i \in B)
    PROVE  OnBorders(m, B2)
    <1>1. ASSUME NEW h \in m PROVE h.m_addr \in B2 /\ After(h) \in B2
        <2>1. h.m_addr \in Nat /\ h.m_size \in Nat /\ After(h) = h.m_addr + h.m_size
              /\ (h.m_addr + h.m_size <= a \/ c <= h.m_addr)
            BY DEF Spots, ClearOf, Clear, After
        <2>2. h.m_addr \in B /\ After(h) \in B  BY DEF OnBorders
        <2>3. After(h) \in Nat /\ (h.m_addr <= a \/ c <= h.m_addr) /\ (After(h) <= a \/ c <= After(h))
            BY <2>1
        <2>4. QED  BY <2>1, <2>2, <2>3
    <1>2. QED  BY <1>1 DEF OnBorders

(* The pieces from a to c are written as one free object and given to the  *)
(* map: the back of an object that shrinks, an object given up.            *)
LEMMA Freed ==
    ASSUME NEW dk, NEW B, NEW E, NEW gap, Layout(dk, B, E, gap),
           NEW d, NEW m, NEW y, NEW q, Told(dk, d, m, y, q, B, gap),
           NEW a \in B, NEW c \in B, a >= 1, a < c, gap \subseteq {a},
           m \in SUBSET Spots, Coalesced(m), ClearOf(a, c, m),
           NEW n \in Nat, a + n = c, NEW dk2, Wrote1(dk, dk2, a, n, "free"),
           NEW m2, m2 = rt_memfree(m, n, a),
           NEW d2, \A k \in Names : d2[k] = d[k] \/ (d[k].d_addr = a /\ d2[k].d_addr = Phony),
           \A k \in Names \ q : d2[k].d_addr # Phony =>
               d[k].d_addr + d[k].d_len <= a \/ c <= d[k].d_addr
    PROVE  \E B2 : /\ Layout(dk2, B2, E, {}) /\ Told(dk2, d2, m2, y, q, B2, {})
                   /\ \A i \in Nat : i <= a \/ c <= i => (i \in B2 <=> i \in B)
    <1>1. B \in SUBSET Nat /\ a \in Nat /\ c \in Nat /\ n >= 1 /\ a # 0
        <2>1. B \in SUBSET Nat  BY Borders
        <2>2. a \in Nat /\ c \in Nat  BY <2>1
        <2>3. QED  BY <2>1, <2>2
    <1>2. \A i \in gap : i < a \/ c <= i => i \in {}  BY <1>1
    <1>3. PICK B2 : B2 = Joined(B, a, c)  OBVIOUS
    <1>4. Rewrites(dk, B, gap, a, c, dk2, B2, {})  BY <1>2, <1>3, PieceWritten
    <1>5. /\ B2 \in SUBSET Nat /\ a \in B2 /\ c \in B2
          /\ \A i \in Nat : i <= a \/ c <= i => (i \in B2 <=> i \in B)
          /\ \A x, z \in B2 : Adj(B2, x, z) /\ a <= x /\ z <= c => x = a /\ z = c
        BY <1>1, <1>3, JoinedIs
    <1>6. OnBorders(m, B2)
        <2>1. OnBorders(m, B)  BY DEF Told
        <2>2. QED  BY <2>1, <1>1, <1>5, ClearBorders
    <1>7. /\ \A p, r \in Int : InMap(m, p, r) => InMap(m2, p, r)
          /\ InMap(m2, a, c)
          /\ OnBorders(m2, B2)
        BY <1>1, <1>5, <1>6, FreeCovers
    <1>8. ASSUME NEW x \in Nat, NEW z \in Nat, x < z, z <= a \/ c <= x, Owned(dk, d, m, y, x, z)
          PROVE  Owned(dk, d2, m2, y, x, z)
        <2>1. \A k \in Names : d[k].d_addr = x => d2[k] = d[k]  BY <1>1, <1>8
        <2>2. InMap(m, x, z) => InMap(m2, x, z)  BY <1>7
        <2>3. QED  BY <2>1, <2>2, <1>8, Named
    <1>9. ASSUME NEW x \in B2, NEW z \in B2, Adj(B2, x, z), a <= x, z <= c
          PROVE  Owned(dk2, d2, m2, y, x, z)
        <2>1. x = a /\ z = c  BY <1>5, <1>9
        <2>2. QED  BY <2>1, <1>7 DEF Owned, Wrote1
    <1>10. ASSUME NEW k \in Names \ q, d2[k].d_addr # Phony
           PROVE  /\ d2[k] = d[k]
                  /\ d[k].d_addr + d[k].d_len <= a \/ c <= d[k].d_addr
        BY <1>10
    <1>11. Retells(dk, a, c, dk2, B2, {}, d, m, y, q, d2, m2, y, q)
        BY <1>1, <1>7, <1>8, <1>9, <1>10 DEF Retells
    <1>12. Layout(dk2, B2, E, {}) /\ Told(dk2, d2, m2, y, q, B2, {})
        BY <1>4, <1>11, Retold, Zenon
    <1>13. QED  BY <1>5, <1>12

Replaces(dk, B, E, gap, d, m, y, t, q, a, c, n, dk2, name) ==
    /\ Layout(dk, B, E, gap) /\ t \in Names /\ q = {t} /\ Told(dk, d, m, y, q, B, gap)
    /\ a \in B /\ c \in B /\ a >= 1 /\ a < c /\ gap \subseteq {a}
    /\ m \in SUBSET Spots /\ ClearOf(a, c, m)
    /\ n \in Nat /\ a + n = c /\ y = d[t] /\ y \in Entries /\ y.d_addr = a /\ y.d_len = n
    /\ Wrote1(dk, dk2, a, n, name)
    /\ \A k \in Names \ q : d[k].d_addr # Phony =>
           d[k].d_addr + d[k].d_len <= a \/ c <= d[k].d_addr

LEMMA Replaced ==
    ASSUME NEW dk, NEW B, NEW E, NEW gap, NEW d, NEW m, NEW y, NEW t, NEW q, NEW a, NEW c,
           NEW n, NEW dk2, NEW name,
           Replaces(dk, B, E, gap, d, m, y, t, q, a, c, n, dk2, name)
    PROVE  \E B2 : /\ Layout(dk2, B2, E, {})
                   /\ name = "free" => Told(dk2, d, m, y, q, B2, {})
                   /\ name = t => Told(dk2, d, m, NoEntry, {}, B2, {})
                   /\ \A i \in Nat : i <= a \/ c <= i => (i \in B2 <=> i \in B)
    <1>0. /\ Layout(dk, B, E, gap) /\ t \in Names /\ q = {t} /\ Told(dk, d, m, y, q, B, gap)
          /\ a \in B /\ c \in B /\ a >= 1 /\ a < c /\ gap \subseteq {a}
          /\ m \in SUBSET Spots /\ ClearOf(a, c, m)
          /\ n \in Nat /\ a + n = c /\ y = d[t] /\ y \in Entries /\ y.d_addr = a /\ y.d_len = n
          /\ Wrote1(dk, dk2, a, n, name)
          /\ \A k \in Names \ q : d[k].d_addr # Phony =>
                 d[k].d_addr + d[k].d_len <= a \/ c <= d[k].d_addr
        BY DEF Replaces
    <1>1. B \in SUBSET Nat /\ a \in Nat /\ c \in Nat /\ n >= 1 /\ a # 0 /\ E \in Nat
        <2>1. B \in SUBSET Nat /\ E \in Nat  BY <1>0, Borders
        <2>2. a \in Nat /\ c \in Nat  BY <1>0, <2>1
        <2>3. QED  BY <1>0, <2>1, <2>2
    <1>2. \A i \in gap : i < a \/ c <= i => i \in {}  BY <1>0, <1>1
    <1>3. PICK B2 : B2 = Joined(B, a, c)  OBVIOUS
    <1>4. Rewrites(dk, B, gap, a, c, dk2, B2, {})  BY <1>0, <1>2, <1>3, PieceWritten
    <1>5. /\ B2 \in SUBSET Nat /\ a \in B2 /\ c \in B2 /\ Adj(B2, a, c)
          /\ \A i \in Nat : i <= a \/ c <= i => (i \in B2 <=> i \in B)
          /\ \A x, z \in B2 : Adj(B2, x, z) /\ a <= x /\ z <= c => x = a /\ z = c
        <2>1. /\ Joined(B, a, c) \in SUBSET Nat /\ a \in Joined(B, a, c) /\ c \in Joined(B, a, c)
              /\ \A i \in Nat : i <= a \/ c <= i => (i \in Joined(B, a, c) <=> i \in B)
              /\ Adj(Joined(B, a, c), a, c)
              /\ \A x, z \in Joined(B, a, c) :
                    Adj(Joined(B, a, c), x, z) /\ a <= x /\ z <= c => x = a /\ z = c
            <3>1. B \in SUBSET Nat /\ a \in B /\ c \in B /\ a < c  BY <1>0, <1>1
            <3>2. QED  BY <3>1, JoinedIs
        <2>2. QED  BY <2>1, <1>3, Zenon
    <1>6. OnBorders(m, B2)
        <2>1. OnBorders(m, B)  BY <1>0 DEF Told
        <2>2. QED  BY <2>1, <1>0, <1>1, <1>5, ClearBorders
    <1>7. y = [d_addr |-> a, d_len |-> c - a] /\ a + y.d_len = c  BY <1>0, <1>1 DEF Entries
    <1>8. ASSUME NEW y2, NEW q2, \/ name = "free" /\ y2 = y /\ q2 = q
                                 \/ name = t /\ y2 = NoEntry /\ q2 = {}
          PROVE  Layout(dk2, B2, E, {}) /\ Told(dk2, d, m, y2, q2, B2, {})
        <2>1. ASSUME NEW x \in Nat, NEW z \in Nat, x < z, z <= a \/ c <= x, Owned(dk, d, m, y, x, z)
              PROVE  Owned(dk, d, m, y2, x, z)
            <3>1. ~ InEntry(y, x, z)  BY <1>0, <1>1, <1>7, <2>1 DEF InEntry
            <3>2. QED  BY <3>1, <2>1, Named
        <2>2. ASSUME NEW x \in B2, NEW z \in B2, Adj(B2, x, z), a <= x, z <= c
              PROVE  Owned(dk2, d, m, y2, x, z)
            <3>1. x = a /\ z = c  BY <1>5, <2>2
            <3>2. dk2[a].img.name = name  BY <1>0 DEF Wrote1
            <3>3. CASE name = "free" /\ y2 = y
                <4>1. InEntry(y2, a, c)  BY <3>3, <1>0, <1>1, <1>7 DEF InEntry
                <4>2. QED  BY <3>1, <3>2, <3>3, <4>1 DEF Owned
            <3>4. CASE name = t
                <4>1. d[dk2[a].img.name] = [d_addr |-> a, d_len |-> c - a]  BY <1>0, <3>2, <3>4, <1>7
                <4>2. dk2[a].img.name \in Names  BY <1>0, <3>2, <3>4
                <4>3. QED  BY <3>1, <4>1, <4>2 DEF Owned
            <3>5. QED  BY <1>8, <3>3, <3>4
        <2>3. ASSUME NEW k \in Names \ q2, d[k].d_addr # Phony
              PROVE  \/ Stored(dk2, B2, k, d[k])
                     \/ /\ k \notin q /\ d[k] = d[k]
                        /\ d[k].d_addr + d[k].d_len <= a \/ c <= d[k].d_addr
            <3>1. CASE k = t
                <4>1. name = t  BY <3>1, <2>3, <1>0, <1>8
                <4>2. Stored(dk2, B2, t, y)  BY <4>1, <1>0, <1>5 DEF Stored, Wrote1
                <4>3. QED  BY <1>0, <3>1, <4>2
            <3>2. CASE k # t  BY <3>2, <2>3, <1>0, <1>8
            <3>3. QED  BY <3>1, <3>2
        <2>4. Retells(dk, a, c, dk2, B2, {}, d, m, y, q, d, m, y2, q2)
            BY <1>0, <1>1, <1>6, <2>1, <2>2, <2>3 DEF Retells
        <2>5. QED  BY <1>0, <1>4, <2>4, Retold
    <1>9. name = "free" => Layout(dk2, B2, E, {}) /\ Told(dk2, d, m, y, q, B2, {})
        BY <1>8
    <1>10. name = t => Layout(dk2, B2, E, {}) /\ Told(dk2, d, m, NoEntry, {}, B2, {})
        BY <1>8
    <1>11. Layout(dk2, B2, E, {})  BY <1>0, <1>4, Rewritten
    <1>12. QED  BY <1>5, <1>9, <1>10, <1>11

LEMMA ShrinkBackLaid ==
    ASSUME IInv, Alone, FileInv, NEW u \in Users, ShrinkBack(u), hurt' = 0 PROVE FileInv'
    <1>1. PICK d, o, x, m, e : Held(u, d, o, x, m, e)  BY DEF Held
    <1>2. PICK b, n, dk2, m2, torn : b = x.d_addr + o.size /\ n = o.old - o.size
                             /\ dk2 = FreeWritten(disk, b, n) /\ m2 = rt_memfree(m, n, b)
                             /\ torn = FreeTorn(b, n)
        OBVIOUS
    <1>3. pc[u] = "shrink back"
          /\ \/ WriteGoes(u, dk2, torn, "write") /\ freep' = [freep EXCEPT ![u] = m2] /\ dir' = dir
             \/ WriteFails(u, torn)
        BY <1>1, <1>2 DEF ShrinkBack, Dp, Held
    <1>4. ~ WriteFails(u, torn)  BY FailsHurt
    <1>5. /\ hurt = 0 /\ disk' = dk2 /\ pc'[u] = "write" /\ dbi_read_only'[u] = dbi_read_only[u]
          /\ dbi_eof'[u] = dbi_eof[u] /\ op'[u] = op[u]
        BY <1>3, <1>4, GoesWell
    <1>6. /\ Types /\ DiskTyped(disk) /\ Underway(d, m, e, "shrink back", o)
          /\ m \in SUBSET Spots /\ Coalesced(m) /\ Apart(d, m)
          /\ o.name \in Names /\ dbi_read_only[u] = FALSE /\ x = d[o.name] /\ x.d_len \in Nat
          /\ x.d_addr # Phony => x.d_addr \in Nat /\ x.d_addr >= 1 /\ x.d_len >= 1
          /\ o.size \in Sizes => o.size \in Nat /\ o.size >= 1
          /\ o \in Ops /\ e \in Nat /\ FileMax \in Nat /\ e <= FileMax
        <2>1. pc[u] \notin {"closed", "idle", "ident", "update"}  BY <1>3
        <2>2. Known(u, d, o, x, m, e)  BY <1>1, <2>1, Amid, Zenon
        <2>3. x = d[o.name]  BY <1>1 DEF Held
        <2>4. QED  BY <2>2, <2>3, <1>3 DEF Known
    <1>7. dir'[u] = d /\ freep'[u] = m2 /\ dbi_eof'[u] = e /\ op'[u] = o
        BY <1>1, <1>3, <1>4, <1>5, <1>6 DEF Held, Types
    <1>8. PICK c : c = x.d_addr + o.old  OBVIOUS
    <1>9. /\ x.d_addr # Phony /\ o.size \in Nat /\ o.size >= 1 /\ o.size = x.d_len
          /\ o.size < o.old /\ c <= e /\ ClearOf(b, c, m)
          /\ \A k \in Names : ClearOfEntry(b, c, d[k])
        BY <1>2, <1>6, <1>8 DEF Underway
    <1>10. o.old \in Nat
        <2>1. o \in Ops  BY <1>6
        <2>2. QED  BY <2>1 DEF Ops
    <1>11. /\ b \in Nat /\ c \in Nat /\ b >= 1 /\ b < c /\ n \in Nat /\ n >= 1 /\ b + n = c /\ c <= FileMax
           /\ x.d_addr \in Nat /\ x.d_addr < b /\ x.d_addr + x.d_len = b
        <2>1. x.d_addr \in Nat /\ x.d_addr >= 1 /\ x.d_len \in Nat /\ e \in Nat /\ FileMax \in Nat
              /\ e <= FileMax
            BY <1>6, <1>9
        <2>2. PICK a : a = x.d_addr  OBVIOUS
        <2>3. a \in Nat /\ a >= 1 /\ b = a + o.size /\ c = a + o.old /\ n = o.old - o.size
            BY <2>1, <2>2, <1>2, <1>8
        <2>4. o.size \in Nat /\ o.size >= 1 /\ o.size < o.old /\ c <= e /\ o.size = x.d_len  BY <1>9
        <2>5. /\ b \in Nat /\ c \in Nat /\ b >= 1 /\ b < c /\ n \in Nat /\ n >= 1 /\ b + n = c
              /\ a < b /\ c <= FileMax
            BY <2>1, <2>3, <2>4, <1>10
        <2>6. QED  BY <2>2, <2>3, <2>4, <2>5
    <1>12. PICK B, E : Laid(disk, d, m, e, "shrink back", o, B, E)
        <2>1. pc[u] # "closed"  BY <1>3
        <2>2. \E B, E : Laid(disk, d, m, e, pc[u], o, B, E)  BY <1>1, <1>5, <2>1, LaidNow
        <2>3. QED  BY <2>2, <1>3
    <1>13. /\ Layout(disk, B, E, {b}) /\ Told(disk, d, m, x, {o.name}, B, {b})
           /\ Adj(B, x.d_addr, b) /\ Adj(B, b, c) /\ e = E
        <2>1. /\ Layout(disk, B, E, {x.d_addr + o.size})
              /\ Told(disk, d, m, x, {o.name}, B, {x.d_addr + o.size})
              /\ Adj(B, x.d_addr, x.d_addr + x.d_len)
              /\ Adj(B, x.d_addr + o.size, x.d_addr + o.old) /\ e = E
            <3>1. d[o.name] = x  BY <1>6
            <3>2. QED  BY <3>1, <1>12, LaidInShrink
        <2>2. QED  BY <2>1, <1>2, <1>8, <1>9
    <1>14. Wrote1(disk, dk2, b, n, "free")  BY <1>2, <1>6, <1>11, FreeDone
    <1>15. PICK B2 : /\ Layout(dk2, B2, E, {}) /\ Told(dk2, d, m2, x, {o.name}, B2, {})
                     /\ \A i \in Nat : i <= b \/ c <= i => (i \in B2 <=> i \in B)
        <2>1. b \in B /\ c \in B  BY <1>13 DEF Adj
        <2>2. \A k \in Names \ {o.name} : d[k].d_addr # Phony =>
                  d[k].d_addr + d[k].d_len <= b \/ c <= d[k].d_addr
            BY <1>9 DEF ClearOfEntry, Clear
        <2>3. {b} \subseteq {b} /\ \A k \in Names : d[k] = d[k]  OBVIOUS
        <2>4. QED  <3>1. /\ m \in SUBSET Spots /\ Coalesced(m) /\ ClearOf(b, c, m) /\ b >= 1 /\ b < c
                  /\ n \in Nat /\ b + n = c /\ m2 = rt_memfree(m, n, b)
                BY <1>2, <1>6, <1>9, <1>11
            <3>2. QED  BY <2>1, <2>2, <2>3, <3>1, <1>13, <1>14, Freed
    <1>16. Laid(dk2, d, m2, e, "write", o, B2, E)
        <2>1. x.d_addr \in B /\ b \in B  BY <1>13 DEF Adj
        <2>2. x.d_addr <= b /\ b <= b  BY <1>11
        <2>3. x.d_addr \in B2 /\ b \in B2  BY <2>1, <2>2, <1>11, <1>15
        <2>4. e = E /\ x.d_addr \in B2 /\ x.d_addr + x.d_len \in B2  BY <2>3, <1>11, <1>13
        <2>5. QED  BY <2>4, <1>6, <1>15, LaidToWrite DEF Placed
    <1>17. QED  BY <1>5, <1>6, <1>7, <1>16, LaidNext

(* The storage of an object goes to the map and is marked free in the file: *)
(* db_delete, and db5_realloc of an object that grows.                     *)
LEMMA GivenUp ==
    ASSUME IInv, Alone, FileInv, NEW u \in Users, NEW p \in {"release", "delete"}, pc[u] = p, hurt = 0,
           NEW d, NEW o, NEW x, NEW m, NEW e, Held(u, d, o, x, m, e),
           NEW dk2, dk2 = FreeWritten(disk, x.d_addr, x.d_len), disk' = dk2,
           NEW m2, m2 = rt_memfree(m, x.d_len, x.d_addr), freep' = [freep EXCEPT ![u] = m2],
           NEW n, SetEntry(u, Phony, n), NEW p2 \in {"place", "idle"}, pc'[u] = p2,
           dbi_read_only'[u] = dbi_read_only[u], dbi_eof'[u] = dbi_eof[u], op'[u] = op[u]
    PROVE  FileInv'
    <1>1. p # "closed" /\ p2 # "closed" /\ p \notin {"closed", "idle", "ident", "update"} /\ p \notin Busy /\ p2 \notin Busy
        BY DEF Busy
    <1>2. /\ Types /\ DiskTyped(disk) /\ Underway(d, m, e, p, o)
          /\ m \in SUBSET Spots /\ Coalesced(m) /\ Apart(d, m)
          /\ o.name \in Names /\ dbi_read_only[u] = FALSE /\ x = d[o.name] /\ x.d_len \in Nat
          /\ x.d_addr # Phony => x.d_addr \in Nat /\ x.d_addr >= 1 /\ x.d_len >= 1
                                 /\ x.d_addr + x.d_len <= e
          /\ e \in Nat /\ FileMax \in Nat /\ e <= FileMax
        <2>1. Known(u, d, o, x, m, e)  BY <1>1, Amid
        <2>2. x = d[o.name]  BY DEF Held
        <2>3. QED  BY <2>1, <2>2 DEF Known
    <1>3. PICK a, c : a = x.d_addr /\ c = x.d_addr + x.d_len  OBVIOUS
    <1>4. x.d_addr # Phony  BY <1>2 DEF Underway
    <1>5. /\ a \in Nat /\ a >= 1 /\ a # 0 /\ x.d_len \in Nat /\ x.d_len >= 1 /\ a + x.d_len = c
          /\ a < c /\ c <= FileMax /\ c \in Nat
        BY <1>2, <1>3, <1>4
    <1>6. PICK B, E : Laid(disk, d, m, e, p, o, B, E)
        <2>1. \E B, E : Laid(disk, d, m, e, pc[u], o, B, E)  BY <1>1, LaidNow
        <2>2. QED  BY <2>1
    <1>7. Layout(disk, B, E, {}) /\ Told(disk, d, m, NoEntry, {}, B, {}) /\ e = E
        BY <1>1, <1>6, LaidAtRest
    <1>8. Stored(disk, B, o.name, x)  BY <1>2, <1>4, <1>7 DEF Told
    <1>9. a \in B /\ c \in B  BY <1>3, <1>8 DEF Stored, Adj
    <1>10. /\ ClearOf(a, c, m)
           /\ \A k \in Names : o.name # k => ClearOfEntry(a, c, d[k])
        BY <1>2, <1>3, <1>4 DEF Apart
    <1>11. Wrote1(disk, dk2, a, x.d_len, "free")  BY <1>2, <1>3, <1>5, FreeDone
    <1>12. PICK y, dd : /\ y.d_addr = Phony /\ y.d_len = n
                        /\ dir'[u] = dd /\ dd[o.name] = y /\ \A k \in Names \ {o.name} : dd[k] = d[k]
        BY <1>2, EntryBecomes
    <1>13. \A k \in Names : dd[k] = d[k] \/ (d[k].d_addr = a /\ dd[k].d_addr = Phony)
        BY <1>2, <1>3, <1>12
    <1>14. \A k \in Names \ {} : dd[k].d_addr # Phony =>
               d[k].d_addr + d[k].d_len <= a \/ c <= d[k].d_addr
        BY <1>10, <1>12 DEF ClearOfEntry, Clear
    <1>15. PICK B2 : Layout(dk2, B2, E, {}) /\ Told(dk2, dd, m2, NoEntry, {}, B2, {})
        <2>1. m2 = rt_memfree(m, x.d_len, a) /\ {} \subseteq {a}  BY <1>3
        <2>2. m \in SUBSET Spots /\ Coalesced(m)  BY <1>2
        <2>3. QED  BY <2>1, <2>2, <1>5, <1>7, <1>9, <1>10, <1>11, <1>13, <1>14, Freed
    <1>16. Laid(dk2, dd, m2, e, p2, o, B2, E)  BY <1>1, <1>7, <1>15, LaidAtRest
    <1>17. freep'[u] = m2 /\ dbi_eof'[u] = e /\ op'[u] = o /\ dbi_read_only'[u] = FALSE
        BY <1>2 DEF Held, Types
    <1>18. QED  BY <1>1, <1>12, <1>16, <1>17, LaidNext

LEMMA ReleaseLaid ==
    ASSUME IInv, Alone, FileInv, NEW u \in Users, Release(u), hurt' = 0 PROVE FileInv'
    <1>1. PICK d, o, x, m, e : Held(u, d, o, x, m, e)  BY DEF Held
    <1>2. PICK dk2, m2, torn : dk2 = FreeWritten(disk, x.d_addr, x.d_len)
                         /\ m2 = rt_memfree(m, x.d_len, x.d_addr) /\ torn = FreeTorn(x.d_addr, x.d_len)
        OBVIOUS
    <1>3. pc[u] = "release" /\ freep' = [freep EXCEPT ![u] = m2]
          /\ \/ WriteGoes(u, dk2, torn, "place") /\ SetEntry(u, Phony, x.d_len)
             \/ WriteFails(u, torn)
        BY <1>1, <1>2 DEF Release, Dp, Held
    <1>4. ~ WriteFails(u, torn)  BY FailsHurt
    <1>5. /\ hurt = 0 /\ disk' = dk2 /\ pc'[u] = "place" /\ dbi_read_only'[u] = dbi_read_only[u]
          /\ dbi_eof'[u] = dbi_eof[u] /\ op'[u] = op[u]
        BY <1>3, <1>4, GoesWell
    <1>6. "release" \in {"release", "delete"} /\ "place" \in {"place", "idle"}  OBVIOUS
    <1>7. QED  BY <1>1, <1>2, <1>3, <1>4, <1>5, <1>6, GivenUp

LEMMA DeleteLaid ==
    ASSUME IInv, Alone, FileInv, NEW u \in Users, db_delete(u), hurt' = 0 PROVE FileInv'
    <1>1. PICK d, o, x, m, e : Held(u, d, o, x, m, e)  BY DEF Held
    <1>2. PICK dk2, m2, torn : dk2 = FreeWritten(disk, x.d_addr, x.d_len)
                         /\ m2 = rt_memfree(m, x.d_len, x.d_addr) /\ torn = FreeTorn(x.d_addr, x.d_len)
        OBVIOUS
    <1>3. pc[u] = "delete" /\ freep' = [freep EXCEPT ![u] = m2] /\ SetEntry(u, Phony, 0)
          /\ (WriteGoes(u, dk2, torn, "idle") \/ WriteFails(u, torn))
        BY <1>1, <1>2 DEF db_delete, Dp, Held
    <1>4. ~ WriteFails(u, torn)  BY FailsHurt
    <1>5. /\ hurt = 0 /\ disk' = dk2 /\ pc'[u] = "idle" /\ dbi_read_only'[u] = dbi_read_only[u]
          /\ dbi_eof'[u] = dbi_eof[u] /\ op'[u] = op[u]
        BY <1>3, <1>4, GoesWell
    <1>6. "delete" \in {"release", "delete"} /\ "idle" \in {"place", "idle"}  OBVIOUS
    <1>7. QED  BY <1>1, <1>2, <1>3, <1>4, <1>5, <1>6, GivenUp

(* The steps that write nothing.                                           *)
LEMMA ToldMore ==
    ASSUME NEW dk, NEW d, NEW m, NEW B \in SUBSET Nat, Told(dk, d, m, NoEntry, {}, B, {}), NEW y, NEW q
    PROVE  Told(dk, d, m, y, q, B, {})
    <1>1. ASSUME NEW a \in B, NEW b \in B, Adj(B, a, b), a \notin {} \cup {0}
          PROVE  Owned(dk, d, m, y, a, b)
        <2>1. Owned(dk, d, m, NoEntry, a, b)  BY <1>1 DEF Told
        <2>2. ~ InEntry(NoEntry, a, b)
            <3>1. a \in Nat /\ b \in Nat  OBVIOUS
            <3>2. QED  BY <3>1, NotInNone
        <2>3. QED  BY <2>1, <2>2 DEF Owned
    <1>2. \A n \in Names \ q : d[n].d_addr # Phony => Stored(dk, B, n, d[n])
        BY DEF Told
    <1>3. OnBorders(m, B)  BY DEF Told
    <1>4. QED  BY <1>1, <1>2, <1>3 DEF Told

LEMMA BeginLaid ==
    ASSUME IInv, Alone, FileInv, NEW u \in Users, NEW rest \in Resting, pc[u] = rest, hurt' = 0,
           NEW o, o.name \in Names, NEW p, p \in {"place", "write", "shrink", "release", "delete"},
           Begins(u, o, p), p = "write" => dir[u][o.name].d_addr # Phony
    PROVE  FileInv'
    <1>0. PICK d, m, e, x : d = dir[u] /\ m = freep[u] /\ e = dbi_eof[u] /\ x = d[o.name]  OBVIOUS
    <1>1. PICK oo, xx : Held(u, d, oo, xx, m, e)  BY <1>0 DEF Held
    <1>2. /\ hurt = 0 /\ disk' = disk /\ dir'[u] = d /\ freep'[u] = m /\ dbi_eof'[u] = e
          /\ pc'[u] = p /\ op'[u] = o /\ dbi_read_only'[u] = dbi_read_only[u]
        <2>1. Types  BY Local
        <2>2. QED  BY <1>0, <2>1 DEF Begins, Types
    <1>3. PICK B, E : Laid(disk, d, m, e, rest, oo, B, E)
        <2>1. pc[u] # "closed"  BY DEF Resting
        <2>2. \E B, E : Laid(disk, d, m, e, pc[u], oo, B, E)  BY <1>1, <1>2, <2>1, LaidNow
        <2>3. QED  BY <2>2
    <1>4. Layout(disk, B, E, {}) /\ Told(disk, d, m, NoEntry, {}, B, {}) /\ e = E
        <2>1. rest \notin Busy  BY DEF Busy, Resting
        <2>2. QED  BY <1>3, <2>1, LaidAtRest
    <1>5. B \in SUBSET Nat  BY <1>4, Borders
    <1>6. Laid(disk, d, m, e, p, o, B, E)
        <2>1. CASE p # "write"
            <3>1. p \notin Busy  BY <2>1 DEF Busy
            <3>2. QED  BY <3>1, <1>4, LaidAtRest
        <2>2. CASE p = "write"
            <3>1. Told(disk, d, m, x, {o.name}, B, {})  BY <1>4, <1>5, ToldMore
            <3>2. x.d_addr # Phony  BY <2>2, <1>0
            <3>3. Stored(disk, B, o.name, x)  BY <3>2, <1>0, <1>4 DEF Told
            <3>4. x.d_addr \in B /\ x.d_addr + x.d_len \in B  BY <3>3 DEF Stored, Adj
            <3>5. Laid(disk, d, m, e, "write", o, B, E)  BY <3>1, <3>4, <1>0, <1>4, LaidToWrite DEF Placed
            <3>6. QED  BY <2>2, <3>5
        <2>3. QED  BY <2>1, <2>2
    <1>7. dbi_read_only'[u] = FALSE  BY <1>2 DEF FileInv
    <1>8. p # "closed"  OBVIOUS
    <1>9. QED  BY <1>2, <1>6, <1>7, <1>8, LaidNext

LEMMA PutLaid ==
    ASSUME IInv, Alone, FileInv, NEW u \in Users, pc[u] \in Resting,
           NEW n \in Names, NEW s \in Sizes, NEW t, Put(u, n, s, t), hurt' = 0
    PROVE  FileInv'
    <1> DEFINE dp == dir[u][n]
               o == [name |-> n, size |-> s, old |-> dp.d_len, then |-> t]
               p == CASE dp.d_len = s /\ dp.d_addr # Phony -> "write"
                      [] s < dp.d_len -> "shrink"
                      [] s > dp.d_len /\ dp.d_addr # Phony -> "release"
                      [] OTHER -> "place"
    <1>1. Begins(u, o, p)
        BY Zenon DEF Put, Begins, Go
    <1>2. dp.d_len \in Nat /\ s \in Nat
        <2>1. dir[u] \in [Names -> Entries]  BY Local
        <2>2. QED  BY <2>1, EntryTyped, DbAssumption
    <1> HIDE DEF dp
    <1>3. p \in {"place", "write", "shrink", "release", "delete"} /\ (p = "write" => dp.d_addr # Phony)
        BY <1>2
    <1>4. o.name = n  OBVIOUS
    <1> HIDE DEF p, o
    <1>5. dir[u][o.name] = dp  BY <1>4 DEF dp
    <1>6. QED  BY <1>1, <1>3, <1>4, <1>5, BeginLaid

LEMMA UserPutLaid ==
    ASSUME IInv, Alone, FileInv, NEW u \in Users, NEW n \in Names, NEW s \in Sizes,
           db_put_external5(u, n, s), hurt' = 0
    PROVE  FileInv'
    <1>1. pc[u] \in Resting /\ Put(u, n, s, 0)  BY DEF db_put_external5, Resting
    <1>2. QED  BY <1>1, PutLaid

LEMMA IdentLaid ==
    ASSUME IInv, Alone, FileInv, NEW u \in Users, db5_update_ident(u), hurt' = 0
    PROVE  FileInv'
    BY IdentPuts, PutLaid

LEMMA KillLaid ==
    ASSUME IInv, Alone, FileInv, NEW u \in Users, NEW n \in Names, kill(u, n), hurt' = 0
    PROVE  FileInv'
    <1>1. PICK o : o = [NoOp EXCEPT !.name = n, !.old = dir[u][n].d_len]  OBVIOUS
    <1>2. pc[u] \in Resting /\ Begins(u, o, "delete")  BY <1>1 DEF kill, Begins, Go, Resting
    <1>3. o.name \in Names  BY <1>1 DEF NoOp
    <1>4. "delete" \in {"place", "write", "shrink", "release", "delete"} /\ "delete" # "write"  OBVIOUS
    <1>5. QED  BY <1>2, <1>3, <1>4, BeginLaid

LEMMA PlaceIs ==
    ASSUME IInv, FileInv, NEW u \in Users, pc[u] = "place", hurt = 0,
           NEW d, NEW o, NEW x, NEW m, NEW e, Held(u, d, o, x, m, e)
    PROVE  /\ Known(u, d, o, x, m, e) /\ d[o.name].d_addr = Phony
           /\ \E B, E : /\ Layout(disk, B, E, {}) /\ Told(disk, d, m, NoEntry, {}, B, {})
                        /\ e = E /\ B \in SUBSET Nat
    <1>1. pc[u] # "closed" /\ pc[u] \notin {"closed", "idle", "ident", "update"} /\ "place" \notin Busy  BY DEF Busy
    <1>2. Known(u, d, o, x, m, e)  BY <1>1, Amid
    <1>3. d[o.name].d_addr = Phony  BY <1>2 DEF Known, Underway
    <1>4. PICK B, E : Laid(disk, d, m, e, "place", o, B, E)
        <2>1. \E B, E : Laid(disk, d, m, e, pc[u], o, B, E)  BY <1>1, LaidNow
        <2>2. QED  BY <2>1
    <1>5. Layout(disk, B, E, {}) /\ Told(disk, d, m, NoEntry, {}, B, {}) /\ e = E
        BY <1>1, <1>4, LaidAtRest
    <1>6. B \in SUBSET Nat  BY <1>5, Borders
    <1>7. QED  BY <1>2, <1>3, <1>5, <1>6

LEMMA PlaceOwned ==
    ASSUME NEW dk, NEW d, NEW m, NEW t \in Names, d[t].d_addr = Phony,
           NEW dd, \A k \in Names \ {t} : dd[k] = d[k],
           NEW a \in Nat, NEW b \in Nat, Owned(dk, d, m, NoEntry, a, b),
           NEW m2, NEW y, InMap(m, a, b) => InMap(m2, a, b) \/ InEntry(y, a, b)
    PROVE  Owned(dk, dd, m2, y, a, b)
    <1>1. ~ InEntry(NoEntry, a, b)  BY NotInNone
    <1>2. \A k \in Names : d[k].d_addr = a => dd[k] = d[k]
        BY DEF Phony
    <1>3. QED  BY <1>1, <1>2, Named

LEMMA ExtendLaid ==
    ASSUME IInv, Alone, FileInv, NEW u \in Users, Extend(u), hurt' = 0 PROVE FileInv'
    <1>1. PICK d, o, x, m, e : Held(u, d, o, x, m, e)  BY DEF Held
    <1>2. /\ pc[u] = "place" /\ SetEntry(u, e, o.size)
          /\ dbi_eof' = [dbi_eof EXCEPT ![u] = e + o.size]
          /\ pc' = [pc EXCEPT ![u] = "write"] /\ disk' = disk /\ freep' = freep
          /\ dbi_read_only' = dbi_read_only /\ op' = op /\ hurt' = hurt
        BY <1>1 DEF Extend, Held, Go
    <1>3. PICK B, E : /\ Known(u, d, o, x, m, e) /\ d[o.name].d_addr = Phony
                      /\ Layout(disk, B, E, {}) /\ Told(disk, d, m, NoEntry, {}, B, {})
                      /\ e = E /\ B \in SUBSET Nat
        BY <1>1, <1>2, PlaceIs
    <1>4. Types /\ o.name \in Names /\ dbi_read_only[u] = FALSE  BY <1>3 DEF Known
    <1>5. PICK y, dd : /\ y.d_addr = e /\ y.d_len = o.size
                       /\ dir'[u] = dd /\ dd[o.name] = y /\ \A k \in Names \ {o.name} : dd[k] = d[k]
        BY <1>1, <1>2, <1>4, EntryBecomes
    <1>6. Told(disk, dd, m, y, {o.name}, B, {})
        <2>1. ASSUME NEW a \in B, NEW b \in B, Adj(B, a, b), a \notin {} \cup {0}
              PROVE  Owned(disk, dd, m, y, a, b)
            <3>1. Owned(disk, d, m, NoEntry, a, b) /\ a \in Nat /\ b \in Nat  BY <1>3, <2>1 DEF Told
            <3>2. QED  BY <3>1, <1>3, <1>4, <1>5, PlaceOwned
        <2>2. \A k \in Names \ {o.name} : dd[k].d_addr # Phony => Stored(disk, B, k, dd[k])
            BY <1>3, <1>5 DEF Told
        <2>3. OnBorders(m, B)  BY <1>3 DEF Told
        <2>4. QED  BY <2>1, <2>2, <2>3 DEF Told
    <1>7. Laid(disk, dd, m, e + o.size, "write", o, B, E)
        BY <1>3, <1>5, <1>6, LaidToWrite DEF Placed
    <1>8. /\ hurt = 0 /\ disk' = disk /\ freep'[u] = m /\ dbi_eof'[u] = e + o.size
          /\ pc'[u] = "write" /\ op'[u] = o /\ dbi_read_only'[u] = FALSE
        BY <1>1, <1>2, <1>4 DEF Held, Types
    <1>9. QED  BY <1>5, <1>7, <1>8, LaidNext

LEMMA TakeHoleLaid ==
    ASSUME IInv, Alone, FileInv, NEW u \in Users, TakeHole(u), hurt' = 0 PROVE FileInv'
    <1>1. PICK d, o, x, m, e : Held(u, d, o, x, m, e)  BY DEF Held
    <1>2. PICK h \in BestFit(m, o.size) :
          /\ pc[u] = "place" /\ SetEntry(u, h.m_addr, h.m_size)
          /\ freep' = [freep EXCEPT ![u] = m \ {h}] /\ h.m_size = o.size
          /\ pc' = [pc EXCEPT ![u] = "write"] /\ disk' = disk /\ dbi_eof' = dbi_eof
          /\ dbi_read_only' = dbi_read_only /\ op' = op /\ hurt' = hurt
        BY <1>1 DEF TakeHole, Held, Go
    <1>3. PICK B, E : /\ Known(u, d, o, x, m, e) /\ d[o.name].d_addr = Phony
                      /\ Layout(disk, B, E, {}) /\ Told(disk, d, m, NoEntry, {}, B, {})
                      /\ e = E /\ B \in SUBSET Nat
        BY <1>1, <1>2, PlaceIs
    <1>4. Types /\ o.name \in Names /\ dbi_read_only[u] = FALSE  BY <1>3 DEF Known
    <1>5. PICK y, dd : /\ y.d_addr = h.m_addr /\ y.d_len = h.m_size
                       /\ dir'[u] = dd /\ dd[o.name] = y /\ \A k \in Names \ {o.name} : dd[k] = d[k]
        BY <1>1, <1>2, <1>4, EntryBecomes
    <1>6. h \in m /\ y.d_addr + y.d_len = After(h)  BY <1>2, <1>5 DEF BestFit, Fits, After
    <1>7. Told(disk, dd, m \ {h}, y, {o.name}, B, {})
        <2>1. ASSUME NEW a \in B, NEW b \in B, Adj(B, a, b), a \notin {} \cup {0}
              PROVE  Owned(disk, dd, m \ {h}, y, a, b)
            <3>1. Owned(disk, d, m, NoEntry, a, b) /\ a \in Nat /\ b \in Nat  BY <1>3, <2>1 DEF Told
            <3>2. InMap(m, a, b) => InMap(m \ {h}, a, b) \/ InEntry(y, a, b)
                BY <1>5, <1>6 DEF InMap, InEntry
            <3>3. QED  BY <3>1, <3>2, <1>3, <1>4, <1>5, PlaceOwned
        <2>2. \A k \in Names \ {o.name} : dd[k].d_addr # Phony => Stored(disk, B, k, dd[k])
            BY <1>3, <1>5 DEF Told
        <2>3. OnBorders(m \ {h}, B)  BY <1>3 DEF Told, OnBorders
        <2>4. QED  BY <2>1, <2>2, <2>3 DEF Told
    <1>8. Laid(disk, dd, m \ {h}, e, "write", o, B, E)
        <2>1. y.d_addr \in B /\ y.d_addr + y.d_len \in B
            BY <1>3, <1>5, <1>6 DEF Told, OnBorders
        <2>2. QED  BY <2>1, <1>3, <1>5, <1>7, LaidToWrite DEF Placed
    <1>9. /\ hurt = 0 /\ disk' = disk /\ freep'[u] = m \ {h} /\ dbi_eof'[u] = e
          /\ pc'[u] = "write" /\ op'[u] = o /\ dbi_read_only'[u] = FALSE
        BY <1>1, <1>2, <1>4 DEF Held, Types
    <1>10. QED  BY <1>5, <1>8, <1>9, LaidNext

(* The steps that write the object, or mark its place.                     *)
Overwrites(u, d, o, x, m, e, B, E, gap, dk2, name) ==
    /\ Known(u, d, o, x, m, e) /\ x = d[o.name] /\ x.d_addr # Phony
    /\ Layout(disk, B, E, gap) /\ Told(disk, d, m, x, {o.name}, B, gap)
    /\ gap \subseteq {x.d_addr} /\ x.d_addr \in B /\ x.d_addr + x.d_len \in B
    /\ Wrote1(disk, dk2, x.d_addr, x.d_len, name)

(* The storage the object has been given is written, as an object or free. *)
LEMMA Overwritten ==
    ASSUME NEW u, NEW d, NEW o, NEW x, NEW m, NEW e, NEW B, NEW E, NEW gap, NEW dk2, NEW name,
           Overwrites(u, d, o, x, m, e, B, E, gap, dk2, name)
    PROVE  \E B2 : /\ Layout(dk2, B2, E, {})
                   /\ name = "free" => Told(dk2, d, m, x, {o.name}, B2, {})
                   /\ name = o.name => Told(dk2, d, m, NoEntry, {}, B2, {})
                   /\ x.d_addr \in B2 /\ x.d_addr + x.d_len \in B2
    <1>0. /\ Known(u, d, o, x, m, e) /\ x = d[o.name] /\ x.d_addr # Phony
          /\ Layout(disk, B, E, gap) /\ Told(disk, d, m, x, {o.name}, B, gap)
          /\ gap \subseteq {x.d_addr} /\ x.d_addr \in B /\ x.d_addr + x.d_len \in B
          /\ Wrote1(disk, dk2, x.d_addr, x.d_len, name)
        BY DEF Overwrites
    <1>1. /\ m \in SUBSET Spots /\ Apart(d, m) /\ o.name \in Names /\ x.d_len \in Nat /\ x \in Entries
          /\ x.d_addr \in Nat /\ x.d_addr >= 1 /\ x.d_len >= 1
        BY <1>0 DEF Known
    <1>2. PICK a, c, n : a = x.d_addr /\ c = x.d_addr + x.d_len /\ n = x.d_len  OBVIOUS
    <1>3. a \in Nat /\ c \in Nat /\ a >= 1 /\ a < c /\ n \in Nat /\ a + n = c /\ c - a = n
          /\ a \in B /\ c \in B
        BY <1>0, <1>1, <1>2
    <1>4. ClearOf(a, c, m) /\ \A k \in Names : o.name # k => ClearOfEntry(a, c, d[k])
        BY <1>0, <1>1, <1>2 DEF Apart
    <1>5. x \in Entries /\ x.d_addr = a /\ x.d_len = n  BY <1>1, <1>2
    <1>6. \A k \in Names \ {o.name} : d[k].d_addr # Phony =>
              d[k].d_addr + d[k].d_len <= a \/ c <= d[k].d_addr
        BY <1>4 DEF ClearOfEntry, Clear
    <1>7. gap \subseteq {a} /\ Wrote1(disk, dk2, a, n, name)  BY <1>0, <1>2
    <1>8. \E B2 : /\ Layout(dk2, B2, E, {})
                  /\ name = "free" => Told(dk2, d, m, x, {o.name}, B2, {})
                  /\ name = o.name => Told(dk2, d, m, NoEntry, {}, B2, {})
                  /\ \A i \in Nat : i <= a \/ c <= i => (i \in B2 <=> i \in B)
        <2>1. PICK q, t : q = {t} /\ t = o.name  OBVIOUS
        <2>2. Replaces(disk, B, E, gap, d, m, x, t, q, a, c, n, dk2, name)
            BY <2>1, <1>0, <1>1, <1>3, <1>4, <1>5, <1>6, <1>7 DEF Replaces
        <2>3. \E B2 : /\ Layout(dk2, B2, E, {})
                      /\ name = "free" => Told(dk2, d, m, x, q, B2, {})
                      /\ name = t => Told(dk2, d, m, NoEntry, {}, B2, {})
                      /\ \A i \in Nat : i <= a \/ c <= i => (i \in B2 <=> i \in B)
            BY <2>2, Replaced
        <2>4. QED  BY <2>1, <2>3
    <1>9. \A B2 : (\A i \in Nat : i <= a \/ c <= i => (i \in B2 <=> i \in B)) => a \in B2 /\ c \in B2
        <2>1. a <= a /\ c <= c  BY <1>3
        <2>2. QED  BY <2>1, <1>3
    <1>10. QED  BY <1>2, <1>8, <1>9

LEMMA EraseFrontLaid ==
    ASSUME IInv, Alone, FileInv, NEW u \in Users, EraseFront(u), hurt' = 0 PROVE FileInv'
    <1>1. PICK d, o, x, m, e : Held(u, d, o, x, m, e)  BY DEF Held
    <1>2. PICK dk2, torn : dk2 = FreeWritten(disk, x.d_addr, x.d_len) /\ torn = FreeTorn(x.d_addr, x.d_len)
        OBVIOUS
    <1>3. pc[u] = "erase" /\ dir' = dir /\ freep' = freep
          /\ (WriteGoes(u, dk2, torn, "write") \/ WriteFails(u, torn))
        BY <1>1, <1>2 DEF EraseFront, Dp, Held
    <1>4. ~ WriteFails(u, torn)  BY FailsHurt
    <1>5. /\ hurt = 0 /\ disk' = dk2 /\ pc'[u] = "write" /\ dbi_read_only'[u] = dbi_read_only[u]
          /\ dbi_eof'[u] = dbi_eof[u] /\ op'[u] = op[u]
        BY <1>3, <1>4, GoesWell
    <1>6. Known(u, d, o, x, m, e) /\ x = d[o.name]
        <2>1. pc[u] \notin {"closed", "idle", "ident", "update"}  BY <1>3
        <2>2. QED  BY <1>1, <2>1, Amid DEF Held
    <1>7. PICK B, E : Laid(disk, d, m, e, "erase", o, B, E)
        <2>1. pc[u] # "closed"  BY <1>3
        <2>2. \E B, E : Laid(disk, d, m, e, pc[u], o, B, E)  BY <1>1, <1>5, <2>1, LaidNow
        <2>3. QED  BY <2>2, <1>3
    <1>8. /\ Layout(disk, B, E, {x.d_addr}) /\ Told(disk, d, m, x, {o.name}, B, {x.d_addr})
          /\ Adj(B, x.d_addr, x.d_addr + x.d_len) /\ e = E
        <2>1. d[o.name] = x  BY <1>6
        <2>2. QED  BY <2>1, <1>7, LaidInErase
    <1>9. x.d_addr # Phony  BY <1>3, <1>6 DEF Known, Underway
    <1>10. Wrote1(disk, dk2, x.d_addr, x.d_len, "free")
        <2>1. /\ DiskTyped(disk) /\ x.d_addr \in Nat /\ x.d_len \in Nat /\ x.d_len >= 1
              /\ x.d_addr + x.d_len <= e /\ e \in Nat /\ e <= FileMax /\ FileMax \in Nat
            BY <1>6, <1>9 DEF Known
        <2>2. x.d_addr + x.d_len <= FileMax  BY <2>1
        <2>3. QED  BY <2>1, <2>2, <1>2, FreeDone
    <1>11. PICK B2 : /\ Layout(dk2, B2, E, {}) /\ Told(dk2, d, m, x, {o.name}, B2, {})
                     /\ x.d_addr \in B2 /\ x.d_addr + x.d_len \in B2
        <2>1. x.d_addr \in B /\ x.d_addr + x.d_len \in B /\ {x.d_addr} \subseteq {x.d_addr}
            BY <1>8 DEF Adj
        <2>2. Overwrites(u, d, o, x, m, e, B, E, {x.d_addr}, dk2, "free")
            BY <2>1, <1>6, <1>8, <1>9, <1>10 DEF Overwrites
        <2>3. QED  BY <2>2, Overwritten
    <1>12. Laid(dk2, d, m, e, "write", o, B2, E)  BY <1>6, <1>8, <1>11, LaidToWrite DEF Placed
    <1>13. /\ dir'[u] = d /\ freep'[u] = m /\ dbi_eof'[u] = e /\ op'[u] = o /\ dbi_read_only'[u] = FALSE
        BY <1>1, <1>3, <1>5, <1>6 DEF Held, Known
    <1>14. QED  BY <1>5, <1>12, <1>13, LaidNext

(* An object written behind the last one.                                  *)
Appends(dk, B, E, d, m, y, t, n, dk2) ==
    /\ Layout(dk, B, E, {}) /\ t \in Names /\ Told(dk, d, m, y, {t}, B, {})
    /\ n \in Nat /\ n >= 1 /\ E + n <= FileMax
    /\ y = d[t] /\ y \in Entries /\ y.d_addr = E /\ y.d_len = n
    /\ Wrote1(dk, dk2, E, n, t)
    /\ \A i \in 0 .. FileMax - 1 : E <= i /\ i < E + n => dk2[i].img.len > 0

(* The object is written behind the end of the file.                       *)
LEMMA Appended ==
    ASSUME NEW dk, NEW B, NEW E, NEW d, NEW m, NEW y, NEW t, NEW n, NEW dk2,
           Appends(dk, B, E, d, m, y, t, n, dk2)
    PROVE  \E B2, E2 : Layout(dk2, B2, E2, {}) /\ Told(dk2, d, m, NoEntry, {}, B2, {}) /\ E2 = E + n
    <1>0. /\ Layout(dk, B, E, {}) /\ t \in Names /\ Told(dk, d, m, y, {t}, B, {})
          /\ n \in Nat /\ n >= 1 /\ E + n <= FileMax
          /\ y = d[t] /\ y \in Entries /\ y.d_addr = E /\ y.d_len = n
          /\ Wrote1(dk, dk2, E, n, t)
          /\ \A i \in 0 .. FileMax - 1 : E <= i /\ i < E + n => dk2[i].img.len > 0
        BY DEF Appends
    <1>1. /\ B \in SUBSET Nat /\ 0 \in B /\ E \in B /\ E \in Nat /\ E >= 1 /\ E <= FileMax
          /\ FileMax \in Nat /\ \A b \in B : b \in Nat /\ b <= E
        BY <1>0, Borders
    <1>2. PICK F, B2 : F = E + n /\ B2 = B \cup {F}  OBVIOUS
    <1>3. F \in Nat /\ E < F /\ F <= FileMax /\ F - E = n /\ E + n = F /\ F >= 1 /\ F \notin B /\ E # 0
        BY <1>0, <1>1, <1>2
    <1>4. B2 \in SUBSET Nat /\ E \in B2 /\ F \in B2 /\ 0 \in B2 /\ B2 \subseteq 0 .. F
        <2>1. \A i \in B2 : i \in Nat /\ i <= F
            <3>1. TAKE i \in B2
            <3>2. i \in B \/ i = F  BY <1>2
            <3>3. CASE i \in B
                <4>1. i \in Nat /\ i <= E  BY <3>3, <1>1
                <4>2. QED  BY <4>1, <1>1, <1>3
            <3>4. CASE i = F  BY <3>4, <1>3
            <3>5. QED  BY <3>2, <3>3, <3>4
        <2>2. E \in B2 /\ F \in B2 /\ 0 \in B2  BY <1>1, <1>2
        <2>3. QED  BY <2>1, <2>2, <1>3
    <1>5. Adj(B2, E, F)
        <2>1. \A i \in B2 : i <= E \/ F <= i  BY <1>1, <1>2, <1>3
        <2>2. QED  BY <2>1, <1>3, <1>4 DEF Adj
    <1>6. ASSUME NEW x \in B2, NEW z \in B2, Adj(B2, x, z)
          PROVE  (x = E /\ z = F) \/ (Adj(B, x, z) /\ z <= E)
        <2>1. x \in Nat /\ z \in Nat /\ x < z /\ (E <= x \/ z <= E)  BY <1>4, <1>6, Beside
        <2>2. CASE E <= x
            <3>1. x = E /\ z = F
                <4>1. \A i \in B2 : i > E => i = F  BY <1>1, <1>2
                <4>2. z = F  BY <4>1, <2>1, <2>2, <1>1
                <4>3. x = E \/ x = F  BY <4>1, <2>1, <2>2, <1>1
                <4>4. QED  BY <4>2, <4>3, <2>1
            <3>2. QED  BY <3>1
        <2>3. CASE z <= E
            <3>1. x # F /\ z # F  BY <2>1, <2>3, <1>1, <1>3
            <3>2. x \in B /\ z \in B  BY <3>1, <1>2
            <3>3. Adj(B, x, z)  BY <3>2, <1>2, <1>6 DEF Adj
            <3>4. QED  BY <3>3, <2>3
        <2>4. QED  BY <2>1, <2>2, <2>3
    <1>7. ASSUME NEW x \in B, NEW z \in B, Adj(B, x, z) PROVE Adj(B2, x, z)
        <2>1. x <= E /\ z <= E /\ z \in Nat  BY <1>1
        <2>2. z <= F  BY <2>1, <1>1, <1>3
        <2>3. x \in B2 /\ z \in B2 /\ \A i \in B2 : i \in B \/ i = F  BY <1>2
        <2>4. QED  BY <2>2, <2>3, <1>7 DEF Adj
    <1>8. /\ \A i \in 0 .. FileMax - 1 : i < E \/ F <= i => dk2[i] = dk[i]
          /\ Marked(dk2, E, F - E) /\ dk2[E].img.name = t
        BY <1>0, <1>2, <1>3 DEF Wrote1
    <1>9. ASSUME NEW x \in B, NEW z \in B, Adj(B, x, z), z <= E
          PROVE  dk2[x] = dk[x] /\ dk2[z - 1] = dk[z - 1] /\ x + (z - x) - 1 = z - 1
        <2>1. x \in Nat /\ z \in Nat /\ x < z  BY <1>1, <1>9 DEF Adj
        <2>2. x \in 0 .. FileMax - 1 /\ x < E /\ z - 1 \in 0 .. FileMax - 1 /\ z - 1 < E
            BY <2>1, <1>1, <1>9
        <2>3. QED  BY <2>1, <2>2, <1>8
    <1>10. Layout(dk2, B2, F, {})
        <2>1. ASSUME NEW i \in 0 .. FileMax - 1 PROVE IF i < F THEN dk2[i].img.len > 0 ELSE dk2[i] = Zero
            <3>1. IF i < E THEN dk[i].img.len > 0 ELSE dk[i] = Zero  BY <1>0 DEF Layout
            <3>2. CASE i < E  BY <3>1, <3>2, <1>1, <1>3, <1>8
            <3>3. CASE E <= i /\ i < F  BY <3>3, <1>0, <1>2
            <3>4. CASE F <= i  BY <3>1, <3>4, <1>1, <1>3, <1>8
            <3>5. QED  BY <3>2, <3>3, <3>4, <1>1, <1>3
        <2>2. ASSUME NEW x \in B2, NEW z \in B2, Adj(B2, x, z) PROVE Marked(dk2, x, z - x)
            <3>1. CASE x = E /\ z = F  BY <3>1, <1>8
            <3>2. CASE Adj(B, x, z) /\ z <= E
                <4>1. x \in B /\ z \in B  BY <3>2 DEF Adj
                <4>2. Marked(dk, x, z - x)  BY <3>2, <4>1, <1>0 DEF Layout
                <4>3. QED  BY <3>2, <4>1, <4>2, <1>9 DEF Marked
            <3>3. QED  BY <2>2, <3>1, <3>2, <1>6
        <2>3. F \in 1 .. FileMax  BY <1>1, <1>3
        <2>4. QED  BY <2>1, <2>2, <2>3, <1>4 DEF Layout
    <1>11. y = [d_addr |-> E, d_len |-> F - E] /\ E + y.d_len = F  BY <1>0, <1>3 DEF Entries
    <1>12. ASSUME NEW x \in B2, NEW z \in B2, Adj(B2, x, z), x \notin {} \cup {0}
           PROVE  Owned(dk2, d, m, NoEntry, x, z)
        <2>1. CASE x = E /\ z = F
            <3>1. dk2[x].img.name \in Names /\ d[dk2[x].img.name] = [d_addr |-> x, d_len |-> z - x]
                BY <2>1, <1>0, <1>8, <1>11
            <3>2. QED  BY <3>1 DEF Owned
        <2>2. CASE Adj(B, x, z) /\ z <= E
            <3>1. x \in B /\ z \in B /\ x \in Nat /\ z \in Nat /\ x < z  BY <2>2, <1>1 DEF Adj
            <3>2. Owned(dk, d, m, y, x, z)  BY <2>2, <3>1, <1>0, <1>12 DEF Told
            <3>3. ~ InEntry(y, x, z)  BY <2>2, <3>1, <1>0, <1>1, <1>11 DEF InEntry
            <3>4. Owned(dk, d, m, NoEntry, x, z)  BY <3>2, <3>3 DEF Owned
            <3>5. dk2[x] = dk[x]  BY <2>2, <3>1, <1>9
            <3>6. QED  BY <3>4, <3>5 DEF Owned
        <2>3. QED  BY <1>6, <1>12, <2>1, <2>2
    <1>13. ASSUME NEW k \in Names, d[k].d_addr # Phony PROVE Stored(dk2, B2, k, d[k])
        <2>1. CASE k = t
            BY <2>1, <1>0, <1>5, <1>8, <1>11 DEF Stored
        <2>2. CASE k # t
            <3>1. Stored(dk, B, k, d[k])  BY <2>2, <1>0, <1>13 DEF Told
            <3>2. PICK x, z : x = d[k].d_addr /\ z = d[k].d_addr + d[k].d_len  OBVIOUS
            <3>3. Adj(B, x, z) /\ dk[x].img.name = k  BY <3>1, <3>2 DEF Stored
            <3>4. x \in B /\ z \in B /\ z <= E  BY <3>3, <1>1 DEF Adj
            <3>5. Adj(B2, x, z) /\ dk2[x] = dk[x]  BY <3>3, <3>4, <1>7, <1>9
            <3>6. QED  BY <3>2, <3>3, <3>5 DEF Stored
        <2>3. QED  BY <2>1, <2>2
    <1>14. OnBorders(m, B2)  BY <1>0, <1>2 DEF Told, OnBorders
    <1>15. Told(dk2, d, m, NoEntry, {}, B2, {})  BY <1>12, <1>13, <1>14 DEF Told
    <1>16. QED  BY <1>2, <1>10, <1>15

LEMMA WriteObjectLaid ==
    ASSUME IInv, Alone, FileInv, NEW u \in Users, WriteObject(u), hurt' = 0 PROVE FileInv'
    <1>1. PICK d, o, x, m, e : Held(u, d, o, x, m, e)  BY DEF Held
    <1>2. PICK img, dk2, torn : img = Image(o.name, o.size) /\ dk2 = Written(disk, x.d_addr, img, img.len)
                                /\ torn = ObjectTorn(x.d_addr, img)
        OBVIOUS
    <1>0. PICK p \in {"idle", "update"} : p = IF o.then = 0 THEN "idle" ELSE "update"  OBVIOUS
    <1>3. pc[u] = "write" /\ dir' = dir /\ freep' = freep
          /\ (WriteGoes(u, dk2, torn, p) \/ WriteFails(u, torn))
        BY <1>0, <1>1, <1>2 DEF WriteObject, Dp, Held
    <1>4. ~ WriteFails(u, torn)  BY FailsHurt
    <1>5. /\ hurt = 0 /\ disk' = dk2 /\ pc'[u] = p /\ dbi_read_only'[u] = dbi_read_only[u]
          /\ dbi_eof'[u] = dbi_eof[u] /\ op'[u] = op[u]
        BY <1>3, <1>4, GoesWell
    <1>6. Known(u, d, o, x, m, e) /\ x = d[o.name]
        <2>1. pc[u] \notin {"closed", "idle", "ident", "update"}  BY <1>3
        <2>2. QED  BY <1>1, <2>1, Amid DEF Held
    <1>7. PICK B, E : Laid(disk, d, m, e, "write", o, B, E)
        <2>1. pc[u] # "closed"  BY <1>3
        <2>2. \E B, E : Laid(disk, d, m, e, pc[u], o, B, E)  BY <1>1, <1>5, <2>1, LaidNow
        <2>3. QED  BY <2>2, <1>3
    <1>8. /\ Layout(disk, B, E, {}) /\ Told(disk, d, m, x, {o.name}, B, {})
          /\ Placed(x, e, B, E)
        <2>1. d[o.name] = x  BY <1>6
        <2>2. QED  BY <2>1, <1>7, LaidInWrite
    <1>9. /\ x.d_addr # Phony /\ o.size = x.d_len /\ o.name \in Names
        BY <1>3, <1>6 DEF Known, Underway
    <1>10. /\ DiskTyped(disk) /\ x.d_addr \in Nat /\ x.d_len \in Nat /\ x.d_len >= 1
           /\ x.d_addr + x.d_len <= e /\ e \in Nat /\ e <= FileMax /\ FileMax \in Nat /\ x \in Entries
        BY <1>6, <1>9 DEF Known
    <1>11. x.d_addr + x.d_len <= FileMax  BY <1>10
    <1>12. img = Image(o.name, x.d_len) /\ img.len = x.d_len  BY <1>2, <1>9 DEF Image
    <1>13. dk2 = Written(disk, x.d_addr, Image(o.name, x.d_len), x.d_len)  BY <1>2, <1>12
    <1>14. Wrote1(disk, dk2, x.d_addr, x.d_len, o.name)
        BY <1>10, <1>11, <1>13, ObjectDone
    <1>15. \E B2, E2 : Layout(dk2, B2, E2, {}) /\ Told(dk2, d, m, NoEntry, {}, B2, {}) /\ e = E2
        <2>1. CASE e = E /\ x.d_addr \in B /\ x.d_addr + x.d_len \in B
            <3>1. {} \subseteq {x.d_addr}  OBVIOUS
            <3>2. \E B2 : Layout(dk2, B2, E, {}) /\ Told(dk2, d, m, NoEntry, {}, B2, {})
                <4>1. Overwrites(u, d, o, x, m, e, B, E, {}, dk2, o.name)
                    BY <2>1, <3>1, <1>6, <1>8, <1>9, <1>14 DEF Overwrites
                <4>2. QED  BY <4>1, Overwritten
            <3>3. QED  BY <2>1, <3>2
        <2>2. CASE x.d_addr = E /\ e = E + x.d_len
            <3>1. \A i \in 0 .. FileMax - 1 : E <= i /\ i < E + x.d_len => dk2[i].img.len > 0
                <4>1. x.d_len <= x.d_len  BY <1>10
                <4>2. \A i \in 0 .. FileMax - 1 : x.d_addr <= i /\ i < x.d_addr + x.d_len =>
                          dk2[i].img.len = x.d_len
                    BY <4>1, <1>10, <1>11, <1>13, UnitsWritten
                <4>3. QED  BY <4>2, <2>2, <1>10
            <3>2. x \in Entries /\ x.d_addr = E  BY <2>2, <1>10
            <3>3. Wrote1(disk, dk2, E, x.d_len, o.name) /\ E + x.d_len <= FileMax  BY <2>2, <1>11, <1>14
            <3>4. x.d_len \in Nat /\ x.d_len >= 1 /\ o.name \in Names /\ x = d[o.name]
                BY <1>6, <1>9, <1>10
            <3>5. Layout(disk, B, E, {}) /\ Told(disk, d, m, x, {o.name}, B, {})  BY <1>8
            <3>6. Appends(disk, B, E, d, m, x, o.name, x.d_len, dk2)
                BY <3>1, <3>2, <3>3, <3>4, <3>5 DEF Appends
            <3>7. QED  BY <2>2, <3>6, Appended
        <2>3. QED  BY <1>8, <2>1, <2>2 DEF Placed
    <1>16. PICK B2, E2 : Laid(dk2, d, m, e, p, o, B2, E2)
        <2>1. p \notin Busy  BY DEF Busy
        <2>2. QED  BY <2>1, <1>15, LaidAtRest
    <1>17. /\ dir'[u] = d /\ freep'[u] = m /\ dbi_eof'[u] = e /\ op'[u] = o /\ dbi_read_only'[u] = FALSE
        BY <1>1, <1>3, <1>5, <1>6 DEF Held, Known
    <1>18. p # "closed"  OBVIOUS
    <1>19. QED  BY <1>5, <1>16, <1>17, <1>18, LaidNext

LEMMA SplitHoleLaid ==
    ASSUME IInv, Alone, FileInv, NEW u \in Users, SplitHole(u), hurt' = 0 PROVE FileInv'
    <1>1. PICK d, o, x, m, e : Held(u, d, o, x, m, e)  BY DEF Held
    <1>2. PICK h, b, n, dk2, m2, torn :
          /\ h \in BestFit(m, o.size)
          /\ pc[u] = "place" /\ h.m_size > o.size /\ b = h.m_addr + o.size /\ n = h.m_size - o.size
          /\ dk2 = FreeWritten(disk, b, n) /\ m2 = rt_memfree(m \ {h}, n, b)
          /\ \/ /\ WriteGoes(u, dk2, torn, "erase")
                /\ freep' = [freep EXCEPT ![u] = m2]
                /\ SetEntry(u, h.m_addr, o.size)
             \/ WriteFails(u, torn)
        <2>1. PICK h \in BestFit(m, o.size) :
              LET s == o.size  surplus == Hole(h.m_addr + s, h.m_size - s)
              IN  /\ h.m_size > s
                  /\ \/ /\ WriteGoes(u, FreeWritten(disk, surplus.m_addr, surplus.m_size),
                                        FreeTorn(surplus.m_addr, surplus.m_size), "erase")
                        /\ freep' = [freep EXCEPT ![u] =
                                         rt_memfree(m \ {h}, surplus.m_size, surplus.m_addr)]
                        /\ SetEntry(u, h.m_addr, s)
                     \/ WriteFails(u, FreeTorn(surplus.m_addr, surplus.m_size))
            BY <1>1 DEF SplitHole, Held
        <2>2. PICK b, n : b = h.m_addr + o.size /\ n = h.m_size - o.size  OBVIOUS
        <2>3. Hole(h.m_addr + o.size, h.m_size - o.size).m_addr = b
              /\ Hole(h.m_addr + o.size, h.m_size - o.size).m_size = n
            BY <2>2 DEF Hole
        <2>4. PICK dk2, m2, torn : dk2 = FreeWritten(disk, b, n) /\ m2 = rt_memfree(m \ {h}, n, b)
                                   /\ torn = FreeTorn(b, n)
            OBVIOUS
        <2>5. pc[u] = "place"  BY DEF SplitHole
        <2>6. h.m_size > o.size
              /\ \/ /\ WriteGoes(u, dk2, torn, "erase")
                    /\ freep' = [freep EXCEPT ![u] = m2]
                    /\ SetEntry(u, h.m_addr, o.size)
                 \/ WriteFails(u, torn)
            BY <2>1, <2>3, <2>4
        <2>7. QED  BY <2>1, <2>2, <2>4, <2>5, <2>6
    <1>3. ~ WriteFails(u, torn)  BY FailsHurt
    <1>4. /\ hurt = 0 /\ disk' = dk2 /\ pc'[u] = "erase" /\ dbi_read_only'[u] = dbi_read_only[u]
          /\ dbi_eof'[u] = dbi_eof[u] /\ op'[u] = op[u]
        BY <1>2, <1>3, GoesWell
    <1>5. PICK B, E : /\ Known(u, d, o, x, m, e) /\ d[o.name].d_addr = Phony
                      /\ Layout(disk, B, E, {}) /\ Told(disk, d, m, NoEntry, {}, B, {})
                      /\ e = E /\ B \in SUBSET Nat
        BY <1>1, <1>2, <1>4, PlaceIs
    <1>6. /\ Types /\ DiskTyped(disk) /\ o.name \in Names /\ dbi_read_only[u] = FALSE
          /\ d \in [Names -> Entries] /\ m \in SUBSET Spots /\ MapIn(m, e) /\ Apart(d, m)
          /\ e \in Nat /\ e <= FileMax /\ FileMax \in Nat /\ o.size \in Nat /\ o.size >= 1
        BY <1>2, <1>5 DEF Known, Underway
    <1>7. h \in m  BY <1>2 DEF BestFit, Fits
    <1>8. PICK y, dd : /\ y.d_addr = h.m_addr /\ y.d_len = o.size
                       /\ dir'[u] = dd /\ dd[o.name] = y /\ \A k \in Names \ {o.name} : dd[k] = d[k]
        BY <1>1, <1>2, <1>3, <1>6, EntryBecomes
    <1>9. PICK a, c, s : a = h.m_addr /\ c = After(h) /\ s = o.size  OBVIOUS
    <1>10. /\ h.m_addr \in Nat /\ h.m_addr >= 1 /\ h.m_size \in Nat /\ h.m_size >= 1
           /\ h.m_addr + h.m_size <= e
           /\ \A lo, hi \in Nat : h.m_addr <= lo /\ hi <= h.m_addr + h.m_size =>
                 /\ ClearOf(lo, hi, m \ {h})
                 /\ \A k \in Names : ClearOfEntry(lo, hi, d[k])
        BY <1>6, <1>7, HoleClear
    <1>11. /\ a \in Nat /\ a >= 1 /\ a # 0 /\ b \in Nat /\ c \in Nat /\ a < b /\ b < c /\ a < c /\ n \in Nat
           /\ n >= 1 /\ b + n = c /\ c - b = n /\ b - a = s /\ a + s = b /\ c <= FileMax /\ b >= 1
        BY <1>2, <1>6, <1>9, <1>10 DEF After
    <1>12. ClearOf(a, c, m \ {h}) /\ \A k \in Names : ClearOfEntry(a, c, d[k])
        <2>1. h.m_addr <= a /\ c <= h.m_addr + h.m_size /\ a \in Nat /\ c \in Nat
            BY <1>9, <1>11 DEF After
        <2>2. QED  BY <2>1, <1>10
    <1>13. a \in B /\ c \in B  BY <1>5, <1>7, <1>9 DEF Told, OnBorders
    <1>14. Wrote1(disk, dk2, b, n, "free")  BY <1>2, <1>6, <1>11, FreeDone
    <1>15. PICK B2 :
           /\ B2 \in SUBSET Nat /\ a \in B2 /\ b \in B2 /\ c \in B2
           /\ \A i \in Nat : i <= a \/ c <= i => (i \in B2 <=> i \in B)
           /\ Adj(B2, a, b) /\ Adj(B2, b, c)
           /\ \A v, z \in B2 : Adj(B2, v, z) /\ a <= v /\ z <= c => (v = a /\ z = b) \/ (v = b /\ z = c)
        <2>1. B \in SUBSET Nat /\ a \in B /\ c \in B /\ b \in Nat /\ a < b /\ b < c  BY <1>5, <1>11, <1>13
        <2>2. PICK B2 : B2 = Parted(B, a, b, c)  OBVIOUS
        <2>3. /\ B2 \in SUBSET Nat /\ a \in B2 /\ b \in B2 /\ c \in B2
              /\ \A i \in Nat : i <= a \/ c <= i => (i \in B2 <=> i \in B)
              /\ Adj(B2, a, b) /\ Adj(B2, b, c)
              /\ \A v, z \in B2 : Adj(B2, v, z) /\ a <= v /\ z <= c
                                     => (v = a /\ z = b) \/ (v = b /\ z = c)
            BY <2>1, <2>2, PartedIs
        <2>4. QED  BY <2>3, Zenon
    <1>16. Rewrites(disk, B, {}, a, c, dk2, B2, {a})
        <2>1. \A i \in 0 .. FileMax - 1 : i < a \/ c <= i => dk2[i] = disk[i]
            BY <1>11, <1>14 DEF Wrote1
        <2>2. \A i \in 0 .. FileMax - 1 : a <= i /\ i < c => dk2[i].img.len > 0 \/ dk2[i].img = disk[i].img
            <3>1. \A i \in 0 .. FileMax - 1 : i < b \/ b <= i  BY <1>11
            <3>2. QED  BY <3>1, <1>11, <1>14 DEF Wrote1
        <2>3. ASSUME NEW v \in B2, NEW z \in B2, Adj(B2, v, z), a <= v, z <= c, v \notin {a}
              PROVE  Marked(dk2, v, z - v)
            <3>1. v = b /\ z = c  BY <2>3, <1>15
            <3>2. z - v = n  BY <3>1, <1>11
            <3>3. QED  BY <3>1, <3>2, <1>14, Zenon DEF Wrote1
        <2>4. QED  BY <2>1, <2>2, <2>3, <1>11, <1>13, <1>15 DEF Rewrites
    <1>17. m \ {h} \in SUBSET Spots /\ Coalesced(m \ {h})
        BY <1>6 DEF MapIn, Coalesced
    <1>18. OnBorders(m \ {h}, B2)
        <2>1. OnBorders(m \ {h}, B)  BY <1>5 DEF Told, OnBorders
        <2>2. QED  BY <2>1, <1>11, <1>12, <1>15, <1>17, ClearBorders
    <1>19. ClearOf(b, b + n, m \ {h})
        <2>1. a <= b /\ c <= a + h.m_size  BY <1>2, <1>9, <1>10, <1>11 DEF After
        <2>2. QED  BY <2>1, <1>9, <1>10, <1>11
    <1>20. /\ \A p, q \in Int : InMap(m \ {h}, p, q) => InMap(m2, p, q)
           /\ InMap(m2, b, c)
           /\ OnBorders(m2, B2)
        <2>1. b + n \in B2 /\ b \in B2  BY <1>11, <1>15
        <2>2. /\ \A p, q \in Int : InMap(m \ {h}, p, q) => InMap(m2, p, q)
              /\ InMap(m2, b, b + n)
              /\ OnBorders(m2, B2)
            BY <2>1, <1>2, <1>11, <1>17, <1>18, <1>19, FreeCovers
        <2>3. QED  BY <2>2, <1>11
    <1>21. Retells(disk, a, c, dk2, B2, {a}, d, m, NoEntry, {}, dd, m2, y, {o.name})
        <2>1. ASSUME NEW v \in Nat, NEW z \in Nat, v < z, z <= a \/ c <= v,
                     Owned(disk, d, m, NoEntry, v, z)
              PROVE  Owned(disk, dd, m2, y, v, z)
            <3>1. ASSUME InMap(m, v, z) PROVE InMap(m2, v, z)
                <4>1. PICK g \in m : g.m_addr <= v /\ z <= After(g)  BY <3>1 DEF InMap
                <4>2. g # h
                    <5>1. ~ (h.m_addr <= v /\ z <= After(h))  BY <2>1, <1>9, <1>11
                    <5>2. QED  BY <4>1, <5>1
                <4>3. InMap(m \ {h}, v, z)  BY <4>1, <4>2 DEF InMap
                <4>4. QED  BY <4>3, <1>20
            <3>2. QED  BY <2>1, <3>1, <1>5, <1>6, <1>8, PlaceOwned
        <2>2. ASSUME NEW v \in B2, NEW z \in B2, Adj(B2, v, z), a <= v, z <= c, v \notin {a}
              PROVE  Owned(dk2, dd, m2, y, v, z)
            <3>1. v = b /\ z = c  BY <2>2, <1>15
            <3>2. QED  BY <3>1, <1>14, <1>20 DEF Owned, Wrote1
        <2>3. ASSUME NEW k \in Names \ {o.name}, dd[k].d_addr # Phony
              PROVE  /\ k \notin {} /\ dd[k] = d[k]
                     /\ d[k].d_addr + d[k].d_len <= a \/ c <= d[k].d_addr
            <3>1. d[k].d_addr # Phony /\ dd[k] = d[k]  BY <1>8, <2>3
            <3>2. QED  BY <3>1, <1>12 DEF ClearOfEntry, Clear
        <2>4. QED  BY <1>11, <1>20, <2>1, <2>2, <2>3 DEF Retells
    <1>22. Layout(dk2, B2, E, {a}) /\ Told(dk2, dd, m2, y, {o.name}, B2, {a})
        BY <1>5, <1>16, <1>21, Retold, Zenon
    <1>23. Laid(dk2, dd, m2, e, "erase", o, B2, E)
        <2>1. y = dd[o.name] /\ y.d_addr = a /\ y.d_addr + y.d_len = b  BY <1>8, <1>9, <1>11
        <2>2. Adj(B2, y.d_addr, y.d_addr + y.d_len)  BY <2>1, <1>15, Zenon
        <2>3. Layout(dk2, B2, E, {y.d_addr}) /\ Told(dk2, dd, m2, y, {o.name}, B2, {y.d_addr})
            BY <2>1, <1>22
        <2>4. Laid(dk2, dd, m2, E, "erase", o, B2, E)  BY <2>1, <2>2, <2>3, LaidToErase
        <2>5. QED  BY <2>4, <1>5
    <1>24. freep'[u] = m2 /\ dbi_eof'[u] = e /\ op'[u] = o /\ dbi_read_only'[u] = FALSE
        BY <1>1, <1>2, <1>3, <1>4, <1>6 DEF Held, Types
    <1>25. QED  BY <1>4, <1>8, <1>23, <1>24, LaidNext

-----------------------------------------------------------------------------
(* Closing and opening the file.                                           *)

LEMMA CloseLaid ==
    ASSUME IInv, Alone, FileInv, NEW u \in Users, Close(u), hurt' = 0 PROVE FileInv'
    <1>1. PICK d, o, x, m, e, p : Held(u, d, o, x, m, e) /\ p = pc[u]  BY DEF Held
    <1>2. /\ p # "closed" /\ p \notin Window /\ hurt = 0 /\ disk' = disk
          /\ pc' = [pc EXCEPT ![u] = "closed"]
          /\ dbi_read_only' = [dbi_read_only EXCEPT ![u] = FALSE]
        <2>1. hurt + 1 # 0
            <3>1. hurt \in 0 .. MaxHurt  BY Local
            <3>2. QED  BY <3>1
        <2>2. p # "closed"  BY <1>1 DEF Close
        <2>3. hurt' = IF p \in Window THEN hurt + 1 ELSE hurt  BY <1>1 DEF Close
        <2>4. p \notin Window /\ hurt = 0  BY <2>1, <2>3
        <2>5. disk' = disk /\ pc' = [pc EXCEPT ![u] = "closed"]
              /\ dbi_read_only' = [dbi_read_only EXCEPT ![u] = FALSE]
            BY DEF Close, Go
        <2>6. QED  BY <2>2, <2>4, <2>5
    <1>3. Types /\ DiskTyped(disk) /\ p \in Places  BY <1>1, Local
    <1>4. PICK B, E : Laid(disk, d, m, e, p, o, B, E)  BY <1>1, <1>2, LaidNow
    <1>5. Layout(disk, B, E, {}) /\ \E y, q : Told(disk, d, m, y, q, B, {})
        <2>1. CASE p = "write"
            BY <2>1, <1>4, LaidInWrite
        <2>2. CASE p # "write"
            <3>1. p \notin Busy  BY <2>2, <1>2 DEF Busy, Window
            <3>2. QED  BY <3>1, <1>4, LaidAtRest
        <2>3. QED  BY <2>1, <2>2
    <1>6. PICK y, q : Told(disk, d, m, y, q, B, {})  BY <1>5
    <1>7. /\ B \in SUBSET Nat /\ E \in B /\ E \in Nat /\ \A b \in B : b \in Nat /\ b <= E
        BY <1>5, Borders
    <1>8. \A a \in B \ {E} : \E b \in B : Adj(B, a, b)
        <2>1. TAKE a \in B \ {E}
        <2>2. a < E /\ a \in B  BY <1>7
        <2>3. QED  BY <2>2, <1>7, NextBorder
    <1>9. Names \cap {"free", "header"} = {} /\ disk[0].img.name = "header"
        <2>1. disk[0] = Unit(Image("header", 1), 0)  BY <1>3 DEF Types
        <2>2. disk[0].img.name = "header"  BY <2>1 DEF Unit, Image
        <2>3. QED  BY <2>2, DbAssumption
    <1>10. \A a \in B \ {0, E} : disk[a].img.name \in Names \cup {"free"}
        <2>1. TAKE a \in B \ {0, E}
        <2>2. PICK b \in B : Adj(B, a, b)  BY <1>8
        <2>3. Owned(disk, d, m, y, a, b)  BY <2>2, <1>6 DEF Told
        <2>4. QED  BY <2>3 DEF Owned
    <1>11. ASSUME NEW a \in B \ {E}, disk[a].img.name \in Names PROVE d[disk[a].img.name].d_addr = a
        <2>1. PICK b \in B : Adj(B, a, b)  BY <1>8
        <2>2. a # 0  BY <1>9, <1>11
        <2>3. Owned(disk, d, m, y, a, b)  BY <2>1, <2>2, <1>6 DEF Told
        <2>4. disk[a].img.name # "free"  BY <1>9, <1>11
        <2>5. QED  BY <2>3, <2>4 DEF Owned
    <1>12. \A a, b \in B \ {E} :
               disk[a].img.name = disk[b].img.name /\ disk[a].img.name \in Names => a = b
        BY <1>11
    <1>13. WellFormed(disk, B, E)  BY <1>5, <1>10, <1>12 DEF WellFormed
    <1>14. \E BB, EE : WellFormed(disk', BB, EE)
        <2>1. WellFormed(disk', B, E)  BY <1>2, <1>13
        <2>2. QED  BY <2>1
    <1>15. \A v \in Users : v = u  BY DEF Alone
    <1>16. pc'[u] = "closed" /\ dbi_read_only'[u] = FALSE  BY <1>2, <1>3 DEF Types
    <1>17. \A v \in Users : pc'[v] = "closed" /\ dbi_read_only'[v] = FALSE  BY <1>15, <1>16
    <1>18. QED  BY <1>14, <1>17, Zenon DEF FileInv

LEMMA DirbuildLaid ==
    ASSUME IInv, Alone, FileInv, NEW u \in Users, db_dirbuild(u), hurt' = 0 PROVE FileInv'
    <1>1. PICK d, m, o : d = [n \in Names |-> Entry(n)] /\ m = Holes /\ o = op[u]  OBVIOUS
    <1>0. PICK p \in {"idle", "ident"} :
              p = IF Global \in Names /\ Entry(Global) = NoEntry THEN "ident" ELSE "idle"
        OBVIOUS
    <1>2. Types  BY Local
    <1>3. /\ pc[u] = "closed" /\ disk' = disk /\ op' = op /\ hurt' = hurt
          /\ dir' = [dir EXCEPT ![u] = d] /\ freep' = [freep EXCEPT ![u] = m]
          /\ dbi_read_only' = [dbi_read_only EXCEPT ![u] = FALSE]
          /\ pc' = [pc EXCEPT ![u] = p]
        BY <1>0, <1>1 DEF db_dirbuild, Go
    <1>4. PICK B, E : WellFormed(disk, B, E)
        <2>1. \A v \in Users : v = u  BY DEF Alone
        <2>2. \A v \in Users : pc[v] = "closed"  BY <2>1, <1>3
        <2>3. QED  BY <2>2, <1>3 DEF FileInv
    <1>5. /\ Layout(disk, B, E, {})
          /\ \A a \in B \ {0, E} : disk[a].img.name \in Names \cup {"free"}
          /\ \A a, b \in B \ {E} :
                disk[a].img.name = disk[b].img.name /\ disk[a].img.name \in Names => a = b
        BY <1>4 DEF WellFormed
    <1>6. /\ B \in SUBSET Nat /\ 0 \in B /\ E \in B /\ E \in Nat /\ E <= FileMax /\ FileMax \in Nat
          /\ \A b \in B : b \in Nat /\ b <= E
        BY <1>5, Borders
    <1>7. /\ Chain = B \ {E} /\ StopAt = E /\ Eof = E
          /\ \A a \in Chain : Adj(B, a, NextOf(a)) /\ NextOf(a) <= E
        BY <1>2, <1>5, LayoutScan
    <1>8. dbi_eof' = [dbi_eof EXCEPT ![u] = E]
        <2>1. ~ ReadsShort(StopAt)  BY <1>6, <1>7 DEF ReadsShort
        <2>2. QED  BY <2>1, <1>7 DEF db_dirbuild
    <1>9. Names \cap {"free", "header"} = {} /\ disk[0].img.name = "header"
        <2>1. disk[0] = Unit(Image("header", 1), 0)  BY <1>2 DEF Types
        <2>2. disk[0].img.name = "header"  BY <2>1 DEF Unit, Image
        <2>3. QED  BY <2>2, DbAssumption
    <1>10. ASSUME NEW a \in B, NEW b \in B, Adj(B, a, b)
           PROVE  a \in Chain /\ NextOf(a) = b /\ a \in Nat /\ b \in Nat /\ ObjLen(a) = b - a
        <2>1. a \in Nat /\ b \in Nat /\ a < b /\ b <= E  BY <1>6, <1>10 DEF Adj
        <2>2. a \in Chain  BY <2>1, <1>6, <1>7
        <2>3. Adj(B, a, NextOf(a))  BY <2>2, <1>7
        <2>4. NextOf(a) = b
            <3>1. PICK n : n = NextOf(a)  OBVIOUS
            <3>2. n \in B /\ a < n /\ (b <= a \/ n <= b) /\ (n <= a \/ b <= n)
                BY <2>3, <3>1, <1>10 DEF Adj
            <3>3. n \in Nat  BY <3>2, <1>6
            <3>4. QED  BY <2>1, <3>1, <3>2, <3>3
        <2>5. Marked(disk, a, b - a)  BY <1>5, <1>10 DEF Layout
        <2>6. ObjLen(a) = b - a  BY <2>5 DEF Marked, ObjLen
        <2>7. QED  BY <2>1, <2>2, <2>4, <2>6
    <1>11. CoveredAt(FileMax, B)
        <2>1. FileMax \in 0 .. FileMax  BY <1>6
        <2>2. QED  BY <2>1, <1>2, <1>5, HolesCover
    <1>12. OnBorders(m, B) /\ \A z \in Found("free") : InMap(m, z, NextOf(z))
        <2>1. OnBorders(m, B)  BY <1>1, <1>11 DEF CoveredAt, Holes
        <2>2. \A z \in Found("free") : z < FileMax  BY <1>6, <1>7 DEF Found
        <2>3. QED  BY <2>1, <2>2, <1>1, <1>11 DEF CoveredAt, Holes
    <1>13. ASSUME NEW a \in B, NEW b \in B, Adj(B, a, b), a \notin {} \cup {0}
           PROVE  Owned(disk, d, m, NoEntry, a, b)
        <2>1. a \in Chain /\ NextOf(a) = b /\ ObjLen(a) = b - a  BY <1>10, <1>13
        <2>2. CASE disk[a].img.name = "free"
            <3>1. a \in Found("free")  BY <2>1, <2>2 DEF Found
            <3>2. InMap(m, a, b)  BY <2>1, <3>1, <1>12
            <3>3. QED  BY <2>2, <3>2 DEF Owned
        <2>3. CASE disk[a].img.name # "free"
            <3>1. PICK n : n = disk[a].img.name  OBVIOUS
            <3>2. n \in Names  BY <2>1, <2>3, <3>1, <1>5, <1>7, <1>13
            <3>3. a \in Found(n)  BY <2>1, <3>1 DEF Found
            <3>4. Entry(n) # NoEntry
                <4>1. Found(n) \in SUBSET Nat /\ Found(n) # {}  BY <3>3, <1>6, <1>7 DEF Found
                <4>2. Min(Found(n)) \in Found(n)  BY <4>1, MinOf
                <4>3. Entry(n).d_addr = Min(Found(n))  BY <4>1 DEF Entry
                <4>4. Min(Found(n)) \in Nat  BY <4>1, <4>2
                <4>5. QED  BY <4>3, <4>4 DEF NoEntry, Phony
            <3>5. PICK z \in Chain : disk[z].img.name = n /\ Entry(n) = [d_addr |-> z, d_len |-> ObjLen(z)]
                BY <3>2, <3>4, <1>2, EntryIs
            <3>6. z = a  BY <2>1, <3>1, <3>2, <3>5, <1>5, <1>7
            <3>7. d[n] = [d_addr |-> a, d_len |-> b - a]  BY <2>1, <3>2, <3>5, <3>6, <1>1
            <3>8. QED  BY <3>1, <3>2, <3>7 DEF Owned
        <2>4. QED  BY <2>2, <2>3
    <1>14. ASSUME NEW n \in Names, d[n].d_addr # Phony PROVE Stored(disk, B, n, d[n])
        <2>1. Entry(n) = d[n] /\ Entry(n) # NoEntry
            <3>1. Entry(n) = d[n]  BY <1>1
            <3>2. QED  BY <3>1, <1>14 DEF NoEntry
        <2>2. PICK z \in Chain : disk[z].img.name = n /\ d[n] = [d_addr |-> z, d_len |-> ObjLen(z)]
            BY <2>1, <1>2, EntryIs
        <2>3. Adj(B, z, NextOf(z))  BY <1>7
        <2>4. d[n].d_addr = z /\ d[n].d_addr + d[n].d_len = NextOf(z)  BY <2>2 DEF NextOf
        <2>5. QED  BY <2>2, <2>3, <2>4 DEF Stored
    <1>15. Told(disk, d, m, NoEntry, {}, B, {})  BY <1>12, <1>13, <1>14 DEF Told
    <1>16. Laid(disk, d, m, E, p, o, B, E) /\ p # "closed"
        <2>1. p \notin Busy  BY DEF Busy
        <2>2. QED  BY <2>1, <1>5, <1>15, LaidAtRest
    <1>17. /\ dir'[u] = d /\ freep'[u] = m /\ dbi_eof'[u] = E /\ pc'[u] = p /\ op'[u] = o
           /\ dbi_read_only'[u] = FALSE
        BY <1>1, <1>2, <1>3, <1>8 DEF Types
    <1>18. QED  BY <1>3, <1>16, <1>17, LaidNext

-----------------------------------------------------------------------------
(* The invariant, and what it says.                                        *)

LEMMA InitFileInv == Init => FileInv
    <1> SUFFICES ASSUME Init PROVE FileInv  OBVIOUS
    <1>1. FileMax \in Nat /\ FileMax >= 1  BY DbAssumption
    <1>2. PICK B : B = {0, 1}  OBVIOUS
    <1>3. Zero.img.len = 0 /\ Unit(Image("header", 1), 0).img = Image("header", 1)
          /\ Unit(Image("header", 1), 0).at = 0 /\ Unit(Image("header", 1), 0).end
          /\ Image("header", 1).len = 1 /\ Image("header", 1).name = "header"
        <2>1. PICK img : img = Image("header", 1)  OBVIOUS
        <2>2. img.len = 1 /\ img.name = "header"  BY <2>1 DEF Image
        <2>3. Zero.img.len = 0  BY DEF Zero, Unit, Image
        <2>4. \A i, j : Unit(i, j).img = i /\ Unit(i, j).at = j /\ Unit(i, j).end = (j = i.len - 1)
            BY Zenon DEF Unit
        <2>5. PICK j : j = 0  OBVIOUS
        <2>6. Unit(img, j).img = img /\ Unit(img, j).at = j /\ Unit(img, j).end = (j = img.len - 1)
            BY <2>4
        <2>7. j = img.len - 1  BY <2>2, <2>5
        <2>8. Unit(img, j).end  BY <2>6, <2>7, Zenon
        <2>9. Unit(img, j) = Unit(Image("header", 1), 0)  BY <2>1, <2>5, Zenon
        <2>10. Unit(Image("header", 1), 0).img = Image("header", 1) /\ Unit(Image("header", 1), 0).at = 0
            BY <2>1, <2>5, <2>6, <2>9, Zenon
        <2>11. Unit(Image("header", 1), 0).end  BY <2>8, <2>9, Zenon
        <2>12. Image("header", 1).len = 1 /\ Image("header", 1).name = "header"  BY <2>1, <2>2
        <2>13. QED  BY <2>3, <2>10, <2>11, <2>12
    <1>4. /\ disk[0] = Unit(Image("header", 1), 0)
          /\ \A i \in 0 .. FileMax - 1 : i # 0 => disk[i] = Zero
        BY <1>1 DEF Init
    <1>5. Layout(disk, B, 1, {})
        <2>1. 1 \in 1 .. FileMax /\ B \subseteq 0 .. 1 /\ 0 \in B /\ 1 \in B  BY <1>1, <1>2
        <2>2. ASSUME NEW i \in 0 .. FileMax - 1
              PROVE  IF i < 1 THEN disk[i].img.len > 0 ELSE disk[i] = Zero
            <3>1. CASE i = 0  BY <3>1, <1>3, <1>4
            <3>2. CASE i # 0  BY <3>2, <1>1, <1>4
            <3>3. QED  BY <3>1, <3>2
        <2>3. ASSUME NEW a \in B, NEW b \in B, Adj(B, a, b) PROVE Marked(disk, a, b - a)
            <3>1. a = 0 /\ b = 1  BY <1>2, <2>3 DEF Adj
            <3>2. disk[0].at = 0 /\ disk[0].img.len = 1 /\ disk[0].end  BY <1>3, <1>4
            <3>3. 1 - 0 = 1 /\ 0 + 1 - 1 = 0  OBVIOUS
            <3>4. QED  BY <3>1, <3>2, <3>3 DEF Marked
        <2>4. QED  BY <2>1, <2>2, <2>3 DEF Layout
    <1>6. WellFormed(disk, B, 1)
        <2>1. \A a \in B \ {0, 1} : disk[a].img.name \in Names \cup {"free"}  BY <1>2
        <2>2. \A a \in B \ {1} : a = 0  BY <1>2
        <2>3. QED  BY <2>1, <2>2, <1>5 DEF WellFormed
    <1>7. \A u \in Users : dbi_read_only[u] = FALSE /\ pc[u] = "closed"  BY DEF Init
    <1>8. \E BB, EE : WellFormed(disk, BB, EE)  BY <1>6
    <1>9. QED  BY <1>7, <1>8 DEF FileInv

LEMMA StepKeepsFileInv == Alone /\ IInv /\ FileInv /\ [Next]_vars => FileInv'
    <1> SUFFICES ASSUME Alone, IInv, FileInv, [Next]_vars PROVE FileInv'  OBVIOUS
    <1>1. CASE hurt' # 0  BY <1>1 DEF FileInv
    <1>2. CASE UNCHANGED vars
        BY <1>2 DEF vars, FileInv
    <1>3. ASSUME hurt' = 0, NEW u \in Users, db_dirbuild(u) PROVE FileInv'  BY <1>3, DirbuildLaid
    <1>4. ASSUME hurt' = 0, NEW u \in Users, Realloc(u) PROVE FileInv'
        BY <1>4, ShrinkFrontLaid, ShrinkBackLaid, ReleaseLaid, ExtendLaid, TakeHoleLaid, SplitHoleLaid,
           EraseFrontLaid DEF Realloc
    <1>5. ASSUME hurt' = 0, NEW u \in Users, WriteObject(u) PROVE FileInv'  BY <1>5, WriteObjectLaid
    <1>6. ASSUME hurt' = 0, NEW u \in Users, db_delete(u) PROVE FileInv'  BY <1>6, DeleteLaid
    <1>7. ASSUME hurt' = 0, NEW u \in Users, Close(u) PROVE FileInv'  BY <1>7, CloseLaid
    <1>8. ASSUME hurt' = 0, NEW u \in Users, NEW n \in Names, kill(u, n) PROVE FileInv'  BY <1>8, KillLaid
    <1>9. ASSUME hurt' = 0, NEW u \in Users, NEW n \in Names, NEW s \in Sizes, db_put_external5(u, n, s)
          PROVE  FileInv'
        BY <1>9, UserPutLaid
    <1>10. ASSUME hurt' = 0, NEW u \in Users, db5_update_ident(u) PROVE FileInv'  BY <1>10, IdentLaid
    <1>11. QED  BY <1>1, <1>2, <1>3, <1>4, <1>5, <1>6, <1>7, <1>8, <1>9, <1>10 DEF Next

(* The file of a process that works alone is cut into pieces that the      *)
(* process has in its directory or its map, at every step of db5_realloc,  *)
(* db_put_external5 and db_delete, until a write is cut short.             *)
THEOREM FileInvariant ==
    ASSUME Alone PROVE Spec => [](IInv /\ FileInv)
    <1>1. Init => IInv /\ FileInv  BY InitIInv, InitFileInv
    <1>2. IInv /\ FileInv /\ [Next]_vars => (IInv /\ FileInv)'  BY StepKeepsIInv, StepKeepsFileInv
    <1>3. QED  BY <1>1, <1>2, PTL DEF Spec

-----------------------------------------------------------------------------
(* What the invariant says of the file.                                    *)

LEMMA Opens ==
    ASSUME IInv, FileInv PROVE OnlyWindowsHurt
    <1> SUFFICES ASSUME hurt = 0, \A u \in Users : pc[u] \notin Window PROVE Walkable
        BY DEF OnlyWindowsHurt
    <1>1. \E B, E : Layout(disk, B, E, {})
        <2>1. CASE \A u \in Users : pc[u] = "closed"
            <3>1. PICK B, E : WellFormed(disk, B, E)  BY <2>1 DEF FileInv
            <3>2. QED  BY <3>1 DEF WellFormed
        <2>2. ASSUME NEW u \in Users, pc[u] # "closed" PROVE \E B, E : Layout(disk, B, E, {})
            <3>1. PICK d, m, e, p, o : /\ d = dir[u] /\ m = freep[u] /\ e = dbi_eof[u]
                                       /\ p = pc[u] /\ o = op[u]
                OBVIOUS
            <3>2. PICK B, E : Laid(disk, d, m, e, p, o, B, E)  BY <2>2, <3>1 DEF FileInv
            <3>3. CASE p = "write"
                <4>1. Laid(disk, d, m, e, "write", o, B, E)  BY <3>2, <3>3
                <4>2. Layout(disk, B, E, {})  BY <4>1, LaidInWrite
                <4>3. QED  BY <4>2
            <3>4. CASE p # "write"
                <4>1. p \notin Busy  BY <3>1, <3>4 DEF Busy, Window
                <4>2. Layout(disk, B, E, {})  BY <3>2, <4>1, LaidAtRest
                <4>3. QED  BY <4>2
            <3>5. QED  BY <3>3, <3>4
        <2>3. QED  BY <2>1, <2>2
    <1>2. PICK B, E : Layout(disk, B, E, {})  BY <1>1
    <1>3. StopAt = E /\ Eof = E  BY <1>2, LayoutScan DEF IInv
    <1>4. QED  BY <1>3 DEF Walkable

LEMMA Matches ==
    ASSUME IInv, FileInv, hurt = 0 PROVE TablesMatchFile
    <1> SUFFICES ASSUME NEW u \in Users, NEW p \in Resting, pc[u] = p, dbi_read_only[u] = FALSE
                 PROVE  /\ Walkable /\ dbi_eof[u] = Eof
                        /\ \A n \in Names : dir[u][n] = Entry(n)
                        /\ UnitsOf(freep[u]) = UNION {a .. a + disk[a].img.len - 1 : a \in Found("free")}
                        /\ Coalesced(freep[u])
        <2>1. \A u \in Users : dbi_read_only[u] \in BOOLEAN  BY DEF IInv, Types
        <2>2. QED  BY <2>1 DEF TablesMatchFile
    <1>1. PICK d, m, e, o : d = dir[u] /\ m = freep[u] /\ e = dbi_eof[u] /\ o = op[u]  OBVIOUS
    <1>2. Types /\ d \in [Names -> Entries] /\ m \in SUBSET Spots /\ Sane(d, m, e, FALSE, p, o)
        BY <1>1, Local DEF SaneOf
    <1>3. PICK B, E : Laid(disk, d, m, e, p, o, B, E)  BY <1>1 DEF FileInv, Resting
    <1>4. Layout(disk, B, E, {}) /\ Told(disk, d, m, NoEntry, {}, B, {}) /\ e = E
        <2>1. p \notin Busy  BY DEF Busy, Resting
        <2>2. QED  BY <1>3, <2>1, LaidAtRest
    <1>5. /\ B \in SUBSET Nat /\ 0 \in B /\ E \in B /\ E \in Nat /\ E <= FileMax /\ FileMax \in Nat
          /\ \A b \in B : b \in Nat /\ b <= E
        BY <1>4, Borders
    <1>6. /\ Chain = B \ {E} /\ StopAt = E /\ Eof = E
          /\ \A a \in Chain : Adj(B, a, NextOf(a))
        BY <1>2, <1>4, LayoutScan
    <1>7. /\ \A a, b \in B : Adj(B, a, b) /\ a # 0 => Owned(disk, d, m, NoEntry, a, b)
          /\ \A n \in Names : d[n].d_addr # Phony => Stored(disk, B, n, d[n])
          /\ OnBorders(m, B)
        BY <1>4 DEF Told
    <1>8. Names \cap {"free", "header"} = {} /\ disk[0].img.name = "header"
        <2>1. disk[0] = Unit(Image("header", 1), 0)  BY <1>2 DEF Types
        <2>2. disk[0].img.name = "header"  BY <2>1 DEF Unit, Image
        <2>3. QED  BY <2>2, DbAssumption
    <1>9. ASSUME NEW a \in Chain, disk[a].img.name # "header"
          PROVE  /\ a \in B /\ NextOf(a) \in B /\ a \in Nat /\ NextOf(a) \in Nat /\ a < NextOf(a)
                 /\ NextOf(a) = a + disk[a].img.len /\ disk[a].img.len \in Nat
                 /\ Owned(disk, d, m, NoEntry, a, NextOf(a))
        <2>1. Adj(B, a, NextOf(a)) /\ a # 0  BY <1>6, <1>8, <1>9
        <2>2. a \in B /\ NextOf(a) \in B /\ a < NextOf(a)  BY <2>1 DEF Adj
        <2>3. NextOf(a) = a + disk[a].img.len  BY DEF NextOf, ObjLen
        <2>4. ObjLen(a) \in 1 .. FileMax  BY <1>2, ChainIs
        <2>5. disk[a].img.len \in Nat  BY <2>4, <1>5 DEF ObjLen
        <2>6. QED  BY <2>1, <2>2, <2>3, <2>5, <1>5, <1>7
    <1>10. ASSUME NEW n \in Names PROVE d[n] = Entry(n)
        <2>1. n # "free" /\ n # "header"  BY <1>8
        <2>2. CASE Entry(n) = NoEntry
            <3>1. ASSUME d[n].d_addr # Phony PROVE FALSE
                <4>1. Stored(disk, B, n, d[n])  BY <3>1, <1>7
                <4>2. PICK z : z = d[n].d_addr  OBVIOUS
                <4>3. disk[z].img.name = n /\ \E b \in B : Adj(B, z, b)
                    BY <4>1, <4>2 DEF Stored, Adj
                <4>4. z \in Chain  BY <4>3, <1>5, <1>6 DEF Adj
                <4>5. Found(n) \in SUBSET Nat /\ Found(n) # {}  BY <4>3, <4>4, <1>5, <1>6 DEF Found
                <4>6. Min(Found(n)) \in Nat  BY <4>5, MinOf
                <4>7. Entry(n).d_addr = Min(Found(n))  BY <4>5 DEF Entry
                <4>8. QED  BY <2>2, <4>6, <4>7 DEF NoEntry, Phony
            <3>2. d[n].d_len = 0  BY <1>2, <3>1 DEF Sane, Resting
            <3>3. d[n] \in Entries  BY <1>2
            <3>4. d[n] = [d_addr |-> Phony, d_len |-> 0]  BY <3>1, <3>2, <3>3 DEF Entries
            <3>5. QED  BY <2>2, <3>4 DEF NoEntry
        <2>3. CASE Entry(n) # NoEntry
            <3>1. PICK z \in Chain : disk[z].img.name = n /\ Entry(n) = [d_addr |-> z, d_len |-> ObjLen(z)]
                BY <2>3, <1>2, EntryIs
            <3>2. /\ Owned(disk, d, m, NoEntry, z, NextOf(z)) /\ z \in Nat
                  /\ NextOf(z) = z + disk[z].img.len /\ disk[z].img.len \in Nat
                BY <2>1, <3>1, <1>9
            <3>3. d[n] = [d_addr |-> z, d_len |-> NextOf(z) - z]  BY <2>1, <3>1, <3>2 DEF Owned
            <3>4. NextOf(z) - z = ObjLen(z)  BY <3>2 DEF ObjLen
            <3>5. QED  BY <3>1, <3>3, <3>4
        <2>4. QED  BY <2>2, <2>3
    <1>11. MapIn(m, e) /\ Apart(d, m)  BY <1>2 DEF Sane
    <1>12. \A h \in m : /\ h.m_addr \in Nat /\ h.m_addr >= 1 /\ h.m_size \in Nat
                        /\ After(h) = h.m_addr + h.m_size /\ h.m_addr \in B /\ After(h) \in B
        BY <1>7, <1>11 DEF MapIn, Spots, OnBorders, After
    <1>13. ASSUME NEW h \in m, NEW i \in h.m_addr .. After(h) - 1
           PROVE  \E a \in Found("free") : i \in a .. a + disk[a].img.len - 1
        <2>1. i \in Nat /\ h.m_addr <= i /\ i < After(h) /\ h.m_addr \in B /\ After(h) \in B
              /\ h.m_addr \in Nat /\ h.m_addr >= 1
            BY <1>12
        <2>2. PICK a \in B, b \in B : Adj(B, a, b) /\ a <= i /\ i < b /\ h.m_addr <= a /\ b <= After(h)
            BY <2>1, <1>5, PieceOf
        <2>3. a \in Nat /\ b \in Nat /\ a < b /\ b <= E  BY <2>2, <1>5 DEF Adj
        <2>4. Owned(disk, d, m, NoEntry, a, b)
            <3>1. a # 0  BY <2>1, <2>2, <2>3
            <3>2. QED  BY <2>2, <3>1, <1>7
        <2>5. ASSUME NEW n \in Names, d[n] = [d_addr |-> a, d_len |-> b - a] PROVE FALSE
            <3>1. d[n].d_addr = a /\ d[n].d_len = b - a /\ a # Phony /\ a + (b - a) = b
                BY <2>3, <2>5 DEF Phony
            <3>2. ClearOf(d[n].d_addr, d[n].d_addr + d[n].d_len, m)  BY <3>1, <1>11 DEF Apart
            <3>3. h.m_addr + h.m_size <= a \/ b <= h.m_addr  BY <3>1, <3>2 DEF ClearOf, Clear
            <3>4. QED  BY <3>3, <2>1, <2>2, <2>3, <1>12
        <2>6. disk[a].img.name = "free"  BY <2>4, <2>5 DEF Owned
        <2>7. disk[a].img.len = b - a  BY <2>2, <1>4 DEF Layout, Marked
        <2>8. a \in Chain  BY <2>3, <1>6
        <2>9. a \in Found("free")  BY <2>6, <2>8 DEF Found
        <2>10. i \in a .. a + disk[a].img.len - 1  BY <2>1, <2>2, <2>3, <2>7
        <2>11. QED  BY <2>9, <2>10
    <1>14. ASSUME NEW a \in Found("free"), NEW i \in a .. a + disk[a].img.len - 1
           PROVE  \E h \in m : i \in h.m_addr .. After(h) - 1
        <2>1. a \in Chain /\ disk[a].img.name = "free"  BY DEF Found
        <2>2. PICK b : b = NextOf(a)  OBVIOUS
        <2>3. /\ a \in Nat /\ b \in Nat /\ a < b /\ b = a + disk[a].img.len /\ disk[a].img.len \in Nat
              /\ Owned(disk, d, m, NoEntry, a, b)
            BY <2>1, <2>2, <1>9
        <2>4. ~ InEntry(NoEntry, a, b)  BY <2>3 DEF InEntry, NoEntry, Phony
        <2>5. InMap(m, a, b)  BY <2>1, <2>3, <2>4, <1>8 DEF Owned
        <2>6. PICK h \in m : h.m_addr <= a /\ b <= After(h)  BY <2>5 DEF InMap
        <2>7. h.m_addr \in Nat /\ After(h) \in Nat  BY <1>5, <1>12
        <2>8. i \in h.m_addr .. After(h) - 1  BY <2>3, <2>6, <2>7
        <2>9. QED  BY <2>8
    <1>15. UnitsOf(m) = UNION {a .. a + disk[a].img.len - 1 : a \in Found("free")}
        <2>1. PICK S : S = UNION {a .. a + disk[a].img.len - 1 : a \in Found("free")}  OBVIOUS
        <2>2. \A i : i \in S <=> \E a \in Found("free") : i \in a .. a + disk[a].img.len - 1  BY <2>1
        <2>3. \A i : i \in UnitsOf(m) <=> \E h \in m : i \in h.m_addr .. After(h) - 1  BY DEF UnitsOf
        <2>4. \A i : i \in UnitsOf(m) => i \in S
            <3>1. TAKE i
            <3>2. HAVE i \in UnitsOf(m)
            <3>3. PICK h \in m : i \in h.m_addr .. After(h) - 1  BY <3>2, <2>3
            <3>4. QED  BY <3>3, <2>2, <1>13
        <2>5. \A i : i \in S => i \in UnitsOf(m)
            <3>1. TAKE i
            <3>2. HAVE i \in S
            <3>3. PICK a \in Found("free") : i \in a .. a + disk[a].img.len - 1  BY <3>2, <2>2
            <3>4. QED  BY <3>3, <2>3, <1>14
        <2>6. UnitsOf(m) = S  BY <2>4, <2>5
        <2>7. QED  BY <2>1, <2>6
    <1>16. Walkable  BY <1>6 DEF Walkable
    <1>17. Coalesced(m)  BY <1>11 DEF MapIn
    <1>18. QED  BY <1>1, <1>4, <1>6, <1>10, <1>15, <1>16, <1>17

(* The process may die at any step but the two of Window, and the file can *)
(* be opened: the order of the writes of db5_realloc, for one process that *)
(* works alone, whatever it puts, deletes and leaves unfinished.           *)
THEOREM DiesAnywhere ==
    ASSUME Alone PROVE Spec => []OnlyWindowsHurt
    <1>1. IInv /\ FileInv => OnlyWindowsHurt  BY Opens
    <1>2. Spec => [](IInv /\ FileInv)  BY FileInvariant
    <1>3. QED  BY <1>1, <1>2, PTL

(* As long as no write failed and no process died between the two writes   *)
(* that cut a piece in two, the directory and the map are what opening the *)
(* file again would build, for one process that works alone.               *)
THEOREM TablesStayTrue ==
    ASSUME Alone PROVE Spec => [](hurt = 0 => TablesMatchFile)
    <1>1. IInv /\ FileInv => (hurt = 0 => TablesMatchFile)  BY Matches
    <1>2. Spec => [](IInv /\ FileInv)  BY FileInvariant
    <1>3. QED  BY <1>1, <1>2, PTL
=============================================================================
