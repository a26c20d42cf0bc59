------------------------------- MODULE MemMap -------------------------------
(***************************************************************************)
(* Resource maps (src/librt/memalloc.c): the free storage of a database    *)
(* file as a list of holes.  The list is kept in ascending order, so that  *)
(* here it is the set of its elements, and "the first" is the lowest.      *)
(***************************************************************************)
EXTENDS Integers

Hole(addr, size) == [m_addr |-> addr, m_size |-> size]

After(h) == h.m_addr + h.m_size

UnitsOf(map) == UNION {h.m_addr .. After(h) - 1 : h \in map}

(* prevp and curp of rt_memfree as sets of at most one hole: the last hole *)
(* that begins at or below addr, and the first that begins above it.       *)
PrevOf(map, addr) == {h \in map : /\ h.m_addr <= addr
                                  /\ \A g \in map : g.m_addr <= addr => g.m_addr <= h.m_addr}
CurOf(map, addr) == {h \in map : /\ h.m_addr > addr
                                 /\ \A g \in map : g.m_addr > addr => g.m_addr >= h.m_addr}

(* M_BOVFL, M_TOVFL: the range reaches into a hole.                        *)
Overflows(map, size, addr) == \/ \E h \in PrevOf(map, addr) : After(h) > addr
                              \/ \E h \in CurOf(map, addr) : addr + size > h.m_addr

(* rt_memfree: a range that touches the hole below or above is merged with *)
(* it (M_BMTCH, M_TMTCH), one that overlaps a hole is refused.             *)
rt_memfree_Mutant(map, size, addr) ==
    LET bottom == {h \in PrevOf(map, addr) : After(h) = addr}
        top    == {h \in CurOf(map, addr) : h.m_addr = addr + size}
        start  == IF bottom = {} THEN addr ELSE (CHOOSE h \in bottom : TRUE).m_addr
        stop   == IF top = {} \/ bottom # {} THEN addr + size ELSE After(CHOOSE h \in top : TRUE)
    IN  IF size = 0 \/ Overflows(map, size, addr)
        THEN map
        ELSE (map \ (bottom \cup top)) \cup {Hole(start, stop - start)}

rt_memfree(map, size, addr) ==
    LET bottom == {h \in PrevOf(map, addr) : After(h) = addr}
        top    == {h \in CurOf(map, addr) : h.m_addr = addr + size}
        start  == IF bottom = {} THEN addr ELSE (CHOOSE h \in bottom : TRUE).m_addr
        stop   == IF top = {} THEN addr + size ELSE After(CHOOSE h \in top : TRUE)
    IN  IF size = 0 \/ Overflows(map, size, addr)
        THEN map
        ELSE (map \ (bottom \cup top)) \cup {Hole(start, stop - start)}

(* rt_memalloc_nosplit: the smallest hole that is large enough, the lowest *)
(* of several; none when there is none.  The caller takes it off the map.  *)
Fits(map, size) == {h \in map : h.m_size >= size}

BestFit(map, size) ==
    {h \in Fits(map, size) :
        \A g \in Fits(map, size) : \/ h.m_size < g.m_size
                                   \/ h.m_size = g.m_size /\ h.m_addr <= g.m_addr}

(* What every map is: nonempty holes, any two with something between them. *)
Coalesced(map) ==
    /\ \A h \in map : h.m_size > 0
    /\ \A h, g \in map : h = g \/ After(h) < g.m_addr \/ After(g) < h.m_addr
=============================================================================
