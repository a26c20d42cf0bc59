------------------------------- MODULE DbFile -------------------------------
(***************************************************************************)
(* A version 5 geometry database file and the processes that write it      *)
(* (src/librt: db5_scan.c, db5_alloc.c, db_alloc.c, db5_io.c, db_io.c).    *)
(* The file is a chain of objects, free ones among them; each process      *)
(* keeps a directory and a map of the holes, built when it opens the file. *)
(* Addresses and lengths count units of 8 bytes, which every object is a   *)
(* multiple of.  A step ends at a write to the file, so that a process may *)
(* die, or another one write, between any two writes.  Dying in the middle *)
(* of a write, or between the two of a large free object, leaves what a    *)
(* write that fails leaves, and is counted as one.                         *)
(***************************************************************************)
EXTENDS MemMap, FiniteSets, FiniteSetsExt

CONSTANTS
    Users,      \* processes that have the file open for writing
    Names,      \* names of objects
    Sizes,      \* lengths objects may have
    Global,     \* the object _GLOBAL; none of Names if nobody ever deletes it
    EmptyGlobal, FullGlobal,    \* its lengths before and after its attributes
    FileMax,    \* bound: units the file may grow to
    WholeFree,  \* longest free object written whole, 8192 bytes in the code
    Faults,     \* "write": a write to the file may fail
                \* "flush": it may fail where db_write does not look
                \* "crash": a process may die in the middle of an operation
    MaxHurt,    \* bound: failed writes, and deaths that leave a broken chain
    Garbage     \* what units that begin no object may read as: "fatal", "short"

ASSUME DbAssumption ==
    /\ Sizes \subseteq Nat \ {0} /\ FileMax \in Nat \ {0}
    /\ WholeFree \in Nat \ {0} /\ MaxHurt \in Nat
    /\ Faults \subseteq {"write", "flush", "crash"} /\ Garbage \subseteq {"fatal", "short"}
    /\ Names \cap {"free", "header", "zero"} = {}
    /\ EmptyGlobal \in Sizes /\ FullGlobal \in Sizes

VARIABLES
    disk,           \* the file, one record per unit
    dir,            \* per user and name: d_addr and d_len of its directory entry
    freep,          \* per user: the map dbi_freep
    dbi_eof,        \* per user: where it believes the file ends
    dbi_read_only,  \* per user
    pc,             \* per user: what it does next
    op,             \* per user: the put or delete it does, or did last
    hurt            \* how many writes failed, or deaths left a broken chain

vars == <<disk, dir, freep, dbi_eof, dbi_read_only, pc, op, hurt>>

-----------------------------------------------------------------------------
(* The file.  A unit tells which image it belongs to, its place in it, and *)
(* whether its last byte is the magic number that ends an object.          *)

Image(n, len) == [name |-> n, len |-> len]
Unit(img, k) == [img |-> img, at |-> k, end |-> k = img.len - 1]
Zero == Unit(Image("zero", 0), 0)

Phony == -1         \* RT_DIR_PHONY_ADDR
NoEntry == [d_addr |-> Phony, d_len |-> 0]
NoOp == [name |-> "none", size |-> 0, old |-> 0, then |-> 0]

(* The first k units of an image written at a.                             *)
Written(d, a, img, k) ==
    [i \in DOMAIN d |-> IF i \in a .. a + k - 1 THEN Unit(img, i - a) ELSE d[i]]

(* db5_write_free.  A large free object is written as its header of two    *)
(* units and, in a second write, the byte that ends it.                    *)
FreeWritten(d, a, n) ==
    IF n <= WholeFree
    THEN Written(d, a, Image("free", n), n)
    ELSE [Written(d, a, Image("free", n), 2) EXCEPT ![a + n - 1].end = TRUE]

(* What a db5_write_free or db_write that fails may leave in the file.     *)
FreeTorn(a, n) == {Written(disk, a, Image("free", n), k) :
                       k \in IF n <= WholeFree THEN 0 .. n - 1 ELSE 0 .. 2}
ObjectTorn(a, img) == {Written(disk, a, img, k) : k \in 0 .. img.len - 1}

Eof == 1 + Max({i \in DOMAIN disk : disk[i] # Zero})

(* db5_get_raw_internal_fp finds an object at a: a header, a length that   *)
(* stays in the file, the end magic where the length says.                 *)
Readable(a) ==
    /\ a < Eof /\ disk[a].img.len > 0 /\ disk[a].at = 0
    /\ a + disk[a].img.len <= Eof
    /\ disk[a + disk[a].img.len - 1].end

(* db5_scan: the addresses it visits from a on, and where it stops.        *)
ScanFrom[a \in 0 .. FileMax] ==
    IF Readable(a) THEN {a} \cup ScanFrom[a + disk[a].img.len] ELSE {}

Chain == ScanFrom[0]
StopAt == Max({a + disk[a].img.len : a \in Chain})

Walkable == StopAt = Eof

(* A length of less than a header makes db5_get_raw_internal_fp return -1, *)
(* which db5_scan takes for the end of the file.  crack_disk_header never  *)
(* fails, so the magic number that begins an object is not tested.         *)
ReadsShort(a) ==
    /\ a < Eof
    /\ \/ disk[a].img.len = 0
       \/ disk[a].at # 0 /\ "short" \in Garbage

Found(n) == {a \in Chain : disk[a].img.name = n}
Entry(n) == IF Found(n) = {} THEN NoEntry
            ELSE [d_addr |-> Min(Found(n)), d_len |-> disk[Min(Found(n))].img.len]

(* The map when the scan has come to a: free objects go to it one by one.  *)
HolesBelow[a \in 0 .. FileMax] ==
    CASE a = 0 -> {}
      [] a > 0 /\ a - 1 \in Found("free") ->
             rt_memfree(HolesBelow[a - 1], disk[a - 1].img.len, a - 1)
      [] OTHER -> HolesBelow[a - 1]

Holes == HolesBelow[FileMax]

-----------------------------------------------------------------------------
Init ==
    /\ disk = [i \in 0 .. FileMax - 1 |-> IF i = 0 THEN Unit(Image("header", 1), 0) ELSE Zero]
    /\ dir = [u \in Users |-> [n \in Names |-> NoEntry]]
    /\ freep = [u \in Users |-> {}]
    /\ dbi_eof = [u \in Users |-> 0]
    /\ dbi_read_only = [u \in Users |-> FALSE]
    /\ pc = [u \in Users |-> "closed"]
    /\ op = [u \in Users |-> NoOp]
    /\ hurt = 0

Go(u, next) == pc' = [pc EXCEPT ![u] = next]
SetEntry(u, a, n) == dir' = [dir EXCEPT ![u][op[u].name] = [d_addr |-> a, d_len |-> n]]
Dp(u) == dir[u][op[u].name]

(* A process that has the file open and is not in the middle of a put or a *)
(* delete: it waits for its user, or is about to do one of the two puts of *)
(* db5_update_ident.                                                       *)
Resting == {"idle", "ident", "update"}

(* db_open for writing and db_dirbuild.  When the scan fails the caller    *)
(* gives up, and there is no step.  A missing _GLOBAL is made anew.        *)
db_dirbuild(u) ==
    /\ pc[u] = "closed"
    /\ \/ Walkable /\ dbi_eof' = [dbi_eof EXCEPT ![u] = Eof]
       \/ ReadsShort(StopAt) /\ dbi_eof' = [dbi_eof EXCEPT ![u] = StopAt + 1]
    /\ dir' = [dir EXCEPT ![u] = [n \in Names |-> Entry(n)]]
    /\ freep' = [freep EXCEPT ![u] = Holes]
    /\ dbi_read_only' = [dbi_read_only EXCEPT ![u] = FALSE]
    /\ Go(u, IF Global \in Names /\ Entry(Global) = NoEntry THEN "ident" ELSE "idle")
    /\ UNCHANGED <<disk, op, hurt>>

(* db_put_external5 of s units, and the choice db5_realloc makes by the    *)
(* old and the new length; a put of "then" units follows, or none (0).     *)
Put_Mutant(u, n, s, then) ==
    LET dp == dir[u][n]
    IN  /\ op' = [op EXCEPT ![u] = [name |-> n, size |-> s, old |-> dp.d_len, then |-> then]]
        /\ Go(u, CASE dp.d_addr = Phony -> "place"
                   [] s = dp.d_len -> "write"
                   [] OTHER -> "shrink")
        /\ UNCHANGED <<disk, dir, freep, dbi_eof, dbi_read_only, hurt>>

Put(u, n, s, then) ==
    LET dp == dir[u][n]
    IN  /\ op' = [op EXCEPT ![u] = [name |-> n, size |-> s, old |-> dp.d_len, then |-> then]]
        /\ Go(u, CASE dp.d_len = s /\ dp.d_addr # Phony -> "write"
                   [] s < dp.d_len -> "shrink"
                   [] s > dp.d_len /\ dp.d_addr # Phony -> "release"
                   [] OTHER -> "place")
        /\ UNCHANGED <<disk, dir, freep, dbi_eof, dbi_read_only, hurt>>

(* wdb_export_external: the user stores an object.                         *)
db_put_external5(u, n, s) ==
    /\ pc[u] = "idle" /\ ~dbi_read_only[u]
    /\ Put(u, n, s, 0)

(* db5_update_ident puts a _GLOBAL without attributes first, then, if that *)
(* succeeds, the same with them (db5_update_attributes).                   *)
db5_update_ident(u) ==
    /\ Global \in Names
    /\ \/ pc[u] = "ident" /\ Put(u, Global, EmptyGlobal, FullGlobal)
       \/ pc[u] = "update" /\ Put(u, Global, op[u].then, 0)

(* A write fails: the file is forced read-only and the operation ends.     *)
WriteFails_Mutant(u, torn) ==
    /\ "write" \in Faults /\ hurt < MaxHurt
    /\ disk' \in torn
    /\ hurt' = hurt + 1
    /\ Go(u, "idle")
    /\ UNCHANGED <<dbi_read_only, dbi_eof, op>>

WriteFails(u, torn) ==
    /\ "write" \in Faults /\ hurt < MaxHurt
    /\ disk' \in torn
    /\ dbi_read_only' = [dbi_read_only EXCEPT ![u] = TRUE]
    /\ hurt' = hurt + 1
    /\ Go(u, "idle")
    /\ UNCHANGED <<dbi_eof, op>>

(* db_write looks at what fwrite returns and not at what fflush does: when *)
(* it is the flush that fails, the program goes on as if it had not.       *)
WriteGoes(u, d, torn, next) ==
    /\ \/ disk' = d /\ UNCHANGED hurt
       \/ "flush" \in Faults /\ hurt < MaxHurt /\ disk' \in torn /\ hurt' = hurt + 1
    /\ Go(u, next)
    /\ UNCHANGED <<dbi_read_only, dbi_eof, op>>

(* db5_realloc, an object getting smaller: free objects for both pieces,   *)
(* the front first; then the back goes to the map.                         *)
ShrinkFront(u) ==
    LET a == Dp(u).d_addr  s == op[u].size
    IN  /\ pc[u] = "shrink"
        /\ SetEntry(u, a, s)
        /\ \/ WriteGoes(u, FreeWritten(disk, a, s), FreeTorn(a, s), "shrink back")
           \/ WriteFails(u, FreeTorn(a, s))
        /\ UNCHANGED freep

ShrinkBack_Mutant(u) ==
    LET a == Dp(u).d_addr  s == op[u].size  rest == op[u].old - s
    IN  /\ pc[u] = "shrink back"
        /\ freep' = [freep EXCEPT ![u] = rt_memfree(@, rest, a + s)]
        /\ WriteGoes(u, disk, {}, "write")
        /\ UNCHANGED dir

ShrinkBack(u) ==
    LET a == Dp(u).d_addr  s == op[u].size  rest == op[u].old - s
    IN  /\ pc[u] = "shrink back"
        /\ \/ /\ WriteGoes(u, FreeWritten(disk, a + s, rest), FreeTorn(a + s, rest), "write")
              /\ freep' = [freep EXCEPT ![u] = rt_memfree(@, rest, a + s)]
              /\ UNCHANGED dir
           \/ /\ WriteFails(u, FreeTorn(a + s, rest))
              /\ SetEntry(u, a + s, rest)
              /\ UNCHANGED freep

(* An object getting larger: its storage goes to the map, then is marked   *)
(* free in the file.                                                       *)
Release(u) ==
    LET dp == Dp(u)
    IN  /\ pc[u] = "release"
        /\ freep' = [freep EXCEPT ![u] = rt_memfree(@, dp.d_len, dp.d_addr)]
        /\ \/ /\ WriteGoes(u, FreeWritten(disk, dp.d_addr, dp.d_len),
                              FreeTorn(dp.d_addr, dp.d_len), "place")
              /\ SetEntry(u, Phony, dp.d_len)
           \/ /\ WriteFails(u, FreeTorn(dp.d_addr, dp.d_len))
              /\ UNCHANGED dir

(* No hole is large enough: extend the file, on paper.                     *)
Extend_Mutant(u) ==
    /\ pc[u] = "place"
    /\ BestFit(freep[u], op[u].size) = {}
    /\ dbi_eof[u] + op[u].size <= FileMax
    /\ SetEntry(u, dbi_eof[u], op[u].size)
    /\ Go(u, "write")
    /\ UNCHANGED <<disk, freep, dbi_eof, dbi_read_only, op, hurt>>

Extend(u) ==
    /\ pc[u] = "place"
    /\ BestFit(freep[u], op[u].size) = {}
    /\ dbi_eof[u] + op[u].size <= FileMax
    /\ SetEntry(u, dbi_eof[u], op[u].size)
    /\ dbi_eof' = [dbi_eof EXCEPT ![u] = @ + op[u].size]
    /\ Go(u, "write")
    /\ UNCHANGED <<disk, freep, dbi_read_only, op, hurt>>

(* A hole of exactly the length is taken as it is.                         *)
TakeHole(u) ==
    /\ pc[u] = "place"
    /\ \E h \in BestFit(freep[u], op[u].size) :
          /\ h.m_size = op[u].size
          /\ SetEntry(u, h.m_addr, h.m_size)
          /\ freep' = [freep EXCEPT ![u] = @ \ {h}]
    /\ Go(u, "write")
    /\ UNCHANGED <<disk, dbi_eof, dbi_read_only, op, hurt>>

(* Of a larger hole the end is marked free and thrown back, then the front *)
(* is marked free.                                                         *)
SplitHole(u) ==
    /\ pc[u] = "place"
    /\ \E h \in BestFit(freep[u], op[u].size) :
          LET s == op[u].size  surplus == Hole(h.m_addr + s, h.m_size - s)
          IN  /\ h.m_size > s
              /\ \/ /\ WriteGoes(u, FreeWritten(disk, surplus.m_addr, surplus.m_size),
                                    FreeTorn(surplus.m_addr, surplus.m_size), "erase")
                    /\ freep' = [freep EXCEPT ![u] =
                                     rt_memfree(@ \ {h}, surplus.m_size, surplus.m_addr)]
                    /\ SetEntry(u, h.m_addr, s)
                 \/ /\ WriteFails(u, FreeTorn(surplus.m_addr, surplus.m_size))
                    /\ freep' = [freep EXCEPT ![u] = @ \ {h}]
                    /\ SetEntry(u, surplus.m_addr, surplus.m_size)

EraseFront(u) ==
    /\ pc[u] = "erase"
    /\ \/ WriteGoes(u, FreeWritten(disk, Dp(u).d_addr, Dp(u).d_len),
                    FreeTorn(Dp(u).d_addr, Dp(u).d_len), "write")
       \/ WriteFails(u, FreeTorn(Dp(u).d_addr, Dp(u).d_len))
    /\ UNCHANGED <<dir, freep>>

(* db_put_external5 goes on: the object itself.                            *)
WriteObject(u) ==
    LET img == Image(op[u].name, op[u].size)
    IN  /\ pc[u] = "write"
        /\ \/ WriteGoes(u, Written(disk, Dp(u).d_addr, img, img.len),
                        ObjectTorn(Dp(u).d_addr, img),
                        IF op[u].then = 0 THEN "idle" ELSE "update")
           \/ WriteFails(u, ObjectTorn(Dp(u).d_addr, img))
        /\ UNCHANGED <<dir, freep>>

(* ged_kill: an entry that was never stored is left alone (is_phony).      *)
kill(u, n) ==
    /\ pc[u] = "idle" /\ ~dbi_read_only[u]
    /\ dir[u][n].d_addr # Phony
    /\ op' = [op EXCEPT ![u] = [NoOp EXCEPT !.name = n, !.old = dir[u][n].d_len]]
    /\ Go(u, "delete")
    /\ UNCHANGED <<disk, dir, freep, dbi_eof, dbi_read_only, hurt>>

(* db_delete, and db_dirdelete of the entry when it succeeds.              *)
db_delete(u) ==
    LET dp == Dp(u)
    IN  /\ pc[u] = "delete"
        /\ \/ WriteGoes(u, FreeWritten(disk, dp.d_addr, dp.d_len),
                        FreeTorn(dp.d_addr, dp.d_len), "idle")
           \/ WriteFails(u, FreeTorn(dp.d_addr, dp.d_len))
        /\ freep' = [freep EXCEPT ![u] = rt_memfree(@, dp.d_len, dp.d_addr)]
        /\ SetEntry(u, Phony, 0)

(* The states in which the file is no chain of objects: the front of a     *)
(* shrunken object is marked and the back is not, or the end of a hole is  *)
(* marked that was two free objects in the file.                           *)
Window == {"shrink back", "erase"}

(* db_close, or the death of the process.                                  *)
Close(u) ==
    /\ pc[u] = "idle" \/ (pc[u] # "closed" /\ "crash" \in Faults)
    /\ hurt' = IF pc[u] \in Window THEN hurt + 1 ELSE hurt
    /\ hurt' <= MaxHurt
    /\ dir' = [dir EXCEPT ![u] = [n \in Names |-> NoEntry]]
    /\ freep' = [freep EXCEPT ![u] = {}]
    /\ dbi_eof' = [dbi_eof EXCEPT ![u] = 0]
    /\ dbi_read_only' = [dbi_read_only EXCEPT ![u] = FALSE]
    /\ op' = [op EXCEPT ![u] = NoOp]
    /\ Go(u, "closed")
    /\ UNCHANGED disk

Realloc(u) == \/ ShrinkFront(u) \/ ShrinkBack(u) \/ Release(u) \/ Extend(u)
              \/ TakeHole(u) \/ SplitHole(u) \/ EraseFront(u)

Next == \E u \in Users :
            \/ db_dirbuild(u) \/ db5_update_ident(u)
            \/ Realloc(u) \/ WriteObject(u) \/ db_delete(u) \/ Close(u)
            \/ \E n \in Names : kill(u, n) \/ \E s \in Sizes : db_put_external5(u, n, s)

Spec == Init /\ [][Next]_vars

-----------------------------------------------------------------------------
(* Properties.                                                             *)

Images == [name : Names \cup {"free", "header", "zero"}, len : 0 .. FileMax]

TypeOK ==
    /\ disk \in [0 .. FileMax - 1 -> [img : Images, at : 0 .. FileMax, end : BOOLEAN]]
    /\ dir \in [Users -> [Names -> [d_addr : -1 .. FileMax, d_len : 0 .. FileMax]]]
    /\ \A u \in Users : freep[u] \subseteq [m_addr : 1 .. FileMax, m_size : 1 .. FileMax]
    /\ dbi_eof \in [Users -> 0 .. FileMax]
    /\ dbi_read_only \in [Users -> BOOLEAN]
    /\ pc \in [Users -> {"closed", "idle", "ident", "update", "shrink", "shrink back",
                          "release", "place", "erase", "write", "delete"}]
    /\ op \in [Users -> [name : Names \cup {"none"}, size : Sizes \cup {0},
                          old : 0 .. FileMax, then : Sizes \cup {0}]]
    /\ hurt \in 0 .. MaxHurt

(* Between operations, what a process has in memory is what it would build *)
(* by opening the file again: the file is walked to its end, the directory *)
(* finds every object, and the map has every free unit, merged.  (Every    *)
(* path of db5_realloc and db_delete; rt_memfree's merging.)               *)
TablesMatchFile ==
    \A u \in Users : pc[u] \in Resting /\ ~dbi_read_only[u] =>
        /\ Walkable /\ dbi_eof[u] = Eof
        /\ \A n \in Names : dir[u][n] = Entry(n)
        /\ UnitsOf(freep[u]) = UNION {a .. a + disk[a].img.len - 1 : a \in Found("free")}
        /\ Coalesced(freep[u])

(* The units an object is, or will be, stored in.                          *)
Extent(e) == IF e.d_addr = Phony THEN {} ELSE e.d_addr .. e.d_addr + e.d_len - 1

(* While a process may still write, no unit belongs to two objects, or to  *)
(* an object and to the map, or is past the end, at any step of moving an  *)
(* object either; only the storage just given up is in both.  (db5_realloc *)
(* changes the map before the write that can fail: a failed write must end *)
(* all writing.)                                                           *)
SpaceOwnedOnce ==
    \A u \in Users : ~dbi_read_only[u] =>
        /\ \A n \in Names : Extent(dir[u][n]) \subseteq 1 .. dbi_eof[u] - 1
        /\ \A m, n \in Names : m # n => Extent(dir[u][m]) \cap Extent(dir[u][n]) = {}
        /\ \A n \in Names : Extent(dir[u][n]) \cap UnitsOf(freep[u]) = {}
        /\ UnitsOf(freep[u]) \subseteq 1 .. dbi_eof[u] - 1

(* Unless a write is cut short, a process may die at any step but the two  *)
(* of Window and leave a file that can be opened.  (The order of the       *)
(* writes in db5_realloc.)                                                 *)
OnlyWindowsHurt == hurt = 0 /\ (\A u \in Users : pc[u] \notin Window) => Walkable

(* The objects that are whole in the file, wherever they are.              *)
Whole(n) == {a \in DOMAIN disk :
                /\ disk[a].img.name = n
                /\ a + disk[a].img.len <= FileMax
                /\ \A k \in 0 .. disk[a].img.len - 1 : disk[a + k] = Unit(disk[a].img, k)}

Table == INSTANCE ObjectTable WITH
    Values <- Sizes, Gone <- 0, Nobody <- NoOp,
    table <- [n \in Names |-> IF Whole(n) = {} THEN 0 ELSE disk[Min(Whole(n))].img.len],
    busy <- [u \in Users |-> IF pc[u] \in {"closed"} \cup Resting THEN NoOp
                             ELSE [name |-> op[u].name, value |-> op[u].size]]

(* The file implements a table of objects: whatever fails or dies, only    *)
(* the object being put can be lost, and nothing else is ever written      *)
(* over.  (db5_realloc, db_write, db_delete, db5_scan together.)           *)
KeepsObjects == Table!Spec
=============================================================================
