------------------------------ MODULE ObjCache ------------------------------
(***************************************************************************)
(* The cache of prepared objects (src/librt/cache.c): a directory that     *)
(* ray tracers running at the same time share.  Under objects/ is one file *)
(* per object, named by a hash of its geometry, and beside it a file       *)
(* "format" with the version of the layout.  A process opens the cache for *)
(* a call of rt_gettrees, its threads load or store what they prepare, and *)
(* then it closes it.  There is no lock between processes.                 *)
(***************************************************************************)
EXTENDS Integers, FiniteSets

CONSTANTS
    Procs, Workers,     \* processes and their threads
    Nobody,             \* no thread
    ProcOf,             \* the process of a thread
    Names,              \* objects, by the hash that names them
    Work,               \* per thread: the objects it comes to prepare
    Size,               \* bytes of an object's file
    Starts,             \* contents of the format file to begin with
    MaxOpens,           \* bound, per process: how often it opens the cache
    Faults,             \* "noticed": a store fails; "short": a write fails, and
                        \* nobody notices; "kept": a deletion fails; "crash"
    MaxHurt             \* bound: such faults

ASSUME ObjCacheAssumption ==
    /\ Nobody \notin Workers /\ Names # {}
    /\ ProcOf \in [Workers -> Procs] /\ Work \in [Workers -> SUBSET Names]
    /\ Size \in Nat \ {0} /\ MaxOpens \in [Procs -> Nat] /\ MaxHurt \in Nat
    /\ Starts \subseteq {"none", "zero", "old", "cur"}
    /\ Faults \subseteq {"noticed", "short", "kept", "crash"}

VARIABLES
    format,     \* the format file: "zero" is version 0, "old" 1 or 2, "cur" CACHE_FORMAT
    file,       \* per name: its file under objects/
    tmp,        \* per thread: its temporary file
    proc,       \* per process: where rt_cache_open, rt_gettrees or rt_cache_close is
    entry_hash, \* per process: what it has read, by name
    sem,        \* per process: the thread that holds cache->semaphore
    wk,         \* per thread: where it is in rt_cache_prep
    skipped,    \* per process: names it prepared and could not store
    swept,      \* names whose files an upgrade deleted, or wanted to
    stuck,      \* those of them whose files would not go
    torn,       \* names whose file lost bytes that nobody missed
    hurt

vars == <<format, file, tmp, proc, entry_hash, sem, wk, skipped, swept, stuck, torn, hurt>>
files == <<format, file, tmp>>
memory == <<entry_hash, sem>>
history == <<skipped, swept, stuck, torn, hurt>>

-----------------------------------------------------------------------------
(* A file under objects/: its length, and the layout it was written for.   *)
NoFile == [len |-> -1, ver |-> "cur"]
Whole == [len |-> Size, ver |-> "cur"]
Old == [len |-> Size, ver |-> "old"]
Exists(f) == f # NoFile

IdleWorker(left) == [pc |-> "idle", name |-> CHOOSE n \in Names : TRUE, why |-> "load",
                     left |-> left, size |-> 0, final |-> 0, checkpnt |-> 0, cnt |-> 0]
NewProc(opens) == [pc |-> "out", opens |-> opens, again |-> FALSE,
                   read_only |-> FALSE, todo |-> {}, found |-> {}]

Init ==
    /\ format \in Starts
    /\ file \in IF format \in {"none", "zero"} THEN {[n \in Names |-> NoFile]}
                ELSE [Names -> {NoFile, IF format = "old" THEN Old ELSE Whole}]
    /\ tmp = [w \in Workers |-> NoFile]
    /\ proc = [p \in Procs |-> NewProc(0)]
    /\ entry_hash = [p \in Procs |-> [n \in Names |-> NoFile]]
    /\ sem = [p \in Procs |-> Nobody]
    /\ wk = [w \in Workers |-> IdleWorker({})]
    /\ skipped = [p \in Procs |-> {}]
    /\ swept = {} /\ stuck = {} /\ torn = {} /\ hurt = 0

ThreadsOf(p) == {w \in Workers : ProcOf[w] = p}
At(p, pc) == proc[p].pc = pc
Step(p, pc) == proc' = [proc EXCEPT ![p].pc = pc]

-----------------------------------------------------------------------------
(* rt_cache_open, for a process's first frame or the next.                 *)

Open(p) ==
    /\ proc[p].pc \in {"out", "closed", "did without"} /\ proc[p].opens < MaxOpens[p]
    /\ proc' = [proc EXCEPT ![p] = [NewProc(@.opens + 1) EXCEPT !.pc = "init"]]
    /\ skipped' = [skipped EXCEPT ![p] = {}]
    /\ UNCHANGED <<files, memory, wk, swept, stuck, torn, hurt>>

(* cache_init: a format file that is not there is touched, opened for      *)
(* writing, which empties it, and written when it is closed.               *)
cache_init(p) ==
    /\ \/ /\ At(p, "init")
          /\ Step(p, IF format = "none" THEN "touch" ELSE "read")
          /\ UNCHANGED format
       \/ /\ At(p, "touch")
          /\ format' = IF format = "none" THEN "empty" ELSE format
          /\ Step(p, "truncate")
       \/ /\ At(p, "truncate") /\ format # "none"
          /\ format' = "empty"
          /\ Step(p, "write")
       \/ /\ At(p, "truncate") /\ format = "none"
          /\ proc' = [proc EXCEPT ![p].pc = "read", ![p].read_only = TRUE]
          /\ UNCHANGED format
       \/ /\ At(p, "write")
          /\ format' = "cur"
          /\ Step(p, "read")
       \/ /\ At(p, "write to deleted")
          /\ proc' = [proc EXCEPT ![p].pc = "read", ![p].read_only = format = "none"]
          /\ UNCHANGED format
    /\ UNCHANGED <<file, tmp, memory, wk, history>>

(* cache_format and what follows from it: the cache is open, it is         *)
(* disabled, or it has to be emptied first.                                *)
Begin(p) ==
    /\ Step(p, "run")
    /\ wk' = [w \in Workers |-> IF ProcOf[w] = p THEN IdleWorker(Work[w]) ELSE wk[w]]

cache_format(p) ==
    /\ At(p, "read")
    /\ \/ format = "cur" /\ Begin(p)
       \/ /\ \/ format \in {"none", "empty"}
             \/ format \in {"zero", "old"} /\ proc[p].again
          /\ Step(p, "disabled")
          /\ UNCHANGED wk
       \/ /\ format = "zero" /\ ~proc[p].again
          /\ Step(p, "delete")
          /\ UNCHANGED wk
       \/ /\ format = "old" /\ ~proc[p].again
          /\ Step(p, "list")
          /\ UNCHANGED wk
    /\ UNCHANGED <<files, memory, history>>

(* Version 1 or 2.  The directories under objects/ are listed, some of     *)
(* which may be empty; then the files in one at a time are, ...            *)
ListDirs(p) ==
    /\ At(p, "list")
    /\ \E dirs \in SUBSET Names :
          /\ \A n \in Names : Exists(file[n]) => n \in dirs
          /\ proc' = [proc EXCEPT ![p].pc = "sweep", ![p].todo = dirs, ![p].found = {}]
    /\ UNCHANGED <<files, memory, wk, history>>

ListFiles(p) ==
    /\ At(p, "sweep") /\ proc[p].found = {}
    /\ \E dir \in SUBSET proc[p].todo \ {{}} :
          proc' = [proc EXCEPT ![p].todo = @ \ dir,
                               ![p].found = {n \in dir : Exists(file[n])}]
    /\ UNCHANGED <<files, memory, wk, history>>

MayHurt(kind) == kind \in Faults /\ hurt < MaxHurt /\ hurt' = hurt + 1

(* ... and deleted, whosoever's they are; that one is not is not noticed;  *)
Sweep(p, n) ==
    /\ At(p, "sweep") /\ n \in proc[p].found
    /\ \/ file' = [file EXCEPT ![n] = NoFile] /\ UNCHANGED <<stuck, hurt>>
       \/ stuck' = stuck \union {n} /\ MayHurt("kept") /\ UNCHANGED file
    /\ swept' = swept \union {n}
    /\ proc' = [proc EXCEPT ![p].found = @ \ {n}]
    /\ UNCHANGED <<format, tmp, memory, wk, skipped, torn>>

(* then the format file is, and the format is looked up again.  For        *)
(* version 0 the cache is initialized again first.  Another process may    *)
(* have that file open to write it.                                        *)
Swept_Mutant(p) == At(p, "sweep")

Swept(p) == At(p, "sweep") /\ proc[p].todo = {} /\ proc[p].found = {}

DeleteFormat(p) ==
    /\ Swept(p) \/ At(p, "delete")
    /\ format' = "none"
    /\ proc' = [q \in Procs |->
                  IF q = p
                  THEN [proc[p] EXCEPT !.pc = IF At(p, "sweep") THEN "read" ELSE "init",
                                       !.again = TRUE]
                  ELSE IF At(q, "write") THEN [proc[q] EXCEPT !.pc = "write to deleted"]
                  ELSE proc[q]]
    /\ UNCHANGED <<file, tmp, memory, wk, history>>

(* The format file would not go.                                           *)
FormatKept(p) ==
    /\ Swept(p) \/ At(p, "delete")
    /\ MayHurt("kept")
    /\ proc' = [proc EXCEPT ![p].pc = IF @ = "sweep" THEN "read" ELSE "disabled",
                            ![p].again = TRUE]
    /\ UNCHANGED <<files, memory, wk, skipped, swept, stuck, torn>>

(* rt_cache_close, after the threads have come back.  With the cache       *)
(* disabled the objects are prepared without it.                           *)
rt_cache_close(p) ==
    /\ \/ At(p, "disabled")
       \/ At(p, "run") /\ \A w \in ThreadsOf(p) : wk[w].pc = "idle" /\ wk[w].left = {}
    /\ Step(p, IF At(p, "run") THEN "closed" ELSE "did without")
    /\ entry_hash' = [entry_hash EXCEPT ![p] = [n \in Names |-> NoFile]]
    /\ UNCHANGED <<files, sem, wk, history>>

-----------------------------------------------------------------------------
(* rt_cache_prep, by a thread.                                             *)

Active(w, pc) == At(ProcOf[w], "run") /\ wk[w].pc = pc
Go(w, pc) == wk' = [wk EXCEPT ![w].pc = pc]
Done_Mutant(w) == wk' = [wk EXCEPT ![w] = IdleWorker(@.left)]

Done(w) == wk' = [wk EXCEPT ![w] = IdleWorker(@.left \ {@.name})]

GiveUp(w) ==
    /\ Done(w)
    /\ skipped' = [skipped EXCEPT ![ProcOf[w]] = @ \union {wk[w].name}]

(* cache_read_entry is through, for cache_try_load or at the end of        *)
(* cache_try_store.  An entry is used unless its version or its decoding   *)
(* is refused; without one the object is prepared, and stored if it may    *)
(* be.                                                                     *)
Prepare(w) ==
    \/ /\ ~proc[ProcOf[w]].read_only
       /\ Go(w, "create") /\ UNCHANGED skipped
    \/ /\ proc[ProcOf[w]].read_only
       /\ GiveUp(w)

Found(w, entry) ==
    \/ Done(w) /\ UNCHANGED skipped
    \/ wk[w].why = "load" /\ entry # Whole /\ Prepare(w)

NotFound(w) == IF wk[w].why = "load" THEN Prepare(w) ELSE GiveUp(w)

Release(w) == sem' = [sem EXCEPT ![ProcOf[w]] = Nobody]

(* cache_read_entry.  For a file without bytes it returns with the         *)
(* semaphore held.                                                         *)
Acquire(w, name, why) ==
    LET p == ProcOf[w]
        entry == entry_hash[p][name]
    IN  /\ sem[p] = Nobody
        /\ \/ /\ Exists(entry)
              /\ wk' = [wk EXCEPT ![w].name = name, ![w].pc = "found", ![w].why = why]
              /\ UNCHANGED sem
           \/ /\ ~Exists(entry)
              /\ sem' = [sem EXCEPT ![p] = w]
              /\ wk' = [wk EXCEPT ![w].name = name, ![w].pc = "exists", ![w].why = why]
        /\ UNCHANGED <<files, proc, entry_hash, history>>

rt_cache_prep(w) == Active(w, "idle") /\ \E name \in wk[w].left : Acquire(w, name, "load")

ReadBack(w) == Active(w, "acquire") /\ Acquire(w, wk[w].name, "store")

ReadEntry_Mutant(w) ==
    LET f == file[wk[w].name]
    IN  \/ /\ Active(w, "found")
           /\ Found(w, entry_hash[ProcOf[w]][wk[w].name]) /\ UNCHANGED memory
        \/ Active(w, "exists") /\ Exists(f) /\ Go(w, "size") /\ UNCHANGED <<memory, skipped>>
        \/ /\ Active(w, "exists") /\ ~Exists(f)
           /\ NotFound(w) /\ UNCHANGED memory
        \/ /\ Active(w, "size") /\ f.len > 0
           /\ wk' = [wk EXCEPT ![w].pc = "map", ![w].size = f.len]
           /\ UNCHANGED <<memory, skipped>>
        \/ Active(w, "size") /\ f.len <= 0 /\ NotFound(w) /\ UNCHANGED memory
        \/ /\ Active(w, "map") /\ f.len = wk[w].size
           /\ entry_hash' = [entry_hash EXCEPT ![ProcOf[w]][wk[w].name] = f]
           /\ Release(w) /\ Found(w, f)
        \/ /\ Active(w, "map") /\ f.len # wk[w].size
           /\ Release(w) /\ NotFound(w) /\ UNCHANGED entry_hash

ReadEntry(w) ==
    LET f == file[wk[w].name]
    IN  \/ /\ Active(w, "found")
           /\ Found(w, entry_hash[ProcOf[w]][wk[w].name]) /\ UNCHANGED memory
        \/ Active(w, "exists") /\ Exists(f) /\ Go(w, "size") /\ UNCHANGED <<memory, skipped>>
        \/ /\ Active(w, "exists") /\ ~Exists(f)
           /\ Release(w) /\ NotFound(w) /\ UNCHANGED entry_hash
        \/ /\ Active(w, "size") /\ f.len > 0
           /\ wk' = [wk EXCEPT ![w].pc = "map", ![w].size = f.len]
           /\ UNCHANGED <<memory, skipped>>
        \/ Active(w, "size") /\ f.len <= 0 /\ NotFound(w) /\ UNCHANGED memory
        \/ /\ Active(w, "map") /\ f.len = wk[w].size
           /\ entry_hash' = [entry_hash EXCEPT ![ProcOf[w]][wk[w].name] = f]
           /\ Release(w) /\ Found(w, f)
        \/ /\ Active(w, "map") /\ f.len # wk[w].size
           /\ Release(w) /\ NotFound(w) /\ UNCHANGED entry_hash

cache_read_entry(w) == ReadEntry(w) /\ UNCHANGED <<files, proc, swept, stuck, torn, hurt>>

-----------------------------------------------------------------------------
(* cache_try_store.                                                        *)

(* The object is prepared, serialized and written to a temporary file, in  *)
(* a directory that a process emptying the cache may delete at that        *)
(* moment.  Any of it may fail; but of a failed write only fwrite tells:   *)
(* the bytes it buffered may be lost by fclose, of which nobody looks at   *)
(* the result.                                                             *)
WriteTmp_Mutant(w) ==
    /\ Active(w, "create")
    /\ file' = [file EXCEPT ![wk[w].name] = [Whole EXCEPT !.len = 1]]
    /\ tmp' = [tmp EXCEPT ![w] = Whole]
    /\ Go(w, "rename")
    /\ UNCHANGED <<format, proc, memory, history>>

WriteTmp(w) ==
    /\ Active(w, "create")
    /\ \/ /\ tmp' = [tmp EXCEPT ![w] = Whole]
          /\ Go(w, "beaten") /\ UNCHANGED <<skipped, torn, hurt>>
       \/ /\ \E p \in Procs : At(p, "sweep")
          /\ GiveUp(w) /\ UNCHANGED <<tmp, torn, hurt>>
       \/ /\ MayHurt("noticed")
          /\ GiveUp(w) /\ UNCHANGED <<tmp, torn>>
       \/ /\ MayHurt("short")
          /\ \E len \in 0 .. Size - 1 : tmp' = [tmp EXCEPT ![w] = [Whole EXCEPT !.len = len]]
          /\ torn' = torn \union {wk[w].name}
          /\ Go(w, "beaten") /\ UNCHANGED skipped
    /\ UNCHANGED <<format, file, proc, memory, swept, stuck>>

(* When the file is there already, its size is looked at until it is that  *)
(* of the temporary file, or has stopped growing, or for the third time.   *)
Settled(w) ==
    \/ tmp[w].len = wk[w].final
    \/ wk[w].final <= wk[w].checkpnt
    \/ wk[w].cnt >= 3

Beaten(w) ==
    LET f == file[wk[w].name]
    IN  /\ \/ /\ Active(w, "beaten")
              /\ IF Exists(f) THEN Go(w, "compare") ELSE Go(w, "rename")
           \/ /\ Active(w, "compare")
              /\ wk' = [wk EXCEPT ![w].final = f.len, ![w].pc = "wait"]
           \/ /\ Active(w, "wait") /\ ~Settled(w)
              /\ wk' = [wk EXCEPT ![w].checkpnt = wk[w].final, ![w].final = f.len,
                                  ![w].cnt = @ + 1]
        /\ UNCHANGED <<files, proc, memory, history>>

(* Somebody else's file stays, and the temporary one goes.                 *)
KeepOther_Mutant(w) ==
    /\ Active(w, "wait") /\ Settled(w)
    /\ IF tmp[w].len = wk[w].final
       THEN /\ tmp' = [tmp EXCEPT ![w] = NoFile]
            /\ wk' = [wk EXCEPT ![w].pc = "acquire", ![w].why = "store"]
            /\ UNCHANGED skipped
       ELSE GiveUp(w) /\ UNCHANGED tmp
    /\ UNCHANGED <<format, file, proc, memory, swept, stuck, torn, hurt>>

KeepOther(w) ==
    LET same == tmp[w].len = wk[w].final
    IN  /\ Active(w, "wait") /\ Settled(w)
        /\ tmp' = [tmp EXCEPT ![w] = NoFile]
        /\ \/ /\ same
              /\ wk' = [wk EXCEPT ![w].pc = "acquire", ![w].why = "store"]
              /\ UNCHANGED skipped
           \/ ~same /\ GiveUp(w)
        /\ UNCHANGED <<format, file, proc, memory, swept, stuck, torn, hurt>>

(* rename(): whatever has got the name in the meantime is replaced.  When  *)
(* it fails the temporary file goes.                                       *)
Rename_Mutant(w) ==
    /\ Active(w, "rename")
    /\ IF Exists(file[wk[w].name])
       THEN /\ file' = [file EXCEPT ![wk[w].name] = NoFile]
            /\ UNCHANGED <<tmp, wk>>
       ELSE /\ file' = [file EXCEPT ![wk[w].name] = tmp[w]]
            /\ tmp' = [tmp EXCEPT ![w] = NoFile]
            /\ wk' = [wk EXCEPT ![w].pc = "acquire", ![w].why = "store"]
    /\ UNCHANGED <<format, proc, memory, history>>

Rename(w) ==
    /\ Active(w, "rename")
    /\ tmp' = [tmp EXCEPT ![w] = NoFile]
    /\ \/ /\ file' = [file EXCEPT ![wk[w].name] = tmp[w]]
          /\ wk' = [wk EXCEPT ![w].pc = "acquire", ![w].why = "store"]
          /\ UNCHANGED <<skipped, hurt>>
       \/ GiveUp(w) /\ MayHurt("noticed") /\ UNCHANGED file
    /\ UNCHANGED <<format, proc, memory, swept, stuck, torn>>

-----------------------------------------------------------------------------
(* A process is killed.  Its temporary files stay, under names that nobody *)
(* uses again.                                                             *)
Crash(p) ==
    /\ ~At(p, "out")
    /\ MayHurt("crash")
    /\ Step(p, "out")
    /\ entry_hash' = [entry_hash EXCEPT ![p] = [n \in Names |-> NoFile]]
    /\ sem' = [sem EXCEPT ![p] = Nobody]
    /\ wk' = [w \in Workers |-> IF ProcOf[w] = p THEN IdleWorker({}) ELSE wk[w]]
    /\ tmp' = [w \in Workers |-> IF ProcOf[w] = p THEN NoFile ELSE tmp[w]]
    /\ UNCHANGED <<format, file, skipped, swept, stuck, torn>>

ThreadStep(w) ==
    \/ rt_cache_prep(w) \/ ReadBack(w) \/ cache_read_entry(w)
    \/ WriteTmp(w) \/ Beaten(w) \/ KeepOther(w) \/ Rename(w)

ProcStep(p) ==
    \/ cache_init(p) \/ cache_format(p) \/ ListDirs(p) \/ ListFiles(p)
    \/ \E n \in Names : Sweep(p, n)
    \/ DeleteFormat(p) \/ FormatKept(p) \/ rt_cache_close(p)

(* A process that can go on, in one of its threads, does.                  *)
Progress(p) == ProcStep(p) \/ \E w \in ThreadsOf(p) : ThreadStep(w)

Next == \E p \in Procs : Open(p) \/ Progress(p) \/ Crash(p)

Fairness == \A p \in Procs : WF_vars(Progress(p))

Spec == Init /\ [][Next]_vars /\ Fairness
-----------------------------------------------------------------------------
(* Properties.                                                             *)

TypeOK ==
    /\ format \in {"none", "empty", "zero", "old", "cur"}
    /\ LET Content == [len : -1 .. Size, ver : {"old", "cur"}]
       IN  /\ file \in [Names -> Content] /\ tmp \in [Workers -> Content]
           /\ entry_hash \in [Procs -> [Names -> Content]]
    /\ proc \in [Procs -> [pc : {"out", "init", "touch", "truncate", "write",
                                 "write to deleted", "read", "list", "sweep", "delete",
                                 "disabled", "run", "closed", "did without"},
                           opens : Nat, again : BOOLEAN, read_only : BOOLEAN,
                           todo : SUBSET Names, found : SUBSET Names]]
    /\ \A q \in Procs : sem[q] = Nobody \/ sem[q] \in ThreadsOf(q)
    /\ \A w \in Workers :
          /\ wk[w].pc \in {"idle", "acquire", "found", "exists", "size", "map", "create",
                           "beaten", "compare", "wait", "rename"}
          /\ wk[w].left \subseteq Work[w] /\ wk[w].cnt \in 0 .. 3
          /\ wk[w].pc = "idle" => ~Exists(tmp[w])
    /\ skipped \in [Procs -> SUBSET Names] /\ swept \subseteq Names
    /\ stuck \subseteq swept /\ torn \subseteq Names
    /\ hurt \in 0 .. MaxHurt

(* However the processes and their threads interleave, and wherever one of *)
(* them is killed: a file under an object's own name is whole, and so is   *)
(* what a thread maps and decodes, unless fclose lost bytes of it.         *)
OnlyWhole ==
    \A n \in Names \ torn :
        /\ file[n] \in {NoFile, Old, Whole}
        /\ \A q \in Procs : entry_hash[q][n] \in {NoFile, Old, Whole}

(* An upgrade that is killed, or that races with another one, never leaves *)
(* an entry of an old layout where it is taken for one of this layout,     *)
(* unless the file would not be deleted.                                   *)
OldNeverRead == \A q \in Procs, n \in Names \ stuck : entry_hash[q][n] # Old

NeedsOf(q) == UNION {Work[w] : w \in ThreadsOf(q)}

(* A process that had the cache open leaves it with everything it          *)
(* prepared, whoever stored it, but for what it could not write, what an   *)
(* upgrade deleted again and what fclose lost.                             *)
PreparedIsCached ==
    \A q \in Procs : At(q, "closed") =>
        \A n \in NeedsOf(q) : file[n] = Whole \/ n \in skipped[q] \union swept \union torn

(* What the tests of several processes expect of each of them, once its    *)
(* objects are prepared: with nothing in the way they are in the cache.    *)
EachFindsAll ==
    \A q \in Procs : At(q, "closed") \/ At(q, "did without") =>
        \A n \in NeedsOf(q) : Exists(file[n])

(* A thread that is through with cache_read_entry and has the semaphore.   *)
Kept(q) == sem[q] # Nobody /\ wk[sem[q]].pc \notin {"exists", "size", "map"}

(* The semaphore is given back, unless the file was found without bytes:   *)
(* because fclose had lost them, or because an upgrade deleted the file    *)
(* after it was seen to exist.                                             *)
GivenBack == \A q \in Procs : Kept(q) => torn \union swept # {}

(* Preparing ends: no thread waits for ever for another thread, or for the *)
(* file that somebody else is storing.                                     *)
PrepEnds == \A q \in Procs : At(q, "run") ~> ~At(q, "run") \/ Kept(q)
=============================================================================
