--------------------------- MODULE ObjCache_proofs ---------------------------
(***************************************************************************)
(* Proofs about the object cache, for every set of processes, threads and  *)
(* objects, every assignment of objects to threads, every size of a file,  *)
(* every contents the cache starts with and every number of faults.        *)
(***************************************************************************)
EXTENDS ObjCache, TLAPS

-----------------------------------------------------------------------------
(* The inductive invariant.                                                *)

ProcPCs == {"out", "init", "touch", "truncate", "write", "write to deleted", "read",
            "list", "sweep", "delete", "disabled", "run", "closed", "did without"}
Storing == {"beaten", "compare", "wait", "rename"}
WorkerPCs == {"idle", "acquire", "found", "exists", "size", "map", "create"} \union Storing

Content == [len : -1 .. Size, ver : {"old", "cur"}]

ProcType == [pc : ProcPCs, opens : Nat, again : BOOLEAN, read_only : BOOLEAN,
             todo : SUBSET Names, found : SUBSET Names]
WorkerType == [pc : WorkerPCs, name : Names, why : {"load", "store"},
               left : SUBSET Names, size : -1 .. Size, final : -1 .. Size,
               checkpnt : -1 .. Size, cnt : 0 .. 3]

FilesTyped ==
    /\ format \in {"none", "empty", "zero", "old", "cur"}
    /\ file \in [Names -> Content] /\ tmp \in [Workers -> Content]
    /\ entry_hash \in [Procs -> [Names -> Content]]

ControlTyped ==
    /\ proc \in [Procs -> ProcType] /\ wk \in [Workers -> WorkerType]
    /\ sem \in [Procs -> Workers \union {Nobody}]
    /\ \A q \in Procs : sem[q] = Nobody \/ sem[q] \in ThreadsOf(q)
    /\ \A w \in Workers : wk[w].left \subseteq Work[w]

HistoryTyped ==
    /\ skipped \in [Procs -> SUBSET Names] /\ swept \subseteq Names
    /\ stuck \subseteq swept /\ torn \subseteq Names
    /\ hurt \in 0 .. MaxHurt

(* Threads work only while their process has the cache open, and have a    *)
(* temporary file only between its creation and its renaming.              *)
ThreadsOrderly ==
    \A w \in Workers :
        /\ wk[w].pc # "idle" => At(ProcOf[w], "run")
        /\ Exists(tmp[w]) <=> wk[w].pc \in Storing
        /\ wk[w].pc = "map" => wk[w].size > 0
        /\ wk[w].pc = "found" => Exists(entry_hash[ProcOf[w]][wk[w].name])

(* Once the format file does not say "old" any more, nothing is of an old  *)
(* layout, unless it would not be deleted; and it does not say so as soon  *)
(* as somebody is past reading it.                                         *)
PastOld == {"touch", "truncate", "write", "write to deleted", "delete", "run"}
LayoutCurrent ==
    /\ format # "old" => \A n \in Names \ stuck : file[n].ver = "cur"
    /\ \A q \in Procs : proc[q].pc \in PastOld => format # "old"
    /\ \A q \in Procs : At(q, "sweep") =>
           \A n \in Names \ stuck :
               file[n].ver = "old" => n \in proc[q].todo \union proc[q].found
    /\ \A w \in Workers : tmp[w].ver = "cur"
    /\ \A q \in Procs, n \in Names \ stuck : entry_hash[q][n].ver = "cur"

TmpWhole == \A w \in Workers : tmp[w] \in {NoFile, Whole} \/ wk[w].name \in torn

(* What a thread has seen to exist is there, or an upgrade deleted it.     *)
SeenIsThere ==
    \A w \in Workers :
        wk[w].pc = "size" => Exists(file[wk[w].name]) \/ wk[w].name \in swept

InCache(n) == file[n] = Whole \/ n \in swept \union torn

(* What a process has read, and what its threads are through with, is in   *)
(* the cache.                                                              *)
ReadIsCached ==
    \A q \in Procs, n \in Names : Exists(entry_hash[q][n]) => InCache(n)

Through(w) == Work[w] \ wk[w].left

ThroughIsCached ==
    \A w \in Workers :
        /\ proc[ProcOf[w]].pc \in {"run", "closed"} =>
               \A n \in Through(w) : InCache(n) \/ n \in skipped[ProcOf[w]]
        /\ At(ProcOf[w], "closed") => wk[w].left = {}

IInv ==
    /\ FilesTyped /\ ControlTyped /\ HistoryTyped
    /\ ThreadsOrderly /\ LayoutCurrent /\ OnlyWhole /\ TmpWhole
    /\ SeenIsThere /\ GivenBack /\ ReadIsCached /\ ThroughIsCached

USE DEF At, Step, files, memory, history

LEMMA Owner ==
    ASSUME NEW w \in Workers
    PROVE  ProcOf[w] \in Procs /\ w # Nobody /\ w \in ThreadsOf(ProcOf[w])
    BY ObjCacheAssumption DEF ThreadsOf

LEMMA Contents ==
    /\ Size \in Nat \ {0}
    /\ NoFile \in Content /\ Whole \in Content /\ Old \in Content
    /\ NoFile.len = -1 /\ NoFile.ver = "cur"
    /\ Whole.len = Size /\ Whole.ver = "cur"
    /\ Old.len = Size /\ Old.ver = "old"
    /\ ~Exists(NoFile) /\ Exists(Whole) /\ Exists(Old)
    BY ObjCacheAssumption DEF NoFile, Whole, Old, Content, Exists

LEMMA IdleWorkerTyped ==
    ASSUME NEW left \in SUBSET Names
    PROVE  /\ IdleWorker(left) \in WorkerType
           /\ IdleWorker(left).pc = "idle" /\ IdleWorker(left).left = left
    <1>1. (CHOOSE n \in Names : TRUE) \in Names  BY ObjCacheAssumption
    <1>2. QED  BY <1>1, ObjCacheAssumption DEF IdleWorker, WorkerType, WorkerPCs, Storing

LEMMA NewProcTyped ==
    ASSUME NEW k \in Nat
    PROVE  NewProc(k) \in ProcType /\ NewProc(k).pc = "out"
    BY DEF NewProc, ProcType, ProcPCs

LEMMA StepTyped ==
    ASSUME proc \in [Procs -> ProcType], NEW p \in Procs, NEW pc \in ProcPCs, Step(p, pc)
    PROVE  /\ proc' \in [Procs -> ProcType]
           /\ proc'[p].pc = pc
           /\ \A q \in Procs \ {p} : proc'[q] = proc[q]
    <1> DEFINE new == [proc[p] EXCEPT !.pc = pc]
    <1>1. proc[p] \in ProcType  OBVIOUS
    <1>2. new \in ProcType /\ new.pc = pc
        BY <1>1 DEF ProcType
    <1>3. proc' = [proc EXCEPT ![p] = new]  OBVIOUS
    <1> HIDE DEF new
    <1>4. QED  BY <1>2, <1>3

-----------------------------------------------------------------------------
LEMMA InitIInv == Init => IInv
    <1> SUFFICES ASSUME Init PROVE IInv  OBVIOUS
    <1> USE DEF Init
    <1>1. file \in [Names -> {NoFile, Old, Whole}]  OBVIOUS
    <1>2. FilesTyped
        BY <1>1, Contents, ObjCacheAssumption DEF FilesTyped
    <1>3. ControlTyped
        BY IdleWorkerTyped, NewProcTyped DEF ControlTyped
    <1>4. HistoryTyped
        BY ObjCacheAssumption DEF HistoryTyped
    <1>5. ThreadsOrderly
        BY IdleWorkerTyped, Contents DEF ThreadsOrderly, Storing
    <1>6. LayoutCurrent
        BY <1>1, NewProcTyped, Contents DEF LayoutCurrent, PastOld
    <1>7. OnlyWhole /\ TmpWhole
        BY <1>1 DEF OnlyWhole, TmpWhole
    <1>8. SeenIsThere
        BY IdleWorkerTyped DEF SeenIsThere
    <1>9. GivenBack
        BY DEF GivenBack, Kept
    <1>10. ReadIsCached
        BY Contents DEF ReadIsCached
    <1>11. ThroughIsCached
        BY Owner, NewProcTyped DEF ThroughIsCached
    <1>12. QED  BY <1>2, <1>3, <1>4, <1>5, <1>6, <1>7, <1>8, <1>9, <1>10, <1>11 DEF IInv

LEMMA OpenKeeps ==
    ASSUME IInv, NEW p \in Procs, Open(p)
    PROVE  IInv'
    <1> USE DEF IInv, Open
    <1>1. /\ proc' \in [Procs -> ProcType]
          /\ proc'[p].pc = "init"
          /\ \A q \in Procs \ {p} : proc'[q] = proc[q]
        <2> DEFINE new == [NewProc(proc[p].opens + 1) EXCEPT !.pc = "init"]
        <2>0. proc[p] \in ProcType  BY DEF ControlTyped
        <2>1. proc[p].opens \in Nat /\ proc[p].opens + 1 \in Nat
            <3>1. proc[p].opens \in Nat  BY ONLY <2>0 DEF ProcType
            <3>2. QED  BY ONLY <3>1
        <2>2. new \in ProcType /\ new.pc = "init"
            BY <2>1 DEF NewProc, ProcType, ProcPCs
        <2>3. proc' = [proc EXCEPT ![p] = new]  OBVIOUS
        <2> HIDE DEF new
        <2>4. QED  BY <2>2, <2>3 DEF ControlTyped
    <1>2. FilesTyped' /\ ControlTyped' /\ HistoryTyped'
        BY <1>1 DEF FilesTyped, ControlTyped, HistoryTyped
    <1>3. ThreadsOrderly'
        BY <1>1, Owner DEF ThreadsOrderly, ControlTyped
    <1>4. LayoutCurrent'
        BY <1>1 DEF LayoutCurrent, PastOld
    <1>5. OnlyWhole' /\ TmpWhole' /\ SeenIsThere' /\ GivenBack' /\ ReadIsCached'
        BY DEF OnlyWhole, TmpWhole, SeenIsThere, GivenBack, Kept, ReadIsCached, InCache
    <1>6. ThroughIsCached'
        BY <1>1, Owner DEF ThroughIsCached, InCache, Through, HistoryTyped
    <1>7. QED  BY <1>2, <1>3, <1>4, <1>5, <1>6

LEMMA InitCacheKeeps ==
    ASSUME IInv, NEW p \in Procs, cache_init(p)
    PROVE  IInv'
    <1> USE DEF IInv, cache_init
    <1>1. /\ proc' \in [Procs -> ProcType]
          /\ \A q \in Procs \ {p} : proc'[q] = proc[q]
          /\ proc[p].pc \notin {"run", "closed"} /\ proc'[p].pc \notin {"run", "closed", "sweep"}
        <2>1. proc \in [Procs -> ProcType] /\ proc[p] \in ProcType  BY DEF ControlTyped
        <2>2. CASE \E pc \in {"touch", "read", "truncate", "write"} :
                       proc[p].pc \notin {"run", "closed"} /\ Step(p, pc)
            <3> PICK pc \in {"touch", "read", "truncate", "write"} :
                       proc[p].pc \notin {"run", "closed"} /\ Step(p, pc)
                BY <2>2
            <3>1. QED  BY <2>1, StepTyped DEF ProcPCs
        <2>3. CASE \E b \in BOOLEAN :
                       /\ proc[p].pc \notin {"run", "closed"}
                       /\ proc' = [proc EXCEPT ![p].pc = "read", ![p].read_only = b]
            <3> PICK b \in BOOLEAN :
                       /\ proc[p].pc \notin {"run", "closed"}
                       /\ proc' = [proc EXCEPT ![p].pc = "read", ![p].read_only = b]
                BY <2>3
            <3> DEFINE new == [proc[p] EXCEPT !.pc = "read", !.read_only = b]
            <3>1. new \in ProcType /\ new.pc = "read"  BY <2>1 DEF ProcType, ProcPCs
            <3>2. proc' = [proc EXCEPT ![p] = new]  BY <2>1 DEF ProcType
            <3> HIDE DEF new
            <3>3. QED  BY <2>1, <3>1, <3>2, ZenonT(30)
        <2>4. QED  BY <2>2, <2>3
    <1>2. FilesTyped' /\ ControlTyped' /\ HistoryTyped'
        BY <1>1 DEF FilesTyped, ControlTyped, HistoryTyped
    <1>3. ThreadsOrderly'
        BY <1>1, Owner DEF ThreadsOrderly, ControlTyped
    <1>4. LayoutCurrent'
        <2>1. format # "old" => format' # "old"
            OBVIOUS
        <2>2. At(p, "init") \/ proc[p].pc \in PastOld \/ proc'[p].pc = "read"
            BY DEF PastOld
        <2>3. proc'[p].pc \in PastOld => format' # "old"
            <3>1. CASE At(p, "init")
                <4>1. proc'[p].pc = IF format = "none" THEN "touch" ELSE "read"
                    BY <3>1 DEF ControlTyped, ProcType
                <4>2. QED  BY <3>1, <4>1 DEF PastOld
            <3>2. CASE ~At(p, "init")
                BY <2>1, <3>2 DEF LayoutCurrent, PastOld
            <3>3. QED  BY <3>1, <3>2
        <2>4. format' # "old" => \A n \in Names \ stuck : file[n].ver = "cur"
            BY DEF LayoutCurrent, PastOld
        <2>5. QED  BY <1>1, <2>1, <2>3, <2>4, ZenonT(30) DEF LayoutCurrent
    <1>5. OnlyWhole' /\ TmpWhole' /\ SeenIsThere' /\ GivenBack' /\ ReadIsCached'
        BY DEF OnlyWhole, TmpWhole, SeenIsThere, GivenBack, Kept, ReadIsCached, InCache
    <1>6. ThroughIsCached'
        BY <1>1, Owner DEF ThroughIsCached, InCache, Through
    <1>7. QED  BY <1>2, <1>3, <1>4, <1>5, <1>6

(* A process that begins: its threads were idle, and so was whoever holds  *)
(* its semaphore.                                                          *)
LEMMA BeginKeeps ==
    ASSUME IInv, NEW p \in Procs, At(p, "read"), format = "cur", Begin(p),
           UNCHANGED <<files, memory, history>>
    PROVE  IInv'
    <1> USE DEF IInv, Begin
    <1>1. /\ proc' \in [Procs -> ProcType] /\ proc'[p].pc = "run"
          /\ \A q \in Procs \ {p} : proc'[q] = proc[q]
        BY StepTyped DEF ControlTyped, ProcPCs
    <1>2. \A w \in Workers : Work[w] \in SUBSET Names
        BY ObjCacheAssumption
    <1>3. \A w \in Workers : ProcOf[w] = p =>
              wk[w].pc = "idle" /\ wk'[w].pc = "idle" /\ wk'[w].left = Work[w]
        BY <1>2, IdleWorkerTyped DEF ThreadsOrderly
    <1>4. \A w \in Workers : ProcOf[w] # p => wk'[w] = wk[w]
        OBVIOUS
    <1>5. wk' \in [Workers -> WorkerType]
        BY <1>2, IdleWorkerTyped DEF ControlTyped
    <1>6. FilesTyped' /\ ControlTyped' /\ HistoryTyped'
        BY <1>1, <1>3, <1>4, <1>5 DEF FilesTyped, ControlTyped, HistoryTyped
    <1>7. ThreadsOrderly'
        BY <1>1, <1>3, <1>4, Owner DEF ThreadsOrderly, Storing
    <1>8. LayoutCurrent' /\ OnlyWhole' /\ ReadIsCached'
        BY <1>1 DEF LayoutCurrent, PastOld, OnlyWhole, ReadIsCached, InCache
    <1>9. TmpWhole'
        BY <1>3, <1>4 DEF TmpWhole, ThreadsOrderly, Storing, Exists
    <1>10. SeenIsThere'
        BY <1>3, <1>4 DEF SeenIsThere
    <1>11. GivenBack'
        BY <1>3, <1>4 DEF GivenBack, Kept, ControlTyped, ThreadsOf
    <1>12. ThroughIsCached'
        BY <1>1, <1>3, <1>4, Owner DEF ThroughIsCached, InCache, Through
    <1>13. QED  BY <1>6, <1>7, <1>8, <1>9, <1>10, <1>11, <1>12

LEMMA FormatKeeps ==
    ASSUME IInv, NEW p \in Procs, cache_format(p)
    PROVE  IInv'
    <1>1. CASE format = "cur" /\ Begin(p)
        BY <1>1, BeginKeeps DEF cache_format
    <1>2. CASE UNCHANGED wk /\ \E pc \in {"disabled", "delete", "list"} :
                   Step(p, pc) /\ (pc = "delete" => format = "zero")
        <2> USE DEF IInv, cache_format
        <2> PICK pc \in {"disabled", "delete", "list"} :
                   Step(p, pc) /\ (pc = "delete" => format = "zero")
            BY <1>2
        <2>1. /\ proc' \in [Procs -> ProcType] /\ proc'[p].pc = pc
              /\ \A q \in Procs \ {p} : proc'[q] = proc[q]
            BY StepTyped DEF ControlTyped, ProcPCs
        <2>2. FilesTyped' /\ ControlTyped' /\ HistoryTyped'
            BY <1>2, <2>1 DEF FilesTyped, ControlTyped, HistoryTyped
        <2>3. ThreadsOrderly'
            BY <1>2, <2>1, Owner DEF ThreadsOrderly, ControlTyped
        <2>4. LayoutCurrent'
            BY <2>1 DEF LayoutCurrent, PastOld
        <2>5. OnlyWhole' /\ TmpWhole' /\ SeenIsThere' /\ GivenBack' /\ ReadIsCached'
            BY <1>2 DEF OnlyWhole, TmpWhole, SeenIsThere, GivenBack, Kept, ReadIsCached, InCache
        <2>6. ThroughIsCached'
            BY <1>2, <2>1, Owner DEF ThroughIsCached, InCache, Through
        <2>7. QED  BY <2>2, <2>3, <2>4, <2>5, <2>6
    <1>3. QED  BY <1>1, <1>2 DEF cache_format

(* The listing of what an upgrade will delete.                             *)
LEMMA ListKeeps ==
    ASSUME IInv, NEW p \in Procs, NEW todo \in SUBSET Names, NEW found \in SUBSET Names,
           proc[p].pc \in {"list", "sweep"},
           \A n \in Names \ stuck : file[n].ver = "old" => n \in todo \union found,
           proc' = [proc EXCEPT ![p].pc = "sweep", ![p].todo = todo, ![p].found = found],
           UNCHANGED <<files, memory, wk, history>>
    PROVE  IInv'
    <1> USE DEF IInv
    <1> DEFINE new == [proc[p] EXCEPT !.pc = "sweep", !.todo = todo, !.found = found]
    <1>1. proc \in [Procs -> ProcType] /\ proc[p] \in ProcType  BY DEF ControlTyped
    <1>2. new \in ProcType /\ new.pc = "sweep" /\ new.todo = todo /\ new.found = found
        BY ONLY <1>1, todo \in SUBSET Names, found \in SUBSET Names DEF ProcType, ProcPCs
    <1>3. proc' = [proc EXCEPT ![p] = new]
        BY <1>1 DEF ProcType
    <1> HIDE DEF new
    <1>4. /\ proc' \in [Procs -> ProcType] /\ proc'[p] = new
          /\ \A q \in Procs \ {p} : proc'[q] = proc[q]
        BY <1>1, <1>2, <1>3, ZenonT(30)
    <1>5. FilesTyped' /\ ControlTyped' /\ HistoryTyped'
        BY <1>4 DEF FilesTyped, ControlTyped, HistoryTyped
    <1>6. ThreadsOrderly'
        BY <1>2, <1>4, Owner DEF ThreadsOrderly, ControlTyped
    <1>7. LayoutCurrent'
        BY <1>2, <1>4, ZenonT(30) DEF LayoutCurrent, PastOld
    <1>8. OnlyWhole' /\ TmpWhole' /\ SeenIsThere' /\ GivenBack' /\ ReadIsCached'
        BY DEF OnlyWhole, TmpWhole, SeenIsThere, GivenBack, Kept, ReadIsCached, InCache
    <1>9. ThroughIsCached'
        BY <1>2, <1>4, Owner DEF ThroughIsCached, InCache, Through
    <1>10. QED  BY <1>5, <1>6, <1>7, <1>8, <1>9

LEMMA ListDirsKeeps ==
    ASSUME IInv, NEW p \in Procs, ListDirs(p)
    PROVE  IInv'
    <1>1. PICK dirs \in SUBSET Names :
              /\ \A n \in Names : Exists(file[n]) => n \in dirs
              /\ proc' = [proc EXCEPT ![p].pc = "sweep", ![p].todo = dirs, ![p].found = {}]
        BY DEF ListDirs
    <1>2. \A n \in Names : file[n].ver = "old" => n \in dirs
        BY <1>1, Contents DEF Exists
    <1>3. /\ proc[p].pc \in {"list", "sweep"}
          /\ UNCHANGED <<files, memory, wk, history>>
        BY DEF ListDirs
    <1>4. /\ {} \in SUBSET Names
          /\ \A n \in Names \ stuck : file[n].ver = "old" => n \in dirs \union {}
        BY <1>2
    <1>5. QED  BY <1>1, <1>3, <1>4, ListKeeps

LEMMA ListFilesKeeps ==
    ASSUME IInv, NEW p \in Procs, ListFiles(p)
    PROVE  IInv'
    <1>1. PICK dir \in SUBSET proc[p].todo :
              proc' = [proc EXCEPT ![p].todo = @ \ dir,
                                   ![p].found = {n \in dir : Exists(file[n])}]
        BY DEF ListFiles
    <1> DEFINE todo == proc[p].todo \ dir
               found == {n \in dir : Exists(file[n])}
    <1>2. /\ proc \in [Procs -> ProcType] /\ proc[p].pc = "sweep"
          /\ proc[p].found = {} /\ proc[p].todo \in SUBSET Names
        BY DEF IInv, ControlTyped, ProcType, ListFiles
    <1>3. \A n \in Names \ stuck : file[n].ver = "old" => n \in todo \union found
        BY <1>2, Contents DEF IInv, LayoutCurrent, Exists
    <1>4. proc' = [proc EXCEPT ![p].pc = "sweep", ![p].todo = todo, ![p].found = found]
        BY <1>1, <1>2 DEF ProcType
    <1>5. todo \in SUBSET Names /\ found \in SUBSET Names
        BY <1>2
    <1> HIDE DEF todo, found
    <1>6. QED  BY <1>2, <1>3, <1>4, <1>5, ListKeeps DEF ListFiles

LEMMA SweepKeeps ==
    ASSUME IInv, NEW p \in Procs, NEW n \in Names, Sweep(p, n)
    PROVE  IInv'
    <1> USE DEF IInv, Sweep
    <1>0. /\ stuck \subseteq stuck' /\ stuck' \subseteq swept' /\ swept \subseteq swept'
          /\ swept' \subseteq Names /\ n \in swept' /\ hurt' \in 0 .. MaxHurt
        BY ObjCacheAssumption DEF HistoryTyped, MayHurt
    <1> DEFINE new == [proc[p] EXCEPT !.found = @ \ {n}]
    <1>1. /\ new \in ProcType /\ new.pc = "sweep"
          /\ new.todo = proc[p].todo /\ new.found = proc[p].found \ {n}
        <2>1. proc[p] \in ProcType /\ proc[p].pc = "sweep"  BY DEF ControlTyped
        <2>2. QED  BY ONLY <2>1 DEF ProcType
    <1>2. proc' = [proc EXCEPT ![p] = new]  OBVIOUS
    <1> HIDE DEF new
    <1>3. /\ proc' \in [Procs -> ProcType] /\ proc'[p] = new
          /\ \A q \in Procs \ {p} : proc'[q] = proc[q]
        BY <1>1, <1>2 DEF ControlTyped
    <1>4. /\ file' \in [Names -> Content] /\ (file'[n] = NoFile \/ file'[n] = file[n])
          /\ file'[n] = NoFile \/ n \in stuck'
          /\ \A m \in Names \ {n} : file'[m] = file[m]
        BY Contents DEF FilesTyped
    <1>5. FilesTyped' /\ ControlTyped' /\ HistoryTyped'
        BY <1>0, <1>3, <1>4 DEF FilesTyped, ControlTyped, HistoryTyped
    <1>6. ThreadsOrderly'
        BY <1>1, <1>3, Owner DEF ThreadsOrderly, ControlTyped
    <1>7. LayoutCurrent'
        <2>1. \A m \in Names : file'[m].ver = "old" => file[m].ver = "old"
            BY <1>4, Contents
        <2>2. \A m \in Names \ stuck : format # "old" => file'[m].ver = "cur"
            BY <1>4, Contents DEF LayoutCurrent
        <2>3. \A m \in Names \ stuck' : file'[m].ver = "old" =>
                  m \in proc[p].todo \union (proc[p].found \ {n})
            BY <1>0, <1>4, <2>1, Contents DEF LayoutCurrent
        <2>4. \A q \in Procs : At(q, "sweep")' => \A m \in Names \ stuck' :
                  file'[m].ver = "old" => m \in proc'[q].todo \union proc'[q].found
            BY <1>0, <1>1, <1>3, <2>1, <2>3 DEF LayoutCurrent
        <2>5. \A q \in Procs : proc'[q].pc \in PastOld => format # "old"
            BY <1>1, <1>3 DEF LayoutCurrent, PastOld
        <2>6. QED  BY <1>0, <2>2, <2>4, <2>5 DEF LayoutCurrent
    <1>8. OnlyWhole' /\ TmpWhole'
        BY <1>4 DEF OnlyWhole, TmpWhole
    <1>9. SeenIsThere'
        BY <1>0, <1>4 DEF SeenIsThere, ControlTyped, WorkerType
    <1>10. GivenBack' /\ ReadIsCached'
        BY <1>0, <1>4 DEF GivenBack, Kept, ReadIsCached, InCache
    <1>11. ThroughIsCached'
        <2>1. \A m \in Names : InCache(m) => InCache(m)'
            BY <1>0, <1>4 DEF InCache
        <2>2. \A w \in Workers : Through(w) \subseteq Names /\ Through(w)' = Through(w)
            BY ObjCacheAssumption DEF Through
        <2>3. QED  BY <1>1, <1>3, <2>1, <2>2, Owner DEF ThroughIsCached
    <1>12. QED  BY <1>5, <1>6, <1>7, <1>8, <1>9, <1>10, <1>11

LEMMA DeleteFormatKeeps ==
    ASSUME IInv, NEW p \in Procs, DeleteFormat(p)
    PROVE  IInv'
    <1> USE DEF IInv, DeleteFormat
    <1> DEFINE pc == IF At(p, "sweep") THEN "read" ELSE "init"
               new == [proc[p] EXCEPT !.pc = pc, !.again = TRUE]
               other(q) == [proc[q] EXCEPT !.pc = "write to deleted"]
    <1>1. \A q \in Procs : proc[q] \in ProcType
        BY DEF ControlTyped
    <1>2. new \in ProcType /\ new.pc = pc /\ pc \in {"read", "init"}
        <2>1. proc[p] \in ProcType  BY <1>1
        <2>2. pc \in {"read", "init"}  OBVIOUS
        <2> HIDE DEF pc
        <2>3. QED  BY ONLY <2>1, <2>2 DEF ProcType, ProcPCs
    <1>3. \A q \in Procs : other(q) \in ProcType /\ other(q).pc = "write to deleted"
        BY ONLY <1>1 DEF ProcType, ProcPCs
    <1>4. proc' = [q \in Procs |-> IF q = p THEN new
                                   ELSE IF At(q, "write") THEN other(q) ELSE proc[q]]
        OBVIOUS
    <1> HIDE DEF new, other
    <1>5. /\ proc' \in [Procs -> ProcType] /\ proc'[p].pc \in {"read", "init"}
          /\ \A q \in Procs \ {p} :
                \/ proc'[q] = proc[q]
                \/ At(q, "write") /\ proc'[q].pc = "write to deleted"
        BY <1>1, <1>2, <1>3, <1>4, ZenonT(30)
    <1>6. proc[p].pc \notin {"run", "closed"}
        BY DEF Swept
    <1> HIDE DEF pc
    <1>7. FilesTyped' /\ ControlTyped' /\ HistoryTyped'
        BY <1>5 DEF FilesTyped, ControlTyped, HistoryTyped
    <1>8. \A q \in Procs : At(q, "run") <=> At(q, "run")'
        BY <1>5, <1>6
    <1>9. \A q \in Procs : At(q, "closed") <=> At(q, "closed")'
        BY <1>5, <1>6
    <1>10. ThreadsOrderly'
        BY <1>8, Owner DEF ThreadsOrderly
    <1>11. LayoutCurrent'
        <2>1. \A n \in Names \ stuck : file[n].ver = "cur"
            BY DEF LayoutCurrent, Swept, PastOld, FilesTyped, Content
        <2>2. QED  BY <1>5, <2>1 DEF LayoutCurrent, PastOld
    <1>12. OnlyWhole' /\ TmpWhole' /\ SeenIsThere' /\ GivenBack' /\ ReadIsCached'
        BY DEF OnlyWhole, TmpWhole, SeenIsThere, GivenBack, Kept, ReadIsCached, InCache
    <1>13. ThroughIsCached'
        BY <1>8, <1>9, Owner DEF ThroughIsCached, InCache, Through
    <1>14. QED  BY <1>7, <1>10, <1>11, <1>12, <1>13

LEMMA FormatKeptKeeps ==
    ASSUME IInv, NEW p \in Procs, FormatKept(p)
    PROVE  IInv'
    <1> USE DEF IInv, FormatKept
    <1> DEFINE pc == IF proc[p].pc = "sweep" THEN "read" ELSE "disabled"
               new == [proc[p] EXCEPT !.pc = pc, !.again = TRUE]
    <1>1. proc[p] \in ProcType /\ proc[p].pc \in {"sweep", "delete"}
        BY DEF ControlTyped, Swept
    <1>2. new \in ProcType /\ new.pc \in {"read", "disabled"}
        <2>1. pc \in {"read", "disabled"}  OBVIOUS
        <2> HIDE DEF pc
        <2>2. QED  BY ONLY <1>1, <2>1 DEF ProcType, ProcPCs
    <1>3. proc' = [proc EXCEPT ![p] = new]
        BY <1>1 DEF ProcType
    <1> HIDE DEF new
    <1>4. /\ proc' \in [Procs -> ProcType] /\ proc'[p].pc \in {"read", "disabled"}
          /\ \A q \in Procs \ {p} : proc'[q] = proc[q]
        BY <1>2, <1>3, ZenonT(30) DEF ControlTyped
    <1>5. hurt' \in 0 .. MaxHurt
        BY ObjCacheAssumption DEF HistoryTyped, MayHurt
    <1>6. FilesTyped' /\ ControlTyped' /\ HistoryTyped'
        BY <1>4, <1>5 DEF FilesTyped, ControlTyped, HistoryTyped
    <1>7. ThreadsOrderly'
        BY <1>1, <1>4, Owner DEF ThreadsOrderly
    <1>8. LayoutCurrent'
        BY <1>4 DEF LayoutCurrent, PastOld
    <1>9. OnlyWhole' /\ TmpWhole' /\ SeenIsThere' /\ GivenBack' /\ ReadIsCached'
        BY DEF OnlyWhole, TmpWhole, SeenIsThere, GivenBack, Kept, ReadIsCached, InCache
    <1>10. ThroughIsCached'
        BY <1>1, <1>4, Owner DEF ThroughIsCached, InCache, Through
    <1>11. QED  BY <1>6, <1>7, <1>8, <1>9, <1>10

LEMMA CloseKeeps ==
    ASSUME IInv, NEW p \in Procs, rt_cache_close(p)
    PROVE  IInv'
    <1> USE DEF IInv, rt_cache_close
    <1>1. /\ proc' \in [Procs -> ProcType]
          /\ At(p, "run") => proc'[p].pc = "closed"
          /\ ~At(p, "run") => proc'[p].pc = "did without"
          /\ \A q \in Procs \ {p} : proc'[q] = proc[q]
        <2>1. CASE At(p, "run")
            BY <2>1, StepTyped DEF ControlTyped, ProcPCs
        <2>2. CASE ~At(p, "run")
            BY <2>2, StepTyped DEF ControlTyped, ProcPCs
        <2>3. QED  BY <2>1, <2>2
    <1>2. \A w \in ThreadsOf(p) : wk[w].pc = "idle"
        BY Owner DEF ThreadsOrderly, ThreadsOf
    <1>3. /\ entry_hash' \in [Procs -> [Names -> Content]]
          /\ \A n \in Names : entry_hash'[p][n] = NoFile
          /\ \A q \in Procs \ {p} : entry_hash'[q] = entry_hash[q]
        BY Contents DEF FilesTyped
    <1>4. FilesTyped' /\ ControlTyped' /\ HistoryTyped'
        BY <1>1, <1>3 DEF FilesTyped, ControlTyped, HistoryTyped
    <1>5. ThreadsOrderly'
        BY <1>1, <1>2, <1>3, Owner DEF ThreadsOrderly, ThreadsOf
    <1>6. LayoutCurrent'
        <2>1. \A q \in Procs : proc'[q].pc \in PastOld => proc[q].pc \in PastOld
            BY <1>1 DEF PastOld
        <2>2. \A q \in Procs : At(q, "sweep")' => proc'[q] = proc[q]
            BY <1>1
        <2>3. \A q \in Procs, n \in Names \ stuck : entry_hash'[q][n].ver = "cur"
            BY <1>3, Contents DEF LayoutCurrent
        <2>4. \A q \in Procs : proc'[q].pc \in PastOld => format # "old"
            BY <2>1 DEF LayoutCurrent
        <2>5. \A q \in Procs : At(q, "sweep")' => \A n \in Names \ stuck :
                  file[n].ver = "old" => n \in proc'[q].todo \union proc'[q].found
            BY <2>2, Zenon DEF LayoutCurrent
        <2>6. QED  BY <2>3, <2>4, <2>5 DEF LayoutCurrent
    <1>7. OnlyWhole' /\ TmpWhole' /\ SeenIsThere' /\ GivenBack'
        BY <1>3 DEF OnlyWhole, TmpWhole, SeenIsThere, GivenBack, Kept
    <1>8. ReadIsCached'
        BY <1>3, Contents DEF ReadIsCached, InCache
    <1>9. ThroughIsCached'
        <2>1. At(p, "run") => \A w \in ThreadsOf(p) : wk[w].left = {}
            OBVIOUS
        <2>2. \A n \in Names : InCache(n)' = InCache(n)
            BY DEF InCache
        <2>3. \A w \in Workers : Through(w)' = Through(w) /\ Through(w) \subseteq Names
            BY ObjCacheAssumption DEF Through
        <2>4. \A w \in Workers : ProcOf[w] # p =>
                  proc'[ProcOf[w]] = proc[ProcOf[w]]
            BY <1>1, Owner
        <2>5. \A w \in Workers : ProcOf[w] = p /\ At(p, "run")' => FALSE
            BY <1>1
        <2>6. QED
            BY <1>1, <2>1, <2>2, <2>3, <2>4, ZenonT(30) DEF ThroughIsCached, ThreadsOf
    <1>10. QED  BY <1>4, <1>5, <1>6, <1>7, <1>8, <1>9

LEMMA CrashKeeps ==
    ASSUME IInv, NEW p \in Procs, Crash(p)
    PROVE  IInv'
    <1> USE DEF IInv, Crash
    <1>1. /\ proc' \in [Procs -> ProcType] /\ proc'[p].pc = "out"
          /\ \A q \in Procs \ {p} : proc'[q] = proc[q]
        BY StepTyped DEF ControlTyped, ProcPCs
    <1>2. /\ entry_hash' \in [Procs -> [Names -> Content]]
          /\ \A n \in Names : entry_hash'[p][n] = NoFile
          /\ \A q \in Procs \ {p} : entry_hash'[q] = entry_hash[q]
        BY Contents DEF FilesTyped
    <1>3. /\ wk' \in [Workers -> WorkerType] /\ tmp' \in [Workers -> Content]
          /\ \A w \in Workers : ProcOf[w] = p =>
                wk'[w].pc = "idle" /\ wk'[w].left = {} /\ tmp'[w] = NoFile
          /\ \A w \in Workers : ProcOf[w] # p => wk'[w] = wk[w] /\ tmp'[w] = tmp[w]
        BY IdleWorkerTyped, Contents DEF FilesTyped, ControlTyped
    <1>4. /\ sem' \in [Procs -> Workers \union {Nobody}] /\ sem'[p] = Nobody
          /\ \A q \in Procs \ {p} : sem'[q] = sem[q]
        BY DEF ControlTyped
    <1>5. hurt' \in 0 .. MaxHurt
        BY ObjCacheAssumption DEF HistoryTyped, MayHurt
    <1>6. FilesTyped' /\ HistoryTyped'
        BY <1>2, <1>3, <1>5 DEF FilesTyped, HistoryTyped
    <1>7. ControlTyped'
        BY <1>1, <1>3, <1>4 DEF ControlTyped
    <1>8. ThreadsOrderly'
        BY <1>1, <1>2, <1>3, Owner, Contents DEF ThreadsOrderly, Storing
    <1>9. LayoutCurrent'
        <2>1. \A q \in Procs : proc'[q].pc \in PastOld => proc[q].pc \in PastOld
            BY <1>1 DEF PastOld
        <2>2. \A q \in Procs : At(q, "sweep")' => proc'[q] = proc[q]
            BY <1>1
        <2>3. \A q \in Procs, n \in Names \ stuck : entry_hash'[q][n].ver = "cur"
            BY <1>2, Contents DEF LayoutCurrent
        <2>4. \A w \in Workers : tmp'[w].ver = "cur"
            BY <1>3, Contents DEF LayoutCurrent
        <2>5. QED  BY <2>1, <2>2, <2>3, <2>4 DEF LayoutCurrent
    <1>10. OnlyWhole' /\ TmpWhole' /\ SeenIsThere'
        BY <1>2, <1>3 DEF OnlyWhole, TmpWhole, SeenIsThere
    <1>11. GivenBack'
        BY <1>3, <1>4 DEF GivenBack, Kept, ControlTyped, ThreadsOf
    <1>12. ReadIsCached'
        BY <1>2, Contents DEF ReadIsCached, InCache
    <1>13. ThroughIsCached'
        BY <1>1, <1>3, Owner DEF ThroughIsCached, InCache, Through
    <1>14. QED  BY <1>6, <1>7, <1>8, <1>9, <1>10, <1>11, <1>12, <1>13
-----------------------------------------------------------------------------
(* What a step of thread w may do: it goes to r, has t for a temporary     *)
(* file, and leaves the rest no worse.                                     *)

Reading == {"exists", "size", "map"}

ThreadMay(w, r, t) ==
    LET p == ProcOf[w]
    IN  /\ At(p, "run")
        /\ wk' = [wk EXCEPT ![w] = r] /\ tmp' = [tmp EXCEPT ![w] = t]
        /\ r.left \subseteq wk[w].left
        /\ \A n \in wk[w].left \ r.left : InCache(n) \/ n \in skipped'[p]
        /\ skipped' \in [Procs -> SUBSET Names]
        /\ \A q \in Procs : skipped[q] \subseteq skipped'[q]
        /\ torn \subseteq torn' /\ torn' \subseteq Names
        /\ hurt' \in 0 .. MaxHurt
        /\ UNCHANGED <<format, proc, swept, stuck>>
        /\ t.ver = "cur" /\ (Exists(t) <=> r.pc \in Storing)
        /\ t \in {NoFile, Whole} \/ r.name \in torn'
        /\ file' \in [Names -> Content]
        /\ \A n \in Names : file'[n] # file[n] =>
              /\ file'[n].ver = "cur" /\ Exists(file'[n])
              /\ file'[n] = Whole \/ n \in torn
        /\ r.pc = "map" => r.size > 0
        /\ r.pc = "size" => Exists(file[r.name]) \/ r.name \in swept
        /\ r.pc = "found" => Exists(entry_hash[p][r.name])
        /\ entry_hash' \in [Procs -> [Names -> Content]]
        /\ \A q \in Procs, n \in Names : entry_hash'[q][n] # entry_hash[q][n] =>
              q = p /\ entry_hash'[q][n] = file[n] /\ Exists(file[n])
        /\ sem' \in [Procs -> Workers \union {Nobody}]
        /\ \A q \in Procs : sem'[q] # sem[q] => q = p /\ sem'[q] \in {w, Nobody}
        /\ sem'[p] = w => r.pc \in Reading \/ torn' \union swept # {}

LEMMA ThreadMayKeeps ==
    ASSUME IInv, NEW w \in Workers, NEW r \in WorkerType, NEW t \in Content,
           ThreadMay(w, r, t)
    PROVE  IInv'
    <1> USE DEF IInv, ThreadMay
    <1> DEFINE p == ProcOf[w]
    <1>1. p \in Procs /\ w # Nobody /\ w \in ThreadsOf(p)  BY Owner
    <1>2. /\ wk' \in [Workers -> WorkerType] /\ wk'[w] = r
          /\ \A v \in Workers \ {w} : wk'[v] = wk[v]
        BY DEF ControlTyped
    <1>3. /\ tmp' \in [Workers -> Content] /\ tmp'[w] = t
          /\ \A v \in Workers \ {w} : tmp'[v] = tmp[v]
        BY DEF FilesTyped
    <1>4. \A q \in Procs, n \in Names : Exists(entry_hash[q][n]) => Exists(entry_hash'[q][n])
        OBVIOUS
    <1>5. \A n \in Names : Exists(file[n]) => Exists(file'[n])
        OBVIOUS
    <1>6. FilesTyped' /\ HistoryTyped'
        BY <1>3 DEF FilesTyped, HistoryTyped
    <1>7. ControlTyped'
        BY <1>1, <1>2 DEF ControlTyped
    <1>8. ThreadsOrderly'
        <2>1. SUFFICES ASSUME NEW v \in Workers
                       PROVE  /\ wk'[v].pc # "idle" => At(ProcOf[v], "run")
                              /\ Exists(tmp'[v]) <=> wk'[v].pc \in Storing
                              /\ wk'[v].pc = "map" => wk'[v].size > 0
                              /\ wk'[v].pc = "found" =>
                                    Exists(entry_hash'[ProcOf[v]][wk'[v].name])
            BY DEF ThreadsOrderly
        <2>2. CASE v = w
            BY <1>1, <1>2, <1>3, <1>4, <2>2 DEF WorkerType
        <2>3. CASE v # w
            <3>1. wk[v].name \in Names /\ ProcOf[v] \in Procs
                BY Owner DEF ControlTyped, WorkerType
            <3>2. QED  BY <1>2, <1>3, <1>4, <2>3, <3>1 DEF ThreadsOrderly
        <2>4. QED  BY <2>2, <2>3
    <1>9. LayoutCurrent'
        <2>1. format # "old"  BY <1>1 DEF LayoutCurrent, PastOld
        <2>2. \A n \in Names \ stuck : file[n].ver = "cur" /\ file'[n].ver = "cur"
            BY <2>1 DEF LayoutCurrent
        <2>3. \A q \in Procs, n \in Names \ stuck : entry_hash'[q][n].ver = "cur"
            BY <2>2 DEF LayoutCurrent
        <2>4. \A v \in Workers : tmp'[v].ver = "cur"
            BY <1>3 DEF LayoutCurrent
        <2>5. QED  BY <2>2, <2>3, <2>4 DEF LayoutCurrent
    <1>10. OnlyWhole'
        BY DEF OnlyWhole
    <1>11. TmpWhole'
        BY <1>2, <1>3 DEF TmpWhole
    <1>12. SeenIsThere'
        <2>1. \A v \in Workers : wk[v].name \in Names /\ r.name \in Names
            BY DEF ControlTyped, WorkerType
        <2>2. QED  BY <1>2, <1>5, <2>1 DEF SeenIsThere
    <1>13. GivenBack'
        BY <1>1, <1>2, SMTT(20) DEF GivenBack, Kept, ControlTyped, ThreadsOf, Reading
    <1>14. \A n \in Names : InCache(n) => InCache(n)'
        BY DEF InCache
    <1>15. ReadIsCached'
        <2>1. SUFFICES ASSUME NEW q \in Procs, NEW n \in Names, Exists(entry_hash'[q][n])
                       PROVE  InCache(n)'
            BY DEF ReadIsCached
        <2>2. CASE entry_hash'[q][n] = entry_hash[q][n]
            BY <1>14, <2>1, <2>2 DEF ReadIsCached
        <2>3. CASE entry_hash'[q][n] # entry_hash[q][n]
            <3>1. Exists(file[n]) /\ (file[n].ver = "cur" \/ n \in stuck)
                BY <1>1, <2>3 DEF LayoutCurrent, PastOld
            <3>2. InCache(n)
                BY <3>1, Contents DEF OnlyWhole, InCache, Exists, HistoryTyped
            <3>3. QED  BY <1>14, <3>2
        <2>4. QED  BY <2>2, <2>3
    <1>16. ThroughIsCached'
        <2>1. SUFFICES ASSUME NEW v \in Workers
                       PROVE  /\ proc[ProcOf[v]].pc \in {"run", "closed"} =>
                                    \A n \in Through(v)' : InCache(n)' \/ n \in skipped'[ProcOf[v]]
                              /\ At(ProcOf[v], "closed") => wk'[v].left = {}
            BY DEF ThroughIsCached
        <2>2. Work[v] \subseteq Names /\ ProcOf[v] \in Procs
            BY ObjCacheAssumption
        <2>3. CASE v = w
            BY <1>1, <1>2, <1>14, <2>2, <2>3 DEF ThroughIsCached, Through
        <2>4. CASE v # w
            <3>1. Through(v)' = Through(v) /\ wk'[v] = wk[v]
                BY <1>2, <2>4 DEF Through
            <3>2. QED  BY <1>14, <2>2, <3>1 DEF ThroughIsCached, Through
        <2>5. QED  BY <2>3, <2>4
    <1>17. QED
        BY <1>6, <1>7, <1>8, <1>9, <1>10, <1>11, <1>12, <1>13, <1>15, <1>16
(* A thread before, during or after cache_read_entry has no temporary file. *)
LEMMA NoTmpYet ==
    ASSUME IInv, NEW w \in Workers, wk[w].pc \notin Storing
    PROVE  [tmp EXCEPT ![w] = NoFile] = tmp
    <1>1. tmp[w] = NoFile  BY DEF IInv, ThreadsOrderly, Exists
    <1>2. QED  BY <1>1 DEF IInv, FilesTyped

LEMMA AcquireKeeps ==
    ASSUME IInv, NEW w \in Workers, At(ProcOf[w], "run"), wk[w].pc \in {"idle", "acquire"},
           NEW name \in Names, NEW why \in {"load", "store"}, Acquire(w, name, why)
    PROVE  IInv'
    <1> USE DEF IInv, Acquire
    <1> DEFINE p == ProcOf[w]
               pc == IF Exists(entry_hash[p][name]) THEN "found" ELSE "exists"
               r == [wk[w] EXCEPT !.name = name, !.pc = pc, !.why = why]
    <1>1. p \in Procs  BY Owner
    <1>2. wk[w] \in WorkerType  BY DEF ControlTyped
    <1>3. /\ r \in WorkerType /\ r.pc = pc /\ r.name = name /\ r.left = wk[w].left
          /\ pc \in {"found", "exists"}
        <2>1. pc \in {"found", "exists"}  OBVIOUS
        <2> HIDE DEF pc
        <2>2. QED  BY ONLY <1>2, <2>1, name \in Names, why \in {"load", "store"}
                   DEF WorkerType, WorkerPCs
    <1>4. wk' = [wk EXCEPT ![w] = r]  OBVIOUS
    <1>5. Exists(entry_hash[p][name]) <=> pc = "found"  OBVIOUS
    <1> HIDE DEF r, pc
    <1>6. tmp' = [tmp EXCEPT ![w] = NoFile]  BY NoTmpYet DEF Storing
    <1>7. sem' \in [Procs -> Workers \union {Nobody}]
          /\ \A q \in Procs : sem'[q] # sem[q] => q = p /\ sem'[q] \in {w, Nobody}
        BY <1>1 DEF ControlTyped
    <1>8. sem'[p] = w => r.pc \in Reading
        BY <1>1, <1>3, <1>5, Owner DEF ControlTyped, Reading
    <1>9. ThreadMay(w, r, NoFile)
        BY <1>1, <1>3, <1>4, <1>5, <1>6, <1>7, <1>8, Contents
        DEF ThreadMay, FilesTyped, HistoryTyped, Storing
    <1>10. QED  BY <1>3, <1>9, ThreadMayKeeps, Contents

-----------------------------------------------------------------------------
(* The ends of cache_read_entry and of a store that failed: the thread is  *)
(* through with the object or prepares it.                                 *)

Leaves(w, r) ==
    LET p == ProcOf[w]
    IN  /\ wk' = [wk EXCEPT ![w] = r]
        /\ r.pc \in {"idle", "create"} /\ r.left \subseteq wk[w].left
        /\ \A n \in wk[w].left \ r.left : InCache(n) \/ n \in skipped'[p]
        /\ skipped' \in [Procs -> SUBSET Names]
        /\ \A q \in Procs : skipped[q] \subseteq skipped'[q]

LEMMA DoneWith ==
    ASSUME IInv, NEW w \in Workers, Done(w)
    PROVE  \E r \in WorkerType :
              /\ wk' = [wk EXCEPT ![w] = r]
              /\ r.pc = "idle" /\ r.left = wk[w].left \ {wk[w].name}
    <1> DEFINE r == IdleWorker(wk[w].left \ {wk[w].name})
    <1>1. wk[w].left \ {wk[w].name} \in SUBSET Names
        BY DEF IInv, ControlTyped, WorkerType
    <1>2. r \in WorkerType /\ r.pc = "idle" /\ r.left = wk[w].left \ {wk[w].name}
        BY <1>1, IdleWorkerTyped
    <1>3. wk' = [wk EXCEPT ![w] = r]  BY DEF Done
    <1> HIDE DEF r
    <1>4. QED  BY <1>2, <1>3

LEMMA GiveUpLeaves ==
    ASSUME IInv, NEW w \in Workers, GiveUp(w)
    PROVE  \E r \in WorkerType : Leaves(w, r)
    <1>1. PICK r \in WorkerType :
              /\ wk' = [wk EXCEPT ![w] = r]
              /\ r.pc = "idle" /\ r.left = wk[w].left \ {wk[w].name}
        BY DoneWith DEF GiveUp
    <1>2. wk[w].name \in Names  BY DEF IInv, ControlTyped, WorkerType
    <1>3. Leaves(w, r)
        BY <1>1, <1>2, Owner DEF Leaves, GiveUp, IInv, HistoryTyped
    <1>4. QED  BY <1>3

LEMMA PrepareLeaves ==
    ASSUME IInv, NEW w \in Workers, Prepare(w)
    PROVE  \E r \in WorkerType : Leaves(w, r)
    <1>1. CASE Go(w, "create") /\ UNCHANGED skipped
        <2> DEFINE r == [wk[w] EXCEPT !.pc = "create"]
        <2>1. wk[w] \in WorkerType  BY DEF IInv, ControlTyped
        <2>2. r \in WorkerType /\ r.pc = "create" /\ r.left = wk[w].left
            BY ONLY <2>1 DEF WorkerType, WorkerPCs
        <2>3. wk' = [wk EXCEPT ![w] = r]  BY <1>1 DEF Go
        <2> HIDE DEF r
        <2>4. Leaves(w, r)  BY <1>1, <2>2, <2>3 DEF Leaves, IInv, HistoryTyped
        <2>5. QED  BY <2>2, <2>4
    <1>2. CASE GiveUp(w)
        BY <1>2, GiveUpLeaves
    <1>3. QED  BY <1>1, <1>2 DEF Prepare

LEMMA NotFoundLeaves ==
    ASSUME IInv, NEW w \in Workers, NotFound(w)
    PROVE  \E r \in WorkerType : Leaves(w, r)
    BY PrepareLeaves, GiveUpLeaves DEF NotFound

LEMMA FoundLeaves ==
    ASSUME IInv, NEW w \in Workers, NEW entry, Found(w, entry), InCache(wk[w].name)
    PROVE  \E r \in WorkerType : Leaves(w, r)
    <1>1. CASE Done(w) /\ UNCHANGED skipped
        <2>1. PICK r \in WorkerType :
                  /\ wk' = [wk EXCEPT ![w] = r]
                  /\ r.pc = "idle" /\ r.left = wk[w].left \ {wk[w].name}
            BY <1>1, DoneWith
        <2>2. Leaves(w, r)
            BY <1>1, <2>1 DEF Leaves, IInv, HistoryTyped
        <2>3. QED  BY <2>2
    <1>2. CASE Prepare(w)
        BY <1>2, PrepareLeaves
    <1>3. QED  BY <1>1, <1>2 DEF Found

LEMMA LeavesKeeps ==
    ASSUME IInv, NEW w \in Workers, At(ProcOf[w], "run"),
           NEW r \in WorkerType, Leaves(w, r),
           tmp' = [tmp EXCEPT ![w] = NoFile],
           UNCHANGED <<format, file, proc, swept, stuck, torn>>, hurt' \in 0 .. MaxHurt,
           entry_hash' \in [Procs -> [Names -> Content]],
           \A q \in Procs, n \in Names : entry_hash'[q][n] # entry_hash[q][n] =>
              q = ProcOf[w] /\ entry_hash'[q][n] = file[n] /\ Exists(file[n]),
           sem' \in [Procs -> Workers \union {Nobody}],
           \A q \in Procs : sem'[q] # sem[q] => q = ProcOf[w] /\ sem'[q] \in {w, Nobody},
           sem'[ProcOf[w]] = w => torn \union swept # {}
    PROVE  IInv'
    <1>1. ThreadMay(w, r, NoFile)
        BY Contents DEF ThreadMay, Leaves, Storing, IInv, FilesTyped, HistoryTyped
    <1>2. QED  BY <1>1, ThreadMayKeeps, Contents
-----------------------------------------------------------------------------
(* A thread that holds the semaphore and is not reading: see GivenBack.    *)
LEMMA HolderReads ==
    ASSUME IInv, NEW w \in Workers, sem[ProcOf[w]] = w, wk[w].pc \notin Reading
    PROVE  torn \union swept # {}
    BY Owner DEF IInv, GivenBack, Kept, Reading

LEMMA HistoryIsTyped ==
    ASSUME IInv
    PROVE  /\ swept \subseteq Names /\ stuck \subseteq swept /\ torn \subseteq Names
           /\ skipped \in [Procs -> SUBSET Names]
           /\ hurt \in 0 .. MaxHurt
           /\ \A kind : MayHurt(kind) => hurt' \in 0 .. MaxHurt
    BY ObjCacheAssumption DEF IInv, HistoryTyped, MayHurt

LEMMA ReadEntryKeeps ==
    ASSUME IInv, NEW w \in Workers, cache_read_entry(w)
    PROVE  IInv'
    <1> DEFINE p == ProcOf[w]
               name == wk[w].name
               f == file[name]
    <1>1. p \in Procs /\ w # Nobody  BY Owner
    <1>2. wk[w] \in WorkerType /\ name \in Names /\ f \in Content
        BY DEF IInv, ControlTyped, FilesTyped, WorkerType
    <1>3. /\ At(p, "run") /\ wk[w].pc \in {"found", "exists", "size", "map"}
          /\ UNCHANGED <<files, proc, swept, stuck, torn, hurt>>
        BY DEF cache_read_entry, ReadEntry, Active
    <1>4. tmp' = [tmp EXCEPT ![w] = NoFile]
        BY <1>3, NoTmpYet DEF Storing
    <1>5. f.ver = "cur" \/ name \in swept
        BY <1>1, <1>2, <1>3 DEF IInv, LayoutCurrent, PastOld, HistoryTyped
    <1>6. /\ entry_hash \in [Procs -> [Names -> Content]] /\ hurt \in 0 .. MaxHurt
          /\ sem \in [Procs -> Workers \union {Nobody}]
        BY DEF IInv, FilesTyped, ControlTyped, HistoryTyped
    <1>7. Exists(f) => f = Whole \/ name \in swept \union torn
        BY <1>2, <1>5, Contents DEF IInv, OnlyWhole, Exists
    <1>8. f.len > 0 => Exists(f)
        BY Contents DEF Exists
    <1>9. CASE /\ Active(w, "found")
               /\ Found(w, entry_hash[p][name]) /\ UNCHANGED memory
        <2>1. InCache(name)
            BY <1>1, <1>2, <1>9 DEF IInv, ThreadsOrderly, ReadIsCached, Active
        <2>2. PICK r \in WorkerType : Leaves(w, r)
            BY <1>9, <2>1, FoundLeaves
        <2>3. sem'[p] = w => torn \union swept # {}
            BY <1>9, HolderReads DEF Reading, Active
        <2>4. QED  BY <1>3, <1>4, <1>6, <1>9, <2>2, <2>3, LeavesKeeps
    <1>10. CASE \E pc \in {"size", "map"} : \E size \in -1 .. Size :
                  /\ wk' = [wk EXCEPT ![w].pc = pc, ![w].size = size]
                  /\ Exists(f) /\ (pc = "map" => size > 0)
                  /\ UNCHANGED <<memory, skipped>>
        <2> PICK pc \in {"size", "map"}, size \in -1 .. Size :
                  /\ wk' = [wk EXCEPT ![w].pc = pc, ![w].size = size]
                  /\ Exists(f) /\ (pc = "map" => size > 0)
                  /\ UNCHANGED <<memory, skipped>>
            BY <1>10
        <2> DEFINE r == [wk[w] EXCEPT !.pc = pc, !.size = size]
        <2>1. /\ r \in WorkerType /\ r.pc = pc /\ r.size = size
              /\ r.name = name /\ r.left = wk[w].left
            BY ONLY <1>2, pc \in {"size", "map"}, size \in -1 .. Size DEF WorkerType, WorkerPCs
        <2>2. wk' = [wk EXCEPT ![w] = r]  BY <1>2 DEF IInv, ControlTyped, WorkerType
        <2> HIDE DEF r
        <2>3. ThreadMay(w, r, NoFile)
            BY <1>1, <1>2, <1>3, <1>4, <1>6, <2>1, <2>2, Contents, HistoryIsTyped
            DEF ThreadMay, Storing, Reading, IInv, FilesTyped
        <2>4. QED  BY <2>1, <2>3, ThreadMayKeeps, Contents
    <1>11. CASE /\ Active(w, "exists") /\ ~Exists(f)
                /\ Release(w) /\ NotFound(w) /\ UNCHANGED entry_hash
        <2>1. PICK r \in WorkerType : Leaves(w, r)
            BY <1>11, NotFoundLeaves
        <2>2. /\ sem' \in [Procs -> Workers \union {Nobody}] /\ sem'[p] = Nobody
              /\ \A q \in Procs \ {p} : sem'[q] = sem[q]
            BY <1>1, <1>6, <1>11 DEF Release
        <2>3. QED  BY <1>1, <1>3, <1>4, <1>6, <1>11, <2>1, <2>2, LeavesKeeps
    <1>12. CASE Active(w, "size") /\ f.len <= 0 /\ NotFound(w) /\ UNCHANGED memory
        <2>1. PICK r \in WorkerType : Leaves(w, r)
            BY <1>12, NotFoundLeaves
        <2>2. torn \union swept # {}
            <3>1. Exists(f) \/ name \in swept
                BY <1>12 DEF IInv, SeenIsThere, Active
            <3>2. f # Whole  BY <1>12, Contents
            <3>3. QED  BY <1>7, <3>1, <3>2
        <2>3. QED  BY <1>3, <1>4, <1>6, <1>12, <2>1, <2>2, LeavesKeeps
    <1>13. CASE /\ Active(w, "map") /\ f.len = wk[w].size
                /\ entry_hash' = [entry_hash EXCEPT ![p][name] = f]
                /\ Release(w) /\ Found(w, f)
        <2>1. Exists(f)
            BY <1>13, Contents DEF IInv, ThreadsOrderly, Active, Exists
        <2>2. InCache(name)  BY <1>7, <2>1 DEF InCache
        <2>3. PICK r \in WorkerType : Leaves(w, r)
            BY <1>13, <2>2, FoundLeaves
        <2>4. /\ sem' \in [Procs -> Workers \union {Nobody}] /\ sem'[p] = Nobody
              /\ \A q \in Procs \ {p} : sem'[q] = sem[q]
            BY <1>1, <1>6, <1>13 DEF Release
        <2>5. /\ entry_hash' \in [Procs -> [Names -> Content]]
              /\ \A q \in Procs, n \in Names :
                    entry_hash'[q][n] # entry_hash[q][n] => q = p /\ entry_hash'[q][n] = file[n]
            BY <1>1, <1>2, <1>6, <1>13
        <2>6. \A q \in Procs, n \in Names :
                    entry_hash'[q][n] # entry_hash[q][n] => Exists(file[n])
            BY <1>1, <1>2, <1>6, <1>13, <2>1
        <2>7. /\ \A q \in Procs : sem'[q] # sem[q] => q = p /\ sem'[q] \in {w, Nobody}
              /\ sem'[p] # w
            BY <1>1, <2>4
        <2> HIDE DEF p, f, name
        <2>8. UNCHANGED <<format, file, proc, swept, stuck, torn>> /\ hurt' \in 0 .. MaxHurt
            BY <1>3, <1>6
        <2>9. \A q \in Procs, n \in Names : entry_hash'[q][n] # entry_hash[q][n] =>
                  q = ProcOf[w] /\ entry_hash'[q][n] = file[n] /\ Exists(file[n])
            BY <2>5, <2>6 DEF p
        <2>10. At(ProcOf[w], "run") /\ (sem'[ProcOf[w]] = w => torn \union swept # {})
            BY <1>3, <2>7 DEF p
        <2>11. \A q \in Procs : sem'[q] # sem[q] => q = ProcOf[w] /\ sem'[q] \in {w, Nobody}
            BY <2>7 DEF p
        <2>12. QED
            BY <1>4, <2>3, <2>4, <2>5, <2>8, <2>9, <2>10, <2>11, LeavesKeeps
    <1>14. CASE /\ Active(w, "map") /\ f.len # wk[w].size
                /\ Release(w) /\ NotFound(w) /\ UNCHANGED entry_hash
        <2>1. PICK r \in WorkerType : Leaves(w, r)
            BY <1>14, NotFoundLeaves
        <2>2. /\ sem' \in [Procs -> Workers \union {Nobody}] /\ sem'[p] = Nobody
              /\ \A q \in Procs \ {p} : sem'[q] = sem[q]
            BY <1>1, <1>6, <1>14 DEF Release
        <2>3. QED  BY <1>1, <1>3, <1>4, <1>6, <1>14, <2>1, <2>2, LeavesKeeps, ZenonT(30)
    <1>15. CASE Active(w, "exists") /\ Exists(f) /\ Go(w, "size") /\ UNCHANGED <<memory, skipped>>
        <2>1. wk[w].size \in -1 .. Size  BY <1>2 DEF WorkerType
        <2>2. wk' = [wk EXCEPT ![w].pc = "size", ![w].size = wk[w].size]
            BY <1>2, <1>15 DEF Go, IInv, ControlTyped, WorkerType
        <2>3. QED  BY <1>10, <1>15, <2>1, <2>2
    <1>16. CASE /\ Active(w, "size") /\ f.len > 0
                /\ wk' = [wk EXCEPT ![w].pc = "map", ![w].size = f.len]
                /\ UNCHANGED <<memory, skipped>>
        <2>1. f.len \in -1 .. Size /\ Exists(f)  BY <1>2, <1>8, <1>16 DEF Content
        <2>2. QED  BY <1>10, <1>16, <2>1
    <1>17. QED
        BY <1>9, <1>11, <1>12, <1>13, <1>14, <1>15, <1>16 DEF cache_read_entry, ReadEntry
-----------------------------------------------------------------------------
(* cache_try_store: its steps leave what has been read and the semaphore   *)
(* alone.                                                                  *)
LEMMA StoreStepKeeps ==
    ASSUME IInv, NEW w \in Workers, At(ProcOf[w], "run"), wk[w].pc \notin Reading,
           NEW r \in WorkerType, NEW t \in Content,
           wk' = [wk EXCEPT ![w] = r], tmp' = [tmp EXCEPT ![w] = t],
           r.left = wk[w].left, r.pc \notin {"map", "size", "found"},
           t.ver = "cur", Exists(t) <=> r.pc \in Storing,
           t \in {NoFile, Whole} \/ r.name \in torn',
           torn \subseteq torn', torn' \subseteq Names, hurt' \in 0 .. MaxHurt,
           file' \in [Names -> Content],
           \A n \in Names : file'[n] # file[n] =>
              /\ file'[n].ver = "cur" /\ Exists(file'[n])
              /\ file'[n] = Whole \/ n \in torn,
           UNCHANGED <<format, proc, memory, swept, stuck, skipped>>
    PROVE  IInv'
    <1>1. sem'[ProcOf[w]] = w => torn' \union swept # {}
        BY HolderReads
    <1>2. /\ entry_hash \in [Procs -> [Names -> Content]]
          /\ sem \in [Procs -> Workers \union {Nobody}]
        BY DEF IInv, FilesTyped, ControlTyped
    <1>3. ThreadMay(w, r, t)
        BY <1>1, <1>2, HistoryIsTyped DEF ThreadMay
    <1>4. QED  BY <1>3, ThreadMayKeeps

(* A store that is given up, by a thread that has no temporary file left.  *)
LEMMA StoreGivenUpKeeps ==
    ASSUME IInv, NEW w \in Workers, At(ProcOf[w], "run"), wk[w].pc \notin Reading,
           GiveUp(w), tmp' = [tmp EXCEPT ![w] = NoFile],
           UNCHANGED <<format, file, proc, memory, swept, stuck, torn>>, hurt' \in 0 .. MaxHurt
    PROVE  IInv'
    <1>1. PICK r \in WorkerType : Leaves(w, r)
        BY GiveUpLeaves
    <1>2. sem'[ProcOf[w]] = w => torn \union swept # {}
        BY HolderReads
    <1>3. /\ entry_hash \in [Procs -> [Names -> Content]]
          /\ sem \in [Procs -> Workers \union {Nobody}]
        BY DEF IInv, FilesTyped, ControlTyped
    <1>4. QED  BY <1>1, <1>2, <1>3, LeavesKeeps

(* The fields of a thread that goes on with a store. *)
LEMMA GoTyped ==
    ASSUME IInv, NEW w \in Workers, NEW pc \in WorkerPCs, Go(w, pc)
    PROVE  \E r \in WorkerType :
              /\ wk' = [wk EXCEPT ![w] = r]
              /\ r.pc = pc /\ r.left = wk[w].left /\ r.name = wk[w].name
    <1> DEFINE r == [wk[w] EXCEPT !.pc = pc]
    <1>1. wk[w] \in WorkerType  BY DEF IInv, ControlTyped
    <1>2. /\ r \in WorkerType
          /\ r.pc = pc /\ r.left = wk[w].left /\ r.name = wk[w].name
        BY ONLY <1>1, pc \in WorkerPCs DEF WorkerType
    <1>3. wk' = [wk EXCEPT ![w] = r]  BY DEF Go
    <1> HIDE DEF r
    <1>4. QED  BY <1>2, <1>3

LEMMA WriteTmpKeeps ==
    ASSUME IInv, NEW w \in Workers, WriteTmp(w)
    PROVE  IInv'
    <1>1. /\ At(ProcOf[w], "run") /\ wk[w].pc = "create"
          /\ UNCHANGED <<format, file, proc, memory, swept, stuck>>
        BY DEF WriteTmp, Active
    <1>2. [tmp EXCEPT ![w] = NoFile] = tmp /\ wk[w].pc \notin Reading
        BY <1>1, NoTmpYet DEF Storing, Reading
    <1>3. wk[w].name \in Names /\ file \in [Names -> Content]
        BY DEF IInv, ControlTyped, FilesTyped, WorkerType
    <1>4. CASE GiveUp(w) /\ UNCHANGED <<tmp, torn>> /\ hurt' \in 0 .. MaxHurt
        BY <1>1, <1>2, <1>4, StoreGivenUpKeeps
    <1>5. CASE \E t \in Content :
                  /\ tmp' = [tmp EXCEPT ![w] = t]
                  /\ t.ver = "cur" /\ Exists(t)
                  /\ t = Whole \/ wk[w].name \in torn'
                  /\ torn \subseteq torn' /\ torn' \subseteq Names
                  /\ Go(w, "beaten") /\ UNCHANGED skipped /\ hurt' \in 0 .. MaxHurt
        <2>1. PICK t \in Content :
                  /\ tmp' = [tmp EXCEPT ![w] = t]
                  /\ t.ver = "cur" /\ Exists(t)
                  /\ t = Whole \/ wk[w].name \in torn'
                  /\ torn \subseteq torn' /\ torn' \subseteq Names
                  /\ Go(w, "beaten") /\ UNCHANGED skipped /\ hurt' \in 0 .. MaxHurt
            BY <1>5
        <2>2. PICK r \in WorkerType :
                  /\ wk' = [wk EXCEPT ![w] = r]
                  /\ r.pc = "beaten" /\ r.left = wk[w].left /\ r.name = wk[w].name
            BY <2>1, GoTyped DEF WorkerPCs, Storing
        <2>3. r.pc \in Storing /\ r.pc \notin {"map", "size", "found"}
            BY <2>2 DEF Storing
        <2>4. QED  BY <1>1, <1>2, <1>3, <2>1, <2>2, <2>3, StoreStepKeeps
    <1>6. CASE /\ tmp' = [tmp EXCEPT ![w] = Whole]
               /\ Go(w, "beaten") /\ UNCHANGED <<skipped, torn, hurt>>
        BY <1>5, <1>6, Contents, HistoryIsTyped
    <1>7. CASE (\E p \in Procs : At(p, "sweep")) /\ GiveUp(w) /\ UNCHANGED <<tmp, torn, hurt>>
        BY <1>4, <1>7, HistoryIsTyped
    <1>8. CASE MayHurt("noticed") /\ GiveUp(w) /\ UNCHANGED <<tmp, torn>>
        BY <1>4, <1>8, HistoryIsTyped
    <1>9. CASE /\ MayHurt("short")
               /\ \E len \in 0 .. Size - 1 : tmp' = [tmp EXCEPT ![w] = [Whole EXCEPT !.len = len]]
               /\ torn' = torn \union {wk[w].name}
               /\ Go(w, "beaten") /\ UNCHANGED skipped
        <2>1. PICK len \in 0 .. Size - 1 : tmp' = [tmp EXCEPT ![w] = [Whole EXCEPT !.len = len]]
            BY <1>9
        <2> DEFINE t == [Whole EXCEPT !.len = len]
        <2>2. t \in Content /\ t.ver = "cur" /\ Exists(t)
            BY ObjCacheAssumption DEF Content, Whole, Exists, NoFile
        <2>3. tmp' = [tmp EXCEPT ![w] = t]  BY <2>1
        <2> HIDE DEF t
        <2>4. QED  BY <1>3, <1>5, <1>9, <2>2, <2>3, HistoryIsTyped
    <1>10. QED  BY <1>6, <1>7, <1>8, <1>9 DEF WriteTmp

LEMMA BeatenKeeps ==
    ASSUME IInv, NEW w \in Workers, Beaten(w)
    PROVE  IInv'
    <1> DEFINE f == file[wk[w].name]
    <1>1. /\ At(ProcOf[w], "run") /\ wk[w].pc \in {"beaten", "compare", "wait"}
          /\ UNCHANGED <<files, proc, memory, history>>
        BY DEF Beaten, Active
    <1>2. /\ wk[w] \in WorkerType /\ f \in Content /\ f.len \in -1 .. Size
          /\ file \in [Names -> Content] /\ tmp[w] \in Content
        BY DEF IInv, ControlTyped, FilesTyped, WorkerType, Content
    <1>3. \E r \in WorkerType :
             /\ wk' = [wk EXCEPT ![w] = r]
             /\ r.pc \in Storing /\ r.left = wk[w].left /\ r.name = wk[w].name
        <2>1. CASE Go(w, "compare") \/ Go(w, "rename")
            BY <2>1, GoTyped DEF WorkerPCs, Storing
        <2>2. CASE \E final, checkpnt \in -1 .. Size, cnt \in 0 .. 3 :
                 wk' = [wk EXCEPT ![w].final = final, ![w].checkpnt = checkpnt,
                                  ![w].cnt = cnt, ![w].pc = "wait"]
            <3> PICK final \in -1 .. Size, checkpnt \in -1 .. Size, cnt \in 0 .. 3 :
                 wk' = [wk EXCEPT ![w].final = final, ![w].checkpnt = checkpnt,
                                  ![w].cnt = cnt, ![w].pc = "wait"]
                BY <2>2
            <3> DEFINE r == [wk[w] EXCEPT !.final = final, !.checkpnt = checkpnt,
                                          !.cnt = cnt, !.pc = "wait"]
            <3>1. /\ r \in WorkerType
                  /\ r.pc \in Storing /\ r.left = wk[w].left /\ r.name = wk[w].name
                BY ONLY <1>2, final \in -1 .. Size, checkpnt \in -1 .. Size, cnt \in 0 .. 3
                DEF WorkerType, WorkerPCs, Storing
            <3>2. wk' = [wk EXCEPT ![w] = r]
                BY <1>2 DEF IInv, ControlTyped, WorkerType
            <3> HIDE DEF r
            <3>3. QED  BY <3>1, <3>2
        <2>3. CASE /\ Active(w, "compare")
                   /\ wk' = [wk EXCEPT ![w].final = f.len, ![w].pc = "wait"]
            <3>1. wk[w].checkpnt \in -1 .. Size /\ wk[w].cnt \in 0 .. 3
                BY <1>2 DEF WorkerType
            <3>2. wk' = [wk EXCEPT ![w].final = f.len, ![w].checkpnt = wk[w].checkpnt,
                                   ![w].cnt = wk[w].cnt, ![w].pc = "wait"]
                BY <1>2, <2>3 DEF IInv, ControlTyped, WorkerType
            <3>3. QED  BY <1>2, <2>2, <3>1, <3>2
        <2>4. CASE /\ Active(w, "wait") /\ ~Settled(w)
                   /\ wk' = [wk EXCEPT ![w].checkpnt = wk[w].final, ![w].final = f.len,
                                       ![w].cnt = @ + 1]
            <3>1. wk[w].final \in -1 .. Size /\ wk[w].cnt + 1 \in 0 .. 3
                <4>1. wk[w].final \in -1 .. Size /\ wk[w].cnt \in 0 .. 3
                    BY <1>2 DEF WorkerType
                <4>2. wk[w].cnt < 3  BY <2>4, <4>1 DEF Settled
                <4>3. QED  BY ONLY <4>1, <4>2
            <3>2. wk' = [wk EXCEPT ![w].final = f.len, ![w].checkpnt = wk[w].final,
                                   ![w].cnt = wk[w].cnt + 1, ![w].pc = "wait"]
                BY <1>2, <2>4 DEF IInv, ControlTyped, WorkerType, Active
            <3>3. QED  BY <1>2, <2>2, <3>1, <3>2
        <2>5. QED  BY <2>1, <2>3, <2>4 DEF Beaten
    <1>4. PICK r \in WorkerType :
             /\ wk' = [wk EXCEPT ![w] = r]
             /\ r.pc \in Storing /\ r.left = wk[w].left /\ r.name = wk[w].name
        BY <1>3
    <1>5. /\ tmp' = [tmp EXCEPT ![w] = tmp[w]]
          /\ tmp[w].ver = "cur" /\ Exists(tmp[w])
          /\ tmp[w] \in {NoFile, Whole} \/ wk[w].name \in torn'
        BY <1>1 DEF IInv, FilesTyped, LayoutCurrent, ThreadsOrderly, TmpWhole, Storing
    <1>6. wk[w].pc \notin Reading /\ r.pc \notin {"map", "size", "found"}
        BY <1>1, <1>4 DEF Reading, Storing
    <1>7. QED
        BY <1>1, <1>2, <1>4, <1>5, <1>6, HistoryIsTyped, StoreStepKeeps

(* The thread goes on to read what is in the cache now. *)
LEMMA ToReadBack ==
    ASSUME IInv, NEW w \in Workers,
           wk' = [wk EXCEPT ![w].pc = "acquire", ![w].why = "store"]
    PROVE  \E r \in WorkerType :
              /\ wk' = [wk EXCEPT ![w] = r]
              /\ r.pc = "acquire" /\ r.left = wk[w].left /\ r.name = wk[w].name
    <1> DEFINE r == [wk[w] EXCEPT !.pc = "acquire", !.why = "store"]
    <1>1. wk[w] \in WorkerType  BY DEF IInv, ControlTyped
    <1>2. /\ r \in WorkerType
          /\ r.pc = "acquire" /\ r.left = wk[w].left /\ r.name = wk[w].name
        BY ONLY <1>1 DEF WorkerType, WorkerPCs
    <1>3. wk' = [wk EXCEPT ![w] = r]  BY <1>1 DEF WorkerType, IInv, ControlTyped
    <1> HIDE DEF r
    <1>4. QED  BY <1>2, <1>3

LEMMA KeepOtherKeeps ==
    ASSUME IInv, NEW w \in Workers, KeepOther(w)
    PROVE  IInv'
    <1>1. /\ At(ProcOf[w], "run") /\ wk[w].pc \notin Reading
          /\ tmp' = [tmp EXCEPT ![w] = NoFile]
          /\ UNCHANGED <<format, file, proc, memory, swept, stuck, torn, hurt>>
        BY DEF KeepOther, Active, Reading
    <1>2. CASE GiveUp(w)
        BY <1>1, <1>2, StoreGivenUpKeeps, HistoryIsTyped
    <1>3. CASE /\ wk' = [wk EXCEPT ![w].pc = "acquire", ![w].why = "store"]
               /\ UNCHANGED skipped
        <2>1. PICK r \in WorkerType :
                  /\ wk' = [wk EXCEPT ![w] = r]
                  /\ r.pc = "acquire" /\ r.left = wk[w].left /\ r.name = wk[w].name
            BY <1>3, ToReadBack
        <2>2. r.pc \notin Storing /\ r.pc \notin {"map", "size", "found"}
            BY <2>1 DEF Storing
        <2>3. file \in [Names -> Content]  BY DEF IInv, FilesTyped
        <2>4. QED
            BY <1>1, <1>3, <2>1, <2>2, <2>3, StoreStepKeeps, HistoryIsTyped, Contents
    <1>4. QED  BY <1>2, <1>3 DEF KeepOther

LEMMA RenameKeeps ==
    ASSUME IInv, NEW w \in Workers, Rename(w)
    PROVE  IInv'
    <1>1. /\ At(ProcOf[w], "run") /\ wk[w].pc = "rename" /\ wk[w].pc \notin Reading
          /\ tmp' = [tmp EXCEPT ![w] = NoFile]
          /\ UNCHANGED <<format, proc, memory, swept, stuck, torn>>
        BY DEF Rename, Active, Reading
    <1>2. CASE GiveUp(w) /\ MayHurt("noticed") /\ UNCHANGED file
        BY <1>1, <1>2, StoreGivenUpKeeps, HistoryIsTyped
    <1>3. CASE /\ file' = [file EXCEPT ![wk[w].name] = tmp[w]]
               /\ wk' = [wk EXCEPT ![w].pc = "acquire", ![w].why = "store"]
               /\ UNCHANGED <<skipped, hurt>>
        <2>1. PICK r \in WorkerType :
                  /\ wk' = [wk EXCEPT ![w] = r]
                  /\ r.pc = "acquire" /\ r.left = wk[w].left /\ r.name = wk[w].name
            BY <1>3, ToReadBack
        <2>2. r.pc \notin Storing /\ r.pc \notin {"map", "size", "found"}
            BY <2>1 DEF Storing
        <2>3. /\ tmp[w] \in Content /\ tmp[w].ver = "cur" /\ Exists(tmp[w])
              /\ tmp[w] = Whole \/ wk[w].name \in torn
            BY <1>1, Contents
            DEF IInv, FilesTyped, LayoutCurrent, ThreadsOrderly, TmpWhole, Storing
        <2>4. file' \in [Names -> Content]
              /\ \A n \in Names : file'[n] # file[n] => n = wk[w].name /\ file'[n] = tmp[w]
            BY <1>3, <2>3 DEF IInv, FilesTyped
        <2>5. /\ torn \subseteq torn' /\ torn' \subseteq Names /\ hurt' \in 0 .. MaxHurt
              /\ NoFile \in Content /\ NoFile.ver = "cur" /\ ~Exists(NoFile)
            BY <1>1, <1>3, HistoryIsTyped, Contents
        <2>6. \A n \in Names : file'[n] # file[n] =>
                  file'[n].ver = "cur" /\ Exists(file'[n]) /\ (file'[n] = Whole \/ n \in torn)
            BY <2>3, <2>4
        <2>7. QED
            BY <1>1, <1>3, <2>1, <2>2, <2>4, <2>5, <2>6, StoreStepKeeps
    <1>4. QED  BY <1>2, <1>3 DEF Rename
-----------------------------------------------------------------------------
LEMMA NextKeeps ==
    ASSUME IInv, Next
    PROVE  IInv'
    <1>1. PICK p \in Procs : Open(p) \/ Progress(p) \/ Crash(p)
        BY DEF Next
    <1>2. CASE Open(p) \/ Crash(p)
        BY <1>2, OpenKeeps, CrashKeeps
    <1>3. CASE ProcStep(p)
        BY <1>3, InitCacheKeeps, FormatKeeps, ListDirsKeeps, ListFilesKeeps, SweepKeeps,
           DeleteFormatKeeps, FormatKeptKeeps, CloseKeeps
        DEF ProcStep
    <1>4. CASE \E w \in ThreadsOf(p) : ThreadStep(w)
        <2>1. PICK w \in Workers : ThreadStep(w)
            BY <1>4 DEF ThreadsOf
        <2>2. CASE rt_cache_prep(w) \/ ReadBack(w)
            <3>1. /\ At(ProcOf[w], "run") /\ wk[w].pc \in {"idle", "acquire"}
                  /\ \E name \in Names, why \in {"load", "store"} : Acquire(w, name, why)
                BY <2>2 DEF rt_cache_prep, ReadBack, Active, IInv, ControlTyped, WorkerType
            <3>2. QED  BY <3>1, AcquireKeeps
        <2>3. CASE cache_read_entry(w)
            BY <2>3, ReadEntryKeeps
        <2>4. CASE WriteTmp(w) \/ Beaten(w) \/ KeepOther(w) \/ Rename(w)
            BY <2>4, WriteTmpKeeps, BeatenKeeps, KeepOtherKeeps, RenameKeeps
        <2>5. QED  BY <2>1, <2>2, <2>3, <2>4 DEF ThreadStep
    <1>5. QED  BY <1>1, <1>2, <1>3, <1>4 DEF Progress

LEMMA StutterKeeps ==
    ASSUME IInv, UNCHANGED vars
    PROVE  IInv'
    BY DEF IInv, vars, FilesTyped, ControlTyped, HistoryTyped, ThreadsOrderly, LayoutCurrent,
           OnlyWhole, TmpWhole, SeenIsThere, GivenBack, Kept, ReadIsCached, InCache,
           ThroughIsCached, Through

(* However processes and threads interleave, crash and lose writes, the    *)
(* inductive invariant holds.                                              *)
THEOREM CacheInvariance == Spec => []IInv
    <1>1. IInv /\ [Next]_vars => IInv'
        BY NextKeeps, StutterKeeps
    <1>2. QED  BY <1>1, InitIInv, PTL DEF Spec

(* Every variable of cache.c stays in its type, a temporary file included. *)
THEOREM CacheTypeCorrect == Spec => []TypeOK
    <1>1. IInv => TypeOK
        <2> SUFFICES ASSUME IInv PROVE TypeOK  OBVIOUS
        <2>1. \A w \in Workers :
                  /\ wk[w].pc \in WorkerPCs /\ wk[w].left \subseteq Work[w]
                  /\ wk[w].cnt \in 0 .. 3
                  /\ wk[w].pc = "idle" => ~Exists(tmp[w])
            BY DEF IInv, ControlTyped, WorkerType, ThreadsOrderly, Storing
        <2>2. QED
            BY <2>1 DEF IInv, TypeOK, FilesTyped, ControlTyped, HistoryTyped, Content,
                        ProcType, ProcPCs, WorkerPCs, Storing
    <1>2. QED  BY <1>1, CacheInvariance, PTL

(* A file under an object's own name, and what is mapped from it, is whole *)
(* unless fclose lost bytes of it: nobody sees the file of cache_try_store *)
(* before it is renamed, and no later step shortens it.                    *)
THEOREM NeverHalfWritten == Spec => []OnlyWhole
    <1>1. IInv => OnlyWhole  BY DEF IInv
    <1>2. QED  BY <1>1, CacheInvariance, PTL

(* What cache_read_entry maps is of the current layout, whichever of       *)
(* several processes upgrade the cache and wherever they are killed, if    *)
(* the upgrade could delete the file.                                      *)
THEOREM OldLayoutNeverRead == Spec => []OldNeverRead
    <1>1. IInv => OldNeverRead  BY Contents DEF IInv, LayoutCurrent, OldNeverRead
    <1>2. QED  BY <1>1, CacheInvariance, PTL

(* The semaphore of a cache is given back by cache_read_entry unless fclose *)
(* lost bytes or an upgrade deleted files.                                  *)
THEOREM SemaphoreGivenBack == Spec => []GivenBack
    <1>1. IInv => GivenBack  BY DEF IInv
    <1>2. QED  BY <1>1, CacheInvariance, PTL

(* A process that closes the cache leaves in it what its threads prepared, *)
(* but for what it could not write, what an upgrade deleted again and what *)
(* fclose lost.                                                            *)
THEOREM PreparedStaysCached == Spec => []PreparedIsCached
    <1>1. IInv => PreparedIsCached
        <2> SUFFICES ASSUME IInv, NEW q \in Procs, At(q, "closed"), NEW n \in NeedsOf(q)
                     PROVE  file[n] = Whole \/ n \in skipped[q] \union swept \union torn
            BY DEF PreparedIsCached
        <2>1. PICK w \in Workers : ProcOf[w] = q /\ n \in Work[w]
            BY DEF NeedsOf, ThreadsOf
        <2>2. n \in Through(w)
            BY <2>1 DEF IInv, ThroughIsCached, Through
        <2>3. QED  BY <2>1, <2>2 DEF IInv, ThroughIsCached, InCache
    <1>2. QED  BY <1>1, CacheInvariance, PTL
=============================================================================
