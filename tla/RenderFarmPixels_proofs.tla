---------------------- MODULE RenderFarmPixels_proofs ----------------------
(***************************************************************************)
(* The pixels of the farm.  What is stored is not rendered again           *)
(* (NoRework), what is not stored is queued or assigned (NoPixelLost), and *)
(* so a frame is only declared done when it is complete: the farm          *)
(* implements RenderJob (RendersJob).  The first needs the inductive       *)
(* invariant of RenderFarm_proofs and the predicate Fresh; the others the  *)
(* conversations of RenderFarmTalk_proofs, the predicate Kept (what a      *)
(* server has in hand it is at work on) and the predicate Covered.         *)
(***************************************************************************)
EXTENDS RenderFarmTalk_proofs

(* NoRework as a predicate on the work lists and the files.  It is about   *)
(* every hand, not only those at work: a server that is loading trees or   *)
(* has been dropped may come back to work with what it held.               *)
Fresh(todo, work, stored) ==
    /\ \A f \in Frames : stored[f] \cap PixelsOfList(todo[f]) = {}
    /\ \A s \in Slots : work[s] # NoWork =>
          stored[work[s].li_frame] \cap PixelsOf(work[s]) = {}

LEMMA FreshIsNoRework ==
    ASSUME IInv, Fresh(fr_todo, sr_work, file)
    PROVE  NoRework
    <1>1. \A f \in Frames : file[f] \cap Queued(f) = {}
        BY DEF Fresh, Queued
    <1>2. ASSUME NEW f \in Frames, NEW s \in Slots, sr_work[s].li_frame = f
          PROVE  file[f] \cap PixelsOf(sr_work[s]) = {}
        <2>1. sr_work[s] # NoWork  BY <1>2, FrameIsNotNoFrame DEF NoWork
        <2>2. QED  BY <1>2, <2>1 DEF Fresh
    <1>3. \A f \in Frames : file[f] \cap Assigned(f) = {}
        BY <1>2 DEF Assigned, Open
    <1>4. QED  BY <1>1, <1>3 DEF NoRework

(* Work done or forgotten.                                                 *)
LEMMA ForgetFresh ==
    ASSUME NEW todo, NEW work \in [Slots -> Works], NEW stored, NEW s \in Slots,
           Fresh(todo, work, stored)
    PROVE  Fresh(todo, [work EXCEPT ![s] = NoWork], stored)
    <1>1. \A t \in Slots : [work EXCEPT ![s] = NoWork][t] = IF t = s THEN NoWork ELSE work[t]
        OBVIOUS
    <1> DEFINE w == [work EXCEPT ![s] = NoWork]
    <1> HIDE DEF w
    <1>2. Fresh(todo, w, stored)  BY <1>1 DEF Fresh, w
    <1>3. QED  BY <1>2 DEF w

(* Work requeued by drop_server.                                           *)
LEMMA RequeueFresh ==
    ASSUME NEW todo \in TodoLists, NEW work \in [Slots -> Works], NEW stored,
           NEW s \in Slots, work[s] # NoWork, Fresh(todo, work, stored)
    PROVE  Fresh([todo EXCEPT ![work[s].li_frame] = <<work[s]>> \o @],
                 [work EXCEPT ![s] = NoWork], stored)
    <1> DEFINE f == work[s].li_frame
               p == <<work[s]>> \o todo[f]
               todo2 == [todo EXCEPT ![f] = p]
               work2 == [work EXCEPT ![s] = NoWork]
    <1>1. work[s] \in Spans /\ f \in Frames  BY WorkIsSpan
    <1>2. todo[f] \in Seq(Spans)  BY <1>1 DEF TodoLists
    <1>3. Fresh(todo, work2, stored)  BY ForgetFresh
    <1>4. \A g \in Frames : todo2[g] = IF g = f THEN p ELSE todo[g]
        BY DEF TodoLists
    <1>5. PixelsOfList(p) = PixelsOf(work[s]) \cup PixelsOfList(todo[f])
        BY <1>1, <1>2, PushElements
    <1>6. stored[f] \cap PixelsOf(work[s]) = {} /\ stored[f] \cap PixelsOfList(todo[f]) = {}
        BY <1>1 DEF Fresh
    <1> HIDE DEF p, todo2, work2
    <1>7. Fresh(todo2, work2, stored)
        BY <1>3, <1>4, <1>5, <1>6 DEF Fresh
    <1>8. QED  BY <1>7 DEF todo2, work2, p

(* drop_server, whatever its caller has done to the lists before.          *)
LEMMA DropFresh ==
    ASSUME NEW s \in Slots, NEW state, NEW todo \in TodoLists,
           NEW work \in [Slots -> Works], NEW stored, Fresh(todo, work, stored),
           DropTo(s, state, todo, work)
    PROVE  Fresh(fr_todo', sr_work', stored)
    <1>1. CASE Requeues(s) /\ work[s] # NoWork
        BY <1>1, RequeueFresh DEF DropTo
    <1>2. CASE ~(Requeues(s) /\ work[s] # NoWork)
        BY <1>2 DEF DropTo
    <1>3. QED  BY <1>1, <1>2

(* An assignment: its pixels were queued.                                  *)
LEMMA AssignFresh ==
    ASSUME IInv, pc = "task", NEW s \in Slots, Hungry(s), NEW lump \in Lumps,
           Fresh(fr_todo, sr_work, file)
    PROVE  /\ Fresh(TodoAfter(lump), WorkAfter(s, lump), file)
           /\ TodoAfter(lump) \in TodoLists /\ WorkAfter(s, lump) \in [Slots -> Works]
    <1> DEFINE todo == TodoAfter(lump)
               work == WorkAfter(s, lump)
               a == Assignment(lump)
    <1>1. Fr \in Frames /\ todo \in TodoLists /\ work \in [Slots -> Works]
        BY AssignmentFacts
    <1>2. \A i, j \in DOMAIN fr_todo[Fr] :
              i # j => PixelsOf(fr_todo[Fr][i]) \cap PixelsOf(fr_todo[Fr][j]) = {}
        BY <1>1, HungryFacts DEF Disjoint
    <1>3. /\ a.li_frame = Fr
          /\ \A g \in Frames : g # Fr => todo[g] = fr_todo[g]
          /\ PixelsOf(a) \subseteq PixelsOfList(fr_todo[Fr])
          /\ PixelsOfList(todo[Fr]) \subseteq PixelsOfList(fr_todo[Fr])
        BY <1>2, HungryFacts, AssignmentTaken
    <1>4. \A t \in Slots : work[t] = IF t = s THEN a ELSE sr_work[t]
        BY HungryFacts DEF WorkAfter
    <1> HIDE DEF todo, work, a
    <1>5. \A f \in Frames : file[f] \cap PixelsOfList(todo[f]) = {}
        BY <1>3 DEF Fresh
    <1>6. ASSUME NEW t \in Slots, work[t] # NoWork
          PROVE  file[work[t].li_frame] \cap PixelsOf(work[t]) = {}
        <2>1. CASE t = s
            <3>1. file[Fr] \cap PixelsOfList(fr_todo[Fr]) = {}  BY <1>1 DEF Fresh
            <3>2. QED  BY <1>3, <1>4, <2>1, <3>1
        <2>2. CASE t # s
            BY <1>4, <1>6, <2>2 DEF Fresh
        <2>3. QED  BY <2>1, <2>2
    <1>7. Fresh(todo, work, file)  BY <1>5, <1>6 DEF Fresh
    <1>8. QED  BY <1>1, <1>7 DEF todo, work

(* ph_pixels files an assignment: no other place has its pixels.           *)
LEMMA FiledFresh ==
    ASSUME IInv, NEW s \in Slots, sr_work[s] # NoWork, Fresh(fr_todo, sr_work, file),
           NEW stored,
           stored = [file EXCEPT ![sr_work[s].li_frame] = @ \cup PixelsOf(sr_work[s])]
    PROVE  Fresh(fr_todo, [sr_work EXCEPT ![s] = NoWork], stored)
    <1> DEFINE work == [sr_work EXCEPT ![s] = NoWork]
               f == sr_work[s].li_frame
    <1>1. sr_work \in [Slots -> Works] /\ Disjoint(fr_todo, sr_work)
        BY DEF IInv, WorkOK
    <1>2. f \in Frames  BY <1>1, WorkIsSpan
    <1>3. \A g \in Frames : stored[g] = IF g = f THEN file[f] \cup PixelsOf(sr_work[s]) ELSE file[g]
        BY <1>2 DEF IInv, JobOK
    <1>4. \A t \in Slots : work[t] = IF t = s THEN NoWork ELSE sr_work[t]
        BY <1>1
    <1>5. PixelsOf(sr_work[s]) \cap PixelsOfList(fr_todo[f]) = {}
        BY <1>1 DEF Disjoint
    <1> HIDE DEF work
    <1>6. \A g \in Frames : stored[g] \cap PixelsOfList(fr_todo[g]) = {}
        BY <1>3, <1>5 DEF Fresh
    <1>7. ASSUME NEW t \in Slots, work[t] # NoWork
          PROVE  stored[work[t].li_frame] \cap PixelsOf(work[t]) = {}
        <2>1. t # s /\ work[t] = sr_work[t] /\ sr_work[t] # NoWork  BY <1>4, <1>7
        <2>2. sr_work[t].li_frame \in Frames  BY <1>1, <2>1, WorkIsSpan
        <2>3. file[sr_work[t].li_frame] \cap PixelsOf(sr_work[t]) = {}
            BY <2>1 DEF Fresh
        <2>4. sr_work[t].li_frame = f => PixelsOf(sr_work[s]) \cap PixelsOf(sr_work[t]) = {}
            BY <1>1, <2>1 DEF Disjoint
        <2>5. QED  BY <1>3, <2>1, <2>2, <2>3, <2>4
    <1>8. Fresh(fr_todo, work, stored)  BY <1>6, <1>7 DEF Fresh
    <1>9. QED  BY <1>8 DEF work

-----------------------------------------------------------------------------
(* The steps.                                                              *)

LEMMA DroppedFresh ==
    ASSUME IInv, NEW s \in Slots, NEW state, DropTo(s, state, fr_todo, sr_work),
           Fresh(fr_todo, sr_work, file), UNCHANGED file
    PROVE  Fresh(fr_todo', sr_work', file')
    <1>1. fr_todo \in TodoLists /\ sr_work \in [Slots -> Works]  BY DEF IInv, WorkOK
    <1>2. QED  BY <1>1, DropFresh

LEMMA PixelsFresh ==
    ASSUME IInv, "write" \notin Faults, NEW s \in Slots, ph_pixels(s),
           Fresh(fr_todo, sr_work, file)
    PROVE  Fresh(fr_todo', sr_work', file')
    <1> DEFINE work == [sr_work EXCEPT ![s] = NoWork]
    <1>1. fr_todo \in TodoLists /\ sr_work \in [Slots -> Works] /\ work \in [Slots -> Works]
        BY DEF IInv, WorkOK, Works
    <1>2. CASE IgnorePixels(s)
        BY <1>2 DEF IgnorePixels, srvVars, jobVars
    <1>3. CASE FilePixels(s)
        <2>1. CASE Answers(Head(inbuf[s]), s)
            <3>1. /\ sr_work[s] # NoWork
                  /\ file' = [file EXCEPT ![sr_work[s].li_frame] = @ \cup PixelsOf(sr_work[s])]
                BY <1>3, <2>1 DEF FilePixels, Answers, Idle
            <3>2. Fresh(fr_todo, work, file')  BY <3>1, FiledFresh
            <3>3. \/ sr_work' = work /\ UNCHANGED fr_todo
                  \/ DropTo(s, "CLOSING", fr_todo, work)
                BY <1>3, <2>1 DEF FilePixels, Drop
            <3> HIDE DEF work
            <3>4. QED  BY <1>1, <3>2, <3>3, DropFresh
        <2>2. CASE ~Answers(Head(inbuf[s]), s)
            <3>1. DropTo(s, "CLOSING", fr_todo, sr_work) /\ UNCHANGED file
                BY <1>3, <2>2 DEF FilePixels, Dropped, Drop
            <3>2. QED  BY <3>1, DroppedFresh
        <2>3. QED  BY <2>1, <2>2
    <1>4. CASE FileCannotBeOpened(s)
        <2>1. /\ UNCHANGED file
              /\ \/ sr_work' = work /\ UNCHANGED fr_todo
                 \/ DropTo(s, "CLOSING", fr_todo, work)
            BY <1>4 DEF FileCannotBeOpened, Drop
        <2>2. Fresh(fr_todo, work, file')  BY <1>1, <2>1, ForgetFresh
        <2> HIDE DEF work
        <2>3. QED  BY <1>1, <2>1, <2>2, DropFresh
    <1>5. QED  BY <1>2, <1>3, <1>4 DEF ph_pixels, FileWriteFails

LEMMA TaskFresh ==
    ASSUME IInv, NEW s \in Slots, task_server(s), Fresh(fr_todo, sr_work, file)
    PROVE  Fresh(fr_todo', sr_work', file')
    <1>1. pc = "task" /\ UNCHANGED file
        BY DEF task_server, TaskNothing, TaskTardy, TaskGettrees, TaskLines, TaskMatrix,
               TaskMatrixFails, Returned
    <1>2. CASE TaskNothing(s) \/ TaskTardy(s)
        BY <1>1, <1>2, DroppedFresh DEF TaskNothing, TaskTardy, Dropped, Drop
    <1>3. CASE TaskGettrees(s)
        BY <1>1, <1>3, DroppedFresh DEF TaskGettrees, Dropped, Drop
    <1>4. ASSUME NEW lump \in Lumps,
                 TaskLines(s, lump) \/ TaskMatrix(s, lump) \/ TaskMatrixFails(s, lump)
          PROVE  Fresh(fr_todo', sr_work', file')
        <2>1. Hungry(s)  BY <1>4 DEF TaskLines, TaskMatrix, TaskMatrixFails
        <2>2. /\ Fresh(TodoAfter(lump), WorkAfter(s, lump), file)
              /\ TodoAfter(lump) \in TodoLists /\ WorkAfter(s, lump) \in [Slots -> Works]
            BY <1>1, <2>1, AssignFresh
        <2>3. \/ fr_todo' = TodoAfter(lump) /\ sr_work' = WorkAfter(s, lump)
              \/ DropTo(s, "CLOSING", TodoAfter(lump), WorkAfter(s, lump))
            BY <1>4 DEF TaskLines, TaskMatrix, TaskMatrixFails, Drop
        <2>4. QED  BY <1>1, <2>2, <2>3, DropFresh
    <1>5. QED  BY <1>1, <1>2, <1>3, <1>4 DEF task_server

(* The steps that move no work, or drop one server.                        *)
LEMMA OthersFresh ==
    ASSUME IInv, Fresh(fr_todo, sr_work, file), UNCHANGED file,
           \/ UNCHANGED <<fr_todo, sr_work>>
           \/ \E s \in Slots, state \in States : DropTo(s, state, fr_todo, sr_work)
           \/ \E s \in Slots : UNCHANGED fr_todo /\ sr_work' = [sr_work EXCEPT ![s] = NoWork]
    PROVE  Fresh(fr_todo', sr_work', file')
    <1>1. CASE UNCHANGED <<fr_todo, sr_work>>  BY <1>1
    <1>2. CASE \E s \in Slots, state \in States : DropTo(s, state, fr_todo, sr_work)
        BY <1>2, DroppedFresh
    <1>3. CASE \E s \in Slots : UNCHANGED fr_todo /\ sr_work' = [sr_work EXCEPT ![s] = NoWork]
        <2>1. sr_work \in [Slots -> Works]  BY DEF IInv, WorkOK
        <2>2. PICK s \in Slots : UNCHANGED fr_todo /\ sr_work' = [sr_work EXCEPT ![s] = NoWork]
            BY <1>3
        <2>3. Fresh(fr_todo, [sr_work EXCEPT ![s] = NoWork], file)
            BY <2>1, ForgetFresh
        <2>4. QED  BY <2>2, <2>3
    <1>4. QED  BY <1>1, <1>2, <1>3

LEMMA HandlersMoveWork ==
    ASSUME NEW s \in Slots,
           ph_version(s) \/ ph_dirbuild_reply(s) \/ ph_gettrees_reply(s) \/ ph_cmd(s)
             \/ Suck(s) \/ SendDirbuild(s)
    PROVE  /\ UNCHANGED file
           /\ \/ UNCHANGED <<fr_todo, sr_work>>
              \/ \E state \in States : DropTo(s, state, fr_todo, sr_work)
    <1>1. "CLOSING" \in States  BY DEF States
    <1>2. CASE ph_version(s) \/ ph_dirbuild_reply(s) \/ ph_gettrees_reply(s)
        BY <1>1, <1>2 DEF ph_version, ph_dirbuild_reply, ph_gettrees_reply, Dropped, Drop
    <1>3. CASE ph_cmd(s)  BY <1>3 DEF ph_cmd, srvVars, jobVars
    <1>4. CASE Suck(s) \/ SendDirbuild(s)
        BY <1>1, <1>4 DEF Suck, SendDirbuild, Dropped, Drop
    <1>5. QED  BY <1>2, <1>3, <1>4

LEMMA CommandsMoveWork ==
    ASSUME IInv, Command
    PROVE  /\ UNCHANGED file
           /\ \/ UNCHANGED <<fr_todo, sr_work>>
              \/ \E s \in Slots, state \in States : DropTo(s, state, fr_todo, sr_work)
    <1>1. "CLOSING" \in States /\ "RESTART" \in States  BY DEF States
    <1>2. CASE cd_stop \/ cd_go \/ (\E m \in {OPT_FRAME, OPT_LOAD, OPT_MOVIE} : cd_allocate(m))
                 \/ BroadcastEnd
        BY <1>2 DEF cd_stop, cd_go, cd_allocate, BroadcastEnd, srvVars, jobVars
    <1>3. CASE \E t \in Slots : cd_drop(t)
        BY <1>1, <1>3 DEF cd_drop, Dropped, Drop
    <1>4. CASE \E t \in Slots : cd_restart(t) \/ RestartNext(t)
        BY <1>1, <1>4 DEF cd_restart, RestartNext, send_restart
    <1>5. CASE \E t \in Slots : RdebugNext(t)
        BY <1>1, <1>5 DEF RdebugNext, Dropped, Drop
    <1>6. CASE CmdEnd
        <2>1. cmd.from \in Slots  BY <1>6 DEF CmdEnd, IInv, LoopTypeOK
        <2>2. QED  BY <1>1, <1>6, <2>1 DEF CmdEnd, Dropped, Drop
    <1>7. QED  BY <1>2, <1>3, <1>4, <1>5, <1>6 DEF Command

LEMMA LoopMovesNoWork ==
    ASSUME ProcessEnd \/ Select \/ NoClient \/ SuckEnd \/ TransitionsEnd \/ FramesEnd
             \/ FrameBegin \/ FrameScanEnd \/ PassEnd
             \/ (\E i \in DOMAIN FrameHead : FrameIsDone(i))
             \/ (\E s \in Slots : FinalClose(s))
    PROVE  UNCHANGED <<fr_todo, sr_work, file>>
    BY DEF ProcessEnd, Select, NoClient, SuckEnd, TransitionsEnd, FramesEnd, FrameBegin,
           FrameScanEnd, PassEnd, FrameIsDone, FinalClose, srvVars, jobVars

LEMMA StepFresh ==
    ASSUME "write" \notin Faults, IInv, Fresh(fr_todo, sr_work, file), [FarmNext]_farmVars
    PROVE  Fresh(fr_todo', sr_work', file')
    <1>1. CASE \E s \in Slots : ph_version(s) \/ ph_dirbuild_reply(s) \/ ph_gettrees_reply(s)
                                  \/ ph_cmd(s) \/ Suck(s) \/ SendDirbuild(s)
        BY <1>1, HandlersMoveWork, OthersFresh
    <1>2. CASE \E s \in Slots : ph_pixels(s)
        BY <1>2, PixelsFresh
    <1>3. CASE \E s \in Slots : addclient(s)
        BY <1>3, OthersFresh DEF addclient, jobVars
    <1>4. CASE \E s \in Slots : task_server(s)
        BY <1>4, TaskFresh
    <1>5. CASE Command
        BY <1>5, CommandsMoveWork, OthersFresh
    <1>6. CASE ProcessEnd \/ Select \/ NoClient \/ SuckEnd \/ TransitionsEnd \/ FramesEnd
                 \/ FrameBegin \/ FrameScanEnd \/ PassEnd
                 \/ (\E i \in DOMAIN FrameHead : FrameIsDone(i))
                 \/ (\E s \in Slots : FinalClose(s))
        BY <1>6, LoopMovesNoWork
    <1>7. CASE UNCHANGED remrtVars
        BY <1>7 DEF remrtVars, srvVars, jobVars
    <1>8. QED
        BY <1>1, <1>2, <1>3, <1>4, <1>5, <1>6, <1>7
        DEF FarmNext, Dispatcher, RemrtStep, Worker, Environment, Terminated, farmVars

(* The to-do list of a frame has the pixels of its checkpoint's.           *)
LEMMA TodoPixels ==
    ASSUME NEW f \in Frames, NEW c \in Checkpoints
    PROVE  PixelsOfList(Todo(f, c)) = PixelsOfList(c.todo)
    <1> DEFINE Start == [li_frame : {1}, li_start : Nat, li_stop : Nat]
    <1>1. c.todo \in Seq(Start)
        BY RemrtAssumption DEF CheckpointAssumption
    <1>2. \A i \in DOMAIN c.todo : c.todo[i] \in Start
        BY <1>1, LenProperties, ElementOfSeq
    <1>3. \A i \in DOMAIN c.todo : PixelsOf(Todo(f, c)[i]) = PixelsOf(c.todo[i])
        BY <1>2 DEF Todo, PixelsOf
    <1>4. DOMAIN Todo(f, c) = DOMAIN c.todo  BY DEF Todo
    <1>5. QED  BY <1>3, <1>4 DEF PixelsOfList

LEMMA InitFresh == FarmInit => Fresh(fr_todo, sr_work, file)
    <1> SUFFICES ASSUME FarmInit PROVE Fresh(fr_todo, sr_work, file)
        OBVIOUS
    <1>1. PICK c \in [Frames -> Checkpoints] :
            /\ fr_todo = [f \in Frames |-> Todo(f, c[f])]
            /\ file = [f \in Frames |-> c[f].file]
        BY DEF FarmInit, Init
    <1>2. \A s \in Slots : sr_work[s] = NoWork
        BY DEF FarmInit, Init
    <1>3. \A f \in Frames : file[f] \cap PixelsOfList(fr_todo[f]) = {}
        <2>1. SUFFICES ASSUME NEW f \in Frames
                       PROVE  file[f] \cap PixelsOfList(fr_todo[f]) = {}
            OBVIOUS
        <2>2. c[f] \in Checkpoints /\ file[f] = c[f].file /\ fr_todo[f] = Todo(f, c[f])
            BY <1>1
        <2>3. PixelsOfList(c[f].todo) = Pixels \ c[f].file
            BY <2>2, RemrtAssumption DEF CheckpointAssumption
        <2>4. PixelsOfList(Todo(f, c[f])) = PixelsOfList(c[f].todo)
            BY <2>2, TodoPixels
        <2>5. QED  BY <2>2, <2>3, <2>4
    <1>4. QED  BY <1>2, <1>3 DEF Fresh

(* No pixel that is in its file is queued or in the hands of a server at   *)
(* work, whatever is dropped, answered late or restarted; unless a write   *)
(* fails half way: drop_server then requeues the whole range.              *)
THEOREM StoredStaysDone ==
    ASSUME "write" \notin Faults
    PROVE  Spec => []NoRework
    <1>1. FarmInit => IInv /\ Fresh(fr_todo, sr_work, file)
        BY InitEstablishesIInv, InitFresh
    <1>2. IInv /\ Fresh(fr_todo, sr_work, file) /\ [FarmNext]_farmVars
            => IInv' /\ Fresh(fr_todo, sr_work, file)'
        BY StepKeepsIInv, StepFresh
    <1>3. IInv /\ Fresh(fr_todo, sr_work, file) => NoRework
        BY FreshIsNoRework
    <1>4. QED  BY <1>1, <1>2, <1>3, PTL DEF Spec

-----------------------------------------------------------------------------
(* Nothing is lost either, unless the network breaks a connection, the     *)
(* output file cannot be opened, or a command is given that restarts the   *)
(* servers or leaves options unread with them.  First, what a server has   *)
(* in hand it is at work on: no drop finds it in another state.            *)

Gentle == /\ Faults \cap {"reset", "open"} = {}
          /\ Commands \cap {"restart", "restart all", "load", "rdebug"} = {}

(* A connection in which nothing can be sent, which only happens to one    *)
(* that ended with requests unread, is not that of a hungry server.        *)
Sound(lk, st, wk, up, q) ==
    /\ wk # NoWork => st = "READY"
    /\ lk = "rst" => /\ up = <<>>
                     /\ st \in {"DOING_DIRBUILD", "DOING_GETTREES", "CLOSING"} \/ wk # NoWork
    /\ \A i \in DOMAIN q : q[i].type # "OPTIONS"

Kept(s) == Sound(link[s], sr_state[s], sr_work[s], inbuf[s] \o toCtl[s], toSrv[s])

KeptInv == TalkInv /\ \A s \in Slots : Kept(s)

SameHand(s) == sr_state'[s] = sr_state[s] /\ sr_work'[s] = sr_work[s]

LEMMA OneKept ==
    ASSUME \A t \in Slots : Kept(t), NEW s \in Slots,
           \A t \in Slots \ {s} : SameNet(t) /\ SameHand(t),
           Sound(link'[s], sr_state'[s], sr_work'[s], inbuf'[s] \o toCtl'[s], toSrv'[s])
    PROVE  \A t \in Slots : Kept(t)'
    <1> SUFFICES ASSUME NEW t \in Slots PROVE Kept(t)'
        OBVIOUS
    <1>1. CASE t = s
        BY <1>1 DEF Kept
    <1>2. CASE t # s
        <2>1. SameNet(t) /\ SameHand(t) /\ Kept(t)  BY <1>2
        <2>2. QED  BY <2>1 DEF SameNet, SameHand, Kept
    <1>3. QED  BY <1>1, <1>2

LEMMA AllKept ==
    ASSUME \A t \in Slots : Kept(t),
           UNCHANGED <<link, inbuf, toCtl, toSrv, sr_state, sr_work>>
    PROVE  \A t \in Slots : Kept(t)'
    BY DEF Kept

(* drop_server takes a hand that is not empty from a server at work.       *)
LEMMA DropFrees ==
    ASSUME IInv, NEW s \in Slots, NEW state, NEW todo, NEW work \in [Slots -> Works],
           work[s] # NoWork => Requeues(s), DropTo(s, state, todo, work)
    PROVE  /\ sr_work' = [work EXCEPT ![s] = NoWork]
           /\ work[s] = NoWork => fr_todo' = todo
           /\ work[s] # NoWork =>
                fr_todo' = [todo EXCEPT ![work[s].li_frame] = <<work[s]>> \o @]
           /\ sr_state'[s] = state /\ sr_work'[s] = NoWork
           /\ \A t \in Slots \ {s} : sr_state'[t] = sr_state[t] /\ sr_work'[t] = work[t]
    <1>1. DOMAIN sr_state = Slots  BY ColumnTypes
    <1>2. sr_state'[s] = state /\ \A t \in Slots \ {s} : sr_state'[t] = sr_state[t]
        BY <1>1 DEF DropTo
    <1>3. sr_work' = [work EXCEPT ![s] = NoWork]
        <2>1. CASE work[s] # NoWork  BY <2>1 DEF DropTo
        <2>2. CASE work[s] = NoWork
            <3>1. sr_work' = work  BY <2>2 DEF DropTo
            <3>2. [work EXCEPT ![s] = NoWork] = work  BY <2>2
            <3>3. QED  BY <3>1, <3>2
        <2>3. QED  BY <2>1, <2>2
    <1>4. /\ work[s] = NoWork => fr_todo' = todo
          /\ work[s] # NoWork => fr_todo' = [todo EXCEPT ![work[s].li_frame] = <<work[s]>> \o @]
        BY DEF DropTo
    <1>5. sr_work'[s] = NoWork /\ \A t \in Slots \ {s} : sr_work'[t] = work[t]
        BY <1>3
    <1>6. QED  BY <1>2, <1>3, <1>4, <1>5

LEMMA DroppedFrees ==
    ASSUME IInv, NEW s \in Slots, Kept(s), Dropped(s)
    PROVE  /\ sr_work' = [sr_work EXCEPT ![s] = NoWork]
           /\ sr_work[s] = NoWork => UNCHANGED fr_todo
           /\ sr_work[s] # NoWork =>
                fr_todo' = [fr_todo EXCEPT ![sr_work[s].li_frame] = <<sr_work[s]>> \o @]
           /\ sr_state'[s] = "CLOSING" /\ sr_work'[s] = NoWork
           /\ \A t \in Slots \ {s} : SameHand(t)
    <1>1. sr_work \in [Slots -> Works]  BY DEF IInv, WorkOK
    <1>2. sr_work[s] # NoWork => Requeues(s)  BY DEF Kept, Sound, Requeues
    <1>3. DropTo(s, "CLOSING", fr_todo, sr_work)  BY DEF Dropped, Drop
    <1>4. QED  BY <1>1, <1>2, <1>3, DropFrees DEF SameHand


(* A message is handled, which no broken connection has.                   *)
LEMMA HandledKept ==
    ASSUME IInv, NEW s \in Slots, \A t \in Slots : Conv(t) /\ Kept(t), UNCHANGED rtsrvVars,
           NEW type, Handle(s, type), \A t \in Slots \ {s} : SameHand(t),
           sr_work'[s] # NoWork => sr_state'[s] = "READY"
    PROVE  \A t \in Slots : Kept(t)'
    <1>1. /\ inbuf[s] \o toCtl[s] # <<>> /\ inbuf'[s] \o toCtl'[s] = <<>>
          /\ \A t \in Slots \ {s} : SameNet(t)
          /\ UNCHANGED <<link, toSrv>>
        BY HandledSlot
    <1>2. link[s] # "rst"  BY <1>1 DEF Kept, Sound
    <1>3. Sound(link'[s], sr_state'[s], sr_work'[s], inbuf'[s] \o toCtl'[s], toSrv'[s])
        BY <1>1, <1>2 DEF Kept, Sound
    <1>4. QED  BY <1>1, <1>3, OneKept

(* The handlers' first argument is an open slot, in the state the message  *)
(* goes with.                                                              *)
LEMMA RepliesKept ==
    ASSUME IInv, NEW s \in Slots, \A t \in Slots : Conv(t) /\ Kept(t), UNCHANGED rtsrvVars,
           ph_version(s) \/ ph_dirbuild_reply(s) \/ ph_gettrees_reply(s) \/ ph_cmd(s)
    PROVE  \A t \in Slots : Kept(t)'
    <1>1. PICK type : Handle(s, type)
        BY DEF ph_version, ph_dirbuild_reply, ph_gettrees_reply, ph_cmd
    <1>2. DOMAIN sr_state = Slots  BY ColumnTypes
    <1>3. CASE Dropped(s)
        BY <1>1, <1>3, DroppedFrees, HandledKept
    <1>4. CASE ph_version(s) /\ ~Dropped(s)
        <2>1. Handle(s, "VERSION") /\ statechange(s, "VERSOK") /\ UNCHANGED sr_work
            BY <1>4 DEF ph_version
        <2>2. Told(sr_state[s], sr_work[s], Head(inbuf[s])) /\ Head(inbuf[s]).type = "VERSION"
            BY <2>1, HandledSlot DEF Conv, SlotOK
        <2>3. sr_work'[s] = NoWork  BY <2>1, <2>2 DEF Told
        <2>4. \A t \in Slots \ {s} : SameHand(t)  BY <1>2, <2>1 DEF statechange, SameHand
        <2>5. QED  BY <2>1, <2>3, <2>4, HandledKept
    <1>5. CASE ph_dirbuild_reply(s) /\ ~Dropped(s)
        <2>1. /\ sr_state[s] = "DOING_DIRBUILD" /\ statechange(s, "NEED_TREE")
              /\ UNCHANGED sr_work
            BY <1>5 DEF ph_dirbuild_reply
        <2>2. sr_work'[s] = NoWork  BY <2>1 DEF Kept, Sound
        <2>3. \A t \in Slots \ {s} : SameHand(t)  BY <1>2, <2>1 DEF statechange, SameHand
        <2>4. QED  BY <1>1, <2>2, <2>3, HandledKept
    <1>6. CASE ph_gettrees_reply(s) /\ ~Dropped(s)
        <2>1. statechange(s, "READY") /\ UNCHANGED sr_work
            BY <1>6 DEF ph_gettrees_reply
        <2>2. \A t \in Slots \ {s} : SameHand(t)  BY <1>2, <2>1 DEF statechange, SameHand
        <2>3. sr_state'[s] = "READY"  BY <1>2, <2>1 DEF statechange
        <2>4. QED  BY <1>1, <2>2, <2>3, HandledKept
    <1>7. CASE ph_cmd(s)
        <2>1. UNCHANGED <<sr_state, sr_work>>  BY <1>7 DEF ph_cmd, srvVars
        <2>2. QED  BY <1>1, <2>1, HandledKept DEF SameHand, Kept, Sound
    <1>8. QED  BY <1>3, <1>4, <1>5, <1>6, <1>7

LEMMA PixelsKept ==
    ASSUME IInv, NEW s \in Slots, \A t \in Slots : Conv(t) /\ Kept(t), UNCHANGED rtsrvVars,
           ph_pixels(s)
    PROVE  \A t \in Slots : Kept(t)'
    <1> DEFINE work == [sr_work EXCEPT ![s] = NoWork]
    <1>1. Handle(s, "PIXELS")
        BY DEF ph_pixels, IgnorePixels, FilePixels, FileCannotBeOpened, FileWriteFails
    <1>2. sr_work \in [Slots -> Works] /\ work \in [Slots -> Works] /\ work[s] = NoWork
          /\ \A t \in Slots \ {s} : work[t] = sr_work[t]
        BY DEF IInv, WorkOK, Works
    <1> HIDE DEF work
    <1>3. CASE Dropped(s)
        BY <1>1, <1>3, DroppedFrees, HandledKept
    <1>4. CASE UNCHANGED <<sr_state, sr_work>>
        BY <1>1, <1>4, HandledKept DEF SameHand, Kept, Sound
    <1>5. CASE sr_work' = work /\ UNCHANGED sr_state
        BY <1>1, <1>2, <1>5, HandledKept DEF SameHand
    <1>6. CASE Drop(s, fr_todo, work)
        <2>1. sr_work'[s] = NoWork /\ \A t \in Slots \ {s} : SameHand(t)
            <3>1. DropTo(s, "CLOSING", fr_todo, work)  BY <1>6 DEF Drop
            <3>2. /\ sr_work'[s] = NoWork
                  /\ \A t \in Slots \ {s} : sr_state'[t] = sr_state[t] /\ sr_work'[t] = work[t]
                <4>1. DOMAIN sr_state = Slots  BY ColumnTypes
                <4>2. sr_state' = [sr_state EXCEPT ![s] = "CLOSING"]
                    BY <3>1 DEF DropTo
                <4>3. sr_work' = work  BY <1>2, <3>1 DEF DropTo
                <4>4. QED  BY <1>2, <4>1, <4>2, <4>3
            <3>3. QED  BY <1>2, <3>2 DEF SameHand
        <2>2. QED  BY <1>1, <2>1, HandledKept
    <1>7. QED
        BY <1>3, <1>4, <1>5, <1>6
        DEF ph_pixels, IgnorePixels, FilePixels, FileCannotBeOpened, FileWriteFails, srvVars, work

(* A slot is dropped, its connection left alone.                           *)
LEMMA DropKept ==
    ASSUME IInv, NEW s \in Slots, \A t \in Slots : Kept(t), Dropped(s),
           \A t \in Slots \ {s} : SameNet(t), UNCHANGED <<link, toSrv>>,
           inbuf'[s] \o toCtl'[s] = inbuf[s] \o toCtl[s]
    PROVE  \A t \in Slots : Kept(t)'
    <1>1. /\ sr_state'[s] = "CLOSING" /\ sr_work'[s] = NoWork
          /\ \A t \in Slots \ {s} : SameHand(t)
        BY DroppedFrees
    <1>2. Sound(link'[s], "CLOSING", NoWork, inbuf'[s] \o toCtl'[s], toSrv'[s])
        BY DEF Kept, Sound
    <1>3. QED  BY <1>1, <1>2, OneKept


LEMMA SuckKept ==
    ASSUME IInv, Loop, NEW s \in Slots, \A t \in Slots : Conv(t) /\ Kept(t), Suck(s)
    PROVE  \A t \in Slots : Kept(t)'
    <1> DEFINE S == CtlMessages
    <1>1. DOMAIN inbuf = Slots /\ DOMAIN toCtl = Slots  BY ColumnTypes
    <1>2. UNCHANGED <<caller, link, toSrv>>  BY DEF Suck
    <1>3. CASE toCtl[s] = <<>>
        <2>1. Dropped(s) /\ UNCHANGED <<inbuf, toCtl>>  BY <1>3 DEF Suck
        <2>2. QED  BY <1>2, <2>1, DropKept DEF SameNet
    <1>4. CASE toCtl[s] # <<>>
        <2>1. /\ inbuf' = [inbuf EXCEPT ![s] = @ \o toCtl[s]]
              /\ toCtl' = [toCtl EXCEPT ![s] = <<>>]
              /\ UNCHANGED <<sr_state, sr_work>>
            BY <1>4 DEF Suck
        <2>2. inbuf[s] \o toCtl[s] \in Seq(S)  BY SlotTypes
        <2>3. (inbuf[s] \o toCtl[s]) \o <<>> = inbuf[s] \o toCtl[s]
            <3> DEFINE up == inbuf[s] \o toCtl[s]
            <3>1. up \in Seq(S)  BY <2>2
            <3> HIDE DEF S, up
            <3>2. up \o <<>> = up  BY <3>1, ConcatEmptySeq
            <3>3. QED  BY <3>2 DEF up
        <2>4. inbuf'[s] \o toCtl'[s] = inbuf[s] \o toCtl[s]
            BY <1>1, <2>1, <2>3
        <2>5. \A t \in Slots \ {s} : SameNet(t) /\ SameHand(t)
            BY <1>1, <1>2, <2>1 DEF SameNet, SameHand
        <2>6. Sound(link'[s], sr_state'[s], sr_work'[s], inbuf'[s] \o toCtl'[s], toSrv'[s])
            BY <1>2, <2>1, <2>4 DEF Kept
        <2>7. QED  BY <2>5, <2>6, OneKept
    <1>5. QED  BY <1>3, <1>4

(* Nobody is in an unused slot, and nothing is in the hand.                *)
LEMMA AddclientKept ==
    ASSUME IInv, NEW s \in Slots, \A t \in Slots : Conv(t) /\ Kept(t), addclient(s)
    PROVE  \A t \in Slots : Kept(t)'
    <1>1. /\ DOMAIN link = Slots /\ DOMAIN sr_work = Slots /\ DOMAIN sr_state = Slots
          /\ DOMAIN caller = Slots
        BY ColumnTypes
    <1>2. /\ link' = [link EXCEPT ![s] = "up"] /\ sr_work' = [sr_work EXCEPT ![s] = NoWork]
          /\ statechange(s, "NEW") /\ UNCHANGED <<toCtl, toSrv, inbuf>>
          /\ caller' = [caller EXCEPT ![s] = Head(calls)]
        BY DEF addclient
    <1>3. \A t \in Slots \ {s} : SameNet(t) /\ SameHand(t)
        BY <1>1, <1>2 DEF SameNet, SameHand, statechange
    <1>4. Sound("up", "NEW", NoWork, inbuf'[s] \o toCtl'[s], toSrv'[s])
        BY <1>2 DEF Kept, Sound
    <1>5. link'[s] = "up" /\ sr_state'[s] = "NEW" /\ sr_work'[s] = NoWork
        BY <1>1, <1>2 DEF statechange
    <1>6. QED  BY <1>3, <1>4, <1>5, OneKept

(* A server from which nothing is expected can be sent something, and has  *)
(* said nothing.                                                           *)
LEMMA Expectant ==
    ASSUME IInv, NEW s \in Slots, Conv(s), Kept(s),
           sr_state[s] \in {"VERSOK", "NEED_TREE", "READY"}, sr_work[s] = NoWork
    PROVE  /\ link[s] # "rst" /\ link[s] # "none" /\ 0 \notin Sent(s, 1) /\ 0 \notin Sent(s, 2)
           /\ inbuf[s] \o toCtl[s] = <<>>
           /\ sr_pc[s] = TRUE
    <1>1. link[s] # "rst"  BY DEF Kept, Sound
    <1>2. inbuf[s] \o toCtl[s] = <<>>
        <2> DEFINE m == (inbuf[s] \o toCtl[s])[1]
        <2>1. SUFFICES ASSUME inbuf[s] \o toCtl[s] # <<>> PROVE FALSE
            OBVIOUS
        <2>2. Told(sr_state[s], sr_work[s], m)  BY <2>1 DEF Conv, SlotOK
        <2>3. sr_state[s] = "READY" /\ sr_work[s] = Span(m.frame, m.start, m.stop) /\ m.type = "PIXELS"
            BY <2>2 DEF Told
        <2>4. m \in CtlMessages
            <3>1. inbuf[s] \o toCtl[s] \in Seq(CtlMessages)  BY SlotTypes
            <3> DEFINE up == inbuf[s] \o toCtl[s]
                       S == CtlMessages
            <3>2. up \in Seq(S) /\ up # <<>>  BY <2>1, <3>1
            <3>3. m = up[1]  OBVIOUS
            <3> HIDE DEF up, S, m
            <3>4. Len(up) \in Nat /\ Len(up) # 0  BY <3>2, EmptySeq, LenProperties
            <3>5. up[1] \in S  BY <3>2, <3>4, ElementOfSeq
            <3>6. QED  BY <3>3, <3>5 DEF S
        <2> HIDE DEF m
        <2>5. m.frame \in Frames  BY <2>3, <2>4 DEF CtlMessages
        <2>6. NoWork.li_frame = NoFrame  BY DEF NoWork
        <2>7. sr_work[s].li_frame = m.frame  BY <2>3 DEF Span
        <2>8. QED  BY <2>5, <2>6, <2>7, FrameIsNotNoFrame
    <1>3. sr_pc[s] = TRUE /\ link[s] # "none"
        <2>1. sr_pc[s] # FALSE  BY DEF Conv, SlotOK, Closed
        <2>2. sr_pc[s] = TRUE  BY <2>1, SlotTypes
        <2>3. QED  BY <2>2 DEF Conv, SlotOK
    <1>4. link[s] \in {"up", "fin"}
        <2>1. link[s] \in {"none", "up", "fin", "rst"}
            BY DEF IInv, NetTypeOK, Links
        <2>2. QED  BY <1>1, <1>3, <2>1
    <1>5. 0 \notin Sent(s, 1) /\ 0 \notin Sent(s, 2)
        <2>1. Sent(s, 1) \in {{1}, 1 .. 1} /\ Sent(s, 2) \in {{2}, 1 .. 2}
            BY <1>4 DEF Sent
        <2>2. QED  BY <2>1
    <1>6. QED  BY <1>1, <1>2, <1>3, <1>5


NoOptions(q) == \A i \in DOMAIN q : q[i].type # "OPTIONS"

LEMMA JoinedNoOptions ==
    ASSUME NEW a \in Seq(SrvMessages), NEW b \in Seq(SrvMessages), NoOptions(a), NoOptions(b)
    PROVE  NoOptions(a \o b)
    <1> DEFINE d == a \o b
               l == Len(a)
               n == Len(b)
    <1>1. /\ l \in Nat /\ n \in Nat /\ DOMAIN a = 1 .. l /\ DOMAIN b = 1 .. n
          /\ DOMAIN d = 1 .. l + n
          /\ \A i \in 1 .. l : d[i] = a[i]
          /\ \A i \in l + 1 .. l + n : d[i] = b[i - l]
        BY JoinedElements
    <1> HIDE DEF d, l, n
    <1>2. ASSUME NEW i \in DOMAIN d PROVE d[i].type # "OPTIONS"
        <2>1. CASE i <= l
            <3>1. i \in DOMAIN a /\ d[i] = a[i]  BY <1>1, <2>1
            <3>2. QED  BY <3>1 DEF NoOptions
        <2>2. CASE ~(i <= l)
            <3>1. i \in l + 1 .. l + n /\ i - l \in DOMAIN b  BY <1>1, <2>2
            <3>2. d[i] = b[i - l]  BY <1>1, <3>1
            <3>3. QED  BY <3>1, <3>2 DEF NoOptions
        <2>3. QED  BY <2>1, <2>2
    <1>3. NoOptions(d)  BY <1>2 DEF NoOptions
    <1>4. QED  BY <1>3 DEF d

LEMMA TailNoOptions ==
    ASSUME NEW q \in Seq(SrvMessages), q # <<>>, NoOptions(q)
    PROVE  NoOptions(Tail(q))
    <1>1. /\ Len(q) \in Nat \ {0} /\ DOMAIN q = 1 .. Len(q)
          /\ DOMAIN Tail(q) = 1 .. Len(q) - 1
          /\ \A i \in 1 .. Len(q) - 1 : Tail(q)[i] = q[i + 1]
        BY TailsElements
    <1> DEFINE t == Tail(q)
               l == Len(q)
    <1> HIDE DEF t, l
    <1>2. ASSUME NEW i \in DOMAIN t PROVE t[i].type # "OPTIONS"
        <2>1. i + 1 \in DOMAIN q /\ t[i] = q[i + 1]  BY <1>1 DEF t, l
        <2>2. QED  BY <2>1 DEF NoOptions
    <1>3. NoOptions(t)  BY <1>2 DEF NoOptions
    <1>4. QED  BY <1>3 DEF t

(* Something is sent to a server from which nothing is expected.           *)
LEMMA SendKept ==
    ASSUME IInv, NEW s \in Slots, \A t \in Slots : Conv(t) /\ Kept(t),
           NEW k, NEW n, NEW msgs \in Seq(SrvMessages), NoOptions(msgs), Send(s, k, n, msgs),
           link[s] \notin {"none", "rst"}, inbuf[s] \o toCtl[s] = <<>>,
           \A t \in Slots \ {s} : SameHand(t),
           sr_work'[s] # NoWork => sr_state'[s] = "READY",
           sr_state'[s] \in {"DOING_DIRBUILD", "DOING_GETTREES", "CLOSING"} \/ sr_work'[s] # NoWork
    PROVE  \A t \in Slots : Kept(t)'
    <1>1. inbuf'[s] \o toCtl'[s] = <<>> /\ \A t \in Slots \ {s} : SameNet(t)
        BY SendColumns
    <1>2. toSrv'[s] = toSrv[s] \/ toSrv'[s] = toSrv[s] \o msgs
        <2>1. DOMAIN toSrv = Slots  BY ColumnTypes
        <2>2. QED  BY <2>1 DEF Send
    <1>3. toSrv[s] \in Seq(SrvMessages) /\ NoOptions(toSrv[s])
        BY SlotTypes DEF Kept, Sound, NoOptions
    <1>4. NoOptions(toSrv[s] \o msgs)  BY <1>3, JoinedNoOptions
    <1>5. NoOptions(toSrv'[s])  BY <1>2, <1>3, <1>4
    <1>6. Sound(link'[s], sr_state'[s], sr_work'[s], inbuf'[s] \o toCtl'[s], toSrv'[s])
        BY <1>1, <1>5 DEF Sound, NoOptions
    <1>7. QED  BY <1>1, <1>6, OneKept

LEMMA SendDirbuildKept ==
    ASSUME IInv, NEW s \in Slots, \A t \in Slots : Conv(t) /\ Kept(t), SendDirbuild(s)
    PROVE  \A t \in Slots : Kept(t)'
    <1> DEFINE msgs == <<[type |-> "DIRBUILD"]>>
    <1>1. PICK k \in Sent(s, 2) :
             /\ Send(s, k, 2, msgs)
             /\ \/ statechange(s, "DOING_DIRBUILD") /\ UNCHANGED sr_work
                \/ Dropped(s)
        BY DEF SendDirbuild
    <1>2. sr_state[s] = "VERSOK"  BY DEF SendDirbuild
    <1>3. sr_work[s] = NoWork  BY <1>2 DEF Kept, Sound
    <1>4. link[s] \notin {"none", "rst"} /\ inbuf[s] \o toCtl[s] = <<>>
        BY <1>2, <1>3, Expectant
    <1>5. /\ \A t \in Slots \ {s} : SameHand(t)
          /\ sr_work'[s] = NoWork /\ sr_state'[s] \in {"DOING_DIRBUILD", "CLOSING"}
        <2>1. CASE Dropped(s)
            BY <2>1, DroppedFrees
        <2>2. CASE statechange(s, "DOING_DIRBUILD") /\ UNCHANGED sr_work
            BY <1>3, <2>2, ColumnTypes DEF statechange, SameHand
        <2>3. QED  BY <1>1, <2>1, <2>2
    <1>6. msgs \in Seq(SrvMessages) /\ NoOptions(msgs)
        <2>1. [type |-> "DIRBUILD"] \in SrvMessages  BY DEF SrvMessages
        <2>2. QED  BY <2>1 DEF NoOptions
    <1> HIDE DEF msgs
    <1>7. QED  BY <1>1, <1>4, <1>5, <1>6, SendKept


(* What task_server does with an assignment: the range is in the server's  *)
(* hand, or, the server being dropped, back in the queue.                  *)
LEMMA AssignedHand ==
    ASSUME IInv, pc = "task", NEW s \in Slots, Conv(s), Kept(s), NEW lump \in Lumps,
           TaskLines(s, lump) \/ TaskMatrix(s, lump)
    PROVE  /\ \/ /\ fr_todo' = TodoAfter(lump) /\ sr_work' = WorkAfter(s, lump)
                 /\ UNCHANGED sr_state
              \/ Drop(s, TodoAfter(lump), WorkAfter(s, lump))
           /\ Hungry(s) /\ sr_state[s] = "READY" /\ sr_work[s] = NoWork
    <1>1. PICK ret : Returned(s, ret)
        BY DEF TaskLines, TaskMatrix
    <1>2. Hungry(s)
        BY DEF TaskLines, TaskMatrix
    <1>3. sr_state[s] \in {"NEED_TREE", "READY"} /\ sr_work[s] = NoWork /\ Fr \in Frames
        BY <1>1, <1>2, HungrySlot
    <1>4. sr_state[s] = "READY"
        <2>1. CASE TaskLines(s, lump)
            <3>1. sr_curframe[s] = Fr  BY <2>1 DEF TaskLines
            <3>2. sr_curframe[s] # NoFrame  BY <1>3, <3>1, FrameIsNotNoFrame
            <3>3. Steady(sr_state[s], sr_work[s], sr_curframe[s])  BY DEF Conv, SlotOK
            <3>4. QED  BY <1>3, <3>2, <3>3 DEF Steady
        <2>2. CASE TaskMatrix(s, lump)
            BY <1>3, <2>2 DEF TaskMatrix, NeedsTrees
        <2>3. QED  BY <2>1, <2>2
    <1>5. QED  BY <1>2, <1>3, <1>4 DEF TaskLines, TaskMatrix

LEMMA AssignKept ==
    ASSUME IInv, pc = "task", NEW s \in Slots, \A t \in Slots : Conv(t) /\ Kept(t),
           NEW lump \in Lumps, TaskLines(s, lump) \/ TaskMatrix(s, lump)
    PROVE  \A t \in Slots : Kept(t)'
    <1>1. PICK ret : Returned(s, ret)
        BY DEF TaskLines, TaskMatrix
    <1>2. /\ \/ sr_work' = WorkAfter(s, lump) /\ UNCHANGED sr_state
             \/ Drop(s, TodoAfter(lump), WorkAfter(s, lump))
          /\ Hungry(s) /\ sr_state[s] = "READY" /\ sr_work[s] = NoWork
        BY AssignedHand
    <1>3. link[s] \notin {"none", "rst"} /\ inbuf[s] \o toCtl[s] = <<>>
        BY <1>2, Expectant
    <1>4. /\ MatrixMsg \in SrvMessages /\ MatrixMsg = Matrix(Fr) /\ Fr \in Frames
          /\ Assignment(lump) \in Spans
          /\ LinesMsg(lump) \in SrvMessages /\ LinesMsg(lump) = Lines(Assignment(lump))
        BY <1>1, <1>2, HungrySlot
    <1>5. /\ \A t \in Slots \ {s} : SameHand(t)
          /\ \/ sr_state'[s] = "READY" /\ sr_work'[s] # NoWork
             \/ sr_state'[s] = "CLOSING" /\ sr_work'[s] = NoWork
        <2> DEFINE work == WorkAfter(s, lump)
        <2>1. /\ work \in [Slots -> Works] /\ work[s] = Assignment(lump)
              /\ \A t \in Slots \ {s} : work[t] = sr_work[t]
            BY <1>2, AssignmentFacts, ColumnTypes DEF WorkAfter
        <2>2. work[s] # NoWork  BY <1>4, <2>1, SpanIsNotNoWork
        <2> HIDE DEF work
        <2>3. CASE sr_work' = work /\ UNCHANGED sr_state
            <3>1. sr_state'[s] = "READY" /\ sr_work'[s] # NoWork
                BY <1>2, <2>2, <2>3
            <3>2. \A t \in Slots \ {s} : SameHand(t)
                BY <2>1, <2>3 DEF SameHand
            <3>3. QED  BY <3>1, <3>2
        <2>4. CASE Drop(s, TodoAfter(lump), work)
            <3>1. DOMAIN sr_state = Slots  BY ColumnTypes
            <3>2. Requeues(s)  BY <1>2 DEF Requeues
            <3>3. /\ sr_state' = [sr_state EXCEPT ![s] = "CLOSING"]
                  /\ sr_work' = [work EXCEPT ![s] = NoWork]
                BY <2>2, <2>4, <3>2 DEF Drop, DropTo
            <3>4. QED  BY <2>1, <3>1, <3>3 DEF SameHand
        <2>5. QED  BY <1>2, <2>3, <2>4 DEF work
    <1>6. /\ <<LinesMsg(lump)>> \in Seq(SrvMessages) /\ NoOptions(<<LinesMsg(lump)>>)
          /\ <<MatrixMsg, LinesMsg(lump)>> \in Seq(SrvMessages)
          /\ NoOptions(<<MatrixMsg, LinesMsg(lump)>>)
        <2> DEFINE a == LinesMsg(lump)
                   b == MatrixMsg
        <2>1. a \in SrvMessages /\ b \in SrvMessages /\ a.type = "LINES" /\ b.type = "MATRIX"
            BY <1>4, RequestTypes
        <2> HIDE DEF a, b
        <2>2. <<a>> \in Seq(SrvMessages) /\ NoOptions(<<a>>)
            BY <2>1 DEF NoOptions
        <2>3. <<b, a>> \in Seq(SrvMessages) /\ NoOptions(<<b, a>>)
            BY <2>1 DEF NoOptions
        <2>4. QED  BY <2>2, <2>3 DEF a, b
    <1>7. \E k, n : \/ Send(s, k, n, <<LinesMsg(lump)>>)
                    \/ Send(s, k, n, <<MatrixMsg, LinesMsg(lump)>>)
        BY DEF TaskLines, TaskMatrix
    <1>8. QED  BY <1>3, <1>5, <1>6, <1>7, SendKept


LEMMA GettreesKept ==
    ASSUME IInv, pc = "task", NEW s \in Slots, \A t \in Slots : Conv(t) /\ Kept(t),
           TaskGettrees(s)
    PROVE  \A t \in Slots : Kept(t)'
    <1> DEFINE msgs == <<MatrixMsg, GettreesMsg>>
    <1>1. /\ Hungry(s) /\ Returned(s, 1)
          /\ \E k : Send(s, k, 2, msgs)
          /\ \/ statechange(s, "DOING_GETTREES") /\ UNCHANGED sr_work
             \/ Dropped(s)
        BY DEF TaskGettrees
    <1>2. /\ sr_state[s] \in {"NEED_TREE", "READY"} /\ sr_work[s] = NoWork
          /\ MatrixMsg = Matrix(Fr) /\ Fr \in Frames
        BY <1>1, HungrySlot
    <1>3. link[s] \notin {"none", "rst"} /\ inbuf[s] \o toCtl[s] = <<>>
        BY <1>2, Expectant
    <1>4. /\ \A t \in Slots \ {s} : SameHand(t)
          /\ sr_work'[s] = NoWork /\ sr_state'[s] \in {"DOING_GETTREES", "CLOSING"}
        <2>1. CASE Dropped(s)
            BY <2>1, DroppedFrees
        <2>2. CASE statechange(s, "DOING_GETTREES") /\ UNCHANGED sr_work
            BY <1>2, <2>2, ColumnTypes DEF statechange, SameHand
        <2>3. QED  BY <1>1, <2>1, <2>2
    <1>5. msgs \in Seq(SrvMessages) /\ NoOptions(msgs)
        <2> DEFINE a == GettreesMsg
                   b == MatrixMsg
        <2>1. a \in SrvMessages /\ b \in SrvMessages /\ a.type = "GETTREES" /\ b.type = "MATRIX"
            BY <1>2, RequestTypes
        <2> HIDE DEF a, b
        <2>2. <<b, a>> \in Seq(SrvMessages) /\ NoOptions(<<b, a>>)
            BY <2>1 DEF NoOptions
        <2>3. QED  BY <2>2 DEF a, b
    <1> HIDE DEF msgs
    <1>6. QED  BY <1>1, <1>3, <1>4, <1>5, SendKept

(* send_matrix cannot fail: the connection has not been written to since   *)
(* it was known to be good.                                                *)
LEMMA MatrixNeverFails ==
    ASSUME IInv, pc = "task", NEW s \in Slots, Conv(s), Kept(s), NEW lump
    PROVE  ~TaskMatrixFails(s, lump)
    <1> SUFFICES ASSUME TaskMatrixFails(s, lump) PROVE FALSE
        OBVIOUS
    <1>1. Hungry(s) /\ 0 \in Sent(s, 2) /\ Returned(s, 0)  BY DEF TaskMatrixFails
    <1>2. sr_state[s] \in {"NEED_TREE", "READY"} /\ sr_work[s] = NoWork
        BY <1>1, HungrySlot
    <1>3. QED  BY <1>1, <1>2, Expectant

LEMMA TaskKept ==
    ASSUME IInv, NEW s \in Slots, \A t \in Slots : Conv(t) /\ Kept(t), task_server(s)
    PROVE  \A t \in Slots : Kept(t)'
    <1>1. pc = "task"  BY DEF task_server
    <1>2. CASE TaskNothing(s)
        BY <1>2, AllKept DEF TaskNothing, netVars
    <1>3. CASE TaskTardy(s)
        BY <1>3, DropKept DEF TaskTardy, netVars, SameNet
    <1>4. CASE TaskGettrees(s)
        BY <1>1, <1>4, GettreesKept
    <1>5. CASE \E lump \in Lumps : TaskLines(s, lump) \/ TaskMatrix(s, lump)
        BY <1>1, <1>5, AssignKept
    <1>6. QED
        BY <1>1, <1>2, <1>3, <1>4, <1>5, MatrixNeverFails DEF task_server

LEMMA FinalCloseKept ==
    ASSUME IInv, NEW s \in Slots, \A t \in Slots : Conv(t) /\ Kept(t), FinalClose(s)
    PROVE  \A t \in Slots : Kept(t)'
    <1>1. /\ DOMAIN link = Slots /\ DOMAIN sr_state = Slots /\ DOMAIN caller = Slots
          /\ DOMAIN inbuf = Slots /\ DOMAIN toCtl = Slots /\ DOMAIN toSrv = Slots
        BY ColumnTypes
    <1>2. /\ sr_state[s] = "CLOSING" /\ sr_state' = [sr_state EXCEPT ![s] = "UNUSED"]
          /\ UNCHANGED sr_work
          /\ link' = [link EXCEPT ![s] = "none"] /\ caller' = [caller EXCEPT ![s] = "none"]
          /\ toCtl' = [toCtl EXCEPT ![s] = <<>>] /\ toSrv' = [toSrv EXCEPT ![s] = <<>>]
          /\ inbuf' = [inbuf EXCEPT ![s] = <<>>]
        BY DEF FinalClose, statechange
    <1>3. sr_work'[s] = NoWork  BY <1>2 DEF Kept, Sound
    <1>4. link'[s] = "none" /\ toSrv'[s] = <<>>
        BY <1>1, <1>2
    <1>5. \A t \in Slots \ {s} : SameNet(t) /\ SameHand(t)
        BY <1>1, <1>2 DEF SameNet, SameHand
    <1>6. Sound(link'[s], sr_state'[s], sr_work'[s], inbuf'[s] \o toCtl'[s], toSrv'[s])
        BY <1>3, <1>4 DEF Sound
    <1>7. QED  BY <1>5, <1>6, OneKept

LEMMA CommandKept ==
    ASSUME IInv, Loop, Gentle, \A t \in Slots : Conv(t) /\ Kept(t), Command
    PROVE  \A t \in Slots : Kept(t)'
    <1>1. pc \in {"cmd", "cmd end"} => cmd.name \in Commands /\ cmd.from \in Slots
        BY DEF Loop, Open
    <1>2. CASE cd_stop \/ cd_go \/ (\E m \in {OPT_FRAME, OPT_LOAD, OPT_MOVIE} : cd_allocate(m))
                 \/ BroadcastEnd
        BY <1>2, AllKept DEF cd_stop, cd_go, cd_allocate, BroadcastEnd, srvVars, netVars
    <1>3. CASE \E t \in Slots : cd_drop(t)
        BY <1>3, DropKept DEF cd_drop, netVars, SameNet
    <1>4. ASSUME NEW t \in Slots PROVE ~cd_restart(t) /\ ~RestartNext(t) /\ ~RdebugNext(t)
        BY <1>1 DEF Gentle, cd_restart, RestartNext, RdebugNext, RestartsAll, Doing
    <1>5. CASE CmdEnd
        <2>1. cmd.from \in Slots /\ Dropped(cmd.from) /\ UNCHANGED netVars
            BY <1>1, <1>5 DEF CmdEnd
        <2>2. QED  BY <2>1, DropKept DEF netVars, SameNet
    <1>6. QED  BY <1>2, <1>3, <1>4, <1>5 DEF Command


(* A process that ends with requests unread was asked something.           *)
LEMMA UnreadIsAsked ==
    ASSUME IInv, NEW s \in Slots, Conv(s), Kept(s), link[s] = "up", toSrv[s] # <<>>
    PROVE  /\ inbuf[s] \o toCtl[s] = <<>>
           /\ sr_state[s] \in {"DOING_DIRBUILD", "DOING_GETTREES", "CLOSING"} \/ sr_work[s] # NoWork
    <1> DEFINE a == WorkHead[s]
               b == toSrv[s]
               dn == a \o b
               l == Len(a)
               up == inbuf[s] \o toCtl[s]
    <1>1. a \in Seq(SrvMessages) /\ b \in Seq(SrvMessages) /\ b # <<>>
        BY SlotTypes
    <1>2. SlotOK(TRUE, sr_state[s], sr_work[s], sr_curframe[s], "up", caller[s], up, dn,
                 seen_gettrees[s], view[s], grid[s])
        BY LiveSlot
    <1>3. NoOptions(b)  BY DEF Kept, Sound, NoOptions
    <1>4. l + 1 \in DOMAIN dn /\ dn[l + 1].type # "OPTIONS"
        <2> HIDE DEF a, b
        <2>1. /\ l \in Nat /\ DOMAIN dn = 1 .. l + Len(b)
              /\ \A i \in l + 1 .. l + Len(b) : dn[i] = b[i - l]
            BY <1>1, JoinedElements
        <2>2. Len(b) \in Nat \ {0} /\ DOMAIN b = 1 .. Len(b)  BY <1>1, TailsElements
        <2> HIDE DEF dn, l
        <2>3. l + 1 \in l + 1 .. l + Len(b) /\ (l + 1) - l = 1 /\ l + 1 \in 1 .. l + Len(b)
            BY <2>1, <2>2
        <2>4. 1 \in DOMAIN b  BY <2>2
        <2>5. QED  BY <1>3, <2>1, <2>3, <2>4 DEF NoOptions
    <1> HIDE DEF a, b, dn, l, up
    <1>5. /\ Listens(caller[s], up)
          /\ \/ AskedDirbuild(sr_state[s], dn)
             \/ AskedTrees(sr_state[s], sr_curframe[s], dn, view[s])
             \/ AskedLines(sr_state[s], sr_work[s], sr_curframe[s], dn, seen_gettrees[s],
                           view[s], grid[s])
        BY ONLY <1>2, <1>4, RequestOfKind
    <1>6. up = <<>>  BY <1>5 DEF Listens
    <1>7. CASE AskedDirbuild(sr_state[s], dn) \/ AskedTrees(sr_state[s], sr_curframe[s], dn, view[s])
        BY <1>6, <1>7 DEF AskedDirbuild, AskedTrees, up
    <1>8. CASE AskedLines(sr_state[s], sr_work[s], sr_curframe[s], dn, seen_gettrees[s],
                          view[s], grid[s])
        <2>1. PICK w \in Spans : sr_state[s] = "CLOSING" \/ sr_work[s] = w
            BY <1>8 DEF AskedLines
        <2>2. w # NoWork  BY SpanIsNotNoWork
        <2>3. QED  BY <1>6, <2>1, <2>2 DEF up
    <1>9. QED  BY <1>5, <1>7, <1>8

(* What happens at the other end of slot s alone.                          *)
LEMMA OutsideKept ==
    ASSUME \A t \in Slots : Kept(t), UNCHANGED remrtVars, NEW s \in Slots,
           \A t \in Slots \ {s} : SameNet(t),
           Sound(link'[s], sr_state[s], sr_work[s], inbuf'[s] \o toCtl'[s], toSrv'[s])
    PROVE  \A t \in Slots : Kept(t)'
    <1>1. UNCHANGED <<sr_state, sr_work>>  BY DEF remrtVars, srvVars
    <1>2. \A t \in Slots \ {s} : SameHand(t)  BY <1>1 DEF SameHand
    <1>3. QED  BY <1>1, <1>2, OneKept

LEMMA HangupKept ==
    ASSUME IInv, NEW s \in Slots, \A t \in Slots : Conv(t) /\ Kept(t), UNCHANGED remrtVars,
           link[s] = "up", link' = [link EXCEPT ![s] = Hangup(toSrv[s])],
           UNCHANGED <<caller, toCtl, toSrv, inbuf>>
    PROVE  \A t \in Slots : Kept(t)'
    <1>1. DOMAIN link = Slots  BY ColumnTypes
    <1>2. \A t \in Slots \ {s} : SameNet(t)
        BY <1>1 DEF SameNet
    <1>3. Sound(link'[s], sr_state[s], sr_work[s], inbuf'[s] \o toCtl'[s], toSrv'[s])
        <2>1. CASE toSrv[s] = <<>>
            <3>1. link'[s] = "fin"  BY <1>1, <2>1 DEF Hangup
            <3>2. QED  BY <3>1 DEF Kept, Sound
        <2>2. CASE toSrv[s] # <<>>
            <3>1. /\ inbuf[s] \o toCtl[s] = <<>>
                  /\ sr_state[s] \in {"DOING_DIRBUILD", "DOING_GETTREES", "CLOSING"}
                       \/ sr_work[s] # NoWork
                BY <2>2, UnreadIsAsked
            <3>2. QED  BY <3>1 DEF Kept, Sound
        <2>3. QED  BY <2>1, <2>2
    <1>4. QED  BY <1>2, <1>3, OutsideKept

(* A live worker reads, works or answers.                                  *)
LEMMA AliveKept ==
    ASSUME IInv, NEW s \in Slots, \A t \in Slots : Conv(t) /\ Kept(t), UNCHANGED remrtVars,
           link[s] = "up", link'[s] = "up", \A t \in Slots \ {s} : SameNet(t),
           toSrv'[s] \in {toSrv[s], Tail(toSrv[s])}, toSrv'[s] # toSrv[s] => toSrv[s] # <<>>
    PROVE  \A t \in Slots : Kept(t)'
    <1>1. NoOptions(toSrv[s]) /\ toSrv[s] \in Seq(SrvMessages)
        BY SlotTypes DEF Kept, Sound, NoOptions
    <1>2. NoOptions(toSrv'[s])  BY <1>1, TailNoOptions
    <1>3. Sound(link'[s], sr_state[s], sr_work[s], inbuf'[s] \o toCtl'[s], toSrv'[s])
        BY <1>2 DEF Kept, Sound, NoOptions
    <1>4. QED  BY <1>3, OutsideKept

LEMMA WorkerKept ==
    ASSUME IInv, NEW s \in Slots, \A t \in Slots : Conv(t) /\ Kept(t), Worker(s)
    PROVE  \A t \in Slots : Kept(t)'
    <1>1. UNCHANGED remrtVars /\ RtsrvStep(s) /\ ~ph_restart(s)
        BY WorkerKeepsConv DEF Worker
    <1>2. /\ DOMAIN link = Slots /\ DOMAIN toSrv = Slots /\ DOMAIN toCtl = Slots
          /\ DOMAIN inbuf = Slots /\ DOMAIN caller = Slots
        BY ColumnTypes
    <1>3. CASE OneShotExit(s)
        BY <1>1, <1>3, HangupKept DEF OneShotExit
    <1>4. CASE Speak(s)
        <2>1. /\ link[s] = "up" /\ link'[s] = "up" /\ toSrv'[s] = toSrv[s]
              /\ \A t \in Slots \ {s} : SameNet(t)
            BY <1>2, <1>4 DEF Speak, SameNet
        <2>2. QED  BY <1>1, <2>1, AliveKept
    <1>5. CASE ph_dirbuild(s) \/ ph_enqueue(s)
        <2>1. /\ link[s] = "up" /\ link'[s] = "up" /\ toSrv[s] # <<>> /\ toSrv'[s] = Tail(toSrv[s])
              /\ \A t \in Slots \ {s} : SameNet(t)
            BY <1>2, <1>5 DEF ph_dirbuild, ph_enqueue, Reads, Reply, SameNet
        <2>2. QED  BY <1>1, <2>1, AliveKept
    <1>6. CASE ph_matrix(s) \/ ph_gettrees(s) \/ ph_options(s) \/ ph_lines(s)
        <2>1. /\ link[s] = "up" /\ link'[s] = "up" /\ toSrv'[s] = toSrv[s]
              /\ \A t \in Slots \ {s} : SameNet(t)
            BY <1>2, <1>6 DEF ph_matrix, ph_gettrees, ph_options, ph_lines, Takes, Reply, SameNet
        <2>2. QED  BY <1>1, <2>1, AliveKept
    <1>7. QED  BY <1>1, <1>3, <1>4, <1>5, <1>6 DEF RtsrvStep

LEMMA EnvironmentKept ==
    ASSUME IInv, Gentle, \A t \in Slots : Conv(t) /\ Kept(t), Environment
    PROVE  \A t \in Slots : Kept(t)'
    <1>1. UNCHANGED remrtVars  BY DEF Environment
    <1>2. CASE CallRtsrv \/ CallCommand
        BY <1>1, <1>2, AllKept DEF CallRtsrv, CallCommand, remrtVars, srvVars
    <1>3. ASSUME NEW s \in Slots PROVE ~NetworkReset(s)
        BY DEF Gentle, NetworkReset
    <1>4. CASE \E s \in Slots : RtsrvExit(s)
        BY <1>1, <1>4, HangupKept DEF RtsrvExit
    <1>5. QED  BY <1>2, <1>3, <1>4 DEF Environment


LEMMA StepKept ==
    ASSUME KeptInv, Gentle, [FarmNext]_farmVars
    PROVE  \A s \in Slots : Kept(s)'
    <1>1. IInv /\ Loop /\ \A t \in Slots : Conv(t) /\ Kept(t)  BY DEF KeptInv, TalkInv
    <1>2. CASE \E s \in Slots : \/ ph_version(s)
                                \/ ph_dirbuild_reply(s)
                                \/ ph_gettrees_reply(s)
                                \/ ph_pixels(s)
                                \/ ph_cmd(s)
                 /\ UNCHANGED rtsrvVars
        BY <1>1, <1>2, RepliesKept, PixelsKept
    <1>3. CASE \E s \in Slots : addclient(s) \/ Suck(s) \/ SendDirbuild(s) \/ task_server(s)
        BY <1>1, <1>3, AddclientKept, SuckKept, SendDirbuildKept, TaskKept
    <1>4. CASE Command
        BY <1>1, <1>4, CommandKept
    <1>5. CASE \/ ProcessEnd \/ Select \/ NoClient \/ SuckEnd \/ TransitionsEnd
               \/ FramesEnd \/ FrameBegin \/ FrameScanEnd \/ PassEnd
               \/ \E i \in DOMAIN FrameHead : FrameIsDone(i)
        <2>1. UNCHANGED <<link, inbuf, toCtl, toSrv, sr_state, sr_work>>
            BY <1>5 DEF ProcessEnd, Select, NoClient, SuckEnd, TransitionsEnd, FramesEnd,
                        FrameBegin, FrameScanEnd, PassEnd, FrameIsDone, srvVars, netVars
        <2>2. QED  BY <1>1, <2>1, AllKept
    <1>6. CASE \E s \in Slots : FinalClose(s)
        BY <1>1, <1>6, FinalCloseKept
    <1>7. CASE \E s \in Slots : Worker(s)
        BY <1>1, <1>7, WorkerKept
    <1>8. CASE Environment
        BY <1>1, <1>8, EnvironmentKept
    <1>9. CASE Terminated \/ UNCHANGED farmVars
        BY <1>1, <1>9, AllKept DEF Terminated, farmVars, remrtVars, srvVars, netVars
    <1>10. QED
        BY <1>2, <1>3, <1>4, <1>5, <1>6, <1>7, <1>8, <1>9
        DEF FarmNext, Dispatcher, RemrtStep

LEMMA InitKept == FarmInit => \A s \in Slots : Kept(s)
    <1> SUFFICES ASSUME FarmInit, NEW s \in Slots PROVE Kept(s)
        OBVIOUS
    <1>1. sr_work[s] = NoWork /\ link[s] = "none" /\ toSrv[s] = <<>>
        BY DEF FarmInit, Init, NetInit
    <1>2. QED  BY <1>1 DEF Kept, Sound

LEMMA StepKeepsKeptInv ==
    ASSUME Gentle, KeptInv, [FarmNext]_farmVars
    PROVE  KeptInv'
    <1>1. NoRestarts  BY DEF Gentle, NoRestarts
    <1>2. TalkInv'  BY <1>1, StepKeepsTalkInv DEF KeptInv
    <1>3. QED  BY <1>2, StepKept DEF KeptInv

LEMMA InitEstablishesKept == FarmInit => KeptInv
    BY InitEstablishesIInv, InitEstablishesTalk, InitKept DEF KeptInv, TalkInv


-----------------------------------------------------------------------------
(* Every pixel of a frame is in its file, in its to-do list or in a hand,  *)
(* and a frame that has been retired has nothing of it in the latter two.  *)

Held(work, f) == UNION {PixelsOf(work[t]) : t \in {u \in Slots : work[u].li_frame = f}}

Covered(todo, work, stored, retired) ==
    \A f \in Frames :
        /\ Pixels = stored[f] \cup PixelsOfList(todo[f]) \cup Held(work, f)
        /\ f \in retired => todo[f] = <<>> /\ \A t \in Slots : work[t].li_frame # f

(* The pixels in hands, when slot s has something in hand or nothing.      *)
Elsewhere(s, work, work2) == \A t \in Slots \ {s} : work2[t] = work[t]

LEMMA OneHand ==
    ASSUME NEW work, NEW s \in Slots, work[s] = NoWork, NEW work2, Elsewhere(s, work, work2),
           NEW f \in Frames
    PROVE  Held(work2, f) = Held(work, f)
                              \cup (IF work2[s].li_frame = f THEN PixelsOf(work2[s]) ELSE {})
    <1> DEFINE w == work2[s]
    <1>1. \A t \in Slots : work2[t] = IF t = s THEN w ELSE work[t]
        BY DEF Elsewhere
    <1>2. work[s].li_frame # f  BY FrameIsNotNoFrame DEF NoWork
    <1> HIDE DEF w
    <1>3. \A p : p \in Held(work, f) <=> \E t \in Slots : work[t].li_frame = f /\ p \in PixelsOf(work[t])
        BY DEF Held
    <1>4. \A p : p \in Held(work2, f) <=> \E t \in Slots : work2[t].li_frame = f /\ p \in PixelsOf(work2[t])
        BY DEF Held
    <1>5. ASSUME NEW p, p \in Held(work2, f)
          PROVE  p \in Held(work, f) \/ (w.li_frame = f /\ p \in PixelsOf(w))
        <2>1. PICK t \in Slots : work2[t].li_frame = f /\ p \in PixelsOf(work2[t])
            BY <1>4, <1>5
        <2>2. CASE t = s  BY <1>1, <2>1, <2>2
        <2>3. CASE t # s
            <3>1. work[t].li_frame = f /\ p \in PixelsOf(work[t])  BY <1>1, <2>1, <2>3
            <3>2. QED  BY <1>3, <3>1
        <2>4. QED  BY <2>2, <2>3
    <1>6. ASSUME NEW p, p \in Held(work, f)
          PROVE  p \in Held(work2, f)
        <2>1. PICK t \in Slots : work[t].li_frame = f /\ p \in PixelsOf(work[t])
            BY <1>3, <1>6
        <2>2. work2[t] = work[t]  BY <1>1, <1>2, <2>1
        <2>3. QED  BY <1>4, <2>1, <2>2
    <1>7. ASSUME NEW p, w.li_frame = f, p \in PixelsOf(w)
          PROVE  p \in Held(work2, f)
        <2>1. work2[s].li_frame = f /\ p \in PixelsOf(work2[s])  BY <1>1, <1>7
        <2>2. QED  BY <1>4, <2>1
    <1>8. QED  BY <1>5, <1>6, <1>7 DEF w

LEMMA HandEmptied ==
    ASSUME NEW work \in [Slots -> Works], NEW s \in Slots, NEW f \in Frames
    PROVE  Held(work, f) = Held([work EXCEPT ![s] = NoWork], f)
                             \cup (IF work[s].li_frame = f THEN PixelsOf(work[s]) ELSE {})
    <1> DEFINE empty == [work EXCEPT ![s] = NoWork]
    <1>1. empty[s] = NoWork /\ Elsewhere(s, empty, work)
        BY DEF Elsewhere
    <1> HIDE DEF empty
    <1>2. Held(work, f) = Held(empty, f)
                            \cup (IF work[s].li_frame = f THEN PixelsOf(work[s]) ELSE {})
        BY <1>1, OneHand
    <1>3. QED  BY <1>2 DEF empty

(* What is stored of a hand may be forgotten.                              *)
LEMMA ForgetCovered ==
    ASSUME NEW todo, NEW work \in [Slots -> Works], NEW s \in Slots, NEW stored, NEW retired,
           Covered(todo, work, stored, retired),
           work[s] # NoWork => PixelsOf(work[s]) \subseteq stored[work[s].li_frame]
    PROVE  Covered(todo, [work EXCEPT ![s] = NoWork], stored, retired)
    <1> DEFINE empty == [work EXCEPT ![s] = NoWork]
    <1>1. \A f \in Frames : Held(work, f) = Held(empty, f)
                              \cup (IF work[s].li_frame = f THEN PixelsOf(work[s]) ELSE {})
        BY HandEmptied
    <1>2. \A t \in Slots : empty[t] = IF t = s THEN NoWork ELSE work[t]
        OBVIOUS
    <1> HIDE DEF empty
    <1>3. ASSUME NEW f \in Frames
          PROVE  /\ Pixels = stored[f] \cup PixelsOfList(todo[f]) \cup Held(empty, f)
                 /\ f \in retired => todo[f] = <<>> /\ \A t \in Slots : empty[t].li_frame # f
        <2>1. NoWork.li_frame # f  BY FrameIsNotNoFrame DEF NoWork
        <2>2. /\ Pixels = stored[f] \cup PixelsOfList(todo[f]) \cup Held(work, f)
              /\ f \in retired => todo[f] = <<>> /\ \A t \in Slots : work[t].li_frame # f
            BY DEF Covered
        <2>3. work[s].li_frame = f => PixelsOf(work[s]) \subseteq stored[f]
            BY <2>1
        <2>4. Pixels = stored[f] \cup PixelsOfList(todo[f]) \cup Held(empty, f)
            BY <1>1, <2>2, <2>3
        <2>5. QED  BY <1>2, <2>1, <2>2, <2>4
    <1>4. Covered(todo, empty, stored, retired)  BY <1>3 DEF Covered
    <1>5. QED  BY <1>4 DEF empty


(* More of what is in a hand is stored.                                    *)
MoreStored(stored, f, new, stored2) == stored2 = [stored EXCEPT ![f] = @ \cup new]

LEMMA StoreCovered ==
    ASSUME NEW todo, NEW work \in [Slots -> Works], NEW s \in Slots, NEW retired,
           NEW stored \in [Frames -> SUBSET Nat], Covered(todo, work, stored, retired),
           work[s] # NoWork, NEW new, new \subseteq PixelsOf(work[s]),
           NEW stored2, MoreStored(stored, work[s].li_frame, new, stored2)
    PROVE  /\ Covered(todo, work, stored2, retired)
           /\ new \subseteq Pixels /\ new \subseteq stored2[work[s].li_frame]
           /\ work[s].li_frame \in Frames \ retired
    <1> DEFINE g == work[s].li_frame
    <1>1. g \in Frames  BY WorkIsSpan
    <1>2. PixelsOf(work[s]) \subseteq Held(work, g)  BY DEF Held
    <1>3. \A f \in Frames : stored2[f] = IF f = g THEN stored[f] \cup new ELSE stored[f]
        BY DEF MoreStored
    <1> HIDE DEF g
    <1>4. ASSUME NEW f \in Frames
          PROVE  /\ Pixels = stored2[f] \cup PixelsOfList(todo[f]) \cup Held(work, f)
                 /\ f \in retired => todo[f] = <<>> /\ \A t \in Slots : work[t].li_frame # f
        BY <1>2, <1>3, <1>4 DEF Covered
    <1>5. new \subseteq Pixels
        BY <1>1, <1>2 DEF Covered
    <1>6. Covered(todo, work, stored2, retired)  BY <1>4 DEF Covered
    <1>7. g \notin retired  BY <1>1 DEF Covered, g
    <1>8. QED  BY <1>1, <1>3, <1>5, <1>6, <1>7 DEF g

(* Work requeued by drop_server.                                           *)
LEMMA RequeueCovered ==
    ASSUME NEW todo \in TodoLists, NEW work \in [Slots -> Works], NEW stored, NEW retired,
           NEW s \in Slots, work[s] # NoWork, Covered(todo, work, stored, retired)
    PROVE  Covered([todo EXCEPT ![work[s].li_frame] = <<work[s]>> \o @],
                   [work EXCEPT ![s] = NoWork], stored, retired)
    <1> DEFINE g == work[s].li_frame
               p == <<work[s]>> \o todo[g]
               todo2 == [todo EXCEPT ![g] = p]
               work2 == [work EXCEPT ![s] = NoWork]
    <1>1. work[s] \in Spans /\ g \in Frames  BY WorkIsSpan
    <1>2. todo[g] \in Seq(Spans)  BY <1>1 DEF TodoLists
    <1>3. \A f \in Frames : Held(work, f) = Held(work2, f)
                              \cup (IF work[s].li_frame = f THEN PixelsOf(work[s]) ELSE {})
        BY HandEmptied
    <1>4. \A f \in Frames : todo2[f] = IF f = g THEN p ELSE todo[f]
        BY DEF TodoLists
    <1>5. PixelsOfList(p) = PixelsOf(work[s]) \cup PixelsOfList(todo[g])
        BY <1>1, <1>2, PushElements
    <1>6. \A t \in Slots : work2[t] = IF t = s THEN NoWork ELSE work[t]
        OBVIOUS
    <1>7. g \notin retired  BY <1>1 DEF Covered
    <1> HIDE DEF p, todo2, work2, g
    <1>8. ASSUME NEW f \in Frames
          PROVE  /\ Pixels = stored[f] \cup PixelsOfList(todo2[f]) \cup Held(work2, f)
                 /\ f \in retired => todo2[f] = <<>> /\ \A t \in Slots : work2[t].li_frame # f
        <2>1. NoWork.li_frame # f  BY FrameIsNotNoFrame DEF NoWork
        <2>2. /\ Pixels = stored[f] \cup PixelsOfList(todo[f]) \cup Held(work, f)
              /\ f \in retired => todo[f] = <<>> /\ \A t \in Slots : work[t].li_frame # f
            BY DEF Covered
        <2>3. Pixels = stored[f] \cup PixelsOfList(todo2[f]) \cup Held(work2, f)
            <3>1. CASE f = g
                <4>1. todo2[f] = p /\ work[s].li_frame = f  BY <1>4, <3>1 DEF g
                <4>2. Held(work, f) = Held(work2, f) \cup PixelsOf(work[s])
                    BY <1>3, <4>1
                <4>3. QED  BY <1>5, <2>2, <3>1, <4>1, <4>2
            <3>2. CASE f # g
                <4>1. todo2[f] = todo[f] /\ work[s].li_frame # f  BY <1>4, <3>2 DEF g
                <4>2. Held(work, f) = Held(work2, f)  BY <1>3, <4>1
                <4>3. QED  BY <2>2, <4>1, <4>2
            <3>3. QED  BY <3>1, <3>2
        <2>4. QED  BY <1>4, <1>6, <1>7, <2>1, <2>2, <2>3
    <1>9. Covered(todo2, work2, stored, retired)  BY <1>8 DEF Covered
    <1>10. QED  BY <1>9 DEF todo2, work2, p, g

(* drop_server, whatever its caller has done to the lists before.          *)
LEMMA DropCovered ==
    ASSUME NEW s \in Slots, NEW state, NEW todo \in TodoLists, NEW work \in [Slots -> Works],
           NEW stored, NEW retired, Covered(todo, work, stored, retired),
           work[s] # NoWork => Requeues(s), DropTo(s, state, todo, work)
    PROVE  Covered(fr_todo', sr_work', stored, retired)
    <1>1. CASE work[s] # NoWork
        BY <1>1, RequeueCovered DEF DropTo
    <1>2. CASE work[s] = NoWork
        BY <1>2 DEF DropTo
    <1>3. QED  BY <1>1, <1>2


(* An assignment: the pixels of the list it is taken from are in the       *)
(* assignment and in what is left of the list.                             *)
LEMMA AssignmentLosesNone ==
    ASSUME fr_todo \in TodoLists, Fr \in Frames, fr_todo[Fr] # <<>>, NEW lump \in Nat \ {0}
    PROVE  PixelsOfList(fr_todo[Fr])
             \subseteq PixelsOf(Assignment(lump)) \cup PixelsOfList(TodoAfter(lump)[Fr])
    <1> DEFINE l == fr_todo[Fr]
               h == Head(l)
               tl == Tail(l)
               stop == Stop(lump)
               a == Assignment(lump)
               rest == [h EXCEPT !.li_start = stop + 1]
               new == IF stop = h.li_stop THEN tl ELSE <<rest>> \o tl
    <1>1. l \in Seq(Spans) /\ l # <<>>  BY DEF TodoLists
    <1>2. TodoAfter(lump)[Fr] = new
        BY DEF TodoAfter, HeadSpan, TodoLists
    <1>3. h \in Spans /\ h = l[1] /\ tl \in Seq(Spans)
        BY <1>1, TailElements
    <1>4. h.li_start \in Nat /\ h.li_stop \in Nat  BY <1>3 DEF Spans
    <1>5. stop \in Nat  BY <1>4 DEF Stop, HeadSpan
    <1>6. PixelsOf(a) = h.li_start .. stop
        BY DEF Assignment, Span, PixelsOf, HeadSpan
    <1>7. rest \in Spans /\ PixelsOf(rest) = stop + 1 .. h.li_stop
        BY <1>3, <1>4, <1>5 DEF Spans, PixelsOf
    <1>8. PixelsOf(h) = h.li_start .. h.li_stop  BY DEF PixelsOf
    <1>9. PixelsOfList(l) \subseteq PixelsOf(h) \cup PixelsOfList(tl)
        <2>1. /\ Len(l) \in Nat \ {0} /\ DOMAIN l = 1 .. Len(l) /\ DOMAIN tl = 1 .. Len(l) - 1
              /\ \A i \in 1 .. Len(l) - 1 : tl[i] = l[i + 1]
            <3>1. Len(l) \in Nat \ {0} /\ DOMAIN l = 1 .. Len(l)
                BY <1>1, LenProperties, EmptySeq
            <3>2. Len(tl) = Len(l) - 1 /\ \A i \in 1 .. Len(tl) : tl[i] = l[i + 1]
                BY <1>1, HeadTailProperties
            <3>3. DOMAIN tl = 1 .. Len(tl)  BY <1>3, LenProperties
            <3>4. QED  BY <3>1, <3>2, <3>3
        <2> HIDE DEF h, tl, l
        <2>2. ASSUME NEW i \in DOMAIN l
              PROVE  PixelsOf(l[i]) \subseteq PixelsOf(h) \cup PixelsOfList(tl)
            <3>1. CASE i = 1  BY <1>3, <3>1
            <3>2. CASE i # 1
                <4>1. i - 1 \in DOMAIN tl /\ i - 1 \in 1 .. Len(l) - 1 /\ (i - 1) + 1 = i
                    BY <2>1, <3>2
                <4>2. tl[i - 1] = l[i]  BY <2>1, <4>1
                <4>3. QED  BY <4>1, <4>2 DEF PixelsOfList
            <3>3. QED  BY <3>1, <3>2
        <2>3. QED  BY <2>2 DEF PixelsOfList
    <1> HIDE DEF h, tl, l, stop, a, rest
    <1>10. CASE stop = h.li_stop
        BY <1>2, <1>6, <1>8, <1>9, <1>10 DEF a, l
    <1>11. CASE stop # h.li_stop
        <2>1. PixelsOfList(new) = PixelsOf(rest) \cup PixelsOfList(tl)
            BY <1>3, <1>7, <1>11, PushElements
        <2>2. PixelsOf(h) \subseteq PixelsOf(a) \cup PixelsOf(rest)
            BY <1>4, <1>5, <1>6, <1>7, <1>8
        <2> HIDE DEF new
        <2>3. QED  BY <1>2, <1>9, <2>1, <2>2 DEF a, l
    <1>12. QED  BY <1>10, <1>11

LEMMA AssignCovered ==
    ASSUME IInv, pc = "task", NEW s \in Slots, Hungry(s), NEW lump \in Lumps, NEW retired,
           Covered(fr_todo, sr_work, file, retired)
    PROVE  /\ Covered(TodoAfter(lump), WorkAfter(s, lump), file, retired)
           /\ TodoAfter(lump) \in TodoLists /\ WorkAfter(s, lump) \in [Slots -> Works]
    <1> DEFINE todo == TodoAfter(lump)
               work == WorkAfter(s, lump)
               a == Assignment(lump)
    <1>1. Fr \in Frames /\ todo \in TodoLists /\ work \in [Slots -> Works]
        BY AssignmentFacts
    <1>2. \A i, j \in DOMAIN fr_todo[Fr] :
              i # j => PixelsOf(fr_todo[Fr][i]) \cap PixelsOf(fr_todo[Fr][j]) = {}
        BY <1>1, HungryFacts DEF Disjoint
    <1>3. /\ a.li_frame = Fr
          /\ \A f \in Frames : f # Fr => todo[f] = fr_todo[f]
          /\ PixelsOf(a) \subseteq PixelsOfList(fr_todo[Fr])
          /\ PixelsOfList(todo[Fr]) \subseteq PixelsOfList(fr_todo[Fr])
        BY <1>2, HungryFacts, AssignmentTaken
    <1>4. PixelsOfList(fr_todo[Fr]) \subseteq PixelsOf(a) \cup PixelsOfList(todo[Fr])
        BY <1>1, HungryFacts, AssignmentLosesNone
    <1>5. work[s] = a /\ Elsewhere(s, sr_work, work) /\ sr_work[s] = NoWork
        BY HungryFacts DEF WorkAfter, Elsewhere, Hungry, Idle
    <1> HIDE DEF todo, work, a
    <1>6. Fr \notin retired
        <2>1. fr_todo[Fr] # <<>>  BY HungryFacts
        <2>2. QED  BY <1>1, <2>1 DEF Covered
    <1>7. ASSUME NEW f \in Frames
          PROVE  /\ Pixels = file[f] \cup PixelsOfList(todo[f]) \cup Held(work, f)
                 /\ f \in retired => todo[f] = <<>> /\ \A t \in Slots : work[t].li_frame # f
        <2>1. Held(work, f) = Held(sr_work, f) \cup (IF a.li_frame = f THEN PixelsOf(a) ELSE {})
            BY <1>5, OneHand
        <2>2. /\ Pixels = file[f] \cup PixelsOfList(fr_todo[f]) \cup Held(sr_work, f)
              /\ f \in retired => fr_todo[f] = <<>> /\ \A t \in Slots : sr_work[t].li_frame # f
            BY DEF Covered
        <2>3. CASE f = Fr
            <3>1. Held(work, f) = Held(sr_work, f) \cup PixelsOf(a)  BY <1>3, <2>1, <2>3
            <3>2. QED  BY <1>3, <1>4, <1>6, <2>2, <2>3, <3>1
        <2>4. CASE f # Fr
            <3>1. Held(work, f) = Held(sr_work, f) /\ todo[f] = fr_todo[f]
                BY <1>3, <2>1, <2>4
            <3>2. f \in retired => \A t \in Slots : work[t].li_frame # f
                <4>1. \A t \in Slots : t # s => work[t] = sr_work[t]  BY <1>5 DEF Elsewhere
                <4>2. work[s].li_frame # f  BY <1>3, <1>5, <2>4
                <4>3. QED  BY <2>2, <4>1, <4>2
            <3>3. QED  BY <2>2, <3>1, <3>2
        <2>5. QED  BY <2>3, <2>4
    <1>8. Covered(todo, work, file, retired)  BY <1>7 DEF Covered
    <1>9. QED  BY <1>1, <1>8 DEF todo, work


-----------------------------------------------------------------------------
(* The steps.  "Stores" is what a step of the job may do to the files.     *)

Stores == \/ UNCHANGED file
          \/ \E f \in Frames \ Retired, new \in SUBSET Pixels :
                file' = [file EXCEPT ![f] = @ \cup new]

CoveredNow == Covered(fr_todo, sr_work, file, Retired)

Distinct == \A i, j \in DOMAIN FrameHead : i # j => FrameHead[i] # FrameHead[j]

JobInv == KeptInv /\ Distinct /\ CoveredNow

LEMMA HandTyped ==
    ASSUME IInv, NEW s \in Slots, Kept(s)
    PROVE  /\ fr_todo \in TodoLists /\ sr_work \in [Slots -> Works]
           /\ file \in [Frames -> SUBSET Nat]
           /\ sr_work[s] # NoWork => Requeues(s)
    BY DEF IInv, WorkOK, JobOK, Kept, Sound, Requeues

LEMMA PixelsCovered ==
    ASSUME IInv, "open" \notin Faults, NEW s \in Slots, Kept(s), ph_pixels(s), CoveredNow
    PROVE  Covered(fr_todo', sr_work', file', Retired) /\ Stores
    <1> DEFINE work == [sr_work EXCEPT ![s] = NoWork]
               g == sr_work[s].li_frame
               R == Retired
               new == file'[g] \ file[g]
    <1>1. /\ fr_todo \in TodoLists /\ sr_work \in [Slots -> Works]
          /\ file \in [Frames -> SUBSET Nat]
          /\ sr_work[s] # NoWork => Requeues(s)
          /\ work \in [Slots -> Works] /\ work[s] = NoWork
        BY HandTyped DEF Works
    <1>2. Covered(fr_todo, sr_work, file, R)  BY DEF CoveredNow
    <1> HIDE DEF work, R
    <1>3. CASE IgnorePixels(s)
        BY <1>2, <1>3 DEF IgnorePixels, srvVars, jobVars, Stores, R
    <1>4. CASE Dropped(s) /\ UNCHANGED file
        <2>1. DropTo(s, "CLOSING", fr_todo, sr_work)  BY <1>4 DEF Dropped, Drop
        <2>2. Covered(fr_todo', sr_work', file, R)
            BY <1>1, <1>2, <2>1, DropCovered
        <2>3. QED  BY <1>4, <2>2 DEF Stores, R
    <1>5. ASSUME Answers(Head(inbuf[s]), s),
                 NEW part, part \subseteq PixelsOf(sr_work[s]),
                 file' = [file EXCEPT ![g] = @ \cup part]
          PROVE  /\ Covered(fr_todo, sr_work, file', R) /\ Stores
                 /\ part \subseteq file'[g]
        <2>1. sr_work[s] # NoWork  BY <1>5 DEF Answers, Idle
        <2>5. MoreStored(file, sr_work[s].li_frame, part, file')
            BY <1>5 DEF MoreStored
        <2>6. part \subseteq PixelsOf(sr_work[s])  BY <1>5
        <2>2. /\ Covered(fr_todo, sr_work, file', R)
              /\ part \subseteq Pixels /\ part \subseteq file'[g]
              /\ g \in Frames \ R
            BY ONLY <1>1, <1>2, <2>1, <2>5, <2>6, s \in Slots, StoreCovered
        <2> HIDE DEF g
        <2>3. Stores  BY <1>5, <2>2 DEF Stores, R
        <2>4. QED  BY <2>2, <2>3
    <1>6. CASE /\ Answers(Head(inbuf[s]), s)
               /\ file' = [file EXCEPT ![g] = @ \cup PixelsOf(sr_work[s])]
               /\ (sr_work' = work /\ UNCHANGED fr_todo) \/ Drop(s, fr_todo, work)
        <2>1. /\ Covered(fr_todo, sr_work, file', R) /\ Stores
              /\ PixelsOf(sr_work[s]) \subseteq file'[g]
            BY <1>5, <1>6
        <2>2. Covered(fr_todo, work, file', R)
            BY <1>1, <2>1, ForgetCovered DEF work
        <2>3. CASE sr_work' = work /\ UNCHANGED fr_todo
            BY <2>1, <2>2, <2>3 DEF R
        <2>4. CASE Drop(s, fr_todo, work)
            <3>1. fr_todo' = fr_todo /\ sr_work' = work
                BY <1>1, <2>4 DEF Drop, DropTo
            <3>2. QED  BY <2>1, <2>2, <3>1 DEF R
        <2>5. QED  BY <1>6, <2>3, <2>4
    <1>7. CASE FilePixels(s)
        BY <1>4, <1>6, <1>7 DEF FilePixels, work
    <1>8. CASE FileWriteFails(s)
        <2>1. PICK n \in PixelsOf(sr_work[s]) :
                file' = [file EXCEPT ![g] = @ \cup (sr_work[s].li_start .. n - 1)]
            BY <1>8 DEF FileWriteFails
        <2>2. Answers(Head(inbuf[s]), s) /\ Drop(s, fr_todo, sr_work)
            BY <1>8 DEF FileWriteFails, Dropped
        <2>3. sr_work[s].li_start .. n - 1 \subseteq PixelsOf(sr_work[s])
            <3>1. sr_work[s] \in Spans  BY <1>1, <2>2, WorkIsSpan DEF Answers, Idle
            <3>2. sr_work[s].li_start \in Nat /\ sr_work[s].li_stop \in Nat
                BY <3>1 DEF Spans
            <3>3. n \in sr_work[s].li_start .. sr_work[s].li_stop  BY DEF PixelsOf
            <3>4. QED  BY <3>2, <3>3 DEF PixelsOf
        <2>4. Covered(fr_todo, sr_work, file', R) /\ Stores
            BY <1>5, <2>1, <2>2, <2>3
        <2>5. DropTo(s, "CLOSING", fr_todo, sr_work)  BY <2>2 DEF Drop
        <2>6. Covered(fr_todo', sr_work', file', R)
            BY <1>1, <2>4, <2>5, DropCovered
        <2>7. QED  BY <2>4, <2>6 DEF R
    <1>9. ~FileCannotBeOpened(s)  BY DEF FileCannotBeOpened
    <1>10. QED  BY <1>3, <1>7, <1>8, <1>9 DEF ph_pixels

LEMMA TaskCovered ==
    ASSUME IInv, NEW s \in Slots, Conv(s), Kept(s), task_server(s), CoveredNow
    PROVE  Covered(fr_todo', sr_work', file', Retired) /\ Stores
    <1> DEFINE R == Retired
    <1>1. pc = "task" /\ UNCHANGED file
        BY DEF task_server, TaskNothing, TaskTardy, TaskGettrees, TaskLines, TaskMatrix,
               TaskMatrixFails, Returned
    <1>2. Stores  BY <1>1 DEF Stores
    <1>3. /\ fr_todo \in TodoLists /\ sr_work \in [Slots -> Works]
          /\ sr_work[s] # NoWork => Requeues(s)
        BY HandTyped
    <1>4. Covered(fr_todo, sr_work, file, R)  BY DEF CoveredNow
    <1> HIDE DEF R
    <1>5. CASE UNCHANGED <<fr_todo, sr_work>>
        BY <1>1, <1>2, <1>4, <1>5 DEF R
    <1>6. CASE Dropped(s)
        <2>1. DropTo(s, "CLOSING", fr_todo, sr_work)  BY <1>6 DEF Dropped, Drop
        <2>2. Covered(fr_todo', sr_work', file, R)  BY <1>3, <1>4, <2>1, DropCovered
        <2>3. QED  BY <1>1, <1>2, <2>2 DEF R
    <1>7. ASSUME NEW lump \in Lumps, TaskLines(s, lump) \/ TaskMatrix(s, lump)
          PROVE  Covered(fr_todo', sr_work', file', Retired) /\ Stores
        <2> DEFINE todo == TodoAfter(lump)
                   work == WorkAfter(s, lump)
        <2>1. Hungry(s)  BY <1>7 DEF TaskLines, TaskMatrix
        <2>2. /\ Covered(todo, work, file, R)
              /\ todo \in TodoLists /\ work \in [Slots -> Works]
            BY <1>1, <1>4, <2>1, AssignCovered
        <2>3. (fr_todo' = todo /\ sr_work' = work) \/ DropTo(s, "CLOSING", todo, work)
            BY <1>7 DEF TaskLines, TaskMatrix, Drop
        <2>4. Requeues(s)  BY <2>1 DEF Hungry, AtWork, Requeues
        <2> HIDE DEF todo, work
        <2>5. Covered(fr_todo', sr_work', file, R)
            BY <2>2, <2>3, <2>4, DropCovered
        <2>6. QED  BY <1>1, <1>2, <2>5 DEF R
    <1>8. \A lump : ~TaskMatrixFails(s, lump)  BY <1>1, MatrixNeverFails
    <1>9. QED
        BY <1>1, <1>5, <1>6, <1>7, <1>8 DEF task_server, TaskNothing, TaskTardy, TaskGettrees

(* A server that has work is connected and at work.                        *)
LEMMA HandIsAtWork ==
    ASSUME TalkInv, NEW s \in Slots, Kept(s), sr_work[s] # NoWork
    PROVE  s \in Open /\ sr_state[s] = "READY"
    <1>1. IInv /\ Conv(s)  BY DEF TalkInv
    <1>2. sr_state[s] = "READY"  BY DEF Kept, Sound
    <1>3. sr_pc[s] \in BOOLEAN  BY <1>1 DEF IInv, JobOK
    <1>4. sr_pc[s] # FALSE  BY <1>1, <1>2 DEF Conv, SlotOK, Closed
    <1>5. QED  BY <1>2, <1>3, <1>4 DEF Open

LEMMA addclientCovered ==
    ASSUME KeptInv, NEW s \in Slots, addclient(s)
    PROVE  UNCHANGED <<fr_todo, sr_work, file>>
    <1>1. TalkInv /\ Kept(s)  BY DEF KeptInv
    <1>2. s \notin Open  BY DEF addclient, FreeSlot, Open
    <1>3. sr_work[s] = NoWork  BY <1>1, <1>2, HandIsAtWork
    <1>4. sr_work \in [Slots -> Works]  BY <1>1 DEF TalkInv, IInv, WorkOK
    <1>5. sr_work' = [sr_work EXCEPT ![s] = NoWork] /\ UNCHANGED <<fr_todo, file>>
        BY DEF addclient, jobVars
    <1>6. [sr_work EXCEPT ![s] = NoWork] = sr_work
        BY <1>3, <1>4
    <1>7. QED  BY <1>5, <1>6

LEMMA StepCovered ==
    ASSUME Gentle, KeptInv, CoveredNow, [FarmNext]_farmVars
    PROVE  Covered(fr_todo', sr_work', file', Retired) /\ Stores
    <1> DEFINE R == Retired
               Goal == Covered(fr_todo', sr_work', file', R) /\ Stores
    <1>1. IInv /\ TalkInv /\ \A s \in Slots : Conv(s) /\ Kept(s)
        BY DEF KeptInv, TalkInv
    <1>2. Covered(fr_todo, sr_work, file, R)  BY DEF CoveredNow
    <1>3. "open" \notin Faults  BY DEF Gentle
    <1> HIDE DEF R
    <1>4. ASSUME UNCHANGED file, UNCHANGED <<fr_todo, sr_work>>
          PROVE  Goal
        BY <1>2, <1>4 DEF Stores
    <1>5. ASSUME UNCHANGED file,
                 NEW s \in Slots, NEW state \in States, DropTo(s, state, fr_todo, sr_work)
          PROVE  Goal
        <2>1. /\ fr_todo \in TodoLists /\ sr_work \in [Slots -> Works]
              /\ sr_work[s] # NoWork => Requeues(s)
            BY <1>1, HandTyped
        <2>2. Covered(fr_todo', sr_work', file, R)
            BY <1>2, <1>5, <2>1, DropCovered
        <2>3. QED  BY <1>5, <2>2 DEF Stores
    <1> HIDE DEF Goal
    <1>6. CASE \E s \in Slots : ph_version(s) \/ ph_dirbuild_reply(s) \/ ph_gettrees_reply(s)
                                  \/ ph_cmd(s) \/ Suck(s) \/ SendDirbuild(s)
        <2>1. PICK s \in Slots : ph_version(s) \/ ph_dirbuild_reply(s) \/ ph_gettrees_reply(s)
                                   \/ ph_cmd(s) \/ Suck(s) \/ SendDirbuild(s)
            BY <1>6, Zenon
        <2>2. /\ UNCHANGED file
              /\ \/ UNCHANGED <<fr_todo, sr_work>>
                 \/ \E state \in States : DropTo(s, state, fr_todo, sr_work)
            BY <2>1, HandlersMoveWork, Zenon
        <2>3. Goal  BY <1>4, <1>5, <2>2, Zenon
        <2>4. QED  BY <2>3 DEF Goal, R
    <1>7. CASE \E s \in Slots : ph_pixels(s)
        BY <1>1, <1>3, <1>7, PixelsCovered
    <1>8. CASE \E s \in Slots : addclient(s)
        <2>1. UNCHANGED <<fr_todo, sr_work, file>>  BY <1>8, addclientCovered
        <2>2. Goal  BY <1>4, <2>1
        <2>3. QED  BY <2>2 DEF Goal, R
    <1>9. CASE \E s \in Slots : task_server(s)
        BY <1>1, <1>9, TaskCovered
    <1>10. CASE Command
        <2>1. /\ UNCHANGED file
              /\ \/ UNCHANGED <<fr_todo, sr_work>>
                 \/ \E s \in Slots, state \in States : DropTo(s, state, fr_todo, sr_work)
            BY <1>1, <1>10, CommandsMoveWork, Zenon
        <2>2. Goal  BY <1>4, <1>5, <2>1, Zenon
        <2>3. QED  BY <2>2 DEF Goal, R
    <1>11. CASE \/ ProcessEnd \/ Select \/ NoClient \/ SuckEnd \/ TransitionsEnd \/ FramesEnd
                \/ FrameBegin \/ FrameScanEnd \/ PassEnd
                \/ (\E i \in DOMAIN FrameHead : FrameIsDone(i))
                \/ (\E s \in Slots : FinalClose(s))
        <2>1. UNCHANGED <<fr_todo, sr_work, file>>  BY <1>11, LoopMovesNoWork
        <2>2. Goal  BY <1>4, <2>1
        <2>3. QED  BY <2>2 DEF Goal, R
    <1>12. CASE UNCHANGED remrtVars
        <2>1. UNCHANGED <<fr_todo, sr_work, file>>
            BY <1>12 DEF remrtVars, srvVars, jobVars
        <2>2. Goal  BY <1>4, <2>1
        <2>3. QED  BY <2>2 DEF Goal, R
    <1>13. QED
        BY <1>6, <1>7, <1>8, <1>9, <1>10, <1>11, <1>12
        DEF FarmNext, Dispatcher, RemrtStep, Worker, Environment, Terminated, farmVars

-----------------------------------------------------------------------------
(* The queue of frames.                                                    *)

LEMMA WithoutElements ==
    ASSUME NEW S, NEW seq \in Seq(S), NEW i \in DOMAIN seq
    PROVE  /\ DOMAIN Without(seq, i) = 1 .. Len(seq) - 1
           /\ i \in 1 .. Len(seq) /\ Len(seq) \in Nat
           /\ \A j \in 1 .. Len(seq) - 1 : Without(seq, i)[j] = seq[IF j < i THEN j ELSE j + 1]
    <1> DEFINE n == Len(seq)
               a == SubSeq(seq, 1, i - 1)
               b == SubSeq(seq, i + 1, n)
    <1>1. n \in Nat /\ i \in 1 .. n  BY LenProperties
    <1>2. \A j \in 1 .. n : seq[j] \in S  BY <1>1, ElementOfSeq
    <1>3. a \in Seq(S) /\ Len(a) = i - 1 /\ \A j \in 1 .. i - 1 : a[j] = seq[j]
        BY <1>1, <1>2, SubSeqProperties
    <1>4. b \in Seq(S) /\ Len(b) = n - i /\ \A j \in 1 .. n - i : b[j] = seq[i + j]
        BY <1>1, <1>2, SubSeqProperties
    <1> HIDE DEF n, a, b
    <1>5. /\ a \o b \in Seq(S) /\ Len(a \o b) = n - 1
          /\ \A j \in 1 .. n - 1 : (a \o b)[j] = IF j <= i - 1 THEN a[j] ELSE b[j - (i - 1)]
        <2>1. /\ a \o b \in Seq(S) /\ Len(a \o b) = Len(a) + Len(b)
              /\ \A j \in 1 .. Len(a) + Len(b) :
                    (a \o b)[j] = IF j <= Len(a) THEN a[j] ELSE b[j - Len(a)]
            BY <1>3, <1>4, ConcatProperties
        <2>2. Len(a) + Len(b) = n - 1  BY <1>1, <1>3, <1>4
        <2>3. QED  BY <1>3, <2>1, <2>2
    <1>6. DOMAIN (a \o b) = 1 .. n - 1  BY <1>5, LenProperties
    <1>7. ASSUME NEW j \in 1 .. n - 1
          PROVE  (a \o b)[j] = seq[IF j < i THEN j ELSE j + 1]
        <2>1. CASE j <= i - 1
            BY <1>1, <1>3, <1>5, <2>1
        <2>2. CASE ~(j <= i - 1)
            <3>1. (a \o b)[j] = b[j - (i - 1)]  BY <1>5, <2>2
            <3>2. j - (i - 1) \in 1 .. n - i /\ i + (j - (i - 1)) = j + 1 /\ ~(j < i)
                BY <1>1, <2>2
            <3>3. QED  BY <1>4, <3>1, <3>2
        <2>3. QED  BY <2>1, <2>2
    <1>8. QED  BY <1>1, <1>6, <1>7 DEF Without, a, b, n

(* The frame that is done, and no other, is retired.                       *)
LEMMA OneRetired ==
    ASSUME FrameHead \in Seq(Frames), Distinct, NEW i \in DOMAIN FrameHead,
           FrameHead' = Without(FrameHead, i)
    PROVE  /\ FrameHead[i] \in Frames \ Retired
           /\ Retired' = Retired \cup {FrameHead[i]}
           /\ Distinct'
    <1> DEFINE q == FrameHead
               n == Len(q)
               old(j) == IF j < i THEN j ELSE j + 1
    <1>1. /\ DOMAIN q' = 1 .. n - 1 /\ i \in 1 .. n /\ n \in Nat
          /\ \A j \in 1 .. n - 1 : q'[j] = q[old(j)]
        BY WithoutElements
    <1>2. DOMAIN q = 1 .. n  BY LenProperties
    <1>3. q[i] \in Frames  BY <1>1, ElementOfSeq
    <1>4. q[i] \notin Retired  BY DEF Retired
    <1>5. \A j, k \in 1 .. n : j # k => q[j] # q[k]
        BY <1>2 DEF Distinct
    <1> HIDE DEF q, n
    <1>6. Distinct'
        <2>1. ASSUME NEW j \in 1 .. n - 1, NEW k \in 1 .. n - 1, j # k
              PROVE  q'[j] # q'[k]
            <3>1. old(j) \in 1 .. n /\ old(k) \in 1 .. n /\ old(j) # old(k)
                BY <1>1, <2>1
            <3>2. QED  BY <1>1, <1>5, <3>1
        <2>2. QED  BY <1>1, <2>1 DEF Distinct, q
    <1>7. ASSUME NEW f \in Frames
          PROVE  f \in Retired' <=> f \in Retired \/ f = q[i]
        <2>1. f \in Retired' <=> \A j \in 1 .. n - 1 : q'[j] # f
            BY <1>1 DEF Retired, q
        <2>2. f \in Retired <=> \A j \in 1 .. n : q[j] # f
            BY <1>2 DEF Retired, q
        <2>3. ASSUME f \in Retired' PROVE f \in Retired \/ f = q[i]
            <3>1. ASSUME NEW j \in 1 .. n, q[j] = f, j # i PROVE FALSE
                <4>1. CASE j < i
                    <5>1. j \in 1 .. n - 1 /\ old(j) = j  BY <1>1, <4>1
                    <5>2. QED  BY <1>1, <2>1, <2>3, <3>1, <5>1
                <4>2. CASE j > i
                    <5>1. j - 1 \in 1 .. n - 1 /\ old(j - 1) = j  BY <1>1, <4>2
                    <5>2. q'[j - 1] = q[j]  BY <1>1, <5>1
                    <5>3. QED  BY <2>1, <2>3, <3>1, <5>1, <5>2
                <4>3. QED  BY <1>1, <3>1, <4>1, <4>2
            <3>2. QED  BY <2>2, <3>1
        <2>4. ASSUME f \in Retired \/ f = q[i] PROVE f \in Retired'
            <3>1. ASSUME NEW j \in 1 .. n - 1 PROVE q'[j] # f
                <4>1. old(j) \in 1 .. n /\ old(j) # i  BY <1>1
                <4>2. q'[j] = q[old(j)]  BY <1>1
                <4>3. QED  BY <1>1, <1>5, <2>2, <2>4, <4>1, <4>2
            <3>2. QED  BY <2>1, <3>1
        <2>5. QED  BY <2>3, <2>4
    <1>8. Retired' \subseteq Frames /\ Retired \subseteq Frames
        BY DEF Retired
    <1>9. Retired' = Retired \cup {q[i]}
        BY <1>3, <1>7, <1>8
    <1>10. QED  BY <1>3, <1>4, <1>6, <1>9 DEF q

(* Only frame_is_done retires frames, and only those all of whose pixels   *)
(* are in the file.                                                        *)
Delivers == \E f \in Frames \ Retired :
               /\ file[f] = Pixels /\ UNCHANGED file
               /\ Retired' = Retired \cup {f}

LEMMA QueueMoves ==
    ASSUME [FarmNext]_farmVars
    PROVE  UNCHANGED FrameHead \/ \E i \in DOMAIN FrameHead : FrameIsDone(i)
    <1>1. CASE \E s \in Slots : \/ ph_version(s) \/ ph_dirbuild_reply(s) \/ ph_gettrees_reply(s)
                                \/ ph_cmd(s) \/ Suck(s) \/ SendDirbuild(s) \/ addclient(s)
                                \/ FinalClose(s)
        BY <1>1 DEF ph_version, ph_dirbuild_reply, ph_gettrees_reply, ph_cmd, Suck, SendDirbuild,
                    addclient, FinalClose, jobVars
    <1>2. CASE \E s \in Slots : ph_pixels(s)
        BY <1>2 DEF ph_pixels, IgnorePixels, FilePixels, FileCannotBeOpened, FileWriteFails, jobVars
    <1>3. CASE \E s \in Slots : task_server(s)
        <2>1. \A s, ret : Returned(s, ret) => UNCHANGED FrameHead  BY Zenon DEF Returned
        <2>2. PICK s \in Slots : task_server(s)  BY <1>3
        <2>3. \E ret : Returned(s, ret)
            BY <2>2, Zenon DEF task_server, TaskNothing, TaskTardy, TaskGettrees, TaskLines,
                               TaskMatrix, TaskMatrixFails
        <2>4. QED  BY <2>1, <2>3, Zenon
    <1>4. CASE Command
        BY <1>4 DEF Command, cd_stop, cd_go, cd_allocate, cd_drop, cd_restart, RestartNext,
                    RdebugNext, BroadcastEnd, CmdEnd, jobVars
    <1>5. CASE ProcessEnd \/ Select \/ NoClient \/ SuckEnd \/ TransitionsEnd \/ FramesEnd
                 \/ FrameBegin \/ FrameScanEnd \/ PassEnd
        BY <1>5 DEF ProcessEnd, Select, NoClient, SuckEnd, TransitionsEnd, FramesEnd, FrameBegin,
                    FrameScanEnd, PassEnd, jobVars
    <1>6. CASE UNCHANGED remrtVars  BY <1>6 DEF remrtVars, jobVars
    <1>7. QED
        BY <1>1, <1>2, <1>3, <1>4, <1>5, <1>6
        DEF FarmNext, Dispatcher, RemrtStep, Worker, Environment, Terminated, farmVars

LEMMA DoneIsDelivered ==
    ASSUME KeptInv, Distinct, CoveredNow, NEW i \in DOMAIN FrameHead, FrameIsDone(i)
    PROVE  Delivers /\ Distinct' /\ CoveredNow'
    <1> DEFINE f == FrameHead[i]
    <1>1. TalkInv /\ FrameHead \in Seq(Frames)
        BY DEF KeptInv, TalkInv, IInv, JobOK
    <1>2. FrameHead' = Without(FrameHead, i) /\ UNCHANGED <<fr_todo, sr_work, file>>
        BY DEF FrameIsDone
    <1>3. /\ f \in Frames \ Retired /\ Retired' = Retired \cup {f} /\ Distinct'
        BY <1>1, <1>2, OneRetired
    <1>4. fr_todo[f] = <<>> /\ \A s \in Open : sr_work[s].li_frame # f
        BY DEF FrameIsDone, FrameFinished, this_frame_done
    <1> HIDE DEF f
    <1>5. ASSUME NEW s \in Slots PROVE sr_work[s].li_frame # f
        <2>1. CASE sr_work[s] = NoWork
            BY <1>3, <2>1, FrameIsNotNoFrame DEF NoWork
        <2>2. CASE sr_work[s] # NoWork
            BY <1>1, <1>4, <2>2, HandIsAtWork DEF KeptInv
        <2>3. QED  BY <2>1, <2>2
    <1>6. Held(sr_work, f) = {}  BY <1>5 DEF Held
    <1>7. PixelsOfList(fr_todo[f]) = {}  BY <1>4 DEF PixelsOfList
    <1>8. file[f] = Pixels
        BY <1>3, <1>6, <1>7 DEF CoveredNow, Covered
    <1>9. Covered(fr_todo, sr_work, file, Retired \cup {f})
        BY <1>4, <1>5 DEF CoveredNow, Covered
    <1>10. CoveredNow'  BY <1>2, <1>3, <1>9 DEF CoveredNow
    <1>11. QED  BY <1>2, <1>3, <1>8, <1>10 DEF Delivers

LEMMA StepOfJob ==
    ASSUME Gentle, JobInv, [FarmNext]_farmVars
    PROVE  JobInv' /\ (Delivers \/ (Stores /\ UNCHANGED Retired))
    <1>1. KeptInv /\ Distinct /\ CoveredNow  BY DEF JobInv
    <1>2. KeptInv'  BY <1>1, StepKeepsKeptInv
    <1>3. CASE \E i \in DOMAIN FrameHead : FrameIsDone(i)
        BY <1>1, <1>2, <1>3, DoneIsDelivered DEF JobInv
    <1>4. CASE UNCHANGED FrameHead
        <2>1. Retired' = Retired /\ Distinct'  BY <1>1, <1>4 DEF Retired, Distinct
        <2>2. Covered(fr_todo', sr_work', file', Retired) /\ Stores
            BY <1>1, StepCovered
        <2>3. CoveredNow'  BY <2>1, <2>2 DEF CoveredNow
        <2>4. QED  BY <1>2, <2>1, <2>2, <2>3 DEF JobInv
    <1>5. QED  BY <1>3, <1>4, QueueMoves

LEMMA InitEstablishesJobInv ==
    FarmInit => JobInv /\ Retired = {} /\ file \in [Frames -> SUBSET Pixels]
    <1> SUFFICES ASSUME FarmInit
                 PROVE  JobInv /\ Retired = {} /\ file \in [Frames -> SUBSET Pixels]
        OBVIOUS
    <1>1. PICK c \in [Frames -> Checkpoints] :
            /\ fr_todo = [f \in Frames |-> Todo(f, c[f])]
            /\ file = [f \in Frames |-> c[f].file]
        BY DEF FarmInit, Init
    <1>2. FrameHead = [i \in Frames |-> i] /\ \A s \in Slots : sr_work[s] = NoWork
        BY DEF FarmInit, Init
    <1>3. Distinct /\ Retired = {}  BY <1>2 DEF Distinct, Retired
    <1>4. ASSUME NEW f \in Frames
          PROVE  file[f] \subseteq Pixels /\ PixelsOfList(fr_todo[f]) = Pixels \ file[f]
        <2>1. c[f] \in Checkpoints /\ file[f] = c[f].file /\ fr_todo[f] = Todo(f, c[f])
            BY <1>1
        <2>2. c[f].file \subseteq Pixels /\ PixelsOfList(c[f].todo) = Pixels \ c[f].file
            BY <2>1, RemrtAssumption DEF CheckpointAssumption
        <2>3. PixelsOfList(Todo(f, c[f])) = PixelsOfList(c[f].todo)
            BY <2>1, TodoPixels
        <2>4. QED  BY <2>1, <2>2, <2>3
    <1>5. file \in [Frames -> SUBSET Pixels]  BY <1>1, <1>4
    <1>6. \A f \in Frames : Held(sr_work, f) = {}
        BY <1>2, FrameIsNotNoFrame DEF Held, NoWork
    <1>7. CoveredNow  BY <1>3, <1>4, <1>6 DEF CoveredNow, Covered
    <1>8. QED  BY <1>3, <1>5, <1>7, InitEstablishesKept DEF JobInv

LEMMA CoveredIsNotLost ==
    ASSUME JobInv
    PROVE  NoPixelLost
    <1>1. TalkInv /\ \A s \in Slots : Kept(s)  BY DEF JobInv, KeptInv
    <1>2. ASSUME NEW f \in Frames
          PROVE  Pixels = file[f] \cup Queued(f) \cup Assigned(f)
        <2>1. Pixels = file[f] \cup PixelsOfList(fr_todo[f]) \cup Held(sr_work, f)
            BY DEF JobInv, CoveredNow, Covered
        <2>2. ASSUME NEW s \in Slots, sr_work[s].li_frame = f
              PROVE  s \in Open /\ AtWork(s)
            <3>1. sr_work[s] # NoWork  BY <2>2, FrameIsNotNoFrame DEF NoWork
            <3>2. QED  BY <1>1, <3>1, HandIsAtWork DEF AtWork
        <2>3. {t \in Open : AtWork(t) /\ sr_work[t].li_frame = f}
                = {t \in Slots : sr_work[t].li_frame = f}
            BY <2>2 DEF Open
        <2>4. Assigned(f) = Held(sr_work, f)  BY <2>3 DEF Assigned, Held
        <2>5. QED  BY <2>1, <2>4 DEF Queued
    <1>3. QED  BY <1>2 DEF NoPixelLost

(* "Any rtsrv processor which fails will have its work reassigned": every  *)
(* pixel of every frame is rendered, queued, or in the hands of a server   *)
(* that will render it or have it requeued; whatever workers die, are      *)
(* dropped as slow or tardy, are refused for their version, answer late or *)
(* cannot be reached, however often commands stop, start and drop.         *)
THEOREM NothingLost ==
    ASSUME Gentle
    PROVE  Spec => []NoPixelLost
    <1>1. FarmInit => JobInv  BY InitEstablishesJobInv
    <1>2. JobInv /\ [FarmNext]_farmVars => JobInv'  BY StepOfJob
    <1>3. JobInv => NoPixelLost  BY CoveredIsNotLost
    <1>4. QED  BY <1>1, <1>2, <1>3, PTL DEF Spec

(* The farm implements RenderJob: pixels once stored stay stored, and a    *)
(* frame is delivered once, with all of its pixels in the file.            *)
THEOREM ImplementsRenderJob ==
    ASSUME Gentle
    PROVE  Spec => RendersJob
    <1>1. FarmInit => JobInv /\ Job!Init
        BY InitEstablishesJobInv DEF Job!Init
    <1>2. JobInv /\ [FarmNext]_farmVars => JobInv'  BY StepOfJob
    <1>3. JobInv /\ [FarmNext]_farmVars => [Job!Next]_(Job!vars)
        <2> SUFFICES ASSUME JobInv, [FarmNext]_farmVars
                     PROVE  Job!Next \/ UNCHANGED <<file, Retired>>
            BY DEF Job!vars
        <2>1. Delivers \/ (Stores /\ UNCHANGED Retired)  BY StepOfJob
        <2>2. CASE Delivers
            BY <2>2, Zenon DEF Delivers, Job!Next, Job!Deliver
        <2>3. CASE Stores /\ UNCHANGED Retired
            BY <2>3, Zenon DEF Stores, Job!Next, Job!Store
        <2>4. QED  BY <2>1, <2>2, <2>3
    <1>4. QED  BY <1>1, <1>2, <1>3, PTL DEF Spec, RendersJob, Job!Spec

=============================================================================
