------------------------------- MODULE Remrt --------------------------------
(***************************************************************************)
(* The remrt dispatcher (src/remrt/remrt.c) in automatic mode: the loop of *)
(* do_work, check_input and schedule, the handlers of pkgswitch, and the   *)
(* commands that one-shot clients pass on.  The dispatcher is one thread;  *)
(* "pc" says where in the loop it is, and its loops over servers[] take    *)
(* one server per step, so that the workers and the network act between    *)
(* any two of them.                                                        *)
(*                                                                         *)
(* Data is abstracted to what scheduling depends on: a frame is its number *)
(* and the pixels of its file, a view is the number of the frame it is the *)
(* view of.  N_SERVER_ASSIGNMENTS is 1 (remrt.c:100), so sr_work is one    *)
(* span or none.                                                           *)
(***************************************************************************)
EXTENDS RemrtNet, RemrtSpans

CONSTANTS
    NSelect,        \* descriptors the select() of check_input looks at
    NeedTree,       \* frames with fr_needgettree, whose script body has clean or tree
    Lumps,          \* assignment sizes task_server may compute
    Callers,        \* who calls: "rtsrv", or "stale", an rtsrv of another version
    Commands,       \* commands one-shot clients send
    MaxCalls,       \* bound: rtsrv connections made by users and start_servers
    MaxCmds,        \* bound: one-shot commands
    MaxFaults,      \* bound: connections lost to "exit" and "reset"
    Checkpoints     \* what a frame may start from, see CheckpointAssumption

OPT_FRAME == 0      \* free for all
OPT_LOAD  == 1      \* 10% per server per frame
OPT_MOVIE == 2      \* one server per frame

(* A frame starts with the pixels an earlier run left in its file and the  *)
(* to-do list that scanning the file leaves.  Module RemrtScan, which      *)
(* works on a frame numbered 1, checks that it leaves exactly such lists.  *)
CheckpointAssumption ==
    \A c \in Checkpoints :
        /\ c.file \subseteq Pixels
        /\ c.todo \in Seq([li_frame : {1}, li_start : Nat, li_stop : Nat])
        /\ Ascending(c.todo)
        /\ PixelsOfList(c.todo) = Pixels \ c.file

ASSUME RemrtAssumption == /\ NSelect \in Nat
                          /\ NeedTree \subseteq Frames
                          /\ Lumps \subseteq Nat \ {0} /\ Lumps # {}
                          /\ Callers \subseteq {"rtsrv", "stale"}
                          /\ Commands \subseteq CommandNames
                          /\ MaxCalls \in Nat /\ MaxCmds \in Nat /\ MaxFaults \in Nat
                          /\ Checkpoints # {}
                          /\ CheckpointAssumption

VARIABLES
    sr_pc,          \* per slot: sr_pc is not PKC_NULL
    sr_state,       \* per slot: SRST_ state
    sr_work,        \* per slot: the span assigned, or NoWork
    sr_curframe,    \* per slot: frame the server works on, or NoFrame
    clients,        \* slots whose bit is set in the fd_set clients
    FrameHead,      \* the queue of unfinished frames
    fr_todo,        \* per frame: spans not yet assigned
    file,           \* per frame: the pixels rendered into its output file
    running,        \* is work being assigned?
    work_allocate_method,
    pc,             \* where the dispatcher is
    cur,            \* sp, or i: the server its present loop has come to
    fi,             \* fr: index in FrameHead its present loop has come to
    another_pass,   \* local of schedule(): some server is still hungry
    nxt_frame,      \* local of schedule(): 1 frame taken, 2 server wants to move
    ifdset,         \* local of check_input(): slots found readable, 0 for tcp_listen_fd
    cmd,            \* the command ph_cmd is executing
    ncalls, ncmds, nfaults      \* bounds on the environment

srvVars  == <<sr_pc, sr_state, sr_work, sr_curframe, clients>>
jobVars  == <<FrameHead, fr_todo, file>>
modeVars == <<running, work_allocate_method>>
loopVars == <<pc, cur, fi, another_pass, nxt_frame, ifdset, cmd>>
envVars  == <<ncalls, ncmds, nfaults>>
remrtVars == <<srvVars, jobVars, modeVars, loopVars>>

States == {"UNUSED", "NEW", "VERSOK", "DOING_DIRBUILD", "NEED_TREE", "READY",
           "RESTART", "CLOSING", "DOING_GETTREES"}

Spans == [li_frame : Frames, li_start : Nat, li_stop : Nat]
NoWork == [li_frame |-> NoFrame, li_start |-> 0, li_stop |-> 0]
NoCmd == [name |-> "none", from |-> 0, ret |-> "none"]

Todo_Mutant(f, c) == c.todo

Todo(f, c) == [i \in DOMAIN c.todo |-> [c.todo[i] EXCEPT !.li_frame = f]]

(* main: the automatic branch, at its call of do_work(1).                  *)
Init ==
    /\ NetInit
    /\ sr_pc = [s \in Slots |-> FALSE]
    /\ sr_state = [s \in Slots |-> "UNUSED"]
    /\ sr_work = [s \in Slots |-> NoWork]
    /\ sr_curframe = [s \in Slots |-> NoFrame]
    /\ clients = {}
    /\ FrameHead = [i \in Frames |-> i]
    /\ \E c \in [Frames -> Checkpoints] :
          /\ fr_todo = [f \in Frames |-> Todo(f, c[f])]
          /\ file = [f \in Frames |-> c[f].file]
    /\ running = TRUE
    /\ work_allocate_method = OPT_MOVIE
    /\ pc = "process1" /\ cur = 1 /\ fi = 1
    /\ another_pass = FALSE /\ nxt_frame = 0 /\ ifdset = {} /\ cmd = NoCmd
    /\ ncalls = 0 /\ ncmds = 0 /\ nfaults = 0

-----------------------------------------------------------------------------
(* Helpers shared by the actions.                                          *)

(* The slot the loop "for (i...)" or "for (sp...)" comes to next, among    *)
(* those of P.                                                             *)
Comes(s, P) == s \in P /\ s >= cur /\ \A t \in P : t >= cur => t >= s

(* ... and its end.                                                        *)
LoopOver(P) == \A t \in P : t < cur

Open == {s \in Slots : sr_pc[s]}

(* Leave a loop for the place p in the code.                               *)
Goto(p) == pc' = p /\ cur' = 1 /\ fi' = 1

Idle(s) == sr_work[s] = NoWork

(* drop_server requeues only what a server at work was doing.              *)
Requeues_Mutant(s) == sr_state[s] = "NEED_TREE"

Requeues(s) == sr_state[s] \in {"READY", "NEED_TREE"}

(* drop_server, on the work lists todo and work as its caller left them;   *)
(* the frame's list gets the span back at its head, and schedule() closes  *)
(* the connection.  "state" is CLOSING, unless the caller changes it after.*)
DropTo_Mutant(s, state, todo, work) ==
    /\ sr_state' = [sr_state EXCEPT ![s] = state]
    /\ sr_curframe' = [sr_curframe EXCEPT ![s] = NoFrame]
    /\ clients' = clients \ {s}
    /\ fr_todo' = IF Requeues(s) /\ work[s] # NoWork
                  THEN [todo EXCEPT ![work[s].li_frame] = <<work[s]>> \o @]
                  ELSE todo
    /\ sr_work' = work

DropTo(s, state, todo, work) ==
    /\ sr_state' = [sr_state EXCEPT ![s] = state]
    /\ sr_curframe' = [sr_curframe EXCEPT ![s] = NoFrame]
    /\ clients' = clients \ {s}
    /\ IF Requeues(s) /\ work[s] # NoWork
       THEN /\ fr_todo' = [todo EXCEPT ![work[s].li_frame] = <<work[s]>> \o @]
            /\ sr_work' = [work EXCEPT ![s] = NoWork]
       ELSE /\ fr_todo' = todo
            /\ sr_work' = work

Drop(s, todo, work) == DropTo(s, "CLOSING", todo, work)

Dropped(s) == Drop(s, fr_todo, sr_work)

statechange(s, newstate) == sr_state' = [sr_state EXCEPT ![s] = newstate]

-----------------------------------------------------------------------------
(* check_input: libpkg hands over the messages in the internal buffers,    *)
(* server by server (pkg_process); pkgswitch says to which handler.        *)

Waiting == {s \in Open : inbuf[s] # <<>>}

Handle(s, type) ==
    /\ pc \in {"process1", "process2"}
    /\ Comes(s, Waiting)
    /\ Head(inbuf[s]).type = type
    /\ inbuf' = [inbuf EXCEPT ![s] = Tail(@)]
    /\ cur' = IF type = "CMD" THEN 1 ELSE s
    /\ UNCHANGED <<calls, caller, link, toCtl, toSrv, fi, another_pass, nxt_frame, ifdset, envVars>>

(* A worker's version is accepted in whatever state its slot is.           *)
ph_version(s) ==
    /\ Handle(s, "VERSION")
    /\ IF Head(inbuf[s]).ok
       THEN statechange(s, "VERSOK") /\ UNCHANGED <<sr_work, sr_curframe, clients, fr_todo>>
       ELSE Dropped(s)
    /\ UNCHANGED <<sr_pc, FrameHead, file, modeVars, pc, cmd>>

ph_dirbuild_reply(s) ==
    /\ Handle(s, "DIRBUILD_REPLY")
    /\ IF sr_state[s] = "DOING_DIRBUILD"
       THEN statechange(s, "NEED_TREE") /\ UNCHANGED <<sr_work, sr_curframe, clients, fr_todo>>
       ELSE Dropped(s)
    /\ UNCHANGED <<sr_pc, FrameHead, file, modeVars, pc, cmd>>

ph_gettrees_reply(s) ==
    /\ Handle(s, "GETTREES_REPLY")
    /\ IF sr_state[s] = "DOING_GETTREES"
       THEN statechange(s, "READY") /\ UNCHANGED <<sr_work, sr_curframe, clients, fr_todo>>
       ELSE Dropped(s)
    /\ UNCHANGED <<sr_pc, FrameHead, file, modeVars, pc, cmd>>

(* Results are filed only for a server that is at work ...                 *)
TakesPixels(s) == sr_state[s] \in {"READY", "NEED_TREE", "DOING_GETTREES"}

(* ... and only when they answer its assignment to the letter.             *)
Answers(m, s) ==
    /\ ~Idle(s)
    /\ m.frame = sr_work[s].li_frame
    /\ m.start = sr_work[s].li_start
    /\ m.stop  = sr_work[s].li_stop

IgnorePixels(s) ==
    /\ Handle(s, "PIXELS")
    /\ ~TakesPixels(s)
    /\ UNCHANGED <<srvVars, jobVars, modeVars, pc, cmd>>

(* The pixels are in the file, and the range is off the work list.  A load *)
(* limited host that was slow once too often is dropped at the end.        *)
FilePixels_Mutant(s) ==
    /\ Handle(s, "PIXELS")
    /\ TakesPixels(s)
    /\ IF Answers(Head(inbuf[s]), s)
       THEN /\ file' = [file EXCEPT ![sr_work[s].li_frame] = @ \cup PixelsOf(sr_work[s])]
            /\ \/ /\ sr_work' = [sr_work EXCEPT ![s] = NoWork]
                  /\ UNCHANGED <<sr_state, sr_curframe, clients, fr_todo>>
               \/ "slow" \in Faults /\ Dropped(s)
       ELSE Dropped(s) /\ UNCHANGED file
    /\ UNCHANGED <<sr_pc, FrameHead, modeVars, pc, cmd>>

FilePixels(s) ==
    /\ Handle(s, "PIXELS")
    /\ TakesPixels(s)
    /\ LET work == [sr_work EXCEPT ![s] = NoWork]
       IN  IF Answers(Head(inbuf[s]), s)
           THEN /\ file' = [file EXCEPT ![sr_work[s].li_frame] = @ \cup PixelsOf(sr_work[s])]
                /\ \/ sr_work' = work /\ UNCHANGED <<sr_state, sr_curframe, clients, fr_todo>>
                   \/ "slow" \in Faults /\ Drop(s, fr_todo, work)
           ELSE Dropped(s) /\ UNCHANGED file
    /\ UNCHANGED <<sr_pc, FrameHead, modeVars, pc, cmd>>

(* The output file cannot be opened, or positioned: perror, and all goes   *)
(* on as if the pixels had been written, to the same test of the host.     *)
FileCannotBeOpened(s) ==
    /\ "open" \in Faults
    /\ Handle(s, "PIXELS")
    /\ TakesPixels(s) /\ Answers(Head(inbuf[s]), s)
    /\ UNCHANGED file
    /\ LET work == [sr_work EXCEPT ![s] = NoWork]
       IN  \/ sr_work' = work /\ UNCHANGED <<sr_state, sr_curframe, clients, fr_todo>>
           \/ "slow" \in Faults /\ Drop(s, fr_todo, work)
    /\ UNCHANGED <<sr_pc, FrameHead, modeVars, pc, cmd>>

(* The write fails or is short, some first pixels of the range are in the  *)
(* file: stop, and drop the innocent server to have its work requeued.     *)
FileWriteFails_Mutant(s) ==
    /\ "write" \in Faults
    /\ Handle(s, "PIXELS")
    /\ TakesPixels(s) /\ Answers(Head(inbuf[s]), s)
    /\ \E n \in PixelsOf(sr_work[s]) :
          file' = [file EXCEPT ![sr_work[s].li_frame] = @ \cup (sr_work[s].li_start .. n - 1)]
    /\ running' = FALSE
    /\ Drop(s, fr_todo, [sr_work EXCEPT ![s] = NoWork])
    /\ UNCHANGED <<sr_pc, FrameHead, work_allocate_method, pc, cmd>>

FileWriteFails(s) ==
    /\ "write" \in Faults
    /\ Handle(s, "PIXELS")
    /\ TakesPixels(s) /\ Answers(Head(inbuf[s]), s)
    /\ \E n \in PixelsOf(sr_work[s]) :
          file' = [file EXCEPT ![sr_work[s].li_frame] = @ \cup (sr_work[s].li_start .. n - 1)]
    /\ running' = FALSE
    /\ Dropped(s)
    /\ UNCHANGED <<sr_pc, FrameHead, work_allocate_method, pc, cmd>>

ph_pixels(s) == \/ IgnorePixels(s)
                \/ FilePixels(s)
                \/ FileCannotBeOpened(s)
                \/ FileWriteFails(s)

(* A one-shot client's command.  Its execution is the next steps'; the     *)
(* handler ends with CmdEnd.                                               *)
ph_cmd(s) ==
    /\ Handle(s, "CMD")
    /\ cmd' = [name |-> Head(inbuf[s]).cmd, from |-> s, ret |-> pc]
    /\ pc' = "cmd"
    /\ UNCHANGED <<srvVars, jobVars, modeVars>>

(* All buffers are processed: on to select(), or from the second round to  *)
(* schedule().                                                             *)
ProcessEnd ==
    /\ pc \in {"process1", "process2"}
    /\ LoopOver(Waiting)
    /\ Goto(IF pc = "process1" THEN "select" ELSE "transitions")
    /\ UNCHANGED <<srvVars, jobVars, modeVars, another_pass, nxt_frame, ifdset, cmd,
                   netVars, envVars>>

-----------------------------------------------------------------------------
(* The commands (cmd_tab), as one-shot clients send them.                  *)

Doing(name) == pc = "cmd" /\ cmd.name = name

cd_stop ==
    /\ Doing("stop")
    /\ running' = FALSE
    /\ Goto("cmd end")
    /\ UNCHANGED <<srvVars, jobVars, work_allocate_method, another_pass, nxt_frame,
                   ifdset, cmd, netVars, envVars>>

(* do_a_frame: nothing happens while running, or with no frames queued.    *)
cd_go ==
    /\ Doing("go")
    /\ running' = (running \/ FrameHead # <<>>)
    /\ Goto("cmd end")
    /\ UNCHANGED <<srvVars, jobVars, work_allocate_method, another_pass, nxt_frame,
                   ifdset, cmd, netVars, envVars>>

cd_allocate(method) ==
    /\ Doing("allocate")
    /\ work_allocate_method' = method
    /\ Goto("cmd end")
    /\ UNCHANGED <<srvVars, jobVars, running, another_pass, nxt_frame, ifdset, cmd,
                   netVars, envVars>>

(* The server is given by host name or slot number; any may be named.      *)
cd_drop(t) ==
    /\ Doing("drop")
    /\ sr_pc[t]
    /\ Dropped(t)
    /\ Goto("cmd end")
    /\ UNCHANGED <<sr_pc, FrameHead, file, modeVars, another_pass, nxt_frame, ifdset,
                   cmd, netVars, envVars>>

(* send_restart: the server is marked RESTART even when the send failed    *)
(* and drop_server has just marked it CLOSING.                             *)
send_restart(t) ==
    \E k \in Sent(t, 1) :
        /\ Send(t, k, 1, <<[type |-> "RESTART"]>>)
        /\ IF k = 1
           THEN statechange(t, "RESTART") /\ UNCHANGED <<sr_work, sr_curframe, clients, fr_todo>>
           ELSE DropTo(t, "RESTART", fr_todo, sr_work)

cd_restart(t) ==
    /\ Doing("restart")
    /\ sr_pc[t]
    /\ send_restart(t)
    /\ Goto("cmd end")
    /\ UNCHANGED <<sr_pc, FrameHead, file, modeVars, another_pass, nxt_frame, ifdset,
                   cmd, envVars>>

(* "restart" without a name, and "load" when not running, tell every       *)
(* server there is, one after the other; "rdebug" sends each an option.    *)
RestartsAll == \/ Doing("restart all")
               \/ Doing("load") /\ ~running

RestartNext(t) ==
    /\ RestartsAll
    /\ Comes(t, Open)
    /\ send_restart(t)
    /\ cur' = t + 1
    /\ UNCHANGED <<sr_pc, FrameHead, file, modeVars, pc, fi, another_pass, nxt_frame,
                   ifdset, cmd, envVars>>

RdebugNext(t) ==
    /\ Doing("rdebug")
    /\ Comes(t, Open)
    /\ \E k \in Sent(t, 1) :
          /\ Send(t, k, 1, <<[type |-> "OPTIONS"]>>)
          /\ IF k = 1 THEN UNCHANGED <<sr_state, sr_work, sr_curframe, clients, fr_todo>>
                      ELSE Dropped(t)
    /\ cur' = t + 1
    /\ UNCHANGED <<sr_pc, FrameHead, file, modeVars, pc, fi, another_pass, nxt_frame,
                   ifdset, cmd, envVars>>

(* The loop is over; or "load" is refused, remrt being busy.               *)
BroadcastEnd ==
    /\ \/ (RestartsAll \/ Doing("rdebug")) /\ LoopOver(Open)
       \/ Doing("load") /\ running
    /\ Goto("cmd end")
    /\ UNCHANGED <<srvVars, jobVars, modeVars, another_pass, nxt_frame, ifdset, cmd,
                   netVars, envVars>>

(* The end of ph_cmd: the one-shot client is dropped, and pkg_process goes *)
(* on where it was.                                                        *)
CmdEnd ==
    /\ pc = "cmd end"
    /\ Dropped(cmd.from)
    /\ pc' = cmd.ret /\ cur' = cmd.from /\ cmd' = NoCmd
    /\ UNCHANGED <<sr_pc, FrameHead, file, modeVars, fi, another_pass, nxt_frame, ifdset,
                   netVars, envVars>>

Command ==
    \/ cd_stop
    \/ cd_go
    \/ \E m \in {OPT_FRAME, OPT_LOAD, OPT_MOVIE} : cd_allocate(m)
    \/ \E t \in Slots : \/ cd_drop(t)
                        \/ cd_restart(t)
                        \/ RestartNext(t)
                        \/ RdebugNext(t)
    \/ BroadcastEnd
    \/ CmdEnd
-----------------------------------------------------------------------------
(* check_input: select(), accept(), and new traffic into the buffers.      *)

(* What select() finds readable: data, or the end of the connection, on    *)
(* the lowest NSelect descriptors in clients; the listening descriptor.    *)
Readable ==
    {s \in clients : s <= NSelect /\ (toCtl[s] # <<>> \/ link[s] \in {"fin", "rst"})}
        \cup (IF calls # <<>> THEN {0} ELSE {})

(* With nothing to read select() times out, and schedule() is next.        *)
Select ==
    /\ pc = "select"
    /\ ifdset' = Readable
    /\ Goto(IF Readable = {} THEN "transitions" ELSE "accept")
    /\ UNCHANGED <<srvVars, jobVars, modeVars, another_pass, nxt_frame, cmd, netVars, envVars>>

(* pkg_getclient and addclient: one caller gets the lowest free descriptor.*)
FreeSlot(s) == ~sr_pc[s] /\ \A t \in Slots : t < s => sr_pc[t]

addclient_Mutant(s) ==
    /\ pc = "accept"
    /\ 0 \in ifdset
    /\ FreeSlot(s)
    /\ calls' = Tail(calls)
    /\ caller' = [caller EXCEPT ![s] = Head(calls)]
    /\ link' = [link EXCEPT ![s] = "up"]
    /\ sr_pc' = [sr_pc EXCEPT ![s] = TRUE]
    /\ sr_work' = [sr_work EXCEPT ![s] = NoWork]
    /\ sr_curframe' = [sr_curframe EXCEPT ![s] = NoFrame]
    /\ statechange(s, "NEW")
    /\ ifdset' = ifdset \ {0}
    /\ Goto("suck")
    /\ UNCHANGED <<clients, toCtl, toSrv, inbuf, jobVars, modeVars, another_pass, nxt_frame, cmd,
                   envVars>>

addclient(s) ==
    /\ pc = "accept"
    /\ 0 \in ifdset
    /\ FreeSlot(s)
    /\ calls' = Tail(calls)
    /\ caller' = [caller EXCEPT ![s] = Head(calls)]
    /\ link' = [link EXCEPT ![s] = "up"]
    /\ UNCHANGED <<toCtl, toSrv, inbuf>>
    /\ clients' = clients \cup {s}
    /\ sr_pc' = [sr_pc EXCEPT ![s] = TRUE]
    /\ sr_work' = [sr_work EXCEPT ![s] = NoWork]
    /\ sr_curframe' = [sr_curframe EXCEPT ![s] = NoFrame]
    /\ statechange(s, "NEW")
    /\ ifdset' = ifdset \ {0}
    /\ Goto("suck")
    /\ UNCHANGED <<jobVars, modeVars, another_pass, nxt_frame, cmd, envVars>>

(* No client comes of it: nobody calls, accept() has no descriptor left to *)
(* give, or the caller's connection is broken by now and addclient, whose  *)
(* getpeername() fails, closes it again without a slot taken.              *)
NoClient ==
    /\ pc = "accept"
    /\ \/ /\ 0 \in ifdset => \A s \in Slots : sr_pc[s]
          /\ UNCHANGED calls
       \/ /\ "reset" \in Faults
          /\ 0 \in ifdset /\ \E s \in Slots : ~sr_pc[s]
          /\ calls' = Tail(calls)
    /\ ifdset' = ifdset \ {0}
    /\ Goto("suck")
    /\ UNCHANGED <<srvVars, jobVars, modeVars, another_pass, nxt_frame, cmd,
                   caller, link, toCtl, toSrv, inbuf, envVars>>

(* pkg_suckin: data goes to the internal buffer; a connection with no more *)
(* data is at its end or in error, and its server dropped.                 *)
Suck(s) ==
    /\ pc = "suck"
    /\ Comes(s, ifdset)
    /\ IF toCtl[s] # <<>>
       THEN /\ inbuf' = [inbuf EXCEPT ![s] = @ \o toCtl[s]]
            /\ toCtl' = [toCtl EXCEPT ![s] = <<>>]
            /\ UNCHANGED <<sr_state, sr_work, sr_curframe, clients, fr_todo>>
       ELSE Dropped(s) /\ UNCHANGED <<inbuf, toCtl>>
    /\ cur' = s + 1
    /\ UNCHANGED <<sr_pc, FrameHead, file, modeVars, pc, fi, another_pass, nxt_frame, ifdset,
                   cmd, calls, caller, link, toSrv, envVars>>

SuckEnd ==
    /\ pc = "suck"
    /\ LoopOver(ifdset)
    /\ ifdset' = {}
    /\ Goto("process2")
    /\ UNCHANGED <<srvVars, jobVars, modeVars, another_pass, nxt_frame, cmd, netVars, envVars>>

-----------------------------------------------------------------------------
(* schedule(): state transitions.                                          *)

Transits_Mutant == {s \in Open : sr_state[s] = "VERSOK"}

Transits == {s \in Open : sr_state[s] \in {"VERSOK", "CLOSING"}}

(* send_loglvl, then send_dirbuild.  (MSG_CD, for some hosts, only adds    *)
(* another send that can fail the same way.)                               *)
SendDirbuild(s) ==
    /\ pc = "transitions"
    /\ Comes(s, Transits) /\ sr_state[s] = "VERSOK"
    /\ \E k \in Sent(s, 2) :
          /\ Send(s, k, 2, <<[type |-> "DIRBUILD"]>>)
          /\ IF k = 2
             THEN /\ statechange(s, "DOING_DIRBUILD")
                  /\ UNCHANGED <<sr_work, sr_curframe, clients, fr_todo>>
             ELSE Dropped(s)
    /\ cur' = s + 1
    /\ UNCHANGED <<sr_pc, FrameHead, file, modeVars, pc, fi, another_pass, nxt_frame, ifdset,
                   cmd, envVars>>

(* Final close of a dropped server.                                        *)
FinalClose_Mutant(s) ==
    /\ pc = "transitions"
    /\ Comes(s, Transits) /\ sr_state[s] = "CLOSING"
    /\ sr_pc' = [sr_pc EXCEPT ![s] = FALSE]
    /\ clients' = clients \ {s}
    /\ link' = [link EXCEPT ![s] = "none"]
    /\ caller' = [caller EXCEPT ![s] = "none"]
    /\ toCtl' = [toCtl EXCEPT ![s] = <<>>]
    /\ toSrv' = [toSrv EXCEPT ![s] = <<>>]
    /\ inbuf' = [inbuf EXCEPT ![s] = <<>>]
    /\ cur' = s + 1
    /\ UNCHANGED <<sr_state, sr_work, sr_curframe, jobVars, modeVars, pc, fi, another_pass,
                   nxt_frame, ifdset, cmd, calls, envVars>>

FinalClose(s) ==
    /\ pc = "transitions"
    /\ Comes(s, Transits) /\ sr_state[s] = "CLOSING"
    /\ statechange(s, "UNUSED")
    /\ sr_pc' = [sr_pc EXCEPT ![s] = FALSE]
    /\ clients' = clients \ {s}
    /\ link' = [link EXCEPT ![s] = "none"]
    /\ caller' = [caller EXCEPT ![s] = "none"]
    /\ toCtl' = [toCtl EXCEPT ![s] = <<>>]
    /\ toSrv' = [toSrv EXCEPT ![s] = <<>>]
    /\ inbuf' = [inbuf EXCEPT ![s] = <<>>]
    /\ cur' = s + 1
    /\ UNCHANGED <<sr_work, sr_curframe, jobVars, modeVars, pc, fi, another_pass, nxt_frame,
                   ifdset, cmd, calls, envVars>>

TransitionsEnd ==
    /\ pc = "transitions"
    /\ LoopOver(Transits)
    /\ Goto("frames")
    /\ UNCHANGED <<srvVars, jobVars, modeVars, another_pass, nxt_frame, ifdset, cmd,
                   netVars, envVars>>

-----------------------------------------------------------------------------
(* schedule(): finished frames.                                            *)

(* No connected server has work of frame f (this_frame_done).              *)
this_frame_done_Mutant(f) ==
    \A s \in Open \ {1} : sr_work[s].li_frame # f

this_frame_done(f) == \A s \in Open : sr_work[s].li_frame # f

FrameFinished(i) == fr_todo[FrameHead[i]] = <<>> /\ this_frame_done(FrameHead[i])

Without(seq, i) == SubSeq(seq, 1, i - 1) \o SubSeq(seq, i + 1, Len(seq))

(* frame_is_done and destroy_frame, for the first such frame from fi on.   *)
FrameIsDone(i) ==
    /\ pc = "frames"
    /\ i >= fi /\ FrameFinished(i)
    /\ \A j \in DOMAIN FrameHead : j >= fi /\ FrameFinished(j) => j >= i
    /\ sr_curframe' = [s \in Slots |->
                         IF sr_pc[s] /\ sr_curframe[s] = FrameHead[i] THEN NoFrame
                                                                    ELSE sr_curframe[s]]
    /\ FrameHead' = Without(FrameHead, i)
    /\ fi' = i
    /\ UNCHANGED <<sr_pc, sr_state, sr_work, clients, fr_todo, file, modeVars, pc, cur,
                   another_pass, nxt_frame, ifdset, cmd, netVars, envVars>>

(* all_done: nothing to assign, and the servers at work have none.         *)
all_done_Mutant == \A s \in Open : sr_state[s] \in {"READY", "NEED_TREE"} => Idle(s)

all_done ==
    /\ \A i \in DOMAIN FrameHead : fr_todo[FrameHead[i]] = <<>>
    /\ \A s \in Open : sr_state[s] \in {"READY", "NEED_TREE"} => Idle(s)

(* Back to the loop of do_work, which ends when no frame is queued.        *)
Leave == Goto(IF FrameHead = <<>> THEN "exit" ELSE "process1")

FramesEnd ==
    /\ pc = "frames"
    /\ \A i \in DOMAIN FrameHead : i >= fi => ~FrameFinished(i)
    /\ running' = (running /\ ~all_done)
    /\ IF running' THEN Goto("frame") ELSE Leave
    /\ UNCHANGED <<srvVars, jobVars, work_allocate_method, another_pass, nxt_frame, ifdset,
                   cmd, netVars, envVars>>

-----------------------------------------------------------------------------
(* schedule(): assignments.                                                *)

Fr == FrameHead[fi]

(* Begin the passes over the servers for frame fr, if it has work waiting. *)
FrameBegin ==
    /\ pc = "frame"
    /\ fi <= Len(FrameHead)
    /\ nxt_frame' = 0
    /\ IF fr_todo[Fr] = <<>>
       THEN pc' = pc /\ fi' = fi + 1
       ELSE pc' = "task" /\ fi' = fi
    /\ UNCHANGED <<srvVars, jobVars, modeVars, cur, another_pass, ifdset, cmd, netVars, envVars>>

(* All frames seen.  If the last one was refused to a server because it is *)
(* taken, the method is relaxed and the scan restarted ("goto top").       *)
FrameScanEnd ==
    /\ pc = "frame"
    /\ fi > Len(FrameHead)
    /\ nxt_frame' = 0
    /\ IF nxt_frame = 1 /\ work_allocate_method > 0
       THEN work_allocate_method' = work_allocate_method - 1 /\ Goto("frame")
       ELSE Leave /\ UNCHANGED work_allocate_method
    /\ UNCHANGED <<srvVars, jobVars, running, another_pass, ifdset, cmd, netVars, envVars>>

(* Can task_server give server s anything?                                 *)
AtWork(s) == sr_state[s] \in {"READY", "NEED_TREE"}

Hungry_Mutant(s) == AtWork(s) /\ fr_todo[Fr] # <<>>

Hungry(s) == AtWork(s) /\ Idle(s) /\ fr_todo[Fr] # <<>>

(* A server without a current frame may start on fr ...                    *)
MayStart_Mutant(s) == sr_curframe[s] = NoFrame /\ work_allocate_method # OPT_LOAD

MayStart(s) ==
    /\ sr_curframe[s] = NoFrame
    /\ work_allocate_method # OPT_LOAD
    /\ work_allocate_method = OPT_MOVIE => \A t \in Slots : sr_curframe[t] # Fr

(* ... and its return code when it is given nothing.                       *)
Return(s) == CASE ~AtWork(s) \/ ~Idle(s)                        -> 0
               [] AtWork(s) /\ Idle(s) /\ fr_todo[Fr] = <<>>     -> 1
               [] Hungry(s) /\ sr_curframe[s] # NoFrame          -> 3
               [] OTHER                                         -> 2

(* What schedule() makes of return code ret from server s.                 *)
Returned(s, ret) ==
    /\ pc = "task"
    /\ Comes(s, Open)
    /\ nxt_frame' = CASE ret = 2 -> 1 [] ret = 3 -> 2 [] OTHER -> nxt_frame
    /\ another_pass' = (another_pass \/ ret = 1)
    /\ cur' = IF ret = 2 THEN MaxServers + 1 ELSE s + 1
    /\ UNCHANGED <<sr_pc, FrameHead, file, modeVars, pc, fi, ifdset, cmd, envVars>>

TaskNothing(s) ==
    /\ Returned(s, Return(s))
    /\ Hungry(s) => sr_curframe[s] # Fr /\ ~MayStart(s)
    /\ UNCHANGED <<sr_state, sr_work, sr_curframe, clients, fr_todo, netVars>>

TaskTardy(s) ==
    /\ "tardy" \in Faults
    /\ Returned(s, 0)
    /\ AtWork(s) /\ ~Idle(s)
    /\ Dropped(s)
    /\ UNCHANGED netVars

(* The assignment: the first lump pixels of the head span of fr.           *)
HeadSpan == Head(fr_todo[Fr])

Stop(lump) == IF HeadSpan.li_start + lump - 1 >= HeadSpan.li_stop
              THEN HeadSpan.li_stop
              ELSE HeadSpan.li_start + lump - 1

TodoAfter_Mutant(lump) ==
    [fr_todo EXCEPT ![Fr] = IF Stop(lump) = HeadSpan.li_stop
                            THEN Tail(@)
                            ELSE <<[HeadSpan EXCEPT !.li_start = Stop(lump)]>> \o Tail(@)]

TodoAfter(lump) ==
    [fr_todo EXCEPT ![Fr] = IF Stop(lump) = HeadSpan.li_stop
                            THEN Tail(@)
                            ELSE <<[HeadSpan EXCEPT !.li_start = Stop(lump) + 1]>> \o Tail(@)]

Assignment(lump) == Span(Fr, HeadSpan.li_start, Stop(lump))

WorkAfter(s, lump) == [sr_work EXCEPT ![s] = Assignment(lump)]

LinesMsg_Mutant(lump) == [type |-> "LINES", frame |-> Fr, start |-> HeadSpan.li_start,
                          stop |-> HeadSpan.li_start + lump - 1]

LinesMsg(lump) == [type |-> "LINES", frame |-> Fr, start |-> HeadSpan.li_start,
                   stop |-> Stop(lump)]
MatrixMsg == [type |-> "MATRIX", frame |-> Fr]
GettreesMsg == [type |-> "GETTREES"]

(* The server already works on fr: send_do_lines.  If that fails the work  *)
(* is back in the queue and the server, to schedule(), still hungry.       *)
TaskLines(s, lump) ==
    /\ Hungry(s) /\ sr_curframe[s] = Fr
    /\ \E k \in Sent(s, 1) :
          /\ Send(s, k, 1, <<LinesMsg(lump)>>)
          /\ IF k = 1
             THEN /\ Returned(s, 0)
                  /\ fr_todo' = TodoAfter(lump) /\ sr_work' = WorkAfter(s, lump)
                  /\ UNCHANGED <<sr_state, sr_curframe, clients>>
             ELSE /\ Returned(s, 1)
                  /\ Drop(s, TodoAfter(lump), WorkAfter(s, lump))

(* A frame new to the server, which has to load the trees for it:          *)
(* send_matrix, send_gettrees.                                             *)
NeedsTrees_Mutant(s) == sr_state[s] = "NEED_TREE"

NeedsTrees(s) == Fr \in NeedTree \/ sr_state[s] = "NEED_TREE"

TaskGettrees(s) ==
    /\ Hungry(s) /\ MayStart(s) /\ NeedsTrees(s)
    /\ \E k \in Sent(s, 2) :
          /\ k > 0 \/ Fr \in NeedTree
          /\ Send(s, k, 2, <<MatrixMsg, GettreesMsg>>)
          /\ IF k = 2
             THEN /\ statechange(s, "DOING_GETTREES")
                  /\ sr_curframe' = [sr_curframe EXCEPT ![s] = Fr]
                  /\ UNCHANGED <<sr_work, clients, fr_todo>>
             ELSE Dropped(s)
    /\ Returned(s, 1)

(* A frame new to the server, which has trees loaded that will do:         *)
(* send_matrix, send_do_lines.                                             *)
TaskMatrix(s, lump) ==
    /\ Hungry(s) /\ MayStart(s) /\ ~NeedsTrees(s)
    /\ \E k \in Sent(s, 2) :
          /\ k > 0
          /\ Send(s, k, 2, <<MatrixMsg, LinesMsg(lump)>>)
          /\ IF k = 2
             THEN /\ Returned(s, 0)
                  /\ fr_todo' = TodoAfter(lump) /\ sr_work' = WorkAfter(s, lump)
                  /\ sr_curframe' = [sr_curframe EXCEPT ![s] = Fr]
                  /\ UNCHANGED <<sr_state, clients>>
             ELSE /\ Returned(s, 1)
                  /\ Drop(s, TodoAfter(lump), WorkAfter(s, lump))

(* send_matrix fails and drops the server, but task_server does not notice:*)
(* if the frame is not marked fr_needgettree (the state is CLOSING by now, *)
(* no longer NEED_TREE) it goes on, assigns a range and sends it in vain;  *)
(* drop_server, called a second time, does not requeue what a server in    *)
(* state CLOSING was doing.                                                *)
TaskMatrixFails(s, lump) ==
    /\ Hungry(s) /\ MayStart(s) /\ Fr \notin NeedTree
    /\ 0 \in Sent(s, 2)
    /\ Send(s, 0, 2, <<>>)
    /\ statechange(s, "CLOSING")
    /\ sr_curframe' = [sr_curframe EXCEPT ![s] = NoFrame]
    /\ clients' = clients \ {s}
    /\ fr_todo' = TodoAfter(lump)
    /\ sr_work' = WorkAfter(s, lump)
    /\ Returned(s, 0)

task_server(s) ==
    /\ pc = "task"
    /\ \/ TaskNothing(s)
       \/ TaskTardy(s)
       \/ TaskGettrees(s)
       \/ \E lump \in Lumps : \/ TaskLines(s, lump)
                               \/ TaskMatrix(s, lump)
                               \/ TaskMatrixFails(s, lump)

(* The end of a pass over the servers: another one, while some are hungry  *)
(* and work waits, or on to the next frame.                                *)
PassEnd_Mutant ==
    /\ pc = "task"
    /\ LoopOver(Open)
    /\ cur' = 1
    /\ IF nxt_frame = 0 /\ another_pass /\ fr_todo[Fr] # <<>>
       THEN UNCHANGED <<pc, fi>>
       ELSE pc' = "frame" /\ fi' = fi + 1
    /\ UNCHANGED <<another_pass, srvVars, jobVars, modeVars, nxt_frame, ifdset, cmd, netVars,
                   envVars>>

PassEnd ==
    /\ pc = "task"
    /\ LoopOver(Open)
    /\ another_pass' = FALSE
    /\ cur' = 1
    /\ IF nxt_frame = 0 /\ another_pass /\ fr_todo[Fr] # <<>>
       THEN UNCHANGED <<pc, fi>>
       ELSE pc' = "frame" /\ fi' = fi + 1
    /\ UNCHANGED <<srvVars, jobVars, modeVars, nxt_frame, ifdset, cmd, netVars, envVars>>

-----------------------------------------------------------------------------
(* The steps of the dispatcher that leave the connections' other ends be,  *)
(* and the one that takes an end away.                                     *)

RemrtStep ==
    \/ \E s \in Slots : \/ ph_version(s)
                         \/ ph_dirbuild_reply(s)
                         \/ ph_gettrees_reply(s)
                         \/ ph_pixels(s)
                         \/ ph_cmd(s)
                         \/ addclient(s)
                         \/ Suck(s)
                         \/ SendDirbuild(s)
                         \/ task_server(s)
    \/ Command
    \/ ProcessEnd
    \/ Select
    \/ NoClient
    \/ SuckEnd
    \/ TransitionsEnd
    \/ \E i \in DOMAIN FrameHead : FrameIsDone(i)
    \/ FramesEnd
    \/ FrameBegin
    \/ FrameScanEnd
    \/ PassEnd

(* "Task accomplished"                                                     *)
Terminated == pc = "exit" /\ UNCHANGED <<remrtVars, netVars, envVars>>
=============================================================================
