----------------------------- MODULE RenderFarm -----------------------------
(***************************************************************************)
(* remrt, its rtsrv workers and the network between them: the dispatcher   *)
(* of module Remrt, one worker of module Rtsrv per connection, and the     *)
(* environment that starts workers, sends commands and breaks things.      *)
(***************************************************************************)
EXTENDS Remrt, Rtsrv

farmVars == <<remrtVars, netVars, envVars, rtsrvVars>>

FarmInit == Init /\ RtsrvInit

(* A user, or start_servers through the helper process, starts an rtsrv;   *)
(* or someone runs one of another protocol version.                        *)
CallRtsrv ==
    /\ pc # "exit"
    /\ ncalls < MaxCalls
    /\ ncalls' = ncalls + 1
    /\ \E who \in Callers : calls' = Append(calls, who)
    /\ UNCHANGED <<ncmds, nfaults, caller, link, toCtl, toSrv, inbuf>>

(* rtsrv host port command *)
CallCommand ==
    /\ pc # "exit"
    /\ ncmds < MaxCmds
    /\ ncmds' = ncmds + 1
    /\ \E name \in Commands : calls' = Append(calls, name)
    /\ UNCHANGED <<ncalls, nfaults, caller, link, toCtl, toSrv, inbuf>>

(* A worker dies.  What it has sent is still delivered.                    *)
RtsrvExit(s) ==
    /\ "exit" \in Faults
    /\ nfaults < MaxFaults
    /\ link[s] = "up"
    /\ nfaults' = nfaults + 1
    /\ link' = [link EXCEPT ![s] = Hangup(toSrv[s])]
    /\ Forget(s)
    /\ UNCHANGED <<calls, caller, toCtl, toSrv, inbuf, ncalls, ncmds>>

(* The network breaks a connection; what was under way may be lost.  The   *)
(* worker notices, and exits.                                              *)
NetworkReset(s) ==
    /\ "reset" \in Faults
    /\ nfaults < MaxFaults
    /\ link[s] = "up"
    /\ nfaults' = nfaults + 1
    /\ link' = [link EXCEPT ![s] = "rst"]
    /\ \E m \in {toCtl[s], <<>>} : toCtl' = [toCtl EXCEPT ![s] = m]
    /\ Forget(s)
    /\ UNCHANGED <<calls, caller, toSrv, inbuf, ncalls, ncmds>>

(* The dispatcher, on its own or taking a worker's connection away.        *)
Dispatcher == \/ RemrtStep /\ UNCHANGED rtsrvVars
              \/ \E s \in Slots : FinalClose(s) /\ Forget(s)

Worker(s) == RtsrvStep(s) /\ UNCHANGED <<remrtVars, envVars>>

Environment == /\ \/ (CallRtsrv \/ CallCommand) /\ UNCHANGED rtsrvVars
                  \/ \E s \in Slots : RtsrvExit(s) \/ NetworkReset(s)
               /\ UNCHANGED remrtVars

FarmNext ==
    \/ Dispatcher
    \/ \E s \in Slots : Worker(s)
    \/ Environment
    \/ Terminated /\ UNCHANGED rtsrvVars

Spec == FarmInit /\ [][FarmNext]_farmVars

(* The dispatcher loops without end (select() times out after 30 seconds), *)
(* a live worker reads, renders and answers, and workers are started again *)
(* every SERVER_CHECK_INTERVAL as long as there are hosts to start them on.*)
(* Nothing makes a process die, a link break or a user type a command.     *)
FairSpec ==
    /\ Spec
    /\ WF_farmVars(Dispatcher)
    /\ \A s \in Slots : WF_farmVars(Worker(s))
    /\ WF_farmVars(CallRtsrv /\ UNCHANGED <<rtsrvVars, remrtVars>>)

-----------------------------------------------------------------------------
(* Types.                                                                  *)

CtlMessages ==
    [type : {"VERSION"}, ok : BOOLEAN]
      \cup [type : {"CMD"}, cmd : CommandNames]
      \cup [type : {"DIRBUILD_REPLY", "GETTREES_REPLY"}]
      \cup [type : {"PIXELS"}, frame : Frames, start : Nat, stop : Nat,
            view : Frames, grid : Frames \cup {NoFrame}]

WorkMessages ==
    [type : {"MATRIX"}, frame : Frames]
      \cup [type : {"GETTREES", "OPTIONS"}]
      \cup [type : {"LINES"}, frame : Frames, start : Nat, stop : Nat]

SrvMessages == WorkMessages \cup [type : {"DIRBUILD", "RESTART"}]

NetTypeOK ==
    /\ calls \in Seq({"rtsrv", "stale"} \cup CommandNames)
    /\ caller \in [Slots -> {"none", "leaving", "rtsrv", "stale"} \cup CommandNames]
    /\ link \in [Slots -> Links]
    /\ toCtl \in [Slots -> Seq(CtlMessages)]
    /\ toSrv \in [Slots -> Seq(SrvMessages)]
    /\ inbuf \in [Slots -> Seq(CtlMessages)]

RtsrvTypeOK ==
    /\ seen_dirbuild \in [Slots -> BOOLEAN]
    /\ seen_gettrees \in [Slots -> BOOLEAN]
    /\ view \in [Slots -> Frames \cup {NoFrame}]
    /\ grid \in [Slots -> Frames \cup {NoFrame}]
    /\ WorkHead \in [Slots -> Seq(WorkMessages)]

ServersTypeOK ==
    /\ sr_pc \in [Slots -> BOOLEAN]
    /\ sr_state \in [Slots -> States]
    /\ sr_work \in [Slots -> Spans \cup {NoWork}]
    /\ sr_curframe \in [Slots -> Frames \cup {NoFrame}]
    /\ clients \subseteq Slots

JobTypeOK ==
    /\ FrameHead \in Seq(Frames)
    /\ fr_todo \in [Frames -> Seq(Spans)]
    /\ \A f \in Frames : \A i \in DOMAIN fr_todo[f] : fr_todo[f][i].li_frame = f
    /\ file \in [Frames -> SUBSET Nat]
    /\ running \in BOOLEAN
    /\ work_allocate_method \in {OPT_FRAME, OPT_LOAD, OPT_MOVIE}

LoopTypeOK ==
    /\ pc \in {"process1", "select", "accept", "suck", "process2", "transitions",
              "frames", "frame", "task", "cmd", "cmd end", "exit"}
    /\ cur \in Nat /\ fi \in Nat \ {0}
    /\ another_pass \in BOOLEAN /\ nxt_frame \in 0 .. 2
    /\ ifdset \subseteq Slots \cup {0}
    /\ 0 \in ifdset => calls # <<>>
    /\ cmd \in [name : CommandNames, from : Slots, ret : {"process1", "process2"}] \cup {NoCmd}
    /\ pc \in {"cmd", "cmd end"} => cmd # NoCmd
    /\ pc = "task" => fi <= Len(FrameHead)

(* Everything the farm keeps has the type its declaration says; work lists *)
(* hold work of their own frame (CHECK_FRAME, li_frame), the dispatcher    *)
(* uses fr in a pass over the servers only while there is such a frame, a  *)
(* command is being executed where one is, and accept() is only called     *)
(* when somebody is there.                                                 *)
TypeOK == NetTypeOK /\ RtsrvTypeOK /\ ServersTypeOK /\ JobTypeOK /\ LoopTypeOK

-----------------------------------------------------------------------------
(* Properties.                                                             *)

Retired == {f \in Frames : \A i \in DOMAIN FrameHead : FrameHead[i] # f}

Queued(f) == PixelsOfList(fr_todo[f])

(* The pixels of frame f with servers from which drop_server requeues.     *)
Assigned(f) ==
    UNION {PixelsOf(sr_work[s]) : s \in {t \in Open : AtWork(t) /\ sr_work[t].li_frame = f}}

(* However work is split, assigned, requeued at the head and split again,  *)
(* no pixel is in two places: in two spans of a to-do list, in two servers'*)
(* hands, or in a server's hands and still queued.  (task_server,          *)
(* drop_server, ph_pixels.)                                                *)
NoPixelTwice ==
    /\ \A f \in Frames : \A i, j \in DOMAIN fr_todo[f] :
          i # j => PixelsOf(fr_todo[f][i]) \cap PixelsOf(fr_todo[f][j]) = {}
    /\ \A s \in Slots : ~Idle(s) => PixelsOf(sr_work[s]) \cap Queued(sr_work[s].li_frame) = {}
    /\ \A s, t \in Slots :
          s # t /\ ~Idle(s) /\ sr_work[s].li_frame = sr_work[t].li_frame
             => PixelsOf(sr_work[s]) \cap PixelsOf(sr_work[t]) = {}

(* Every pixel of every frame is rendered, or queued, or in the hands of a *)
(* server that will render it or have it requeued: "any rtsrv processor    *)
(* which fails will have its work reassigned" (remrt.1).                   *)
NoPixelLost == \A f \in Frames : Pixels = file[f] \cup Queued(f) \cup Assigned(f)

(* A frame that is declared done has no hole in its file (frame_is_done).  *)
NoHoles == \A f \in Retired : file[f] = Pixels

(* A pixel that is stored is never rendered again, after a requeue or a    *)
(* late answer of a dropped server either.  (ph_pixels, drop_server.)      *)
NoRework == \A f \in Frames : file[f] \cap (Queued(f) \cup Assigned(f)) = {}

Seen(s) == {toCtl[s][i] : i \in DOMAIN toCtl[s]} \cup {inbuf[s][i] : i \in DOMAIN inbuf[s]}

(* A range is rendered after the matrix of its own frame has been read:    *)
(* sr_curframe, which decides whether task_server sends the matrix, agrees *)
(* with what the worker has in its queue and its globals.                  *)
OwnMatrix == \A s \in Slots : \A m \in Seen(s) : m.type = "PIXELS" => m.view = m.frame

(* ... and with the viewing grid of its own frame, which only the gettrees *)
(* handler of rtsrv sets up (prepare, grid_setup).                         *)
OwnView == \A s \in Slots : \A m \in Seen(s) : m.type = "PIXELS" => m.grid = m.frame

(* A worker that answers is never dropped for it: whatever pixels reach a  *)
(* server at work are the answer to what it has been assigned.  (The four  *)
(* mismatch drops of ph_pixels.)                                           *)
AnswersMatch == \A s \in Slots : \A m \in Seen(s) :
                   m.type = "PIXELS" /\ TakesPixels(s) => Answers(m, s)

InFlight(s) ==
    Cardinality({<<"toSrv", i>> : i \in {j \in DOMAIN toSrv[s] : toSrv[s][j].type = "LINES"}})
      + Cardinality({i \in DOMAIN WorkHead[s] : WorkHead[s][i].type = "LINES"})
      + Cardinality({i \in DOMAIN toCtl[s] : toCtl[s][i].type = "PIXELS"})
      + Cardinality({i \in DOMAIN inbuf[s] : inbuf[s][i].type = "PIXELS"})

(* While a connection is up, the assignment its server is at work on is on *)
(* its way there, queued there, or on its way back, once; with none, there *)
(* is none.  (send_do_lines, ph_lines, ph_pixels.)                         *)
OneInFlight ==
    \A s \in Slots : link[s] = "up" /\ AtWork(s) =>
                        InFlight(s) = IF Idle(s) THEN 0 ELSE 1

(* "One per frame": as long as the method has not been relaxed, no two     *)
(* servers have the same current frame.  (task_server, OPT_MOVIE.)         *)
MovieFrameHasOneServer ==
    work_allocate_method = OPT_MOVIE =>
        \A s, t \in Slots : s # t /\ sr_curframe[s] # NoFrame => sr_curframe[s] # sr_curframe[t]

(* "CLOSING  UNUSED  next schedule() pass closes conn" (remrt.c, the table *)
(* of state transitions): nothing else becomes of a dropped server.        *)
ClosingIsFinal ==
    [][\A s \in Slots : sr_state[s] = "CLOSING" => sr_state'[s] \in {"CLOSING", "UNUSED"}]_farmVars

(* The farm does what RenderJob promises.                                  *)
Job == INSTANCE RenderJob WITH stored <- file, delivered <- Retired
RendersJob == Job!Spec

(* schedule() returns: its passes over hungry servers and its "goto top"s  *)
(* come to an end whatever is dropped on the way.                          *)
ScheduleReturns == pc = "frame" ~> pc \in {"process1", "exit"}

(* A server dropped before schedule() begins has its connection closed by  *)
(* that very pass, or by a later one: it never stays.  (drop_server clears *)
(* its bit in clients, so nothing else would ever look at it again.)       *)
DroppedIsClosed == \A s \in Slots :
    sr_state[s] = "CLOSING" /\ pc \in {"process1", "select", "accept", "suck", "process2"}
        ~> ~sr_pc[s]

(* A worker that connects and speaks is heard.                             *)
ConnectedIsHeard == \A s \in Slots :
    sr_state[s] = "NEW" /\ caller[s] = "none" ~> (sr_state[s] # "NEW" \/ pc = "exit")

(* "Task accomplished": if workers outlive the failures, every frame asked *)
(* for gets done.                                                          *)
TaskAccomplished == <>(pc = "exit")
=============================================================================
