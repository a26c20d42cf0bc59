------------------------------- MODULE Rtsrv --------------------------------
(***************************************************************************)
(* The rtsrv worker (src/remrt/rtsrv.c) at the other end of the connection *)
(* of each slot.  Messages are either handled as they are read or put on   *)
(* WorkHead, from which the main loop takes one at a time.                 *)
(***************************************************************************)
EXTENDS RemrtNet

VARIABLES
    seen_dirbuild,  \* per slot: the model is open
    seen_gettrees,  \* per slot: trees are loaded
    view,           \* per slot: frame of the last matrix, NoFrame before seen_matrix
    grid,           \* per slot: frame the viewing grid was set up for
    WorkHead        \* per slot: messages queued for the main loop

rtsrvVars == <<seen_dirbuild, seen_gettrees, view, grid, WorkHead>>

RtsrvInit ==
    /\ seen_dirbuild = [s \in Slots |-> FALSE]
    /\ seen_gettrees = [s \in Slots |-> FALSE]
    /\ view = [s \in Slots |-> NoFrame]
    /\ grid = [s \in Slots |-> NoFrame]
    /\ WorkHead = [s \in Slots |-> <<>>]

(* The process of slot s is gone, and what it knew with it.                *)
Forget(s) ==
    /\ seen_dirbuild' = [seen_dirbuild EXCEPT ![s] = FALSE]
    /\ seen_gettrees' = [seen_gettrees EXCEPT ![s] = FALSE]
    /\ view' = [view EXCEPT ![s] = NoFrame]
    /\ grid' = [grid EXCEPT ![s] = NoFrame]
    /\ WorkHead' = [WorkHead EXCEPT ![s] = <<>>]

(* main: having connected, an rtsrv sends its version, and one run with a  *)
(* command sends that ...                                                  *)
Speak(s) ==
    /\ link[s] = "up"
    /\ caller[s] \in {"rtsrv", "stale"} \cup CommandNames
    /\ LET m == IF caller[s] \in CommandNames
                THEN [type |-> "CMD", cmd |-> caller[s]]
                ELSE [type |-> "VERSION", ok |-> caller[s] = "rtsrv"]
       IN  toCtl' = [toCtl EXCEPT ![s] = Append(@, m)]
    /\ caller' = [caller EXCEPT ![s] = IF @ \in CommandNames THEN "leaving" ELSE "none"]
    /\ UNCHANGED <<calls, link, toSrv, inbuf, rtsrvVars>>

(* ... and exits a second later, reading nothing.                          *)
OneShotExit(s) ==
    /\ link[s] = "up"
    /\ caller[s] = "leaving"
    /\ link' = [link EXCEPT ![s] = Hangup(toSrv[s])]
    /\ UNCHANGED <<calls, caller, toCtl, toSrv, inbuf, rtsrvVars>>

(* The main loop reads a message.                                          *)
Reads(s, types) ==
    /\ link[s] = "up" /\ caller[s] = "none"
    /\ toSrv[s] # <<>>
    /\ Head(toSrv[s]).type \in types
    /\ toSrv' = [toSrv EXCEPT ![s] = Tail(@)]
    /\ UNCHANGED <<caller, inbuf>>

Reply(s, m) == toCtl' = [toCtl EXCEPT ![s] = Append(@, m)]

(* The first MSG_DIRBUILD opens the model and is answered, others are not. *)
ph_dirbuild(s) ==
    /\ Reads(s, {"DIRBUILD"})
    /\ seen_dirbuild' = [seen_dirbuild EXCEPT ![s] = TRUE]
    /\ IF seen_dirbuild[s] THEN UNCHANGED toCtl ELSE Reply(s, [type |-> "DIRBUILD_REPLY"])
    /\ UNCHANGED <<calls, link, seen_gettrees, view, grid, WorkHead>>

(* MSG_RESTART: close the connection, exec the program anew, which calls.  *)
ph_restart(s) ==
    /\ Reads(s, {"RESTART"})
    /\ link' = [link EXCEPT ![s] = Hangup(Tail(toSrv[s]))]
    /\ calls' = Append(calls, "rtsrv")
    /\ Forget(s)
    /\ UNCHANGED toCtl

ph_enqueue_Mutant(s) ==
    /\ Reads(s, {"MATRIX", "GETTREES", "OPTIONS", "LINES"})
    /\ WorkHead' = [WorkHead EXCEPT ![s] = <<Head(toSrv[s])>> \o @]
    /\ UNCHANGED <<calls, link, toCtl, seen_dirbuild, seen_gettrees, view, grid>>

ph_enqueue(s) ==
    /\ Reads(s, {"MATRIX", "GETTREES", "OPTIONS", "LINES"})
    /\ WorkHead' = [WorkHead EXCEPT ![s] = Append(@, Head(toSrv[s]))]
    /\ UNCHANGED <<calls, link, toCtl, seen_dirbuild, seen_gettrees, view, grid>>

(* The main loop takes the first message off its list.                     *)
Takes(s, type) ==
    /\ link[s] = "up"
    /\ WorkHead[s] # <<>>
    /\ Head(WorkHead[s]).type = type
    /\ WorkHead' = [WorkHead EXCEPT ![s] = Tail(@)]
    /\ UNCHANGED <<calls, caller, link, toSrv, inbuf>>

ph_matrix(s) ==
    /\ Takes(s, "MATRIX")
    /\ view' = [view EXCEPT ![s] = Head(WorkHead[s]).frame]
    /\ UNCHANGED <<toCtl, seen_dirbuild, seen_gettrees, grid>>

(* Load the trees and prepare(), which is where grid_setup() is called.    *)
ph_gettrees(s) ==
    /\ Takes(s, "GETTREES")
    /\ seen_gettrees' = [seen_gettrees EXCEPT ![s] = TRUE]
    /\ grid' = [grid EXCEPT ![s] = view[s]]
    /\ Reply(s, [type |-> "GETTREES_REPLY"])
    /\ UNCHANGED <<seen_dirbuild, view>>

ph_options(s) ==
    /\ Takes(s, "OPTIONS")
    /\ UNCHANGED <<toCtl, seen_dirbuild, seen_gettrees, view, grid>>

(* Render a range with the grid as it is, and send the pixels back.  What  *)
(* view and grid they were rendered with is a remark to the reader: it is  *)
(* not in the message, and the dispatcher cannot see it.                   *)
ph_lines(s) ==
    /\ Takes(s, "LINES")
    /\ LET m == Head(WorkHead[s])
       IN  IF seen_gettrees[s] /\ view[s] # NoFrame
           THEN Reply(s, [type |-> "PIXELS", frame |-> m.frame, start |-> m.start,
                          stop |-> m.stop, view |-> view[s], grid |-> grid[s]])
           ELSE UNCHANGED toCtl
    /\ UNCHANGED <<seen_dirbuild, seen_gettrees, view, grid>>

RtsrvStep(s) ==
    \/ Speak(s)
    \/ OneShotExit(s)
    \/ ph_dirbuild(s)
    \/ ph_restart(s)
    \/ ph_enqueue(s)
    \/ ph_matrix(s)
    \/ ph_gettrees(s)
    \/ ph_options(s)
    \/ ph_lines(s)
=============================================================================
