----------------------------- MODULE RemrtScan ------------------------------
(***************************************************************************)
(* Checkpoint and restart: how remrt builds the to-do list of a frame      *)
(* whose output file an earlier run left behind (prep_frame,               *)
(* create_outputfilename and scan_frame_for_finished_pixels).  A file is   *)
(* the set of the positions of its non-black pixels; it may be longer than *)
(* the frame when the earlier run rendered a larger picture.               *)
(***************************************************************************)
EXTENDS RemrtSpans

CONSTANTS
    NPixels,    \* fr_width * fr_height of the frame
    FileMax     \* the last pixel position the file left behind may hold

ASSUME ScanAssumption == /\ NPixels \in Nat \ {0}
                         /\ FileMax \in Nat

VARIABLES
    file,       \* the non-black pixels of the .pix file
    fr_todo,    \* the frame's list of spans still to be rendered
    pno         \* index of the next unread pixel of the file

scanVars == <<file, fr_todo, pno>>

Pixels == 0 .. NPixels - 1

(* Positions p such that the file is non-black all the way from first to p *)
Run(first) == {p \in file : p >= first /\ first .. p \subseteq file}

(* prep_frame queues the whole frame as one span; whatever file is there   *)
(* is then scanned from its beginning.                                     *)
ScanInit ==
    /\ file \in SUBSET (0 .. FileMax)
    /\ fr_todo = <<Span(1, 0, NPixels - 1)>>
    /\ pno = 0

(* One turn of the outer loop: skip black pixels up to the next non-black  *)
(* one, follow the run to its last pixel, delete the batch from the work   *)
(* queue.  The black pixel that ends the run has been read as well.        *)
DeleteRun(first, last) ==
    /\ first \in file /\ first >= pno
    /\ \A p \in file : p >= pno => p >= first
    /\ last \in Run(first) /\ last + 1 \notin file
    /\ fr_todo' = ListRemove(fr_todo, first, last)
    /\ pno' = last + 2
    /\ UNCHANGED file

(* End of file: the scan is over and the list stands as it is.             *)
ScanDone == \A p \in file : p < pno

ScanEnd == ScanDone /\ UNCHANGED scanVars

ScanNext == \/ \E first, last \in 0 .. FileMax : DeleteRun(first, last)
            \/ ScanEnd

ScanSpec == ScanInit /\ [][ScanNext]_scanVars /\ WF_scanVars(ScanNext)

-----------------------------------------------------------------------------
ScanTypeOK ==
    /\ file \subseteq 0 .. FileMax
    /\ pno \in Nat
    /\ \A i \in DOMAIN fr_todo : fr_todo[i] \in [li_frame : {1}, li_start : Int, li_stop : Int]

(* What the scan deletes is exactly the rendered pixels it has read past:  *)
(* nothing that is still black is lost from the queue, nothing that is     *)
(* rendered will be rendered again.  (scan_frame_for_finished_pixels.)     *)
RemainderExact == PixelsOfList(fr_todo) = Pixels \ {p \in file : p < pno}

(* The list stays a list of nonempty ranges, each of which ends before the *)
(* next one begins, which is what task_server's arithmetic on the head     *)
(* span relies on.  (list_remove, all four outcomes.)                      *)
TodoAscending == Ascending(fr_todo)
=============================================================================
