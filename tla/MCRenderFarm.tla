---------------------------- MODULE MCRenderFarm ----------------------------
(* Instances of RenderFarm for TLC.                                        *)
EXTENDS RenderFarm

(* A frame with no file yet.                                               *)
Fresh == [file |-> {}, todo |-> <<Span(1, 0, NPixels - 1)>>]

(* A frame whose first pixel an earlier run has stored.                    *)
FirstDone == [file |-> {0}, todo |-> <<Span(1, 1, NPixels - 1)>>]

(* A frame an earlier run had all but finished, in the middle.             *)
HoleLeft == [file |-> Pixels \ {0, NPixels - 1},
             todo |-> <<Span(1, 0, 0), Span(1, NPixels - 1, NPixels - 1)>>]

OneFresh == {Fresh}
FreshOrHole == {Fresh, HoleLeft}
AllFrames == Frames
=============================================================================
