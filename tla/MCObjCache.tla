----------------------------- MODULE MCObjCache -----------------------------
EXTENDS ObjCache, TLC

CONSTANTS rt1, rt2, t1, t2, t3, sph

(* One thread of one process and two of another, all of which come to the  *)
(* same object.  Each process opens the cache once: one that is killed is  *)
(* restarted as the other.                                                 *)
Threads == {t1, t2, t3}
Owner == (t1 :> rt1) @@ (t2 :> rt2) @@ (t3 :> rt2)
Objects == (t1 :> {sph}) @@ (t2 :> {sph}) @@ (t3 :> {sph})
Frames == (rt1 :> 1) @@ (rt2 :> 1)
=============================================================================
