---------------------------- MODULE ObjectTable -----------------------------
(***************************************************************************)
(* What users of a geometry database rely on, with no addresses or holes   *)
(* in it: a table of named objects.  An object changes only while its own  *)
(* user puts or deletes it; a put that is cut short may lose that object,  *)
(* and no other.                                                           *)
(***************************************************************************)
CONSTANTS Users, Names, Values,
          Gone,     \* an object that is not in the database
          Nobody    \* no operation under way

VARIABLES table,    \* per name: its value, or Gone
          busy      \* per user: the operation under way, or Nobody

vars == <<table, busy>>

Operation == [name : Names, value : Values \cup {Gone}]

Init == /\ table = [n \in Names |-> Gone]
        /\ busy = [u \in Users |-> Nobody]

Begin(u, o) ==
    /\ busy[u] = Nobody
    /\ busy' = [busy EXCEPT ![u] = o]
    /\ UNCHANGED table

(* The old copy goes before the new one comes.                             *)
Lose(u) ==
    /\ busy[u] # Nobody
    /\ table' = [table EXCEPT ![busy[u].name] = Gone]
    /\ UNCHANGED busy

Finish(u) ==
    /\ busy[u] # Nobody
    /\ table' = [table EXCEPT ![busy[u].name] = busy[u].value]
    /\ busy' = [busy EXCEPT ![u] = Nobody]

Fail(u) ==
    /\ busy[u] # Nobody
    /\ table' \in {table, [table EXCEPT ![busy[u].name] = Gone],
                   [table EXCEPT ![busy[u].name] = busy[u].value]}
    /\ busy' = [busy EXCEPT ![u] = Nobody]

Next == \E u \in Users : \/ \E o \in Operation : Begin(u, o)
                         \/ Lose(u) \/ Finish(u) \/ Fail(u)

Spec == Init /\ [][Next]_vars
=============================================================================
