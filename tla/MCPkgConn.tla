----------------------------- MODULE MCPkgConn ------------------------------
EXTENDS PkgConn

CONSTANTS client, server

(* The client writes more than the system holds; of the server's messages  *)
(* one note and one reply may be on their way, which it does hold.         *)
Two == {client, server}
ShortAndLong == (client :> {0, 1, 2}) @@ (server :> {0, 1})
OneNote == (client :> 3) @@ (server :> 1)
Notes == (client :> 2) @@ (server :> 1)
=============================================================================
