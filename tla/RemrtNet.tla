------------------------------ MODULE RemrtNet ------------------------------
(***************************************************************************)
(* The connections between the dispatcher (remrt) and the programs that    *)
(* call it (rtsrv workers, and rtsrv run with a command to pass on), at    *)
(* the level of whole libpkg messages.  A slot of servers[] is the number  *)
(* of the descriptor its connection has, so connections are numbered by    *)
(* slot.  Messages are records whose "type" is the MSG_ name of protocol.h *)
(***************************************************************************)
EXTENDS Integers, Sequences, FiniteSets

CONSTANTS
    MaxServers,     \* number of slots: descriptors accept() can hand out
    NFrames,        \* frames the script queues
    NPixels,        \* fr_width * fr_height
    Faults          \* what may go wrong, see FaultNames

FaultNames == {"exit",      \* a worker process dies, its kernel closes the connection
               "reset",     \* a network link fails under a live worker, or a caller
               "tardy",     \* a worker exceeds TARDY_SERVER_INTERVAL
               "slow",      \* a load limited (rs) host stays below its rays/second
               "open",      \* open() or lseek() of the output file fails
               "write"}     \* write() to the output file fails or is short

(* The commands a one-shot client may pass on.                             *)
CommandNames == {"stop", "go", "drop", "restart", "restart all", "load",
                 "allocate", "rdebug"}

ASSUME NetAssumption == /\ MaxServers \in Nat \ {0}
                        /\ NFrames \in Nat \ {0}
                        /\ NPixels \in Nat \ {0}
                        /\ Faults \subseteq FaultNames

Slots  == 1 .. MaxServers
Frames == 1 .. NFrames
Pixels == 0 .. NPixels - 1

(* FRAME_NULL, and the view of a worker that was never sent a matrix.      *)
NoFrame == 0

VARIABLES
    calls,      \* connections waiting in the listen queue: who called
    caller,     \* per slot: the process at the other end, until it has spoken
    link,       \* per slot "none", "up", "fin" (peer has closed), "rst" (broken)
    toCtl,      \* per slot: messages in the kernel, worker to dispatcher
    toSrv,      \* per slot: messages in the kernel, dispatcher to worker
    inbuf       \* per slot: messages in the dispatcher's pkc_inbuf

netVars == <<calls, caller, link, toCtl, toSrv, inbuf>>

Links == {"none", "up", "fin", "rst"}

NetInit ==
    /\ calls = <<>>
    /\ caller = [s \in Slots |-> "none"]
    /\ link  = [s \in Slots |-> "none"]
    /\ toCtl = [s \in Slots |-> <<>>]
    /\ toSrv = [s \in Slots |-> <<>>]
    /\ inbuf = [s \in Slots |-> <<>>]

(* How many of n successive pkg_send()s on slot s succeed.  A write to a   *)
(* connection the peer has closed is accepted once; the reset it provokes  *)
(* fails the next.  A write to a broken connection fails.  SIGPIPE is      *)
(* ignored by remrt.                                                       *)
Sent(s, n) == CASE link[s] = "up"  -> {n}
                [] link[s] = "fin" -> 1 .. n
                [] OTHER           -> {0}

(* The effect on the connection of n pkg_send()s on slot s of which k      *)
(* succeed, the messages that arrive being msgs.  Each pkg_send() polls    *)
(* for input first (_pkg_checkin), so what the kernel holds moves to the   *)
(* internal buffer, whether or not the slot is in "clients".               *)
Send(s, k, n, msgs) ==
    /\ inbuf' = [inbuf EXCEPT ![s] = @ \o toCtl[s]]
    /\ toCtl' = [toCtl EXCEPT ![s] = <<>>]
    /\ toSrv' = [toSrv EXCEPT ![s] = IF link[s] = "up" THEN @ \o msgs ELSE @]
    /\ IF link[s] = "fin"
       THEN \E l \in (IF k < n THEN {"rst"} ELSE {"fin", "rst"}) :
                link' = [link EXCEPT ![s] = l]
       ELSE UNCHANGED link
    /\ UNCHANGED <<calls, caller>>

(* A process that closes its connection with input still unread, or dies   *)
(* so, makes its kernel reset the connection instead of closing it.        *)
Hangup(unread) == IF unread = <<>> THEN "fin" ELSE "rst"
=============================================================================
