------------------------------ MODULE PkgConn -------------------------------
(***************************************************************************)
(* A libpkg connection (src/libpkg/pkg.c) between two programs.  Messages  *)
(* travel as bytes: the system takes from a writer, and gives a reader,    *)
(* as many as it likes, a write of more than the system holds blocks, and  *)
(* a reader may see half a header.  An end is a poller, which runs the     *)
(* loop of remrt and rtsrv (that of fbserv, which sends in handlers only,  *)
(* does no less), or a caller, which sends a query and waits for the reply *)
(* as the remote framebuffer of libdm does.                                *)
(*                                                                         *)
(* A byte is a pair: the message it belongs to, by its place in the order  *)
(* of sending, and its place in that message.                              *)
(***************************************************************************)
EXTENDS Integers, Sequences, SequencesExt

CONSTANTS
    Ends,       \* the two ends
    Callers,    \* those that are callers
    HdrLen,     \* sizeof(struct pkg_header)
    Lens,       \* per end: lengths of the messages it sends
    MAXQLEN,    \* longest message pkg_stream will queue
    StreamLen,  \* PKG_STREAMLEN
    SizeMod,    \* 2^w, where w is the width of size_t
    KernelBuf,  \* bytes the system holds in one direction
    Buf,        \* length of a caller's buffer for a reply
    Window,     \* per end: it sends no note while so many are on their way
    MaxMsgs,    \* bound, per end: messages it sends of its own accord
    Faults      \* "broken": the connection may break

ASSUME PkgAssumption ==
    /\ \E a \in Ends : \E b \in Ends \ {a} : Ends = {a, b}
    /\ Callers \subseteq Ends
    /\ HdrLen \in Nat \ {0} /\ KernelBuf \in Nat \ {0} /\ Buf \in Nat
    /\ MAXQLEN \in Nat /\ StreamLen \in Nat /\ MAXQLEN + HdrLen <= StreamLen
    /\ SizeMod \in Nat /\ StreamLen < SizeMod
    /\ \A e \in Ends : Lens[e] \subseteq Nat /\ Window[e] \in Nat /\ MaxMsgs[e] \in Nat
    /\ Faults \subseteq {"broken"}

VARIABLES
    sent,       \* per end: the messages it has sent or queued
    got,        \* per end: those of them that were handed to the other end
    stream,     \* per end: pkc_stream up to pkc_strpos
    overrun,    \* per end: it has written past the end of pkc_stream
    out,        \* per end: what the write() it is in has still to write
    wire,       \* per end: bytes it has written and the other not read
    inbuf,      \* per end: pkc_inbuf from pkc_incur to pkc_inend
    pkc_left,   \* per end
    pkc_hdr,    \* per end: the message the last header was of
    pkc_buf,    \* per end: the bytes collected for it, or NULL
    pc,         \* per end
    wback,      \* per end: where it goes after the write
    hback,      \* per end: where it goes after the handler
    broken,     \* the connection is broken
    cut,        \* per end: a reply was cut to the length of its buffer
    clash       \* per end: a wait failed with a "buffer clash"

vars == <<sent, got, stream, overrun, out, wire, inbuf, pkc_left, pkc_hdr, pkc_buf, pc,
          wback, hback, broken, cut, clash>>
input == <<inbuf, wire>>
output == <<sent, stream, overrun, out, wback>>
parse == <<pkc_left, pkc_hdr, pkc_buf>>
history == <<cut, clash>>

-----------------------------------------------------------------------------
NULL == <<<<0, 0>>>>     \* no bytes: bytes count from 1
Kinds == {"query", "note", "reply"}
Peer(e) == CHOOSE p \in Ends : p # e

Message(e, i) == sent[e][i]
Bytes(i, len) == [k \in 1 .. HdrLen + len |-> <<i, k>>]
Payload(i, len) == [k \in 1 .. len |-> <<i, HdrLen + k>>]

(* What a program gets that nobody has sent.                               *)
Rubbish == [kind |-> "note", len |-> -1]

Init ==
    /\ sent = [e \in Ends |-> <<>>] /\ got = [e \in Ends |-> <<>>]
    /\ stream = [e \in Ends |-> <<>>] /\ overrun = [e \in Ends |-> FALSE]
    /\ out = [e \in Ends |-> <<>>]
    /\ wire = [e \in Ends |-> <<>>] /\ inbuf = [e \in Ends |-> <<>>]
    /\ pkc_left = [e \in Ends |-> -1] /\ pkc_hdr = [e \in Ends |-> 0]
    /\ pkc_buf = [e \in Ends |-> NULL]
    /\ pc = [e \in Ends |-> "idle"]
    /\ wback = [e \in Ends |-> "idle"] /\ hback = [e \in Ends |-> "idle"]
    /\ broken = FALSE
    /\ cut = [e \in Ends |-> FALSE] /\ clash = [e \in Ends |-> FALSE]

Go(e, p) == pc' = [pc EXCEPT ![e] = p]

-----------------------------------------------------------------------------
(* Output.                                                                 *)

(* The system gives a reader the first n bytes of what it holds.           *)
Read(e, n) ==
    /\ inbuf' = [inbuf EXCEPT ![e] = @ \o SubSeq(wire[Peer(e)], 1, n)]
    /\ wire' = [wire EXCEPT ![Peer(e)] = SubSeq(@, n + 1, Len(@))]

(* _pkg_checkin: what has arrived is read, and not acted upon.             *)
checkin(e) == \E n \in 0 .. Len(wire[Peer(e)]) : Read(e, n)

Write(e, bytes, next) ==
    /\ out' = [out EXCEPT ![e] = bytes]
    /\ wback' = [wback EXCEPT ![e] = next]
    /\ Go(e, "write")

(* The test for room in the queue.  It subtracts in size_t: at the end of  *)
(* pkc_stream, with less left than a header, there is any amount of room.  *)
Room(e, len) == len <= (StreamLen - HdrLen - Len(stream[e])) % SizeMod
Wraps(e) == Len(stream[e]) + HdrLen > StreamLen

(* pkg_send and pkg_2send: what is queued goes first, in a write of its    *)
(* own or, when there is room, in the same, for which the message is put   *)
(* into pkc_stream.  If it is put past the end, over pkc_magic, the next   *)
(* call, were it a pkg_waitfor, finds that.                                *)
pkg_send_Mutant(e, m, next) ==
    LET i == Len(sent[e]) + 1
    IN  /\ ~overrun[e]
        /\ sent' = [sent EXCEPT ![e] = Append(@, m)]
        /\ checkin(e)
        /\ Write(e, Bytes(i, m.len), next)
        /\ UNCHANGED <<stream, overrun>>

pkg_send(e, m, next) ==
    LET i == Len(sent[e]) + 1
        over == stream[e] # <<>> /\ m.len <= MAXQLEN /\ Room(e, m.len) /\ Wraps(e)
    IN  /\ ~overrun[e]
        /\ sent' = [sent EXCEPT ![e] = Append(@, m)]
        /\ checkin(e)
        /\ Write(e, stream[e] \o Bytes(i, m.len), IF over THEN "idle" ELSE next)
        /\ stream' = [stream EXCEPT ![e] = <<>>]
        /\ overrun' = [overrun EXCEPT ![e] = over]

(* pkg_stream: a small message is queued, after a flush if there is no     *)
(* room for it; that the flush may fail is not looked at.                  *)
pkg_stream_Mutant(e, m, next) ==
    LET i == Len(sent[e]) + 1
        room == m.len <= StreamLen - Len(stream[e])
    IN  IF m.len > MAXQLEN
        THEN pkg_send(e, m, next)
        ELSE /\ sent' = [sent EXCEPT ![e] = Append(@, m)]
             /\ UNCHANGED input
             /\ \/ /\ room \/ broken
                   /\ stream' = [stream EXCEPT ![e] = @ \o Bytes(i, m.len)]
                   /\ overrun' = [overrun EXCEPT ![e] = @ \/ Wraps(e) \/ ~room]
                   /\ UNCHANGED <<out, wback, pc>>
                \/ /\ ~room
                   /\ Write(e, stream[e], next)
                   /\ stream' = [stream EXCEPT ![e] = Bytes(i, m.len)]
                   /\ UNCHANGED overrun

pkg_stream(e, m, next) ==
    LET i == Len(sent[e]) + 1
        room == Room(e, m.len)
    IN  IF m.len > MAXQLEN
        THEN pkg_send(e, m, next)
        ELSE /\ sent' = [sent EXCEPT ![e] = Append(@, m)]
             /\ UNCHANGED input
             /\ \/ /\ room \/ broken
                   /\ stream' = [stream EXCEPT ![e] = @ \o Bytes(i, m.len)]
                   /\ overrun' = [overrun EXCEPT ![e] = @ \/ Wraps(e) \/ ~room]
                   /\ UNCHANGED <<out, wback, pc>>
                \/ /\ ~room
                   /\ Write(e, stream[e], next)
                   /\ stream' = [stream EXCEPT ![e] = Bytes(i, m.len)]
                   /\ UNCHANGED overrun

pkg_flush(e) ==
    /\ pc[e] = "idle" /\ stream[e] # <<>>
    /\ Write(e, stream[e], "idle")
    /\ stream' = [stream EXCEPT ![e] = <<>>]
    /\ UNCHANGED <<sent, overrun, got, input, parse, hback, broken, history>>

(* write() goes on as the system takes the bytes; it returns when all of   *)
(* them are taken, or with an error.                                       *)
WriteSome(e) ==
    /\ pc[e] = "write" /\ ~broken
    /\ \E n \in 1 .. Len(out[e]) :
          /\ Len(wire[e]) + n <= KernelBuf
          /\ wire' = [wire EXCEPT ![e] = @ \o SubSeq(out[e], 1, n)]
          /\ out' = [out EXCEPT ![e] = SubSeq(@, n + 1, Len(@))]
          /\ IF n = Len(out[e]) THEN Go(e, wback[e]) ELSE UNCHANGED pc
    /\ UNCHANGED <<sent, got, stream, overrun, inbuf, parse, wback, hback, broken, history>>

(* On a broken connection the first bytes may be taken, and be lost.       *)
WriteFails(e) ==
    /\ pc[e] = "write" /\ broken
    /\ out' = [out EXCEPT ![e] = <<>>]
    /\ \/ Go(e, wback[e])
       \/ wback[e] = "wait" /\ Go(e, "idle")
    /\ UNCHANGED <<sent, got, stream, overrun, input, parse, wback, hback, broken, history>>

(* What the programs send outside handlers.  After a query a caller waits. *)
Sends(e) ==
    LET own == Cardinality({i \in DOMAIN sent[e] : Message(e, i).kind # "reply"})
    IN  /\ pc[e] = "idle"
        /\ own < MaxMsgs[e]
        /\ Len(sent[e]) - Len(got[e]) < Window[e]
        /\ \E len \in Lens[e] :
              \/ pkg_send(e, [kind |-> "note", len |-> len], "idle")
              \/ pkg_stream(e, [kind |-> "note", len |-> len], "idle")
              \/ /\ e \in Callers
                 /\ pkg_send(e, [kind |-> "query", len |-> len], "wait")
        /\ UNCHANGED <<got, parse, hback, broken, history>>

(* Most calls abort the program when they find pkc_magic overwritten;      *)
(* pkg_stream and pkg_flush do not look.                                   *)
PKG_CK(e) ==
    /\ pc[e] = "idle" /\ overrun[e]
    /\ Go(e, "closed")
    /\ broken' = TRUE
    /\ wire' = [x \in Ends |-> <<>>]
    /\ UNCHANGED <<output, got, inbuf, parse, hback, history>>

(* The bytes past the end of pkc_stream may have changed pkc_strpos, which *)
(* comes after pkc_magic: then what is written next is not what was        *)
(* queued.  It is given to the other end as a message, and no more is said *)
(* of the connection.                                                      *)
Garbled(e) ==
    LET p == Peer(e)
    IN  /\ overrun[e] /\ ~broken /\ pc[e] \in {"idle", "write"}
        /\ out[e] \o stream[e] # <<>> /\ wire[e] = <<>> /\ inbuf[p] = <<>>
        /\ pkc_left[p] < 0 /\ pkc_buf[p] = NULL
        /\ pc[p] \in {"process", "process again", "wait"}
        /\ got' = [got EXCEPT ![e] = Append(@, Rubbish)]
        /\ out' = [out EXCEPT ![e] = <<>>]
        /\ Go(e, "closed")
        /\ broken' = TRUE
        /\ wire' = [x \in Ends |-> <<>>]
        /\ UNCHANGED <<sent, stream, overrun, inbuf, parse, wback, hback, history>>

-----------------------------------------------------------------------------
(* Input.                                                                  *)

(* _pkg_gethdr, with a header in the buffer.  (That a header is where one  *)
(* is looked for follows from KeepsOrder; the code that skips other bytes  *)
(* has nothing to do.)                                                     *)
Header(e) == Len(inbuf[e]) >= HdrLen
NextMsg(e) == Head(inbuf[e])[1]

Drop(s, n) == SubSeq(s, n + 1, Len(s))

gethdr(e) ==
    LET len == Message(Peer(e), NextMsg(e)).len
    IN  /\ Header(e)
        /\ inbuf' = [inbuf EXCEPT ![e] = Drop(@, HdrLen)]
        /\ pkc_hdr' = [pkc_hdr EXCEPT ![e] = NextMsg(e)]
        /\ pkc_left' = [pkc_left EXCEPT ![e] = len]
        /\ pkc_buf' = [pkc_buf EXCEPT ![e] = IF len = 0 THEN NULL ELSE <<>>]

(* The first n bytes of the buffer are added to the message.               *)
Collect(e, n) ==
    /\ inbuf' = [inbuf EXCEPT ![e] = Drop(@, n)]
    /\ pkc_left' = [pkc_left EXCEPT ![e] = @ - n]
    /\ pkc_buf' = [pkc_buf EXCEPT ![e] = @ \o SubSeq(inbuf[e], 1, n)]

(* A message reaches the program: it is the one the header announced if    *)
(* the bytes collected are those of it, and else rubbish.                  *)
Handed(e, data) ==
    LET i == pkc_hdr[e]  m == Message(Peer(e), i)
    IN  IF data = Payload(i, m.len) \/ (m.len = 0 /\ data = NULL) THEN m ELSE Rubbish
Hand(e, data) == got' = [got EXCEPT ![Peer(e)] = Append(@, Handed(e, data))]

(* _pkg_dispatch: the connection is made ready for the next message before *)
(* the handler is called, which may send, and so read.                     *)
dispatch_Mutant(e, back) ==
    /\ pkc_left[e] = 0
    /\ Hand(e, pkc_buf[e])
    /\ pkc_left' = [pkc_left EXCEPT ![e] = -1]
    /\ hback' = [hback EXCEPT ![e] = back]
    /\ Go(e, "handler")
    /\ UNCHANGED <<pkc_hdr, pkc_buf, input>>

dispatch(e, back) ==
    /\ pkc_left[e] = 0
    /\ Hand(e, pkc_buf[e])
    /\ pkc_buf' = [pkc_buf EXCEPT ![e] = NULL]
    /\ pkc_left' = [pkc_left EXCEPT ![e] = -1]
    /\ hback' = [hback EXCEPT ![e] = back]
    /\ Go(e, "handler")
    /\ UNCHANGED <<pkc_hdr, input>>

(* The handlers: a query is answered, which may block.                     *)
Handler_Mutant(e) ==
    LET m == Last(got[Peer(e)])  i == Len(sent[e]) + 1
    IN  /\ pc[e] = "handler"
        /\ Go(e, hback[e])
        /\ IF m.kind = "query"
           THEN \E len \in Lens[e] :
                    /\ sent' = [sent EXCEPT ![e] = Append(@, [kind |-> "reply", len |-> len])]
                    /\ stream' = [stream EXCEPT ![e] = @ \o Bytes(i, len)]
           ELSE UNCHANGED <<sent, stream>>
        /\ UNCHANGED <<overrun, out, wback, got, input, parse, hback, broken, history>>

Handler(e) ==
    LET m == Last(got[Peer(e)])
    IN  /\ pc[e] = "handler"
        /\ \/ /\ m.kind = "query"
              /\ \E len \in Lens[e] :
                    pkg_send(e, [kind |-> "reply", len |-> len], hback[e])
           \/ /\ m.kind # "query" \/ broken     \* or pkg_send fails
              /\ Go(e, hback[e])
              /\ UNCHANGED <<output, input>>
        /\ UNCHANGED <<got, parse, hback, broken, history>>

(* One turn of the loop of pkg_process.  It stops when the buffer does not *)
(* hold a header, or the rest of the message; there are two calls, before  *)
(* select() and after pkg_suckin().                                        *)
pkg_process(e) ==
    LET n == Len(inbuf[e])
    IN  /\ pc[e] \in {"process", "process again"}
        /\ \/ /\ pkc_left[e] < 0 /\ n < HdrLen
              /\ Go(e, IF pc[e] = "process" THEN "select" ELSE "idle")
              /\ UNCHANGED <<got, input, parse, hback>>
           \/ /\ pkc_left[e] < 0 /\ gethdr(e)
              /\ UNCHANGED <<got, wire, pc, hback>>
           \/ /\ pkc_left[e] > 0 /\ n = 0
              /\ Go(e, IF pc[e] = "process" THEN "select" ELSE "idle")
              /\ UNCHANGED <<got, input, parse, hback>>
           \/ /\ pkc_left[e] > 0 /\ n > 0
              /\ Collect(e, IF n > pkc_left[e] THEN pkc_left[e] ELSE n)
              /\ UNCHANGED <<got, wire, pkc_hdr, pc, hback>>
           \/ dispatch(e, pc[e])
        /\ UNCHANGED <<output, broken, history>>

(* The loop of a poller: what is in the library's buffers first, then      *)
(* select(), which sees only what the system holds.                        *)
Poll_Mutant(e) ==
    /\ e \notin Callers /\ pc[e] = "idle" /\ ~overrun[e]
    /\ Go(e, "select")
    /\ UNCHANGED <<output, got, input, parse, hback, broken, history>>

Poll(e) ==
    /\ e \notin Callers /\ pc[e] = "idle" /\ ~overrun[e]
    /\ Go(e, "process")
    /\ UNCHANGED <<output, got, input, parse, hback, broken, history>>

(* It reads, or finds that the connection is gone and closes it.           *)
pkg_suckin(e) ==
    /\ pc[e] = "select"
    /\ \/ /\ \E n \in 1 .. Len(wire[Peer(e)]) : Read(e, n)
          /\ Go(e, "process again")
       \/ /\ wire[Peer(e)] = <<>> /\ broken
          /\ Go(e, "closed")
          /\ UNCHANGED input
    /\ UNCHANGED <<output, got, parse, hback, broken, history>>

(* select() returns for another reason: a timer, a command.                *)
Wakeup(e) ==
    /\ pc[e] = "select" /\ wire[Peer(e)] = <<>> /\ ~broken
    /\ Go(e, "idle")
    /\ UNCHANGED <<output, got, input, parse, hback, broken, history>>

-----------------------------------------------------------------------------
(* pkg_waitfor, with pkg_block in it.                                      *)

(* _pkg_inget needs more than the buffer has, and reads.  If there is no   *)
(* more, what the buffer had is gone; the call that wanted it fails, with  *)
(* pkc_left reset and pkc_buf as it was, and the program goes on.          *)
Starved(e) ==
    \/ pc[e] = "wait" /\ pkc_left[e] < 0 /\ pkc_buf[e] = NULL /\ Len(inbuf[e]) < HdrLen
    \/ pc[e] = "wait" /\ pkc_left[e] > 0 /\ Len(inbuf[e]) < pkc_left[e]
    \/ pc[e] = "wait data" /\ Len(inbuf[e]) < Message(Peer(e), pkc_hdr[e]).len

inget(e) ==
    /\ Starved(e)
    /\ \/ /\ \E n \in 1 .. Len(wire[Peer(e)]) : Read(e, n)
          /\ UNCHANGED <<pkc_left, pc>>
       \/ /\ wire[Peer(e)] = <<>> /\ broken
          /\ inbuf' = [inbuf EXCEPT ![e] = <<>>]
          /\ pkc_left' = [pkc_left EXCEPT ![e] = -1]
          /\ Go(e, "idle")
          /\ UNCHANGED wire
    /\ UNCHANGED <<output, got, pkc_hdr, pkc_buf, hback, broken, history>>

(* The rest of a message of another kind is read, and handled.             *)
pkg_block(e) ==
    /\ pc[e] = "wait" /\ pkc_left[e] >= 0
    /\ \/ /\ pkc_left[e] > 0 /\ Len(inbuf[e]) >= pkc_left[e]
          /\ Collect(e, pkc_left[e])
          /\ UNCHANGED <<got, wire, pkc_hdr, pc, hback>>
       \/ dispatch(e, "wait")
    /\ UNCHANGED <<output, broken, history>>

(* A header: of the reply, which is read into the caller's buffer, or of   *)
(* another message, which begins a partly received one.                    *)
pkg_waitfor(e) ==
    /\ pc[e] = "wait" /\ pkc_left[e] < 0
    /\ \/ /\ pkc_buf[e] # NULL
          /\ clash' = [clash EXCEPT ![e] = TRUE]
          /\ Go(e, "idle")
          /\ UNCHANGED <<inbuf, parse>>
       \/ /\ pkc_buf[e] = NULL /\ Header(e) /\ Message(Peer(e), NextMsg(e)).kind # "reply"
          /\ gethdr(e)
          /\ UNCHANGED <<pc, clash>>
       \/ LET m == Message(Peer(e), NextMsg(e))
          IN  /\ pkc_buf[e] = NULL /\ Header(e) /\ m.kind = "reply"
              /\ inbuf' = [inbuf EXCEPT ![e] = Drop(@, HdrLen)]
              /\ pkc_hdr' = [pkc_hdr EXCEPT ![e] = NextMsg(e)]
              /\ pkc_buf' = [pkc_buf EXCEPT ![e] = IF m.len = 0 THEN NULL ELSE <<>>]
              /\ Go(e, "wait data")
              /\ UNCHANGED <<pkc_left, clash>>
    /\ UNCHANGED <<output, got, wire, hback, broken, cut>>

(* The reply's data.  What exceeds the buffer is read and thrown away, and *)
(* pkc_buf keeps pointing to the caller's buffer.                          *)
GetReply(e) ==
    LET len == Message(Peer(e), pkc_hdr[e]).len
    IN  /\ pc[e] = "wait data" /\ Len(inbuf[e]) >= len
        /\ Hand(e, SubSeq(inbuf[e], 1, len))
        /\ inbuf' = [inbuf EXCEPT ![e] = Drop(@, len)]
        /\ \/ /\ len <= Buf
              /\ pkc_buf' = [pkc_buf EXCEPT ![e] = NULL]
              /\ UNCHANGED cut
           \/ /\ len > Buf
              /\ cut' = [cut EXCEPT ![e] = TRUE]
              /\ UNCHANGED pkc_buf
        /\ Go(e, "idle")
        /\ UNCHANGED <<output, wire, pkc_left, pkc_hdr, hback, broken, clash>>

-----------------------------------------------------------------------------
(* The connection breaks: what was not read yet is lost.                   *)
Break ==
    /\ "broken" \in Faults /\ ~broken
    /\ broken' = TRUE
    /\ wire' = [e \in Ends |-> <<>>]
    /\ UNCHANGED <<output, got, inbuf, parse, pc, hback, history>>

Progress(e) ==
    \/ WriteSome(e) \/ WriteFails(e) \/ Handler(e) \/ pkg_process(e) \/ Poll(e)
    \/ pkg_suckin(e) \/ inget(e) \/ pkg_block(e) \/ pkg_waitfor(e) \/ GetReply(e)
    \/ e \notin Callers /\ PKG_CK(e)

(* A caller calls nothing that looks at pkc_magic unless it wants to.      *)
Next == \/ \E e \in Ends : \/ Sends(e) \/ pkg_flush(e) \/ Wakeup(e) \/ Progress(e)
                          \/ PKG_CK(e) \/ Garbled(e)
        \/ Break

Fairness == \A e \in Ends : WF_vars(Progress(e))

Spec == Init /\ [][Next]_vars /\ Fairness
-----------------------------------------------------------------------------
(* Properties.                                                             *)

AllBytes == Nat \X Nat

TypeOK ==
    /\ \A e \in Ends :
          /\ \A i \in DOMAIN sent[e] : Message(e, i) \in [kind : Kinds, len : Lens[e]]
          /\ stream[e] \in Seq(AllBytes) /\ (overrun[e] \/ Len(stream[e]) <= StreamLen)
          /\ out[e] \in Seq(AllBytes) /\ wire[e] \in Seq(AllBytes)
          /\ inbuf[e] \in Seq(AllBytes) /\ Len(wire[e]) <= KernelBuf
          /\ pkc_left[e] = -1 \/ \E len \in Lens[Peer(e)] : pkc_left[e] \in 0 .. len
          /\ pkc_hdr[e] \in 0 .. Len(sent[Peer(e)])
          /\ pkc_buf[e] = NULL \/ pkc_buf[e] \in Seq(AllBytes)
    /\ pc \in [Ends -> {"idle", "write", "wait", "wait data", "handler", "process",
                         "select", "process again", "closed"}]
    /\ wback \in [Ends -> {"idle", "wait", "process", "process again"}]
    /\ hback \in [Ends -> {"idle", "wait", "process", "process again"}]
    /\ overrun \in [Ends -> BOOLEAN] /\ broken \in BOOLEAN
    /\ cut \in [Ends -> BOOLEAN] /\ clash \in [Ends -> BOOLEAN]

(* What is queued is held by pkc_stream, which pkg_stream flushes first if *)
(* there is not enough room.                                               *)
QueueFits == \A e \in Ends : Len(stream[e]) <= StreamLen

(* Whatever came before it, a message is never left half received in       *)
(* pkc_buf, where a call of pkg_waitfor would fail on it, with one         *)
(* exception on a live connection: after a reply that was cut to the       *)
(* length of its buffer no wait of that end succeeds again.                *)
ClashOnlyAfterCut == \A e \in Ends : clash[e] => cut[e] \/ broken

Fifo == INSTANCE MessageFifo WITH
    Messages <- [kind : Kinds, len : UNION {Lens[e] : e \in Ends}]

(* However the bytes are cut on their way, whatever is queued before a     *)
(* message is sent, read while one is sent, or waited for, and wherever    *)
(* the connection breaks: messages arrive whole, once and in order.  Only  *)
(* an end that has overrun its queue may be the cause of rubbish.          *)
FromOverrun(e) == /\ overrun[e] /\ sent' = sent
                  /\ got' = [got EXCEPT ![e] = Append(@, Rubbish)]

KeepsOrder == Fifo!Init /\ [][Fifo!Next \/ \E e \in Ends : FromOverrun(e)]_<<sent, got>>

(* Messages that have left pkc_stream.                                     *)
Flushed(e) == Len(sent[e]) - Cardinality({stream[e][k][1] : k \in DOMAIN stream[e]})

(* A message sent to a poller reaches its handler, though it be read by a  *)
(* pkg_send that was after something else, and though both ends write at   *)
(* once, as long as one of them has never more on its way than the system  *)
(* holds.                                                                  *)
IsHandled ==
    \A e \in Ends : \A k \in 1 .. MaxMsgs[e] :
        Peer(e) \notin Callers => (Flushed(e) >= k ~> Len(got[e]) >= k \/ broken)

(* A caller that waits gets its reply.                                     *)
WaitEnds == \A e \in Ends : pc[e] = "wait" ~> pc[e] \in {"idle", "closed"}
=============================================================================
