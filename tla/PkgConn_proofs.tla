--------------------------- MODULE PkgConn_proofs ---------------------------
(***************************************************************************)
(* Proofs about module PkgConn, for all lengths of messages, headers and   *)
(* buffers, whatever the system cuts the bytes into, and wherever the      *)
(* connection breaks.                                                      *)
(*                                                                         *)
(* What makes the argument work is that the bytes of one direction that    *)
(* are anywhere on their way, read but not parsed, in the system, being    *)
(* written and still queued, are consecutive, from the place the reader    *)
(* has got to up to the end of the last message sent.  Places are counted  *)
(* in bytes since the connection was made: off[i] bytes come before        *)
(* message i.                                                              *)
(***************************************************************************)
EXTENDS PkgConn, SequenceTheorems, TLAPS

-----------------------------------------------------------------------------
(* The invariant.                                                          *)

Messages == [kind : Kinds, len : UNION {Lens[e] : e \in Ends}]

(* What a program may be handed.                                           *)
Handable == Messages \cup {Rubbish}

Places == {"idle", "write", "wait", "wait data", "handler", "process", "select",
           "process again", "closed"}
Backs == {"idle", "wait", "process", "process again"}

Types ==
    /\ sent \in [Ends -> Seq(Messages)] /\ got \in [Ends -> Seq(Handable)]
    /\ stream \in [Ends -> Seq(AllBytes)] /\ out \in [Ends -> Seq(AllBytes)]
    /\ wire \in [Ends -> Seq(AllBytes)] /\ inbuf \in [Ends -> Seq(AllBytes)]
    /\ pkc_left \in [Ends -> Int] /\ pkc_hdr \in [Ends -> Nat]
    /\ pkc_buf \in [Ends -> Seq(AllBytes)]
    /\ pc \in [Ends -> Places] /\ wback \in [Ends -> Backs] /\ hback \in [Ends -> Backs]
    /\ overrun \in [Ends -> BOOLEAN] /\ broken \in BOOLEAN
    /\ cut \in [Ends -> BOOLEAN] /\ clash \in [Ends -> BOOLEAN]

(* What is queued fits pkc_stream, or the overrun is noted.                *)
Fits(e) == overrun[e] \/ Len(stream[e]) <= StreamLen

(* What an end has sent is of a length it sends, what it queues and writes *)
(* fits, and it writes only in write().                                    *)
Sender(e) ==
    /\ \A i \in 1 .. Len(sent[e]) : sent[e][i].len \in Lens[e]
    /\ Fits(e) /\ Len(wire[e]) <= KernelBuf
    /\ pc[e] # "write" => out[e] = << >>
    /\ broken => wire[e] = << >>

Size(m, i) == HdrLen + m[i].len

(* How many bytes come before each message of the sequence m.              *)
Offsets(m, off) ==
    /\ off \in [1 .. Len(m) + 1 -> Nat]
    /\ \A i \in 1 .. Len(m) : off[i + 1] = off[i] + Size(m, i)
    /\ \A i \in 1 .. Len(m), j \in 1 .. Len(m) + 1 : i < j => off[i] + Size(m, i) <= off[j]

(* Byte number n since the connection was made.                            *)
IsByte(m, off, n, x) ==
    /\ x[1] \in 1 .. Len(m) /\ x[2] \in 1 .. Size(m, x[1])
    /\ off[x[1]] + x[2] = n

(* The bytes q are those that come after the first n.                      *)
Consecutive(m, off, q, n) == \A k \in 1 .. Len(q) : IsByte(m, off, n + k, q[k])

(* The bytes of one direction: in is read, w is in the system, o is being  *)
(* written, s is queued, and c bytes of message i have been taken from in. *)
Linked(brk, m, i, c, in, w, o, s) ==
    \E off :
        /\ Offsets(m, off)
        /\ i \in 1 .. Len(m) + 1
        /\ Consecutive(m, off, in, off[i] + c)
        /\ brk \/ /\ Consecutive(m, off, w, off[i] + c + Len(in))
                  /\ Consecutive(m, off, o, off[i] + c + Len(in) + Len(w))
                  /\ Consecutive(m, off, s, off[i] + c + Len(in) + Len(w) + Len(o))
                  /\ off[i] + c + Len(in) + Len(w) + Len(o) + Len(s) = off[Len(m) + 1]

(* The message an end is to be handed next, and how much of it was parsed. *)
NextOf(e) == Len(got[Peer(e)]) + 1

Parsed(e) == IF pc[e] = "wait data" THEN HdrLen
             ELSE IF pkc_left[e] < 0 THEN 0
             ELSE Size(sent[Peer(e)], NextOf(e)) - pkc_left[e]

Collected(i, n) == [k \in 1 .. n |-> <<i, HdrLen + k>>]

(* Message i, whose header has been read: all but left bytes of its data   *)
(* are collected.                                                          *)
Begun(m, i, left, hdr, buf) ==
    /\ i <= Len(m) /\ hdr = i
    /\ left \in 0 .. m[i].len
    /\ buf = IF m[i].len = 0 THEN NULL ELSE Collected(i, m[i].len - left)

Receiver(e) ==
    /\ pkc_left[e] >= -1 /\ pkc_hdr[e] <= Len(sent[Peer(e)])
    /\ pkc_left[e] >= 0 =>
          /\ pc[e] # "wait data"
          /\ Begun(sent[Peer(e)], NextOf(e), pkc_left[e], pkc_hdr[e], pkc_buf[e])
    /\ pc[e] = "wait data" =>
          Begun(sent[Peer(e)], NextOf(e), sent[Peer(e)][NextOf(e)].len, pkc_hdr[e], pkc_buf[e])
    /\ pkc_left[e] < 0 /\ pc[e] \notin {"wait data", "closed"} /\ pkc_buf[e] # NULL => cut[e] \/ broken
    /\ clash[e] => cut[e] \/ broken

Line(e) ==
    pc[e] # "closed" =>
        Linked(broken, sent[Peer(e)], NextOf(e), Parsed(e), inbuf[e], wire[Peer(e)],
               out[Peer(e)], stream[Peer(e)])

IInv == Types /\ \A e \in Ends : Sender(e) /\ Receiver(e) /\ Line(e)

-----------------------------------------------------------------------------
(* Sequences of bytes, cut and joined.                                     *)

Byte == AllBytes

LEMMA LenIsNat ==
    ASSUME NEW S, NEW q \in Seq(S)
    PROVE  Len(q) \in Nat /\ DOMAIN q = 1 .. Len(q) /\ \A k \in 1 .. Len(q) : q[k] \in S
    BY LenProperties

LEMMA CutElements ==
    ASSUME NEW S, NEW q \in Seq(S), NEW n \in 0 .. Len(q)
    PROVE  /\ SubSeq(q, 1, n) \in Seq(S) /\ Len(SubSeq(q, 1, n)) = n
           /\ \A k \in 1 .. n : SubSeq(q, 1, n)[k] = q[k]
           /\ SubSeq(q, n + 1, Len(q)) \in Seq(S)
           /\ Len(SubSeq(q, n + 1, Len(q))) = Len(q) - n
           /\ \A k \in 1 .. Len(q) - n : SubSeq(q, n + 1, Len(q))[k] = q[n + k]
    <1>1. Len(q) \in Nat /\ \A k \in 1 .. Len(q) : q[k] \in S
        BY LenIsNat, Zenon
    <1> DEFINE m == Len(q)
    <1>2. n \in Nat /\ n <= m /\ m \in Nat /\ \A k \in 1 .. m : q[k] \in S
        BY <1>1
    <1> HIDE DEF m
    <1>3. /\ SubSeq(q, 1, n) \in Seq(S) 
          /\ Len(SubSeq(q, 1, n)) = IF 1 <= n THEN n - 1 + 1 ELSE 0
          /\ \A k \in 1 .. n - 1 + 1 : SubSeq(q, 1, n)[k] = q[1 + k - 1]
        <2>1. \A k \in 1 .. n : q[k] \in S  BY <1>2
        <2>2. 1 \in Int /\ n \in Int  BY <1>2
        <2>3. QED  BY ONLY <2>1, <2>2, SubSeqProperties
    <1>4. /\ SubSeq(q, n + 1, m) \in Seq(S)
          /\ Len(SubSeq(q, n + 1, m)) = IF n + 1 <= m THEN m - (n + 1) + 1 ELSE 0
          /\ \A k \in 1 .. m - (n + 1) + 1 : SubSeq(q, n + 1, m)[k] = q[n + 1 + k - 1]
        <2>1. \A k \in n + 1 .. m : q[k] \in S  BY <1>2
        <2>2. n + 1 \in Int /\ m \in Int  BY <1>2
        <2>3. QED  BY ONLY <2>1, <2>2, SubSeqProperties
    <1>5. \A k \in 1 .. n : SubSeq(q, 1, n)[k] = q[k]
        <2>1. \A k \in 1 .. n : k \in 1 .. n - 1 + 1 /\ 1 + k - 1 = k  BY <1>2
        <2>2. QED  BY ONLY <1>3, <2>1, Zenon
    <1>6. \A k \in 1 .. m - n : SubSeq(q, n + 1, m)[k] = q[n + k]
        <2>1. \A k \in 1 .. m - n : k \in 1 .. m - (n + 1) + 1 /\ n + 1 + k - 1 = n + k
            BY <1>2
        <2>2. QED  BY ONLY <1>4, <2>1, Zenon
    <1> DEFINE a == Len(SubSeq(q, 1, n))
               b == Len(SubSeq(q, n + 1, m))
    <1>7. a = n /\ b = m - n
        <2>1. /\ a = IF 1 <= n THEN n - 1 + 1 ELSE 0
              /\ b = IF n + 1 <= m THEN m - (n + 1) + 1 ELSE 0
            BY <1>3, <1>4, Zenon
        <2> HIDE DEF a, b
        <2>2. QED  BY ONLY <1>2, <2>1
    <1>8. QED  BY ONLY <1>3, <1>4, <1>5, <1>6, <1>7, Zenon DEF m

LEMMA JoinElements ==
    ASSUME NEW S, NEW q \in Seq(S), NEW r \in Seq(S)
    PROVE  /\ q \o r \in Seq(S) /\ Len(q \o r) = Len(q) + Len(r)
           /\ \A k \in 1 .. Len(q) : (q \o r)[k] = q[k]
           /\ \A k \in 1 .. Len(r) : (q \o r)[Len(q) + k] = r[k]
    <1>1. /\ q \o r \in Seq(S) /\ Len(q \o r) = Len(q) + Len(r)
          /\ \A i \in 1 .. Len(q) + Len(r) :
                (q \o r)[i] = IF i <= Len(q) THEN q[i] ELSE r[i - Len(q)]
        BY ConcatProperties, Zenon
    <1> DEFINE m == Len(q)
               n == Len(r)
    <1>2. m \in Nat /\ n \in Nat  BY LenIsNat
    <1> HIDE DEF m, n
    <1>3. \A k \in 1 .. m : k \in 1 .. m + n /\ k <= m
        BY ONLY <1>2
    <1>4. \A k \in 1 .. n : m + k \in 1 .. m + n /\ ~(m + k <= m) /\ m + k - m = k
        BY ONLY <1>2
    <1>5. \A k \in 1 .. m : (q \o r)[k] = q[k]
        BY ONLY <1>1, <1>3, Zenon DEF m, n
    <1>6. \A k \in 1 .. n : (q \o r)[m + k] = r[k]
        <2> SUFFICES ASSUME NEW k \in 1 .. n PROVE (q \o r)[m + k] = r[k]
            BY Zenon
        <2> DEFINE x == m + k
        <2>1. x \in 1 .. m + n /\ ~(x <= m) /\ x - m = k  BY ONLY <1>2, k \in 1 .. n
        <2> HIDE DEF x
        <2>2. \A i \in 1 .. m + n :
                 (q \o r)[i] = IF i <= m THEN q[i] ELSE r[i - m]
            BY <1>1, Zenon DEF m, n
        <2>3. (q \o r)[x] = r[x - m]  BY ONLY <2>1, <2>2, Zenon
        <2>4. (q \o r)[x] = r[k]  BY ONLY <2>1, <2>3, Zenon
        <2>5. QED  BY <2>4 DEF x
    <1>7. QED  BY ONLY <1>1, <1>5, <1>6, Zenon DEF m, n

-----------------------------------------------------------------------------
(* Consecutive bytes.                                                      *)

LEMMA JoinConsecutive ==
    ASSUME NEW m, NEW off, NEW q \in Seq(Byte), NEW r \in Seq(Byte), NEW n \in Nat,
           Consecutive(m, off, q, n), Consecutive(m, off, r, n + Len(q))
    PROVE  Consecutive(m, off, q \o r, n)
    <1> DEFINE s == q \o r
    <1>1. /\ Len(s) = Len(q) + Len(r) /\ Len(q) \in Nat /\ Len(r) \in Nat
          /\ \A k \in 1 .. Len(q) : s[k] = q[k]
          /\ \A k \in 1 .. Len(r) : s[Len(q) + k] = r[k]
        BY JoinElements, LenIsNat
    <1> HIDE DEF s
    <1> SUFFICES ASSUME NEW k \in 1 .. Len(s)
                 PROVE  IsByte(m, off, n + k, s[k])
        BY Zenon DEF Consecutive, s
    <1>2. CASE k \in 1 .. Len(q)
        BY <1>1, <1>2, Zenon DEF Consecutive
    <1>3. CASE k \notin 1 .. Len(q)
        <2> DEFINE a == Len(q)
                   b == Len(r)
                   j == k - a
        <2>1. a \in Nat /\ b \in Nat /\ k \in 1 .. a + b /\ k \notin 1 .. a
            BY <1>1, <1>3
        <2> HIDE DEF a, b
        <2>2. j \in 1 .. b /\ a + j = k /\ n + a + j = n + k
            BY ONLY <2>1, n \in Nat
        <2> HIDE DEF j
        <2>3. s[k] = r[j]  BY ONLY <1>1, <2>2, Zenon DEF a, b
        <2>4. IsByte(m, off, n + a + j, r[j])  BY <2>2, Zenon DEF Consecutive, a, b
        <2>5. QED  BY ONLY <2>2, <2>3, <2>4, Zenon
    <1>4. QED  BY <1>2, <1>3, Zenon

LEMMA CutConsecutive ==
    ASSUME NEW m, NEW off, NEW q \in Seq(Byte), NEW n \in Nat, NEW c \in 0 .. Len(q),
           Consecutive(m, off, q, n)
    PROVE  /\ Consecutive(m, off, SubSeq(q, 1, c), n)
           /\ Consecutive(m, off, SubSeq(q, c + 1, Len(q)), n + c)
    <1> DEFINE f == SubSeq(q, 1, c)
               g == SubSeq(q, c + 1, Len(q))
    <1>1. /\ Len(f) = c /\ \A k \in 1 .. c : f[k] = q[k]
          /\ Len(g) = Len(q) - c /\ \A k \in 1 .. Len(q) - c : g[k] = q[c + k]
        BY CutElements
    <1> HIDE DEF f, g
    <1> DEFINE l == Len(q)
    <1>2. l \in Nat /\ c \in Nat /\ c <= l  BY LenIsNat
    <1> HIDE DEF l
    <1>3. \A k \in 1 .. c : k \in 1 .. l  BY ONLY <1>2
    <1>4. \A k \in 1 .. l - c : c + k \in 1 .. l /\ n + (c + k) = n + c + k
        BY ONLY <1>2, n \in Nat
    <1>5. \A k \in 1 .. l : IsByte(m, off, n + k, q[k])
        BY Zenon DEF Consecutive, l
    <1>6. \A k \in 1 .. c : IsByte(m, off, n + k, f[k])
        BY ONLY <1>1, <1>3, <1>5, Zenon
    <1>7. \A k \in 1 .. l - c : IsByte(m, off, n + c + k, g[k])
        <2> SUFFICES ASSUME NEW k \in 1 .. l - c PROVE IsByte(m, off, n + c + k, g[k])
            BY Zenon
        <2>1. g[k] = q[c + k]  BY <1>1, Zenon DEF l
        <2>2. IsByte(m, off, n + (c + k), q[c + k])  BY ONLY <1>4, <1>5, k \in 1 .. l - c, Zenon
        <2>3. n + (c + k) = n + c + k  BY <1>4, Zenon
        <2>4. QED  BY ONLY <2>1, <2>2, <2>3, Zenon
    <1>8. QED  BY <1>1, <1>6, <1>7, Zenon DEF Consecutive, f, g, l

LEMMA NoneConsecutive ==
    ASSUME NEW m, NEW off, NEW n
    PROVE  Consecutive(m, off, << >>, n)
    BY DEF Consecutive

-----------------------------------------------------------------------------
(* Where messages begin.                                                   *)

Sizes(m) == \A i \in 1 .. Len(m) : m[i].len \in Nat

LEMMA MessagesHaveSizes ==
    ASSUME NEW m \in Seq(Messages)
    PROVE  Sizes(m) /\ \A i \in 1 .. Len(m) : Size(m, i) \in Nat \ {0}
    <1>1. \A x \in Messages : x.len \in Nat
        BY PkgAssumption DEF Messages
    <1>2. \A i \in 1 .. Len(m) : m[i] \in Messages
        BY LenIsNat, Zenon
    <1>3. \A i \in 1 .. Len(m) : m[i].len \in Nat
        BY ONLY <1>1, <1>2, Zenon
    <1>4. HdrLen \in Nat \ {0}  BY PkgAssumption
    <1>5. \A i \in 1 .. Len(m) : HdrLen + m[i].len \in Nat \ {0}
        BY ONLY <1>3, <1>4
    <1>6. QED  BY <1>3, <1>5, Zenon DEF Sizes, Size

(* The empty sequence has a place to begin; a message added has one, too.  *)
LEMMA OffsetsOfNone == \E off : Offsets(<< >>, off) /\ off[1] = 0
    <1> DEFINE off == [i \in 1 .. 1 |-> 0]
    <1>1. off \in [1 .. 1 -> Nat] /\ off[1] = 0  OBVIOUS
    <1>2. 0 + 1 = 1 /\ Len(<< >>) = 0 /\ 1 .. 0 = {}  OBVIOUS
    <1> HIDE DEF off
    <1>3. Offsets(<< >>, off)  BY ONLY <1>1, <1>2, Zenon DEF Offsets
    <1>4. QED  BY <1>1, <1>3

LEMMA AppendedMessages ==
    ASSUME NEW m \in Seq(Messages), NEW x \in Messages
    PROVE  /\ Append(m, x) \in Seq(Messages) /\ Len(Append(m, x)) = Len(m) + 1
           /\ \A i \in 1 .. Len(m) : Append(m, x)[i] = m[i]
           /\ Append(m, x)[Len(m) + 1] = x
    BY AppendProperties, LenIsNat

LEMMA OffsetsExtend ==
    ASSUME NEW m \in Seq(Messages), NEW x \in Messages, NEW off, Offsets(m, off)
    PROVE  \E off2 :
              /\ Offsets(Append(m, x), off2)
              /\ \A i \in 1 .. Len(m) + 1 : off2[i] = off[i]
              /\ off2[Len(m) + 2] = off[Len(m) + 1] + HdrLen + x.len
    <1> DEFINE a == Append(m, x)
               l == Len(m)
               sz == HdrLen + x.len
               off2 == [i \in 1 .. l + 2 |-> IF i = l + 2 THEN off[l + 1] + sz ELSE off[i]]
    <1>1. /\ Len(a) = l + 1 /\ l \in Nat
          /\ \A i \in 1 .. l : Size(a, i) = Size(m, i)
          /\ Size(a, l + 1) = sz
        BY AppendedMessages, LenIsNat DEF Size
    <1>2. sz \in Nat
        <2>1. a \in Seq(Messages) /\ l + 1 \in 1 .. Len(a)
            BY <1>1, AppendedMessages
        <2>2. Size(a, l + 1) \in Nat
            BY <2>1, MessagesHaveSizes, Zenon
        <2>3. QED  BY <1>1, <2>2
    <1>3. /\ off \in [1 .. l + 1 -> Nat]
          /\ \A i \in 1 .. l : off[i + 1] = off[i] + Size(m, i)
          /\ \A i \in 1 .. l, j \in 1 .. l + 1 : i < j => off[i] + Size(m, i) <= off[j]
        BY Zenon DEF Offsets
    <1>4. \A i \in 1 .. l : Size(m, i) \in Nat
        BY MessagesHaveSizes, Zenon
    <1> HIDE DEF a, l, sz
    <1>5. off2 \in [1 .. l + 2 -> Nat]
        BY ONLY <1>1, <1>2, <1>3
    <1>6. /\ \A i \in 1 .. l + 1 : off2[i] = off[i] /\ off[i] \in Nat
          /\ off2[l + 2] = off[l + 1] + sz
        BY ONLY <1>1, <1>2, <1>3
    <1> HIDE DEF off2
    <1>7. \A i \in 1 .. l + 1 : off2[i + 1] = off2[i] + Size(a, i)
        <2> SUFFICES ASSUME NEW i \in 1 .. l + 1
                     PROVE  off2[i + 1] = off2[i] + Size(a, i)
            BY Zenon
        <2>1. CASE i = l + 1
            <3>1. i + 1 = l + 2 /\ i \in 1 .. l + 1  BY ONLY <1>1, <2>1
            <3>2. off2[i + 1] = off2[l + 2] /\ off2[i] = off[l + 1] /\ Size(a, i) = sz
                BY ONLY <1>1, <1>6, <2>1, <3>1, Zenon
            <3>3. QED  BY ONLY <1>6, <3>2, Zenon
        <2>2. CASE i # l + 1
            <3>1. i \in 1 .. l /\ i + 1 \in 1 .. l + 1 /\ i \in 1 .. l + 1
                BY ONLY <1>1, <2>2, i \in 1 .. l + 1
            <3>2. off2[i + 1] = off[i + 1] /\ off2[i] = off[i] /\ Size(a, i) = Size(m, i)
                BY ONLY <1>1, <1>6, <3>1, Zenon
            <3>3. off[i + 1] = off[i] + Size(m, i)  BY <1>3, <3>1, Zenon
            <3>4. QED  BY ONLY <3>2, <3>3, Zenon
        <2>3. QED  BY <2>1, <2>2, Zenon
    <1>8. \A i \in 1 .. l + 1, j \in 1 .. l + 2 : i < j => off2[i] + Size(a, i) <= off2[j]
        <2> SUFFICES ASSUME NEW i \in 1 .. l + 1, NEW j \in 1 .. l + 2, i < j
                     PROVE  off2[i] + Size(a, i) <= off2[j]
            BY Zenon
        <2> DEFINE s == Size(m, i)
                   p == off[i]
                   q == off[l + 1]
        <2>1. CASE i = l + 1
            <3>1. j = l + 2 /\ i \in 1 .. l + 1  BY ONLY <1>1, <2>1, j \in 1 .. l + 2, i < j
            <3>2. off2[i] + Size(a, i) = q + sz /\ off2[j] = q + sz
                BY ONLY <1>1, <1>6, <2>1, <3>1, Zenon
            <3>3. q + sz \in Nat
                <4>1. q \in Nat  BY ONLY <1>1, <1>3
                <4> HIDE DEF q
                <4>2. QED  BY ONLY <1>2, <4>1
            <3> HIDE DEF q
            <3>4. QED  BY ONLY <3>2, <3>3
        <2>2. CASE i # l + 1
            <3>1. i \in 1 .. l /\ i \in 1 .. l + 1 /\ l + 1 \in 1 .. l + 1 /\ i < l + 1
                BY ONLY <1>1, <2>2, i \in 1 .. l + 1
            <3>2. off2[i] = p /\ Size(a, i) = s
                BY ONLY <1>1, <1>6, <3>1, Zenon
            <3>3. p + s <= q  BY <1>3, <3>1, Zenon
            <3>4. p \in Nat /\ s \in Nat /\ q \in Nat  BY ONLY <1>1, <1>4, <1>6, <3>1, Zenon
            <3>5. CASE j = l + 2
                <4>1. off2[j] = q + sz  BY ONLY <1>6, <3>5, Zenon
                <4> HIDE DEF p, s, q
                <4>2. QED  BY ONLY <1>2, <3>2, <3>3, <3>4, <4>1
            <3>6. CASE j # l + 2
                <4>1. j \in 1 .. l + 1  BY ONLY <1>1, <3>6, j \in 1 .. l + 2
                <4>2. off2[j] = off[j]  BY ONLY <1>6, <4>1, Zenon
                <4>3. off[i] + Size(m, i) <= off[j]
                    BY ONLY <1>3, <3>1, <4>1, i < j, Zenon
                <4>4. QED  BY ONLY <3>2, <4>2, <4>3, Zenon
            <3>7. QED  BY <3>5, <3>6, Zenon
        <2>3. QED  BY <2>1, <2>2, Zenon
    <1>9. l + 1 + 1 = l + 2  BY <1>1
    <1>10. Offsets(a, off2)
        BY ONLY <1>1, <1>5, <1>7, <1>8, <1>9, Zenon DEF Offsets
    <1>11. off2[l + 2] = off[l + 1] + HdrLen + x.len
        <2>1. off[l + 1] \in Nat  BY ONLY <1>1, <1>3
        <2>2. HdrLen \in Nat /\ x.len \in Nat  BY PkgAssumption DEF Messages
        <2> DEFINE q == off[l + 1]
                   y == x.len
        <2> HIDE DEF q, y
        <2>3. q + (HdrLen + y) = q + HdrLen + y  BY <2>1, <2>2 DEF q, y
        <2>4. QED  BY <1>6, <2>3, Zenon DEF q, y, sz
    <1>12. QED  BY <1>6, <1>10, <1>11, Zenon DEF a, l

LEMMA AppendKeepsConsecutive ==
    ASSUME NEW m \in Seq(Messages), NEW x \in Messages, NEW off, NEW off2,
           \A i \in 1 .. Len(m) + 1 : off2[i] = off[i],
           NEW q, NEW n, Consecutive(m, off, q, n)
    PROVE  Consecutive(Append(m, x), off2, q, n)
    <1> DEFINE a == Append(m, x)
               l == Len(m)
    <1>1. /\ Len(a) = l + 1 /\ l \in Nat
          /\ \A i \in 1 .. l : Size(a, i) = Size(m, i)
        BY AppendedMessages, LenIsNat DEF Size
    <1> HIDE DEF a
    <1> SUFFICES ASSUME NEW k \in 1 .. Len(q)
                 PROVE  IsByte(a, off2, n + k, q[k])
        BY Zenon DEF Consecutive, a
    <1>2. IsByte(m, off, n + k, q[k])  BY Zenon DEF Consecutive
    <1> DEFINE i == q[k][1]
    <1>3. /\ i \in 1 .. l /\ q[k][2] \in 1 .. Size(m, i)
          /\ off[i] + q[k][2] = n + k
        BY <1>2, Zenon DEF IsByte
    <1> HIDE DEF l
    <1>4. i \in 1 .. l + 1
        <2> HIDE DEF i
        <2>1. QED  BY ONLY <1>1, <1>3
    <1>5. off2[i] = off[i] /\ Size(a, i) = Size(m, i)
        BY <1>1, <1>3, <1>4, Zenon DEF l
    <1>6. /\ i \in 1 .. Len(a) /\ q[k][2] \in 1 .. Size(a, i)
          /\ off2[i] + q[k][2] = n + k
        BY ONLY <1>1, <1>3, <1>4, <1>5, Zenon
    <1>7. QED  BY <1>6, Zenon DEF IsByte

(* There is one byte of each number.                                       *)
LEMMA ByteIsUnique ==
    ASSUME NEW m \in Seq(Messages), NEW off, Offsets(m, off), NEW n \in Nat,
           NEW x \in Byte, IsByte(m, off, n, x),
           NEW i \in 1 .. Len(m) + 1, NEW j \in Nat \ {0}, off[i] + j = n,
           i <= Len(m) => j <= Size(m, i)
    PROVE  i <= Len(m) /\ x = <<i, j>>
    <1> DEFINE l == Len(m)
               a == x[1]
               b == x[2]
               p == off[a]
               q == off[i]
               s == Size(m, a)
               t == Size(m, i)
    <1>0. i \in 1 .. l + 1  OBVIOUS
    <1>1. a \in 1 .. l /\ b \in 1 .. s /\ p + b = n /\ l \in Nat /\ x = <<a, b>>
        BY LenIsNat DEF IsByte, Byte, AllBytes
    <1>2. a \in 1 .. l + 1
        <2> HIDE DEF a, l
        <2>1. QED  BY ONLY <1>1
    <1>3. p \in Nat /\ q \in Nat /\ s \in Nat \ {0}
        <2>1. \A k \in 1 .. l + 1 : off[k] \in Nat  BY DEF Offsets
        <2>2. s \in Nat \ {0}  BY <1>1, MessagesHaveSizes, Zenon
        <2>3. QED  BY <1>2, <2>1, <2>2, Zenon
    <1>4. a < i => p + s <= q
        BY <1>1, Zenon DEF Offsets
    <1>5. i <= l /\ i < a => q + t <= p
        <2>1. SUFFICES ASSUME i <= l, i < a PROVE q + t <= p
            OBVIOUS
        <2>2. i \in 1 .. l
            <3> HIDE DEF l
            <3>1. QED  BY ONLY <1>0, <1>1, <2>1
        <2>3. QED  BY <1>2, <2>1, <2>2, Zenon DEF Offsets
    <1>6. i <= l => t \in Nat
        <2>1. i <= l => i \in 1 .. l
            <3> HIDE DEF l
            <3>1. QED  BY ONLY <1>0, <1>1
        <2>2. QED  BY <2>1, MessagesHaveSizes, Zenon
    <1>7. q + j = n /\ (i <= l => j <= t) /\ i \in 1 .. l + 1
        OBVIOUS
    <1> HIDE DEF l, a, b, p, q, s, t
    <1>8. ~(a < i)  BY ONLY <1>1, <1>3, <1>4, <1>7, j \in Nat \ {0}, n \in Nat
    <1>9. i <= l  BY ONLY <1>1, <1>7, <1>8
    <1>10. ~(i < a)  BY ONLY <1>1, <1>3, <1>5, <1>6, <1>7, <1>9, j \in Nat \ {0}, n \in Nat
    <1>11. a = i  BY ONLY <1>1, <1>7, <1>8, <1>10
    <1>12. p = q  BY ONLY <1>11, Zenon DEF p, q
    <1>13. b = j  BY ONLY <1>1, <1>3, <1>7, <1>12, j \in Nat \ {0}
    <1>14. QED  BY ONLY <1>1, <1>9, <1>11, <1>13, Zenon DEF l

(* The bytes of a message.                                                 *)
LEMMA MessageIsConsecutive ==
    ASSUME NEW m \in Seq(Messages), NEW off, Offsets(m, off), NEW i \in 1 .. Len(m)
    PROVE  /\ Bytes(i, m[i].len) \in Seq(Byte)
           /\ Len(Bytes(i, m[i].len)) = Size(m, i)
           /\ Consecutive(m, off, Bytes(i, m[i].len), off[i])
    <1> DEFINE s == Size(m, i)
               b == Bytes(i, m[i].len)
    <1>1. s \in Nat \ {0} /\ Len(m) \in Nat  BY MessagesHaveSizes, LenIsNat, Zenon
    <1>2. b = [k \in 1 .. s |-> <<i, k>>]  BY DEF Bytes, Size
    <1>3. i \in Nat  BY <1>1
    <1>4. \A k \in 1 .. s : <<i, k>> \in Byte
        BY <1>1, <1>3 DEF Byte, AllBytes
    <1> HIDE DEF s
    <1>5. b \in Seq(Byte) /\ Len(b) = s /\ \A k \in 1 .. s : b[k] = <<i, k>>
        BY ONLY <1>1, <1>2, <1>4
    <1> HIDE DEF b
    <1>6. \A k \in 1 .. s : IsByte(m, off, off[i] + k, b[k])
        BY <1>5 DEF IsByte, s
    <1>7. QED  BY <1>5, <1>6, Zenon DEF Consecutive, b, s

-----------------------------------------------------------------------------
(* What the steps do to the bytes of one direction.                        *)

(* A reader is given the first bytes the system holds; there are none on a *)
(* broken connection.                                                      *)
LEMMA ReadLinked ==
    ASSUME NEW brk \in BOOLEAN, NEW m \in Seq(Messages), NEW i \in Nat, NEW c \in Nat,
           NEW in \in Seq(Byte), NEW w \in Seq(Byte), NEW o \in Seq(Byte), NEW s \in Seq(Byte),
           Linked(brk, m, i, c, in, w, o, s), brk => w = << >>,
           NEW n \in 0 .. Len(w)
    PROVE  Linked(brk, m, i, c, in \o SubSeq(w, 1, n), SubSeq(w, n + 1, Len(w)), o, s)
    <1> DEFINE f == SubSeq(w, 1, n)
               g == SubSeq(w, n + 1, Len(w))
               j == in \o f
    <1>1. PICK off :
              /\ Offsets(m, off)
              /\ i \in 1 .. Len(m) + 1
              /\ Consecutive(m, off, in, off[i] + c)
              /\ brk \/ /\ Consecutive(m, off, w, off[i] + c + Len(in))
                        /\ Consecutive(m, off, o, off[i] + c + Len(in) + Len(w))
                        /\ Consecutive(m, off, s, off[i] + c + Len(in) + Len(w) + Len(o))
                        /\ off[i] + c + Len(in) + Len(w) + Len(o) + Len(s) = off[Len(m) + 1]
        BY Zenon DEF Linked
    <1>2. off[i] \in Nat  BY <1>1 DEF Offsets
    <1>3. /\ f \in Seq(Byte) /\ Len(f) = n /\ g \in Seq(Byte) /\ Len(g) = Len(w) - n
        BY CutElements
    <1>4. j \in Seq(Byte) /\ Len(j) = Len(in) + Len(f)
        <2> HIDE DEF f
        <2>1. QED  BY <1>3, JoinElements, Zenon
    <1> DEFINE p == off[i] + c
               li == Len(in)
               lw == Len(w)
               lo == Len(o)
               ls == Len(s)
    <1>5. /\ p \in Nat /\ li \in Nat /\ lw \in Nat /\ lo \in Nat /\ ls \in Nat
          /\ n \in Nat /\ n <= lw
        <2> HIDE DEF li, lw, lo, ls
        <2>1. li \in Nat /\ lw \in Nat /\ lo \in Nat /\ ls \in Nat
            BY LenIsNat, Zenon DEF li, lw, lo, ls
        <2>2. n \in 0 .. lw  BY DEF lw
        <2>3. QED  BY <1>2, <2>1, <2>2
    <1>6. CASE brk
        <2>1. w = << >> /\ n = 0  BY <1>6
        <2>2. f = << >>  BY <2>1
        <2>3. j = in  BY <2>2, ConcatEmptySeq, Zenon
        <2> HIDE DEF j, f, g
        <2>4. Linked(brk, m, i, c, j, g, o, s)
            BY <1>1, <1>6, <2>3, Zenon DEF Linked
        <2>5. QED  BY <2>4 DEF j, g, f
    <1>7. CASE ~brk
        <2>1. /\ Consecutive(m, off, w, p + li)
              /\ Consecutive(m, off, o, p + li + lw)
              /\ Consecutive(m, off, s, p + li + lw + lo)
              /\ p + li + lw + lo + ls = off[Len(m) + 1]
              /\ Consecutive(m, off, in, p)
            BY <1>1, <1>7, Zenon
        <2>2. p + li \in Nat  
            <3> HIDE DEF p, li
            <3>1. QED  BY ONLY <1>5
        <2>3. Consecutive(m, off, f, p + li) /\ Consecutive(m, off, g, p + li + n)
            BY <2>1, <2>2, CutConsecutive, Zenon
        <2> HIDE DEF f, g
        <2>4. Consecutive(m, off, j, p)
            BY <1>3, <1>5, <2>1, <2>3, JoinConsecutive, Zenon
        <2>5. Len(j) = li + n /\ Len(g) = lw - n
            BY <1>3, <1>4, Zenon
        <2> HIDE DEF j, p, li, lw, lo, ls
        <2>6. /\ p + Len(j) = p + li + n
              /\ p + Len(j) + Len(g) = p + li + lw
            BY ONLY <1>5, <2>5
        <2>7. /\ Consecutive(m, off, g, p + Len(j))
              /\ Consecutive(m, off, o, p + Len(j) + Len(g))
              /\ Consecutive(m, off, s, p + Len(j) + Len(g) + lo)
              /\ p + Len(j) + Len(g) + lo + ls = off[Len(m) + 1]
            BY ONLY <2>1, <2>3, <2>6, Zenon
        <2>8. Linked(brk, m, i, c, j, g, o, s)
            BY ONLY <1>1, <2>4, <2>7, Zenon DEF Linked, p, lo, ls
        <2>9. QED  BY <2>8 DEF j, g, f
    <1>8. QED  BY <1>6, <1>7

(* The system takes the first bytes of what is being written.              *)
LEMMA WriteLinked ==
    ASSUME NEW m \in Seq(Messages), NEW i \in Nat, NEW c \in Nat,
           NEW in \in Seq(Byte), NEW w \in Seq(Byte), NEW o \in Seq(Byte), NEW s \in Seq(Byte),
           Linked(FALSE, m, i, c, in, w, o, s), NEW n \in 0 .. Len(o)
    PROVE  Linked(FALSE, m, i, c, in, w \o SubSeq(o, 1, n), SubSeq(o, n + 1, Len(o)), s)
    <1> DEFINE f == SubSeq(o, 1, n)
               g == SubSeq(o, n + 1, Len(o))
               j == w \o f
    <1>1. PICK off :
              /\ Offsets(m, off)
              /\ i \in 1 .. Len(m) + 1
              /\ Consecutive(m, off, in, off[i] + c)
              /\ Consecutive(m, off, w, off[i] + c + Len(in))
              /\ Consecutive(m, off, o, off[i] + c + Len(in) + Len(w))
              /\ Consecutive(m, off, s, off[i] + c + Len(in) + Len(w) + Len(o))
              /\ off[i] + c + Len(in) + Len(w) + Len(o) + Len(s) = off[Len(m) + 1]
        BY Zenon DEF Linked
    <1>2. off[i] \in Nat  BY <1>1 DEF Offsets
    <1>3. /\ f \in Seq(Byte) /\ Len(f) = n /\ g \in Seq(Byte) /\ Len(g) = Len(o) - n
        BY CutElements
    <1>4. j \in Seq(Byte) /\ Len(j) = Len(w) + Len(f)
        <2> HIDE DEF f
        <2>1. QED  BY <1>3, JoinElements, Zenon
    <1> DEFINE p == off[i] + c + Len(in)
               lw == Len(w)
               lo == Len(o)
               ls == Len(s)
    <1>5. /\ p \in Nat /\ lw \in Nat /\ lo \in Nat /\ ls \in Nat
          /\ n \in Nat /\ n <= lo
        <2> DEFINE li == Len(in)
        <2> HIDE DEF li, lw, lo, ls
        <2>1. li \in Nat /\ lw \in Nat /\ lo \in Nat /\ ls \in Nat
            BY LenIsNat, Zenon DEF li, lw, lo, ls
        <2>2. n \in 0 .. lo  BY DEF lo
        <2>3. off[i] + c + li \in Nat  BY <1>2, <2>1
        <2>4. QED  BY <2>1, <2>2, <2>3 DEF li
    <1>6. /\ Consecutive(m, off, w, p)
          /\ Consecutive(m, off, o, p + lw)
          /\ Consecutive(m, off, s, p + lw + lo)
          /\ p + lw + lo + ls = off[Len(m) + 1]
        BY <1>1, Zenon
    <1>7. p + lw \in Nat
        <2> HIDE DEF p, lw
        <2>1. QED  BY ONLY <1>5
    <1>8. Consecutive(m, off, f, p + lw) /\ Consecutive(m, off, g, p + lw + n)
        BY <1>6, <1>7, CutConsecutive, Zenon
    <1> HIDE DEF f, g
    <1>9. Consecutive(m, off, j, p)
        BY <1>3, <1>5, <1>6, <1>8, JoinConsecutive, Zenon
    <1>10. Len(j) = lw + n /\ Len(g) = lo - n
        BY <1>3, <1>4, Zenon
    <1> HIDE DEF j, p, lw, lo, ls
    <1>11. /\ p + Len(j) = p + lw + n
           /\ p + Len(j) + Len(g) = p + lw + lo
        BY ONLY <1>5, <1>10
    <1>12. /\ Consecutive(m, off, g, p + Len(j))
           /\ Consecutive(m, off, s, p + Len(j) + Len(g))
           /\ p + Len(j) + Len(g) + ls = off[Len(m) + 1]
        BY ONLY <1>6, <1>8, <1>11, Zenon
    <1>13. Linked(FALSE, m, i, c, in, j, g, s)
        BY ONLY <1>1, <1>9, <1>12, Zenon DEF Linked, p, ls
    <1>14. QED  BY <1>13 DEF j, g, f

(* A message is queued behind all others.                                  *)
LEMMA QueueLinked ==
    ASSUME NEW m \in Seq(Messages), NEW i \in Nat, NEW c \in Nat,
           NEW in \in Seq(Byte), NEW w \in Seq(Byte), NEW o \in Seq(Byte), NEW s \in Seq(Byte),
           Linked(FALSE, m, i, c, in, w, o, s), NEW x \in Messages
    PROVE  Linked(FALSE, Append(m, x), i, c, in, w, o, s \o Bytes(Len(m) + 1, x.len))
    <1> DEFINE a == Append(m, x)
               l == Len(m)
               b == Bytes(l + 1, x.len)
               j == s \o b
               li == Len(in)
               lw == Len(w)
               lo == Len(o)
               ls == Len(s)
    <1>1. PICK off :
              /\ Offsets(m, off)
              /\ i \in 1 .. l + 1
              /\ Consecutive(m, off, in, off[i] + c)
              /\ Consecutive(m, off, w, off[i] + c + li)
              /\ Consecutive(m, off, o, off[i] + c + li + lw)
              /\ Consecutive(m, off, s, off[i] + c + li + lw + lo)
              /\ off[i] + c + li + lw + lo + ls = off[l + 1]
        BY Zenon DEF Linked
    <1>2. PICK off2 :
              /\ Offsets(a, off2)
              /\ \A k \in 1 .. l + 1 : off2[k] = off[k]
              /\ off2[l + 2] = off[l + 1] + HdrLen + x.len
        BY <1>1, OffsetsExtend, Zenon
    <1>3. off[i] \in Nat /\ off2[i] = off[i]  BY <1>1, <1>2 DEF Offsets
    <1>4. /\ a \in Seq(Messages) /\ Len(a) = l + 1 /\ a[l + 1] = x /\ l \in Nat
        BY AppendedMessages, LenIsNat, Zenon
    <1>5. l + 1 \in 1 .. Len(a) /\ l + 1 \in 1 .. l + 1 /\ i \in 1 .. Len(a) + 1
        <2> HIDE DEF l, a
        <2>1. QED  BY ONLY <1>1, <1>4
    <1>6. /\ b \in Seq(Byte) /\ Len(b) = HdrLen + x.len
          /\ Consecutive(a, off2, b, off[l + 1])
        <2>1. off2[l + 1] = off[l + 1]  BY <1>2, <1>5, Zenon
        <2> HIDE DEF a, l
        <2>2. /\ Bytes(l + 1, a[l + 1].len) \in Seq(Byte)
              /\ Len(Bytes(l + 1, a[l + 1].len)) = Size(a, l + 1)
              /\ Consecutive(a, off2, Bytes(l + 1, a[l + 1].len), off2[l + 1])
            BY <1>2, <1>4, <1>5, MessageIsConsecutive, Zenon
        <2>3. QED  BY ONLY <1>4, <2>1, <2>2, Zenon DEF Size
    <1> HIDE DEF b
    <1>7. j \in Seq(Byte) /\ Len(j) = ls + Len(b)
        BY <1>6, JoinElements, Zenon
    <1>8. /\ Consecutive(a, off2, in, off[i] + c)
          /\ Consecutive(a, off2, w, off[i] + c + li)
          /\ Consecutive(a, off2, o, off[i] + c + li + lw)
          /\ Consecutive(a, off2, s, off[i] + c + li + lw + lo)
        BY <1>1, <1>2, AppendKeepsConsecutive, Zenon
    <1> DEFINE p == off[i] + c + li + lw + lo
    <1>9. p \in Nat /\ ls \in Nat
        <2> HIDE DEF li, lw, lo, ls
        <2>1. li \in Nat /\ lw \in Nat /\ lo \in Nat /\ ls \in Nat
            BY LenIsNat, Zenon DEF li, lw, lo, ls
        <2> DEFINE at == off[i]
        <2>2. at \in Nat  BY <1>3, Zenon
        <2> HIDE DEF at
        <2>3. at + c + li + lw + lo \in Nat  BY ONLY <2>1, <2>2, c \in Nat
        <2>4. QED  BY <2>1, <2>3, Zenon DEF at
    <1>10. Consecutive(a, off2, j, p)
        <2>1. Consecutive(a, off2, b, p + ls)
            BY <1>1, <1>6, Zenon
        <2>2. Consecutive(a, off2, s, p)  BY <1>8, Zenon
        <2> HIDE DEF p, a, l
        <2>3. QED  BY <1>6, <1>9, <2>1, <2>2, JoinConsecutive, Zenon
    <1>11. p + Len(j) = off2[Len(a) + 1]
        <2>1. p + ls = off[l + 1]  BY <1>1, Zenon
        <2>2. Len(a) + 1 = l + 2
            <3> HIDE DEF a, l
            <3>1. QED  BY ONLY <1>4
        <2>3. Len(j) = ls + (HdrLen + x.len)  BY <1>6, <1>7, Zenon
        <2>4. HdrLen \in Nat /\ x.len \in Nat  BY PkgAssumption DEF Messages
        <2> DEFINE y == x.len
                   q == off[l + 1]
                   r == off2[l + 2]
        <2>5. r = q + HdrLen + y  BY <1>2, Zenon
        <2>6. p + ls = q /\ Len(j) = ls + (HdrLen + y) /\ y \in Nat  BY <2>1, <2>3, <2>4, Zenon
        <2> HIDE DEF p, y, q, r, ls, j
        <2>7. p + Len(j) = r  BY ONLY <1>9, <2>4, <2>5, <2>6
        <2>8. QED  BY <2>2, <2>7, Zenon DEF r
    <1>12. Linked(FALSE, a, i, c, in, w, o, j)
        <2>1. p + Len(j) = off2[Len(a) + 1] /\ Consecutive(a, off2, j, p)
            BY <1>10, <1>11
        <2> HIDE DEF a, j, l
        <2>2. QED  BY ONLY <1>2, <1>3, <1>5, <1>8, <2>1, Zenon DEF Linked, p, li, lw, lo
    <1>13. QED  BY <1>12 DEF b

(* What is queued is written, when nothing else is.                        *)
LEMMA FlushLinked ==
    ASSUME NEW m, NEW i \in Nat, NEW c \in Nat,
           NEW in \in Seq(Byte), NEW w \in Seq(Byte), NEW s \in Seq(Byte),
           Linked(FALSE, m, i, c, in, w, << >>, s)
    PROVE  Linked(FALSE, m, i, c, in, w, s, << >>)
    <1> DEFINE li == Len(in)
               lw == Len(w)
               ls == Len(s)
    <1>1. PICK off :
              /\ Offsets(m, off)
              /\ i \in 1 .. Len(m) + 1
              /\ Consecutive(m, off, in, off[i] + c)
              /\ Consecutive(m, off, w, off[i] + c + li)
              /\ Consecutive(m, off, s, off[i] + c + li + lw + Len(<< >>))
              /\ off[i] + c + li + lw + Len(<< >>) + ls = off[Len(m) + 1]
        BY Zenon DEF Linked
    <1>2. off[i] \in Nat  BY <1>1 DEF Offsets
    <1> DEFINE p == off[i] + c + li + lw
    <1>3. p \in Nat /\ ls \in Nat
        <2> HIDE DEF li, lw, ls
        <2>1. li \in Nat /\ lw \in Nat /\ ls \in Nat
            BY LenIsNat, Zenon DEF li, lw, ls
        <2>2. QED  BY ONLY <1>2, <2>1, c \in Nat, SMT
    <1>4. /\ Consecutive(m, off, s, p + Len(<< >>))
          /\ p + Len(<< >>) + ls = off[Len(m) + 1]
        BY <1>1, Zenon
    <1> HIDE DEF p, ls
    <1>5. p + Len(<< >>) = p /\ p + ls + Len(<< >>) = p + Len(<< >>) + ls
        BY ONLY <1>3
    <1>6. Consecutive(m, off, s, p) /\ p + ls + Len(<< >>) = off[Len(m) + 1]
        BY ONLY <1>4, <1>5, Zenon
    <1>7. Consecutive(m, off, << >>, p + ls)
        BY NoneConsecutive
    <1>8. QED  BY ONLY <1>1, <1>6, <1>7, Zenon DEF Linked, p, ls

(* On a broken connection only what was read counts.                       *)
LEMMA BreakLinked ==
    ASSUME NEW brk \in BOOLEAN, NEW m, NEW i, NEW c, NEW in, NEW w, NEW o, NEW s,
           Linked(brk, m, i, c, in, w, o, s), NEW w2, NEW o2, NEW s2
    PROVE  Linked(TRUE, m, i, c, in, w2, o2, s2)
    BY Zenon DEF Linked

(* What is sent on a broken connection is behind what was read.            *)
LEMMA GrowLinked ==
    ASSUME NEW m \in Seq(Messages), NEW x \in Messages, NEW i, NEW c, NEW in, NEW w, NEW o,
           NEW s, Linked(TRUE, m, i, c, in, w, o, s), NEW w2, NEW o2, NEW s2
    PROVE  Linked(TRUE, Append(m, x), i, c, in, w2, o2, s2)
    <1> DEFINE a == Append(m, x)
               l == Len(m)
    <1>1. PICK off : /\ Offsets(m, off) /\ i \in 1 .. l + 1
                     /\ Consecutive(m, off, in, off[i] + c)
        BY Zenon DEF Linked
    <1>2. PICK off2 : /\ Offsets(a, off2)
                      /\ \A k \in 1 .. l + 1 : off2[k] = off[k]
                      /\ off2[l + 2] = off[l + 1] + HdrLen + x.len
        BY <1>1, OffsetsExtend, Zenon
    <1>3. Consecutive(a, off2, in, off[i] + c)
        BY <1>1, <1>2, AppendKeepsConsecutive, Zenon
    <1>4. off2[i] = off[i]  BY <1>1, <1>2, Zenon
    <1>5. i \in 1 .. Len(a) + 1
        <2>1. Len(a) = l + 1 /\ l \in Nat  BY AppendedMessages, LenIsNat, Zenon
        <2> HIDE DEF a, l
        <2>2. QED  BY ONLY <1>1, <2>1
    <1> HIDE DEF a, l
    <1>6. Linked(TRUE, a, i, c, in, w2, o2, s2)
        BY ONLY <1>2, <1>3, <1>4, <1>5, Zenon DEF Linked
    <1>7. QED  BY <1>6 DEF a

(* The reader of a broken connection throws away what it has read.         *)
LEMMA EmptyLinked ==
    ASSUME NEW brk \in BOOLEAN, NEW m, NEW i, NEW c, NEW in, NEW w, NEW o, NEW s,
           Linked(brk, m, i, c, in, w, o, s), NEW d, NEW w2, NEW o2, NEW s2
    PROVE  Linked(TRUE, m, i, d, << >>, w2, o2, s2)
    <1>1. PICK off : Offsets(m, off) /\ i \in 1 .. Len(m) + 1
        BY Zenon DEF Linked
    <1>2. Consecutive(m, off, << >>, off[i] + d)  BY NoneConsecutive, Zenon
    <1>3. QED  BY <1>1, <1>2, Zenon DEF Linked

(* With bytes left to be written or queued, a message is on its way.       *)
LEMMA MoreLinked ==
    ASSUME NEW m \in Seq(Messages), NEW i \in Nat, NEW o \in Seq(Byte), NEW s \in Seq(Byte),
           Linked(FALSE, m, i, 0, << >>, << >>, o, s), o \o s # << >>, NEW w2, NEW o2, NEW s2
    PROVE  Linked(TRUE, m, i + 1, 0, << >>, w2, o2, s2)
    <1> DEFINE l == Len(m)
               lo == Len(o)
               ls == Len(s)
    <1>1. PICK off : /\ Offsets(m, off) /\ i \in 1 .. l + 1
                     /\ off[i] + 0 + Len(<< >>) + Len(<< >>) + lo + ls = off[l + 1]
        BY Zenon DEF Linked
    <1>2. l \in Nat /\ lo \in Nat /\ ls \in Nat /\ Len(<< >>) = 0
        BY LenIsNat, EmptySeq
    <1>3. lo + ls # 0
        <2>1. Len(o \o s) = lo + ls /\ o \o s \in Seq(Byte)  BY JoinElements, Zenon
        <2> DEFINE j == o \o s
        <2>2. j \in Seq(Byte) /\ j # << >>  BY <2>1
        <2> HIDE DEF j
        <2>3. Len(j) # 0  BY ONLY <2>2, EmptySeq
        <2>4. QED  BY <2>1, <2>3, Zenon DEF j
    <1>4. off[i] \in Nat /\ off[l + 1] \in Nat
        <2>1. l + 1 \in 1 .. l + 1
            <3> HIDE DEF l
            <3>1. QED  BY ONLY <1>2
        <2>2. QED  BY <1>1, <2>1 DEF Offsets
    <1>5. i # l + 1
        <2> SUFFICES ASSUME i = l + 1  PROVE FALSE
            OBVIOUS
        <2> DEFINE a == off[i]
                   b == off[l + 1]
        <2>1. a = b  BY Zenon
        <2>2. a \in Nat /\ a + 0 + 0 + 0 + lo + ls = b
            BY <1>1, <1>2, <1>4, Zenon
        <2> HIDE DEF a, b, lo, ls
        <2>3. QED  BY ONLY <1>2, <1>3, <2>1, <2>2
    <1>6. i + 1 \in 1 .. l + 1
        <2> HIDE DEF l
        <2>1. QED  BY ONLY <1>1, <1>2, <1>5
    <1>7. Consecutive(m, off, << >>, off[i + 1] + 0)  BY NoneConsecutive, Zenon
    <1>8. QED  BY <1>1, <1>6, <1>7, Zenon DEF Linked

(* The empty connection.                                                   *)
LEMMA NothingLinked == Linked(FALSE, << >>, 1, 0, << >>, << >>, << >>, << >>)
    <1>1. PICK off : Offsets(<< >>, off) /\ off[1] = 0
        BY OffsetsOfNone, Zenon
    <1>2. 1 \in 1 .. Len(<< >>) + 1 /\ Len(<< >>) = 0 /\ 0 + 1 = 1 /\ 0 + 0 = 0
        OBVIOUS
    <1>3. \A n : Consecutive(<< >>, off, << >>, n)  BY NoneConsecutive, Zenon
    <1>4. off[1] + 0 + Len(<< >>) + Len(<< >>) + Len(<< >>) + Len(<< >>) = off[Len(<< >>) + 1]
        BY ONLY <1>1, <1>2, Zenon
    <1>5. QED  BY ONLY <1>1, <1>2, <1>3, <1>4, Zenon DEF Linked

(* The first bytes of what was read are taken.                             *)
LEMMA TakeLinked ==
    ASSUME NEW brk \in BOOLEAN, NEW m \in Seq(Messages), NEW i \in Nat, NEW c \in Nat,
           NEW in \in Seq(Byte), NEW w \in Seq(Byte), NEW o \in Seq(Byte), NEW s \in Seq(Byte),
           Linked(brk, m, i, c, in, w, o, s), NEW n \in 0 .. Len(in)
    PROVE  Linked(brk, m, i, c + n, Drop(in, n), w, o, s)
    <1> DEFINE g == SubSeq(in, n + 1, Len(in))
               li == Len(in)
               lw == Len(w)
               lo == Len(o)
               ls == Len(s)
    <1>1. PICK off :
              /\ Offsets(m, off)
              /\ i \in 1 .. Len(m) + 1
              /\ Consecutive(m, off, in, off[i] + c)
              /\ brk \/ /\ Consecutive(m, off, w, off[i] + c + li)
                        /\ Consecutive(m, off, o, off[i] + c + li + lw)
                        /\ Consecutive(m, off, s, off[i] + c + li + lw + lo)
                        /\ off[i] + c + li + lw + lo + ls = off[Len(m) + 1]
        BY Zenon DEF Linked
    <1>2. off[i] \in Nat  BY <1>1 DEF Offsets
    <1>3. Len(g) = li - n  BY CutElements, Zenon
    <1> DEFINE q == off[i]
               p == q + c
    <1>4. li \in Nat /\ n \in Nat /\ n <= li /\ p \in Nat
        <2> HIDE DEF li, q
        <2>1. li \in Nat  BY LenIsNat, Zenon DEF li
        <2>2. n \in 0 .. li  BY DEF li
        <2>3. q \in Nat  BY <1>2 DEF q
        <2>4. QED  BY <2>1, <2>2, <2>3
    <1>5. Consecutive(m, off, g, p + n)
        <2>1. Consecutive(m, off, in, p)  BY <1>1, Zenon
        <2> HIDE DEF p
        <2>2. QED  BY <1>4, <2>1, CutConsecutive, Zenon
    <1>6. q + (c + n) = p + n /\ q + (c + n) + Len(g) = p + li
        <2>1. q \in Nat  BY <1>2
        <2> HIDE DEF q, li, g
        <2>2. QED  BY <1>3, <1>4, <2>1
    <1>7. /\ Consecutive(m, off, g, q + (c + n))
          /\ brk \/ /\ Consecutive(m, off, w, q + (c + n) + Len(g))
                    /\ Consecutive(m, off, o, q + (c + n) + Len(g) + lw)
                    /\ Consecutive(m, off, s, q + (c + n) + Len(g) + lw + lo)
                    /\ q + (c + n) + Len(g) + lw + lo + ls = off[Len(m) + 1]
        BY ONLY <1>1, <1>5, <1>6, Zenon
    <1> HIDE DEF g
    <1>8. Linked(brk, m, i, c + n, g, w, o, s)
        BY ONLY <1>1, <1>7, Zenon DEF Linked
    <1>9. QED  BY <1>8 DEF g, Drop

(* After the last byte of a message the next one begins.                   *)
LEMMA NextLinked ==
    ASSUME NEW brk \in BOOLEAN, NEW m \in Seq(Messages), NEW i \in 1 .. Len(m),
           NEW in, NEW w, NEW o, NEW s,
           Linked(brk, m, i, Size(m, i), in, w, o, s)
    PROVE  Linked(brk, m, i + 1, 0, in, w, o, s)
    <1>1. PICK off :
              /\ Offsets(m, off)
              /\ Consecutive(m, off, in, off[i] + Size(m, i))
              /\ brk \/ /\ Consecutive(m, off, w, off[i] + Size(m, i) + Len(in))
                        /\ Consecutive(m, off, o, off[i] + Size(m, i) + Len(in) + Len(w))
                        /\ Consecutive(m, off, s,
                                       off[i] + Size(m, i) + Len(in) + Len(w) + Len(o))
                        /\ off[i] + Size(m, i) + Len(in) + Len(w) + Len(o) + Len(s)
                              = off[Len(m) + 1]
        BY Zenon DEF Linked
    <1>2. i + 1 \in 1 .. Len(m) + 1 /\ i \in Nat
        <2> DEFINE l == Len(m)
        <2>1. l \in Nat /\ i \in 1 .. l  BY LenIsNat
        <2> HIDE DEF l
        <2>2. i + 1 \in 1 .. l + 1 /\ i \in Nat  BY ONLY <2>1
        <2>3. QED  BY <2>2 DEF l
    <1> DEFINE p == off[i] + Size(m, i)
               q == off[i + 1]
    <1>3. q = p /\ q \in Nat
        <2>1. q = p  BY <1>1, Zenon DEF Offsets
        <2>2. q \in Nat  BY <1>1, <1>2 DEF Offsets
        <2>3. QED  BY <2>1, <2>2
    <1>4. q + 0 = p
        <2> HIDE DEF p, q
        <2>1. QED  BY <1>3
    <1>5. /\ Consecutive(m, off, in, p)
          /\ brk \/ /\ Consecutive(m, off, w, p + Len(in))
                    /\ Consecutive(m, off, o, p + Len(in) + Len(w))
                    /\ Consecutive(m, off, s, p + Len(in) + Len(w) + Len(o))
                    /\ p + Len(in) + Len(w) + Len(o) + Len(s) = off[Len(m) + 1]
        BY <1>1, Zenon
    <1> HIDE DEF p
    <1>6. /\ Consecutive(m, off, in, q + 0)
          /\ brk \/ /\ Consecutive(m, off, w, q + 0 + Len(in))
                    /\ Consecutive(m, off, o, q + 0 + Len(in) + Len(w))
                    /\ Consecutive(m, off, s, q + 0 + Len(in) + Len(w) + Len(o))
                    /\ q + 0 + Len(in) + Len(w) + Len(o) + Len(s) = off[Len(m) + 1]
        BY ONLY <1>4, <1>5, Zenon
    <1>7. QED  BY ONLY <1>1, <1>2, <1>6, Zenon DEF Linked

(* Where a header is looked for, there is one: the first byte read is the  *)
(* first of the next message.                                              *)
LEMMA HeaderIsNext ==
    ASSUME NEW brk \in BOOLEAN, NEW m \in Seq(Messages), NEW i \in Nat,
           NEW in \in Seq(Byte), NEW w, NEW o, NEW s,
           Linked(brk, m, i, 0, in, w, o, s), Len(in) >= HdrLen
    PROVE  i \in 1 .. Len(m) /\ Head(in)[1] = i
    <1>1. PICK off : /\ Offsets(m, off)
                     /\ i \in 1 .. Len(m) + 1
                     /\ Consecutive(m, off, in, off[i] + 0)
        BY Zenon DEF Linked
    <1>2. off[i] \in Nat  BY <1>1 DEF Offsets
    <1> DEFINE l == Len(m)
               q == off[i]
    <1>3. l \in Nat /\ i \in 1 .. l + 1 /\ q \in Nat  BY <1>1, <1>2, LenIsNat
    <1>4. 1 \in 1 .. Len(in) /\ in # << >>
        <2> DEFINE k == Len(in)
        <2>1. k \in Nat /\ k >= HdrLen /\ HdrLen \in Nat \ {0}
            BY PkgAssumption, LenIsNat
        <2> HIDE DEF k
        <2>2. 1 \in 1 .. k /\ k # 0  BY ONLY <2>1
        <2>3. Len(<< >>) = 0  OBVIOUS
        <2>4. QED  BY ONLY <2>2, <2>3, Zenon DEF k
    <1>5. Head(in) = in[1] /\ in[1] \in Byte
        <2>1. in[1] \in Byte  BY <1>4, LenIsNat, Zenon
        <2>2. Head(in) = in[1]  BY <1>4
        <2>3. QED  BY <2>1, <2>2
    <1>6. IsByte(m, off, q + 1, in[1])
        <2>1. IsByte(m, off, q + 0 + 1, in[1])  BY <1>1, <1>4, Zenon DEF Consecutive
        <2> HIDE DEF q
        <2>2. q + 0 + 1 = q + 1  BY <1>3
        <2>3. QED  BY ONLY <2>1, <2>2, Zenon
    <1>7. i <= l => 1 <= Size(m, i)
        <2>1. i <= l => i \in 1 .. l
            <3> HIDE DEF l
            <3>1. QED  BY <1>3
        <2>2. i <= l => Size(m, i) \in Nat \ {0}  BY <2>1, MessagesHaveSizes, Zenon
        <2> DEFINE t == Size(m, i)
        <2> HIDE DEF t
        <2>3. i <= l => t \in Nat \ {0}  BY <2>2 DEF t
        <2>4. i <= l => 1 <= t  BY <2>3
        <2>5. QED  BY <2>4 DEF t
    <1>8. q + 1 \in Nat /\ 1 \in Nat \ {0}
        <2> HIDE DEF q
        <2>1. QED  BY <1>3
    <1>9. i <= l /\ in[1] = <<i, 1>>
        <2> DEFINE z == q + 1
        <2>1. z \in Nat /\ off[i] + 1 = z /\ IsByte(m, off, z, in[1])
            BY <1>6, <1>8, Zenon
        <2>2. i <= Len(m) => 1 <= Size(m, i)  BY <1>7
        <2> HIDE DEF z, q
        <2>3. i <= Len(m) /\ in[1] = <<i, 1>>
            BY ONLY <1>1, <1>5, <1>8, <2>1, <2>2, m \in Seq(Messages), ByteIsUnique
        <2>4. QED  BY <2>3
    <1>10. i \in 1 .. l
        <2> HIDE DEF l
        <2>1. QED  BY <1>3, <1>9
    <1>11. QED  BY <1>5, <1>9, <1>10

(* The bytes after the header are the message's data.                      *)
LEMMA DataIsNext ==
    ASSUME NEW brk \in BOOLEAN, NEW m \in Seq(Messages), NEW i \in 1 .. Len(m),
           NEW c \in 0 .. m[i].len, NEW in \in Seq(Byte), NEW w, NEW o, NEW s,
           Linked(brk, m, i, HdrLen + c, in, w, o, s),
           NEW n \in 0 .. Len(in), n <= m[i].len - c
    PROVE  SubSeq(in, 1, n) = [k \in 1 .. n |-> <<i, HdrLen + (c + k)>>]
    <1>1. PICK off : /\ Offsets(m, off)
                     /\ i \in 1 .. Len(m) + 1
                     /\ Consecutive(m, off, in, off[i] + (HdrLen + c))
        BY Zenon DEF Linked
    <1>2. off[i] \in Nat  BY <1>1 DEF Offsets
    <1> DEFINE f == SubSeq(in, 1, n)
               q == off[i]
               len == m[i].len
               l == Len(in)
    <1>3. /\ len \in Nat /\ c \in Nat /\ c <= len /\ l \in Nat /\ n \in Nat /\ n <= l
          /\ n <= len - c /\ HdrLen \in Nat /\ q \in Nat
        <2>1. len \in Nat /\ l \in Nat
            BY MessagesHaveSizes, LenIsNat, Zenon DEF Sizes
        <2>2. c \in 0 .. len /\ n \in 0 .. l /\ n <= len - c /\ HdrLen \in Nat /\ q \in Nat
            BY <1>2, PkgAssumption
        <2> HIDE DEF len, l, q
        <2>3. QED  BY ONLY <2>1, <2>2
    <1>4. f \in Seq(Byte) /\ Len(f) = n /\ \A k \in 1 .. n : f[k] = in[k]
        BY CutElements
    <1> HIDE DEF f
    <1>5. \A k \in 1 .. n : f[k] = <<i, HdrLen + (c + k)>>
        <2> SUFFICES ASSUME NEW k \in 1 .. n PROVE f[k] = <<i, HdrLen + (c + k)>>
            BY Zenon
        <2>1. /\ k \in 1 .. l /\ HdrLen + (c + k) \in Nat \ {0}
              /\ q + (HdrLen + c) + k = q + (HdrLen + (c + k))
              /\ q + (HdrLen + c) + k \in Nat
              /\ HdrLen + (c + k) <= HdrLen + len
            <3> HIDE DEF q, len, l
            <3>1. QED  BY ONLY <1>3, k \in 1 .. n
        <2>2. IsByte(m, off, q + (HdrLen + c) + k, in[k])
            BY <1>1, <2>1, Zenon DEF Consecutive
        <2>3. in[k] \in Byte  BY <2>1, LenIsNat, Zenon
        <2>4. HdrLen + (c + k) <= Size(m, i)  BY <2>1, Zenon DEF Size
        <2> DEFINE j == HdrLen + (c + k)
                   z == q + (HdrLen + c) + k
        <2>5. j \in Nat \ {0} /\ z \in Nat /\ q + j = z /\ j <= Size(m, i)
              /\ IsByte(m, off, z, in[k])
            BY <2>1, <2>2, <2>4
        <2> HIDE DEF j, z
        <2>6. in[k] = <<i, j>>
            <3>1. off[i] + j = z  BY <2>5, Zenon
            <3>2. i <= Len(m) => j <= Size(m, i)  BY <2>5, Zenon
            <3> HIDE DEF q
            <3>3. QED
                BY ONLY <1>1, <2>3, <2>5, <3>1, <3>2, m \in Seq(Messages), ByteIsUnique
        <2>7. QED  BY <1>4, <2>6, Zenon DEF j
    <1>6. f = [k \in 1 .. n |-> f[k]]
        <2>1. DOMAIN f = 1 .. n  BY <1>4, LenIsNat
        <2>2. f = [k \in DOMAIN f |-> f[k]]  BY <1>4
        <2>3. QED  BY ONLY <2>1, <2>2, Zenon
    <1>7. f = [k \in 1 .. n |-> <<i, HdrLen + (c + k)>>]
        BY ONLY <1>5, <1>6, Zenon
    <1>8. QED  BY <1>7 DEF f

-----------------------------------------------------------------------------
(* The two ends.                                                           *)

LEMMA PeerOf ==
    ASSUME NEW e \in Ends
    PROVE  /\ Peer(e) \in Ends /\ Peer(e) # e /\ Peer(Peer(e)) = e
           /\ \A x \in Ends : x = e \/ x = Peer(e)
    <1>0. PICK a \in Ends : \E b \in Ends \ {a} : Ends = {a, b}
        BY PkgAssumption, Zenon
    <1>1. PICK b \in Ends \ {a} : Ends = {a, b}
        BY <1>0, Zenon
    <1>2. Peer(a) = b /\ Peer(b) = a
        BY <1>1 DEF Peer
    <1>3. e = a \/ e = b  BY <1>1
    <1>4. QED  BY <1>1, <1>2, <1>3

LEMMA InitInv == Init => IInv
    <1> SUFFICES ASSUME Init PROVE IInv
        OBVIOUS
    <1>1. NULL \in Seq(AllBytes)  BY DEF NULL, AllBytes
    <1>2. << >> \in Seq(Messages) /\ << >> \in Seq(Handable) /\ << >> \in Seq(AllBytes)
        OBVIOUS
    <1>3. Types
        <2>1. sent \in [Ends -> Seq(Messages)] /\ got \in [Ends -> Seq(Handable)]
            BY <1>2, Zenon DEF Init
        <2>2. /\ stream \in [Ends -> Seq(AllBytes)] /\ out \in [Ends -> Seq(AllBytes)]
              /\ wire \in [Ends -> Seq(AllBytes)] /\ inbuf \in [Ends -> Seq(AllBytes)]
              /\ pkc_buf \in [Ends -> Seq(AllBytes)]
            BY <1>1, <1>2, Zenon DEF Init
        <2>3. /\ pkc_left \in [Ends -> Int] /\ pkc_hdr \in [Ends -> Nat]
              /\ pc \in [Ends -> Places] /\ wback \in [Ends -> Backs]
              /\ hback \in [Ends -> Backs] /\ broken \in BOOLEAN
              /\ overrun \in [Ends -> BOOLEAN]
              /\ cut \in [Ends -> BOOLEAN] /\ clash \in [Ends -> BOOLEAN]
            <3>1. -1 \in Int /\ 0 \in Nat  OBVIOUS
            <3>2. "idle" \in Places /\ "idle" \in Backs  BY DEF Places, Backs
            <3>3. FALSE \in BOOLEAN  OBVIOUS
            <3>4. QED  BY <3>1, <3>2, <3>3, Zenon DEF Init
        <2>4. QED  BY <2>1, <2>2, <2>3, Zenon DEF Types
    <1>4. ASSUME NEW e \in Ends
          PROVE  Sender(e) /\ Receiver(e) /\ Line(e)
        <2> DEFINE q == Peer(e)
        <2>1. q \in Ends  BY PeerOf
        <2> HIDE DEF q
        <2>2. /\ sent[e] = << >> /\ stream[e] = << >> /\ out[e] = << >> /\ wire[e] = << >>
              /\ sent[q] = << >> /\ stream[q] = << >> /\ out[q] = << >> /\ wire[q] = << >>
              /\ got[q] = << >> /\ inbuf[e] = << >> /\ pkc_left[e] = -1 /\ pkc_hdr[e] = 0
              /\ pkc_buf[e] = NULL /\ pc[e] = "idle" /\ broken = FALSE
              /\ cut[e] = FALSE /\ clash[e] = FALSE
            BY <2>1 DEF Init
        <2>3. Len(<< >>) = 0 /\ 1 .. 0 = {} /\ 0 + 1 = 1 /\ 0 <= StreamLen /\ 0 <= KernelBuf
            BY PkgAssumption
        <2>4. Sender(e)  BY <2>2, <2>3 DEF Sender, Fits
        <2>5. Receiver(e)  BY <2>2, <2>3 DEF Receiver, q
        <2>6. Line(e)
            <3>1. NextOf(e) = 1  BY <2>2, <2>3 DEF NextOf, q
            <3>2. Parsed(e) = 0  BY <2>2 DEF Parsed
            <3>3. QED  BY <2>2, <3>1, <3>2, NothingLinked, Zenon DEF Line, q
        <2>7. QED  BY <2>4, <2>5, <2>6
    <1>5. QED  BY <1>3, <1>4 DEF IInv

(* A step parses nothing at x, which may be closed in it.                  *)
KeepsParse(x) ==
    /\ pkc_left'[x] = pkc_left[x] /\ pkc_hdr'[x] = pkc_hdr[x] /\ pkc_buf'[x] = pkc_buf[x]
    /\ got'[Peer(x)] = got[Peer(x)] /\ cut'[x] = cut[x] /\ clash'[x] = clash[x]
    /\ \/ pc'[x] = "closed"
       \/ pc[x] # "closed" /\ (pc'[x] = "wait data" <=> pc[x] = "wait data")

(* What a step of its peer leaves alone at x, wire[x] apart.               *)
Untouched(x) ==
    /\ sent'[x] = sent[x] /\ stream'[x] = stream[x] /\ out'[x] = out[x]
    /\ overrun'[x] = overrun[x] /\ pc'[x] = pc[x] /\ inbuf'[x] = inbuf[x] /\ KeepsParse(x)

(* An end reads, or does not.                                              *)
Reads(e) ==
    \E n \in 0 .. Len(wire[Peer(e)]) :
        /\ inbuf'[e] = inbuf[e] \o SubSeq(wire[Peer(e)], 1, n)
        /\ wire'[Peer(e)] = SubSeq(wire[Peer(e)], n + 1, Len(wire[Peer(e)]))

KeepsInput(e) == inbuf'[e] = inbuf[e] /\ wire'[Peer(e)] = wire[Peer(e)]

(* Messages are added to those sent, and none is taken back.               *)
Grown(m, m2) ==
    /\ m2 \in Seq(Messages) /\ Len(m2) >= Len(m)
    /\ \A i \in 1 .. Len(m) : m2[i] = m[i]

(* The next bytes of x, as they are after the step.                        *)
StaysLinked(x) ==
    pc[x] # "closed" =>
        Linked(broken', sent'[Peer(x)], NextOf(x), Parsed(x), inbuf'[x], wire'[Peer(x)],
               out'[Peer(x)], stream'[Peer(x)])

LEMMA TypedAt ==
    ASSUME Types, NEW e \in Ends
    PROVE  /\ sent[e] \in Seq(Messages) /\ got[e] \in Seq(Handable)
           /\ stream[e] \in Seq(Byte) /\ out[e] \in Seq(Byte)
           /\ wire[e] \in Seq(Byte) /\ inbuf[e] \in Seq(Byte)
           /\ pkc_left[e] \in Int /\ pkc_hdr[e] \in Nat /\ pkc_buf[e] \in Seq(Byte)
           /\ pc[e] \in Places /\ wback[e] \in Backs /\ hback[e] \in Backs
           /\ cut[e] \in BOOLEAN /\ clash[e] \in BOOLEAN
           /\ overrun[e] \in BOOLEAN /\ broken \in BOOLEAN
    BY DEF Types, Byte

LEMMA InvAt ==
    ASSUME IInv, NEW e \in Ends
    PROVE  /\ Types /\ Sender(e) /\ Receiver(e) /\ Line(e)
           /\ Sender(Peer(e)) /\ Receiver(Peer(e)) /\ Line(Peer(e))
    BY PeerOf, Zenon DEF IInv

(* How much of the next message was parsed.                                *)
LEMMA ParsedIsNat ==
    ASSUME Types, NEW e \in Ends, Receiver(e)
    PROVE  NextOf(e) \in Nat \ {0} /\ Parsed(e) \in Nat
    <1> DEFINE q == Peer(e)
               i == NextOf(e)
    <1>1. q \in Ends /\ sent[q] \in Seq(Messages) /\ got[q] \in Seq(Handable)
        BY PeerOf, TypedAt
    <1>2. i \in Nat \ {0}
        <2> DEFINE g == Len(got[q])
        <2>1. g \in Nat  BY <1>1, LenIsNat, Zenon
        <2>2. i = g + 1  BY DEF NextOf
        <2> HIDE DEF g, i
        <2>3. QED  BY <2>1, <2>2
    <1>3. CASE pkc_left[e] >= 0
        <2>1. i <= Len(sent[q]) /\ pkc_left[e] \in 0 .. sent[q][i].len
            BY <1>3, Zenon DEF Receiver, Begun
        <2> DEFINE l == Len(sent[q])
        <2>2. l \in Nat  BY <1>1, LenIsNat, Zenon
        <2> HIDE DEF i
        <2>3. i \in 1 .. l
            <3> HIDE DEF l
            <3>1. QED  BY <1>2, <2>1, <2>2 DEF l
        <2>4. sent[q][i].len \in Nat  BY <1>1, <2>3, MessagesHaveSizes, Zenon DEF Sizes
        <2> DEFINE len == sent[q][i].len
                   left == pkc_left[e]
        <2>5. Parsed(e) = HdrLen \/ Parsed(e) = 0 \/ Parsed(e) = (HdrLen + len) - left
            <3>1. i = NextOf(e)  BY DEF i
            <3> DEFINE sz == HdrLen + len
            <3>2. Size(sent[q], NextOf(e)) = sz  BY <3>1 DEF Size
            <3> HIDE DEF sz
            <3>3. Parsed(e) = HdrLen \/ Parsed(e) = 0 \/ Parsed(e) = sz - left
                BY <3>2, Zenon DEF Parsed
            <3>4. QED  BY <3>3, Zenon DEF sz
        <2>6. left \in 0 .. len /\ len \in Nat /\ HdrLen \in Nat
            BY <2>1, <2>4, PkgAssumption
        <2> HIDE DEF len, left
        <2>7. Parsed(e) \in Nat  BY ONLY <2>5, <2>6
        <2>8. QED  BY <1>2, <2>7 DEF i
    <1>4. CASE ~(pkc_left[e] >= 0)
        <2>1. pkc_left[e] \in Int  BY TypedAt
        <2>2. pkc_left[e] < 0
            <3> DEFINE left == pkc_left[e]
            <3> HIDE DEF left
            <3>1. left < 0  BY <1>4, <2>1 DEF left
            <3>2. QED  BY <3>1 DEF left
        <2>3. Parsed(e) = HdrLen \/ Parsed(e) = 0  BY <2>2 DEF Parsed
        <2>4. QED  BY <1>2, <2>3, PkgAssumption
    <1>5. QED  BY <1>3, <1>4

LEMMA FitsKept ==
    ASSUME Types, NEW x \in Ends, Fits(x), stream'[x] = stream[x], overrun'[x] = overrun[x]
    PROVE  Fits(x)'
    <1>1. overrun[x] \in BOOLEAN  BY TypedAt
    <1>2. QED  BY <1>1 DEF Fits

(* A broken connection stays broken.                                       *)
LEMMA StillCut ==
    ASSUME Types, NEW x \in Ends, cut'[x] = cut[x], clash'[x] = clash[x],
           broken' = broken \/ broken' = TRUE
    PROVE  /\ (cut[x] \/ broken) => (cut'[x] \/ broken')
           /\ (clash[x] => cut[x] \/ broken) => (clash'[x] => cut'[x] \/ broken')
    <1>1. cut[x] \in BOOLEAN /\ clash[x] \in BOOLEAN /\ broken \in BOOLEAN  BY TypedAt
    <1>2. QED  BY <1>1

LEMMA ParseKept ==
    ASSUME IInv, NEW x \in Ends, KeepsParse(x), Grown(sent[Peer(x)], sent'[Peer(x)]),
           StaysLinked(x), broken' = broken \/ broken' = TRUE
    PROVE  Receiver(x)' /\ Line(x)'
    <1> DEFINE q == Peer(x)
               m == sent[q]
               m2 == sent'[q]
               i == NextOf(x)
    <1>1. Types /\ Receiver(x) /\ i \in Nat \ {0} /\ Parsed(x) \in Nat
        BY InvAt, ParsedIsNat, Zenon
    <1>2. NextOf(x)' = i
        BY DEF KeepsParse, NextOf
    <1>3. m \in Seq(Messages) /\ Len(m) \in Nat /\ m2 \in Seq(Messages) /\ Len(m2) \in Nat
          /\ Len(m2) >= Len(m) /\ \A k \in 1 .. Len(m) : m2[k] = m[k]
        BY <1>1, PeerOf, TypedAt, LenIsNat, Zenon DEF Grown
    <1>4. ASSUME NEW left, NEW h, NEW b, Begun(m, i, left, h, b)
          PROVE  m2[i] = m[i] /\ Begun(m2, i, left, h, b)
        <2>1. i <= Len(m)  BY <1>4, Zenon DEF Begun
        <2> DEFINE l == Len(m)
                   l2 == Len(m2)
        <2>2. i \in 1 .. l /\ i <= l2
            <3>1. i \in Nat \ {0} /\ l \in Nat /\ l2 \in Nat /\ l2 >= l /\ i <= l
                BY <1>1, <1>3, <2>1
            <3> HIDE DEF l, l2, i
            <3>2. QED  BY ONLY <3>1
        <2>3. m2[i] = m[i]  BY <1>3, <2>2, Zenon
        <2> HIDE DEF i
        <2>4. QED  BY <1>4, <2>2, <2>3, Zenon DEF Begun
    <1>5. /\ pkc_left'[x] = pkc_left[x] /\ pkc_hdr'[x] = pkc_hdr[x]
          /\ pkc_buf'[x] = pkc_buf[x] /\ cut'[x] = cut[x] /\ clash'[x] = clash[x]
          /\ \/ pc'[x] = "closed"
             \/ pc[x] # "closed" /\ (pc'[x] = "wait data" <=> pc[x] = "wait data")
        BY Zenon DEF KeepsParse
    <1>6. Receiver(x)'
        <2>0. /\ (cut[x] \/ broken) => (cut'[x] \/ broken')
              /\ (clash[x] => cut[x] \/ broken) => (clash'[x] => cut'[x] \/ broken')
            BY <1>1, <1>5, StillCut, Zenon
        <2>1. pkc_left'[x] >= -1 /\ (clash'[x] => cut'[x] \/ broken')
            BY <1>1, <1>5, <2>0, Zenon DEF Receiver
        <2>2. pkc_hdr'[x] <= Len(m2)
            <3> DEFINE h == pkc_hdr[x]
                       l == Len(m)
                       l2 == Len(m2)
            <3>1. h \in Nat /\ h <= l  BY <1>1, TypedAt, Zenon DEF Receiver
            <3>2. l \in Nat /\ l2 \in Nat /\ l2 >= l  BY <1>3
            <3> HIDE DEF h, l, l2
            <3>3. h <= l2  BY ONLY <3>1, <3>2
            <3>4. QED  BY <3>3, <1>5, Zenon DEF h, l2
        <2> DEFINE left == pkc_left[x]
                   h == pkc_hdr[x]
                   b == pkc_buf[x]
        <2>3. left >= 0 => pc'[x] # "wait data" /\ Begun(m2, i, left, h, b)
            <3>1. left >= 0 => pc[x] # "wait data" /\ Begun(m, i, left, h, b)
                BY <1>1, Zenon DEF Receiver
            <3>2. QED  BY <1>4, <1>5, <3>1, Zenon
        <2>4. pc'[x] = "wait data" => Begun(m2, i, m2[i].len, h, b)
            <3>1. pc[x] = "wait data" => Begun(m, i, m[i].len, h, b)
                BY <1>1, Zenon DEF Receiver
            <3>2. pc'[x] = "wait data" => pc[x] = "wait data"
                BY <1>5
            <3>3. QED  BY <1>4, <3>1, <3>2, Zenon
        <2>5. left < 0 /\ pc'[x] \notin {"wait data", "closed"} /\ b # NULL
                  => cut'[x] \/ broken'
            <3>1. pc'[x] \notin {"wait data", "closed"} => pc[x] \notin {"wait data", "closed"}
                BY <1>5
            <3>2. QED  BY <1>1, <2>0, <3>1, Zenon DEF Receiver
        <2>6. QED
            BY <1>2, <1>5, <2>1, <2>2, <2>3, <2>4, <2>5, Zenon DEF Receiver
    <1>7. ASSUME pc'[x] # "closed"
          PROVE  Parsed(x)' = Parsed(x)
        <2>1. pc'[x] = "wait data" <=> pc[x] = "wait data"  BY <1>5, <1>7
        <2>2. pkc_left[x] < 0 \/ pkc_left[x] >= 0
            BY <1>1, TypedAt
        <2>3. pkc_left[x] >= 0 => m2[i] = m[i]  BY <1>1, <1>4, Zenon DEF Receiver
        <2>4. pkc_left[x] >= 0 => Size(m2, i) = Size(m, i)
            BY <2>3, Zenon DEF Size
        <2>5. QED  BY <1>2, <1>5, <2>1, <2>2, <2>4, Zenon DEF Parsed
    <1>8. Line(x)'
        <2>1. CASE pc'[x] = "closed"  BY <2>1, Zenon DEF Line
        <2>2. CASE pc'[x] # "closed"
            <3>1. Linked(broken', m2, i, Parsed(x), inbuf'[x], wire'[q], out'[q], stream'[q])
                BY <1>5, <2>2, Zenon DEF StaysLinked
            <3>2. QED  BY <1>2, <1>7, <2>2, <3>1, Zenon DEF Line
        <2>3. QED  BY <2>1, <2>2, Zenon
    <1>9. QED  BY <1>6, <1>8, Zenon

LEMMA LinkedAt ==
    ASSUME IInv, NEW x \in Ends, pc[x] # "closed"
    PROVE  Linked(broken, sent[Peer(x)], NextOf(x), Parsed(x), inbuf[x], wire[Peer(x)],
                  out[Peer(x)], stream[Peer(x)])
    BY InvAt, Zenon DEF Line

LEMMA BytesAt ==
    ASSUME IInv, NEW x \in Ends
    PROVE  /\ Peer(x) \in Ends /\ Peer(Peer(x)) = x
           /\ sent[Peer(x)] \in Seq(Messages) /\ got[Peer(x)] \in Seq(Handable)
           /\ NextOf(x) \in Nat /\ Parsed(x) \in Nat
           /\ inbuf[x] \in Seq(Byte) /\ wire[Peer(x)] \in Seq(Byte)
           /\ out[Peer(x)] \in Seq(Byte) /\ stream[Peer(x)] \in Seq(Byte)
           /\ broken \in BOOLEAN /\ (broken => wire[Peer(x)] = << >>)
    <1>1. Types /\ Receiver(x) /\ Sender(Peer(x))  BY InvAt, Zenon
    <1>2. NextOf(x) \in Nat \ {0} /\ Parsed(x) \in Nat  BY <1>1, ParsedIsNat, Zenon
    <1>3. NextOf(x) \in Nat  BY <1>2
    <1>4. Peer(x) \in Ends /\ Peer(Peer(x)) = x  BY PeerOf, Zenon
    <1>5. QED  BY <1>1, <1>2, <1>3, <1>4, TypedAt, Zenon DEF Sender

(* Whether it reads or not, the bytes of an end stay in line.              *)
LEMMA ReadStays ==
    ASSUME IInv, NEW x \in Ends, broken' = broken, sent'[Peer(x)] = sent[Peer(x)],
           out'[Peer(x)] = out[Peer(x)], stream'[Peer(x)] = stream[Peer(x)],
           Reads(x) \/ KeepsInput(x)
    PROVE  StaysLinked(x)
    <1> SUFFICES ASSUME pc[x] # "closed"
                 PROVE  Linked(broken', sent'[Peer(x)], NextOf(x), Parsed(x), inbuf'[x],
                               wire'[Peer(x)], out'[Peer(x)], stream'[Peer(x)])
        BY Zenon DEF StaysLinked
    <1>1. CASE KeepsInput(x)  BY <1>1, LinkedAt, Zenon DEF KeepsInput
    <1>2. CASE Reads(x)
        <2>1. PICK n \in 0 .. Len(wire[Peer(x)]) :
                 /\ inbuf'[x] = inbuf[x] \o SubSeq(wire[Peer(x)], 1, n)
                 /\ wire'[Peer(x)] = SubSeq(wire[Peer(x)], n + 1, Len(wire[Peer(x)]))
            BY <1>2, Zenon DEF Reads
        <2>2. Linked(broken, sent[Peer(x)], NextOf(x), Parsed(x),
                     inbuf[x] \o SubSeq(wire[Peer(x)], 1, n),
                     SubSeq(wire[Peer(x)], n + 1, Len(wire[Peer(x)])),
                     out[Peer(x)], stream[Peer(x)])
            BY LinkedAt, BytesAt, ReadLinked, Zenon
        <2>3. QED  BY <2>1, <2>2, Zenon
    <1>3. QED  BY <1>1, <1>2, Zenon

LEMMA ReadsFit ==
    ASSUME Types, NEW x \in Ends, Sender(Peer(x)), Reads(x) \/ KeepsInput(x)
    PROVE  /\ inbuf'[x] \in Seq(Byte) /\ wire'[Peer(x)] \in Seq(Byte)
           /\ Len(wire'[Peer(x)]) <= KernelBuf
           /\ broken => wire'[Peer(x)] = << >>
    <1> DEFINE w == wire[Peer(x)]
    <1>1. /\ inbuf[x] \in Seq(Byte) /\ w \in Seq(Byte) /\ Len(w) <= KernelBuf
          /\ (broken => w = << >>) /\ Len(w) \in Nat
        BY PeerOf, TypedAt, LenIsNat, Zenon DEF Sender
    <1>2. CASE KeepsInput(x)  BY <1>1, <1>2, Zenon DEF KeepsInput
    <1>3. CASE Reads(x)
        <2>1. PICK n \in 0 .. Len(w) :
                 /\ inbuf'[x] = inbuf[x] \o SubSeq(w, 1, n)
                 /\ wire'[Peer(x)] = SubSeq(w, n + 1, Len(w))
            BY <1>3, Zenon DEF Reads
        <2> DEFINE w2 == SubSeq(w, n + 1, Len(w))
        <2>2. SubSeq(w, 1, n) \in Seq(Byte) /\ w2 \in Seq(Byte) /\ Len(w2) = Len(w) - n
            <3>1. w \in Seq(Byte)  BY <1>1, Zenon
            <3> HIDE DEF w
            <3>2. QED  BY ONLY <3>1, n \in 0 .. Len(w), CutElements
        <2>3. inbuf[x] \o SubSeq(w, 1, n) \in Seq(Byte)
            BY <1>1, <2>2, JoinElements, Zenon
        <2> DEFINE lw == Len(w)
        <2>4. lw - n <= KernelBuf
            <3>1. lw \in Nat /\ n \in 0 .. lw /\ lw <= KernelBuf  BY <1>1
            <3> HIDE DEF lw
            <3>2. QED  BY <3>1, PkgAssumption
        <2>5. ASSUME broken  PROVE w2 = << >>
            <3>1. Len(w) = 0  BY <1>1, <2>5
            <3>2. n = 0  BY <3>1
            <3>3. Len(w2) = 0  BY <2>2, <3>1, <3>2
            <3> HIDE DEF w2
            <3>4. QED  BY <2>2, <3>3, EmptySeq
        <2>6. QED  BY <2>1, <2>2, <2>3, <2>4, <2>5, Zenon
    <1>4. QED  BY <1>2, <1>3, Zenon

(* A message is queued, or sent with what is queued, or queued when that   *)
(* has been sent.                                                          *)
Queues(e, m) ==
    /\ sent'[e] = Append(sent[e], m) /\ inbuf'[Peer(e)] = inbuf[Peer(e)]
    /\ wire'[e] = wire[e]
    /\ \/ /\ out'[e] = out[e]
          /\ stream'[e] = stream[e] \o Bytes(Len(sent[e]) + 1, m.len)
       \/ /\ out[e] = << >>
          /\ out'[e] = stream[e] \o Bytes(Len(sent[e]) + 1, m.len) /\ stream'[e] = << >>
       \/ /\ out[e] = << >>
          /\ out'[e] = stream[e] /\ stream'[e] = Bytes(Len(sent[e]) + 1, m.len)

LEMMA BytesAreBytes ==
    ASSUME NEW i \in Nat, NEW len \in Nat
    PROVE  Bytes(i, len) \in Seq(Byte) /\ Len(Bytes(i, len)) = HdrLen + len
    <1> DEFINE h == HdrLen + len
               b == [k \in 1 .. h |-> <<i, k>>]
    <1>1. h \in Nat  BY PkgAssumption
    <1> HIDE DEF h
    <1>2. \A k \in 1 .. h : <<i, k>> \in Byte  BY DEF Byte, AllBytes
    <1>3. b \in [1 .. h -> Byte]  BY <1>2, Zenon
    <1>4. b \in Seq(Byte)
        BY <1>1, <1>3, SeqDef, Zenon
    <1>5. Len(b) = h  BY <1>1, <1>3, LenProperties, <1>4
    <1>6. Bytes(i, len) = b  BY DEF Bytes, h
    <1>7. QED  BY <1>4, <1>5, <1>6, Zenon DEF h

LEMMA QueueStaysUp ==
    ASSUME IInv, NEW e \in Ends, NEW m \in Messages, broken' = broken, broken = FALSE,
           Queues(e, m)
    PROVE  StaysLinked(Peer(e))
    <1> DEFINE x == Peer(e)
               s == sent[e]
               b == Bytes(Len(s) + 1, m.len)
               in == inbuf[x]
               w == wire[e]
               i == NextOf(x)
               c == Parsed(x)
    <1> SUFFICES ASSUME pc[x] # "closed"
                 PROVE  Linked(broken', sent'[e], i, c, inbuf'[x], wire'[e], out'[e], stream'[e])
        BY PeerOf, Zenon DEF StaysLinked
    <1>0. x \in Ends /\ Peer(x) = e  BY PeerOf, Zenon
    <1>1. Linked(broken, s, i, c, in, w, out[e], stream[e])
        BY <1>0, LinkedAt, Zenon
    <1>2. /\ s \in Seq(Messages) /\ i \in Nat /\ c \in Nat /\ in \in Seq(Byte)
          /\ w \in Seq(Byte) /\ out[e] \in Seq(Byte) /\ stream[e] \in Seq(Byte)
        BY <1>0, BytesAt, Zenon
    <1>3. /\ sent'[e] = Append(s, m) /\ inbuf'[x] = in /\ wire'[e] = w
          /\ broken = FALSE /\ broken' = FALSE
        BY Zenon DEF Queues
    <1>4. << >> \in Seq(Byte)  OBVIOUS
    <1>5. Len(s) \in Nat /\ m.len \in Nat
        BY <1>2, LenIsNat, PkgAssumption DEF Messages
    <1>6. b \in Seq(Byte)
        <2>1. Len(s) + 1 \in Nat  BY <1>5
        <2>2. QED  BY <2>1, <1>5, BytesAreBytes, Zenon
    <1>7. Linked(FALSE, Append(s, m), i, c, in, w, out[e], stream[e] \o b)
        BY <1>1, <1>2, <1>3, QueueLinked, Zenon
    <1>8. CASE out'[e] = out[e] /\ stream'[e] = stream[e] \o b
        BY <1>3, <1>7, <1>8, Zenon
    <1>9. CASE out[e] = << >> /\ out'[e] = stream[e] \o b /\ stream'[e] = << >>
        <2>1. stream[e] \o b \in Seq(Byte)  BY <1>2, <1>6, JoinElements, Zenon
        <2>2. Linked(FALSE, Append(s, m), i, c, in, w, << >>, stream[e] \o b)
            BY <1>7, <1>9, Zenon
        <2>3. Linked(FALSE, Append(s, m), i, c, in, w, stream[e] \o b, << >>)
            BY <1>2, <2>1, <2>2, FlushLinked, Zenon
        <2>4. QED  BY <1>3, <1>9, <2>3, Zenon
    <1>10. CASE out[e] = << >> /\ out'[e] = stream[e] /\ stream'[e] = b
        <2>1. Linked(FALSE, s, i, c, in, w, << >>, stream[e])
            BY <1>1, <1>3, <1>10, Zenon
        <2>2. Linked(FALSE, s, i, c, in, w, stream[e], << >>)
            BY <1>2, <2>1, FlushLinked, Zenon
        <2>3. Linked(FALSE, Append(s, m), i, c, in, w, stream[e], << >> \o b)
            BY <1>2, <1>4, <2>2, QueueLinked, Zenon
        <2>4. << >> \o b = b  BY <1>6, ConcatEmptySeq, Zenon
        <2>5. QED  BY <1>3, <1>10, <2>3, <2>4, Zenon
    <1>11. QED  BY <1>8, <1>9, <1>10, Zenon DEF Queues

(* On a broken connection what is sent changes nothing for the reader.     *)
LEMMA QueueStays ==
    ASSUME IInv, NEW e \in Ends, NEW m \in Messages, broken' = broken, Queues(e, m)
    PROVE  StaysLinked(Peer(e))
    <1> DEFINE x == Peer(e)
    <1>0. x \in Ends /\ Peer(x) = e  BY PeerOf, Zenon
    <1>1. CASE broken = FALSE  BY <1>1, QueueStaysUp, Zenon
    <1>2. CASE broken = TRUE
        <2> SUFFICES ASSUME pc[x] # "closed"
                     PROVE  Linked(broken', sent'[e], NextOf(x), Parsed(x), inbuf'[x], wire'[e],
                                   out'[e], stream'[e])
            BY <1>0, Zenon DEF StaysLinked
        <2>1. Linked(TRUE, sent[e], NextOf(x), Parsed(x), inbuf[x], wire[e], out[e], stream[e])
            BY <1>0, <1>2, LinkedAt, Zenon
        <2>2. sent[e] \in Seq(Messages)  BY <1>0, BytesAt, Zenon
        <2>3. Linked(TRUE, Append(sent[e], m), NextOf(x), Parsed(x), inbuf[x], wire'[e],
                     out'[e], stream'[e])
            BY <2>1, <2>2, GrowLinked, Zenon
        <2>4. broken' = TRUE /\ sent'[e] = Append(sent[e], m) /\ inbuf'[x] = inbuf[x]
            BY <1>2, Zenon DEF Queues
        <2>5. QED  BY <2>3, <2>4, Zenon
    <1>3. broken \in BOOLEAN  BY <1>0, BytesAt, Zenon
    <1>4. broken = FALSE \/ broken = TRUE  BY ONLY <1>3
    <1>5. QED  BY <1>1, <1>2, <1>4, Zenon

(* On a broken connection only what is read already matters.               *)
LEMMA BrokenStays ==
    ASSUME IInv, NEW x \in Ends, broken' = TRUE, sent'[Peer(x)] = sent[Peer(x)],
           inbuf'[x] = inbuf[x]
    PROVE  StaysLinked(x)
    <1> SUFFICES ASSUME pc[x] # "closed"
                 PROVE  Linked(TRUE, sent[Peer(x)], NextOf(x), Parsed(x), inbuf[x],
                               wire'[Peer(x)], out'[Peer(x)], stream'[Peer(x)])
        BY Zenon DEF StaysLinked
    <1>1. Linked(broken, sent[Peer(x)], NextOf(x), Parsed(x), inbuf[x], wire[Peer(x)],
                 out[Peer(x)], stream[Peer(x)])
        BY LinkedAt, Zenon
    <1>2. broken \in BOOLEAN  BY BytesAt, Zenon
    <1>3. QED  BY <1>1, <1>2, BreakLinked, Zenon

(* write() takes what is queued, or some of what it was given.             *)
LEMMA FlushStays ==
    ASSUME IInv, NEW e \in Ends, broken' = broken, sent'[e] = sent[e],
           inbuf'[Peer(e)] = inbuf[Peer(e)], wire'[e] = wire[e],
           out[e] = << >>, out'[e] = stream[e], stream'[e] = << >>
    PROVE  StaysLinked(Peer(e))
    <1> DEFINE x == Peer(e)
    <1>0. x \in Ends /\ Peer(x) = e /\ broken \in BOOLEAN  BY PeerOf, InvAt, TypedAt, Zenon
    <1>1. CASE broken = TRUE
        <2>1. broken' = TRUE  BY <1>1, Zenon
        <2>2. QED  BY <1>0, <2>1, BrokenStays, Zenon
    <1>2. CASE broken = FALSE
        <2> SUFFICES ASSUME pc[x] # "closed"
                     PROVE  Linked(broken', sent'[e], NextOf(x), Parsed(x), inbuf'[x], wire'[e],
                                   out'[e], stream'[e])
            BY <1>0, Zenon DEF StaysLinked
        <2>1. Linked(FALSE, sent[e], NextOf(x), Parsed(x), inbuf[x], wire[e], << >>, stream[e])
            BY <1>0, <1>2, LinkedAt, Zenon
        <2>2. Linked(FALSE, sent[e], NextOf(x), Parsed(x), inbuf[x], wire[e], stream[e], << >>)
            BY <1>0, <2>1, BytesAt, FlushLinked, Zenon
        <2>3. QED  BY <1>2, <2>2, Zenon
    <1>3. broken = TRUE \/ broken = FALSE  BY ONLY <1>0
    <1>4. QED  BY <1>1, <1>2, <1>3, Zenon

LEMMA WriteStays ==
    ASSUME IInv, NEW e \in Ends, broken' = broken, ~broken, sent'[e] = sent[e],
           inbuf'[Peer(e)] = inbuf[Peer(e)], stream'[e] = stream[e],
           NEW n \in 0 .. Len(out[e]), wire'[e] = wire[e] \o SubSeq(out[e], 1, n),
           out'[e] = SubSeq(out[e], n + 1, Len(out[e]))
    PROVE  StaysLinked(Peer(e))
    <1> DEFINE x == Peer(e)
    <1> SUFFICES ASSUME pc[x] # "closed"
                 PROVE  Linked(broken', sent'[e], NextOf(x), Parsed(x), inbuf'[x], wire'[e],
                               out'[e], stream'[e])
        BY PeerOf, Zenon DEF StaysLinked
    <1>1. x \in Ends /\ Peer(x) = e  BY PeerOf, Zenon
    <1>2. broken = FALSE  BY TypedAt, InvAt
    <1>3. Linked(FALSE, sent[e], NextOf(x), Parsed(x), inbuf[x], wire[e], out[e], stream[e])
        BY <1>1, <1>2, LinkedAt, Zenon
    <1>4. Linked(FALSE, sent[e], NextOf(x), Parsed(x), inbuf[x],
                 wire[e] \o SubSeq(out[e], 1, n), SubSeq(out[e], n + 1, Len(out[e])), stream[e])
        BY <1>1, <1>3, BytesAt, WriteLinked, Zenon
    <1>5. QED  BY <1>2, <1>4, Zenon

LEMMA GrownBy ==
    ASSUME NEW m \in Seq(Messages)
    PROVE  Grown(m, m) /\ \A x \in Messages : Grown(m, Append(m, x))
    <1>1. Len(m) \in Nat  BY LenIsNat, Zenon
    <1>2. Grown(m, m)
        <2>1. Len(m) >= Len(m)  BY <1>1
        <2>2. QED  BY <2>1, Zenon DEF Grown
    <1>3. ASSUME NEW x \in Messages  PROVE Grown(m, Append(m, x))
        <2> DEFINE l == Len(m)
        <2>1. Append(m, x) \in Seq(Messages) /\ Len(Append(m, x)) = l + 1
              /\ \A i \in 1 .. l : Append(m, x)[i] = m[i]
            BY AppendedMessages, Zenon
        <2>2. l + 1 >= l
            <3> HIDE DEF l
            <3>1. QED  BY <1>1 DEF l
        <2>3. QED  BY <2>1, <2>2, Zenon DEF Grown
    <1>4. QED  BY <1>2, <1>3, Zenon

-----------------------------------------------------------------------------
(* What is left to show of a step that parses nothing, and of one that     *)
(* only parses.                                                            *)

LEMMA PeerSends ==
    ASSUME IInv, NEW e \in Ends, broken' = broken, Untouched(Peer(e)),
           Reads(e) \/ KeepsInput(e)
    PROVE  Sender(Peer(e))'
    <1> DEFINE p == Peer(e)
    <1>1. Types /\ Sender(p)  BY InvAt, Zenon
    <1>2. Len(wire'[p]) <= KernelBuf /\ (broken => wire'[p] = << >>)
        BY <1>1, ReadsFit, Zenon
    <1>3. /\ sent'[p] = sent[p] /\ stream'[p] = stream[p] /\ pc'[p] = pc[p]
          /\ out'[p] = out[p] /\ overrun'[p] = overrun[p]
        BY Zenon DEF Untouched
    <1>4. Fits(p)'
        <2>1. p \in Ends /\ Fits(p)  BY <1>1, PeerOf, Zenon DEF Sender
        <2>2. QED  BY <1>1, <1>3, <2>1, FitsKept, Zenon
    <1> HIDE DEF p
    <1>5. QED  BY <1>1, <1>2, <1>3, <1>4, Zenon DEF Sender, p

LEMMA InvFrom ==
    ASSUME NEW e \in Ends, Types', Sender(e)', Receiver(e)', Line(e)', Sender(Peer(e))',
           Receiver(Peer(e))', Line(Peer(e))'
    PROVE  IInv'
    <1>1. ASSUME NEW x \in Ends  PROVE (Sender(x) /\ Receiver(x) /\ Line(x))'
        <2>1. x = e \/ x = Peer(e)  BY PeerOf, Zenon
        <2>2. CASE x = e  BY <2>2
        <2>3. CASE x = Peer(e)  BY <2>3
        <2>4. QED  BY <2>1, <2>2, <2>3, Zenon
    <1>2. QED  BY <1>1, Zenon DEF IInv

LEMMA OutputStep ==
    ASSUME IInv, NEW e \in Ends, Types', broken' = broken, Untouched(Peer(e)), KeepsParse(e),
           Grown(sent[e], sent'[e]), Reads(e) \/ KeepsInput(e), Sender(e)',
           StaysLinked(Peer(e))
    PROVE  IInv'
    <1> DEFINE p == Peer(e)
    <1>1. p \in Ends /\ Peer(p) = e  BY PeerOf, Zenon
    <1>2. sent'[p] = sent[p] /\ out'[p] = out[p] /\ stream'[p] = stream[p] /\ KeepsParse(p)
        BY Zenon DEF Untouched
    <1>3. Receiver(e)' /\ Line(e)'
        <2>1. StaysLinked(e)  BY <1>2, ReadStays, Zenon
        <2>2. Grown(sent[p], sent'[p])  BY <1>1, <1>2, BytesAt, GrownBy, Zenon
        <2>3. QED  BY <1>1, <2>1, <2>2, ParseKept, Zenon
    <1>4. Receiver(p)' /\ Line(p)'
        BY <1>1, <1>2, ParseKept, Zenon
    <1>5. Sender(p)'  BY PeerSends, Zenon
    <1>6. QED  BY <1>3, <1>4, <1>5, InvFrom, Zenon

LEMMA ParseStep ==
    ASSUME IInv, NEW e \in Ends, Types', broken' = broken, Untouched(Peer(e)),
           sent'[e] = sent[e], stream'[e] = stream[e], overrun'[e] = overrun[e],
           out'[e] = out[e], wire' = wire, pc[e] # "write", Receiver(e)', Line(e)'
    PROVE  IInv'
    <1> DEFINE p == Peer(e)
    <1>1. p \in Ends /\ Peer(p) = e /\ Types /\ Sender(e) /\ Sender(p)
        BY PeerOf, InvAt, Zenon
    <1>2. Sender(e)'
        <2>1. Fits(e)'  BY <1>1, FitsKept, Zenon DEF Sender
        <2>2. QED  BY <1>1, <2>1, Zenon DEF Sender
    <1>3. /\ overrun'[p] = overrun[p] /\ sent'[p] = sent[p] /\ out'[p] = out[p] /\ stream'[p] = stream[p]
          /\ pc'[p] = pc[p] /\ inbuf'[p] = inbuf[p] /\ KeepsParse(p)
        BY Zenon DEF Untouched
    <1>4. Sender(p)'
        <2>1. Fits(p)'  BY <1>1, <1>3, FitsKept, Zenon DEF Sender
        <2> HIDE DEF p
        <2>2. QED  BY <1>1, <1>3, <2>1, Zenon DEF Sender
    <1>5. StaysLinked(p)
        <2>1. KeepsInput(p)  BY <1>3, Zenon DEF KeepsInput
        <2>2. QED  BY <1>1, <2>1, ReadStays, Zenon
    <1>6. Receiver(p)' /\ Line(p)'
        <2>1. Grown(sent[e], sent'[e])  BY <1>1, BytesAt, GrownBy, Zenon
        <2>2. QED  BY <1>1, <1>3, <1>5, <2>1, ParseKept, Zenon
    <1>7. QED  BY <1>2, <1>4, <1>6, InvFrom, Zenon

-----------------------------------------------------------------------------
(* Output, step by step.                                                   *)

LEMMA Updated ==
    ASSUME NEW S, NEW T, NEW f \in [S -> T], NEW x \in S, NEW v \in T
    PROVE  /\ [f EXCEPT ![x] = v] \in [S -> T]
           /\ [f EXCEPT ![x] = v][x] = v
           /\ \A y \in S : y # x => [f EXCEPT ![x] = v][y] = f[y]
    OBVIOUS

LEMMA ReadEffect ==
    ASSUME IInv, NEW e \in Ends, NEW n \in 0 .. Len(wire[Peer(e)]), Read(e, n)
    PROVE  /\ inbuf' \in [Ends -> Seq(AllBytes)] /\ wire' \in [Ends -> Seq(AllBytes)]
           /\ Reads(e) /\ inbuf'[Peer(e)] = inbuf[Peer(e)] /\ wire'[e] = wire[e]
    <1> DEFINE p == Peer(e)
               i2 == inbuf[e] \o SubSeq(wire[p], 1, n)
               w2 == SubSeq(wire[p], n + 1, Len(wire[p]))
    <1>1. p \in Ends /\ p # e  BY PeerOf, Zenon
    <1>2. /\ inbuf \in [Ends -> Seq(AllBytes)] /\ wire \in [Ends -> Seq(AllBytes)]
          /\ inbuf[e] \in Seq(AllBytes) /\ wire[p] \in Seq(AllBytes)
        BY <1>1, InvAt, Zenon DEF Types
    <1>3. SubSeq(wire[p], 1, n) \in Seq(AllBytes) /\ w2 \in Seq(AllBytes)
        <2> DEFINE w == wire[p]
        <2>1. w \in Seq(AllBytes) /\ n \in 0 .. Len(w)  BY <1>2, Zenon
        <2> HIDE DEF w
        <2>2. SubSeq(w, 1, n) \in Seq(AllBytes) /\ SubSeq(w, n + 1, Len(w)) \in Seq(AllBytes)
            BY ONLY <2>1, CutElements
        <2>3. QED  BY <2>2, Zenon DEF w
    <1>4. i2 \in Seq(AllBytes)  BY <1>2, <1>3, JoinElements, Zenon
    <1>5. inbuf' = [inbuf EXCEPT ![e] = i2] /\ wire' = [wire EXCEPT ![p] = w2]
        BY Zenon DEF Read
    <1> HIDE DEF i2, w2, p
    <1>6. inbuf' \in [Ends -> Seq(AllBytes)] /\ inbuf'[e] = i2 /\ inbuf'[p] = inbuf[p]
        BY <1>1, <1>2, <1>4, <1>5, Updated, Zenon
    <1>7. wire' \in [Ends -> Seq(AllBytes)] /\ wire'[p] = w2 /\ wire'[e] = wire[e]
        BY <1>1, <1>2, <1>3, <1>5, Updated, Zenon
    <1>8. QED  BY <1>6, <1>7, Zenon DEF Reads, i2, w2, p

LEMMA WriteEffect ==
    ASSUME Types, NEW e \in Ends, NEW bytes \in Seq(AllBytes), NEW next \in Backs,
           Write(e, bytes, next)
    PROVE  /\ out' \in [Ends -> Seq(AllBytes)] /\ out'[e] = bytes
           /\ wback' \in [Ends -> Backs]
           /\ pc' \in [Ends -> Places] /\ pc'[e] = "write"
           /\ \A y \in Ends : y # e => out'[y] = out[y] /\ pc'[y] = pc[y]
    <1>1. "write" \in Places  BY DEF Places
    <1>2. /\ out \in [Ends -> Seq(AllBytes)] /\ wback \in [Ends -> Backs]
          /\ pc \in [Ends -> Places]
        BY Zenon DEF Types
    <1>3. /\ out' = [out EXCEPT ![e] = bytes] /\ wback' = [wback EXCEPT ![e] = next]
          /\ pc' = [pc EXCEPT ![e] = "write"]
        BY Zenon DEF Write, Go
    <1>4. out' \in [Ends -> Seq(AllBytes)] /\ out'[e] = bytes
          /\ \A y \in Ends : y # e => out'[y] = out[y]
        BY <1>2, <1>3, Updated, Zenon
    <1>5. wback' \in [Ends -> Backs]
        BY <1>2, <1>3, Updated, Zenon
    <1>6. pc' \in [Ends -> Places] /\ pc'[e] = "write" /\ \A y \in Ends : y # e => pc'[y] = pc[y]
        BY <1>1, <1>2, <1>3, Updated, Zenon
    <1>7. QED  BY <1>4, <1>5, <1>6, Zenon

LEMMA SentEffect ==
    ASSUME Types, NEW e \in Ends, NEW m \in Messages, sent' = [sent EXCEPT ![e] = Append(@, m)]
    PROVE  /\ sent' \in [Ends -> Seq(Messages)] /\ sent'[e] = Append(sent[e], m)
           /\ \A y \in Ends : y # e => sent'[y] = sent[y]
    <1>1. sent \in [Ends -> Seq(Messages)] /\ sent[e] \in Seq(Messages)
        BY Zenon DEF Types
    <1>2. Append(sent[e], m) \in Seq(Messages)  BY <1>1, AppendedMessages, Zenon
    <1>3. QED  BY <1>1, <1>2, Updated, Zenon

LEMMA StreamEffect ==
    ASSUME Types, NEW e \in Ends, NEW bytes \in Seq(AllBytes),
           stream' = [stream EXCEPT ![e] = bytes]
    PROVE  /\ stream' \in [Ends -> Seq(AllBytes)] /\ stream'[e] = bytes
           /\ \A y \in Ends : y # e => stream'[y] = stream[y]
    <1>1. stream \in [Ends -> Seq(AllBytes)]  BY Zenon DEF Types
    <1>2. QED  BY <1>1, Updated, Zenon

(* The lengths of what an end has sent, with one message more.             *)
LEMMA LengthsKept ==
    ASSUME NEW s \in Seq(Messages), NEW m \in Messages, NEW L, m.len \in L,
           \A i \in 1 .. Len(s) : s[i].len \in L
    PROVE  \A i \in 1 .. Len(Append(s, m)) : Append(s, m)[i].len \in L
    <1> DEFINE l == Len(s)
               s2 == Append(s, m)
    <1>1. /\ l \in Nat /\ Len(s2) = l + 1 /\ \A i \in 1 .. l : s2[i] = s[i]
          /\ s2[l + 1] = m
        BY AppendedMessages, LenIsNat, Zenon
    <1>2. \A i \in 1 .. l + 1 : i \in 1 .. l \/ i = l + 1
        <2> HIDE DEF l
        <2>1. QED  BY <1>1
    <1> HIDE DEF l, s2
    <1>3. \A i \in 1 .. Len(s2) : s2[i].len \in L
        BY <1>1, <1>2, Zenon DEF l
    <1>4. QED  BY <1>3, Zenon DEF s2

(* What the message may be that a step sends.                              *)
MaySend(e, m) == m \in Messages /\ m.len \in Lens[e] /\ m.len \in Nat

LEMMA SentIsMessage ==
    ASSUME NEW e \in Ends, NEW kind \in Kinds, NEW len \in Lens[e]
    PROVE  MaySend(e, [kind |-> kind, len |-> len])
    BY PkgAssumption DEF MaySend, Messages

(* What the steps have in common that parse nothing.                       *)
LEMMA PlainStep ==
    ASSUME IInv, NEW e \in Ends, UNCHANGED <<got, parse, hback, broken, history>>,
           sent' \in [Ends -> Seq(Messages)], stream' \in [Ends -> Seq(AllBytes)],
           overrun' \in [Ends -> BOOLEAN], overrun'[Peer(e)] = overrun[Peer(e)],
           out' \in [Ends -> Seq(AllBytes)], wire' \in [Ends -> Seq(AllBytes)],
           inbuf' \in [Ends -> Seq(AllBytes)], pc' \in [Ends -> Places],
           wback' \in [Ends -> Backs],
           sent'[Peer(e)] = sent[Peer(e)], stream'[Peer(e)] = stream[Peer(e)],
           out'[Peer(e)] = out[Peer(e)], pc'[Peer(e)] = pc[Peer(e)],
           inbuf'[Peer(e)] = inbuf[Peer(e)],
           \/ pc[e] \notin {"closed", "wait data"} /\ pc'[e] # "wait data"
           \/ pc'[e] = pc[e]
           \/ pc'[e] = "closed",
           \/ sent'[e] = sent[e]
           \/ \E m \in Messages : m.len \in Lens[e] /\ sent'[e] = Append(sent[e], m),
           Fits(e)', Len(wire'[e]) <= KernelBuf,
           pc'[e] # "write" => out'[e] = << >>, broken => wire'[e] = << >>,
           Reads(e) \/ KeepsInput(e), StaysLinked(Peer(e))
    PROVE  IInv'
    <1> DEFINE p == Peer(e)
    <1>1. p \in Ends /\ p # e /\ Peer(p) = e /\ Types /\ Sender(e)
          /\ sent[e] \in Seq(Messages) /\ broken \in BOOLEAN
        BY PeerOf, InvAt, TypedAt, Zenon
    <1>2. /\ got' = got /\ pkc_left' = pkc_left /\ pkc_hdr' = pkc_hdr /\ pkc_buf' = pkc_buf
          /\ hback' = hback /\ broken' = broken /\ cut' = cut /\ clash' = clash
        BY Zenon DEF parse, history
    <1>3. Types'
        BY <1>1, <1>2, Zenon DEF Types
    <1>4. KeepsParse(e)
        <2>1. \/ pc'[e] = "closed"
              \/ pc[e] # "closed" /\ (pc'[e] = "wait data" <=> pc[e] = "wait data")
            <3>1. CASE pc[e] \notin {"closed", "wait data"} /\ pc'[e] # "wait data"
                BY <3>1, Zenon
            <3>2. CASE pc'[e] = pc[e]
                <4>1. CASE pc[e] = "closed"  BY ONLY <3>2, <4>1
                <4>2. CASE pc[e] # "closed"  BY ONLY <3>2, <4>2
                <4>3. QED  BY <4>1, <4>2, Zenon
            <3>3. QED  BY <3>1, <3>2, Zenon
        <2>2. QED  BY <1>2, <2>1, Zenon DEF KeepsParse
    <1>5. Untouched(p)
        <2>1. \/ pc'[p] = "closed"
              \/ pc[p] # "closed" /\ (pc'[p] = "wait data" <=> pc[p] = "wait data")
            BY Zenon
        <2> HIDE DEF p
        <2>2. KeepsParse(p)  BY <1>2, <2>1, Zenon DEF KeepsParse
        <2>3. QED  BY <2>2, Zenon DEF Untouched, p
    <1>6. Sender(e)'
        <2>1. \A i \in 1 .. Len(sent'[e]) : sent'[e][i].len \in Lens[e]
            <3>1. \A i \in 1 .. Len(sent[e]) : sent[e][i].len \in Lens[e]
                BY <1>1, Zenon DEF Sender
            <3>2. QED  BY <1>1, <3>1, LengthsKept, Zenon
        <2>2. broken' => wire'[e] = << >>
            <3>1. CASE broken = TRUE  BY <3>1, Zenon
            <3>2. CASE broken = FALSE  BY <1>2, <3>2, Zenon
            <3>3. QED  BY <1>1, <3>1, <3>2, Zenon
        <2>3. QED  BY <2>1, <2>2, Zenon DEF Sender
    <1>7. Grown(sent[e], sent'[e])
        BY <1>1, GrownBy, Zenon
    <1>8. QED
        BY <1>2, <1>3, <1>4, <1>5, <1>6, <1>7, OutputStep, Zenon

LEMMA SendStep ==
    ASSUME IInv, NEW e \in Ends, NEW m, MaySend(e, m), NEW next \in Backs,
           pc[e] \notin {"write", "closed", "wait data"},
           pkg_send(e, m, next), UNCHANGED <<got, parse, hback, broken, history>>
    PROVE  IInv'
    <1> DEFINE p == Peer(e)
               b == Bytes(Len(sent[e]) + 1, m.len)
    <1>1. p \in Ends /\ p # e /\ Peer(p) = e /\ Types /\ Sender(e)
        BY PeerOf, InvAt, Zenon
    <1>2. m \in Messages /\ m.len \in Lens[e] /\ m.len \in Nat /\ broken' = broken
        BY Zenon DEF MaySend
    <1>3. /\ sent[e] \in Seq(Messages) /\ stream[e] \in Seq(AllBytes) /\ Len(sent[e]) + 1 \in Nat
          /\ << >> \in Seq(AllBytes)
        <2>1. sent[e] \in Seq(Messages) /\ stream[e] \in Seq(AllBytes)
            BY <1>1, TypedAt, Zenon DEF Byte
        <2> DEFINE l == Len(sent[e])
        <2>2. l \in Nat  BY <2>1, LenIsNat, Zenon
        <2> HIDE DEF l
        <2>3. l + 1 \in Nat  BY ONLY <2>2
        <2>4. << >> \in Seq(AllBytes)  BY EmptySeq, Zenon
        <2>5. QED  BY <2>1, <2>3, <2>4, Zenon DEF l
    <1>4. b \in Seq(AllBytes) /\ stream[e] \o b \in Seq(AllBytes)
        BY <1>2, <1>3, BytesAreBytes, JoinElements, Zenon DEF Byte
    <1>5. /\ sent' = [sent EXCEPT ![e] = Append(@, m)]
          /\ \E next2 \in Backs : Write(e, stream[e] \o b, next2)
          /\ stream' = [stream EXCEPT ![e] = << >>]
          /\ overrun' \in [Ends -> BOOLEAN] /\ overrun'[p] = overrun[p]
          /\ \E n \in 0 .. Len(wire[p]) : Read(e, n)
        <2> DEFINE over == stream[e] # << >> /\ m.len <= MAXQLEN /\ Room(e, m.len) /\ Wraps(e)
                   next2 == IF over THEN "idle" ELSE next
        <2>1. /\ sent' = [sent EXCEPT ![e] = Append(@, m)] /\ Write(e, stream[e] \o b, next2)
              /\ stream' = [stream EXCEPT ![e] = << >>]
              /\ overrun' = [overrun EXCEPT ![e] = over]
              /\ \E n \in 0 .. Len(wire[p]) : Read(e, n)
            BY Zenon DEF pkg_send, checkin
        <2>2. over \in BOOLEAN /\ "idle" \in Backs  BY DEF Backs
        <2>3. overrun \in [Ends -> BOOLEAN]  BY <1>1, Zenon DEF Types
        <2> HIDE DEF over
        <2>4. overrun' \in [Ends -> BOOLEAN] /\ overrun'[p] = overrun[p]
            BY <1>1, <2>1, <2>2, <2>3, Updated, Zenon
        <2>5. next2 \in Backs  BY <2>2, Zenon
        <2> HIDE DEF next2
        <2>6. QED  BY <2>1, <2>4, <2>5, Zenon
    <1>6. /\ inbuf' \in [Ends -> Seq(AllBytes)] /\ wire' \in [Ends -> Seq(AllBytes)]
          /\ Reads(e) /\ inbuf'[p] = inbuf[p] /\ wire'[e] = wire[e]
        BY <1>5, ReadEffect, Zenon
    <1>7. /\ out' \in [Ends -> Seq(AllBytes)] /\ out'[e] = stream[e] \o b
          /\ wback' \in [Ends -> Backs]
          /\ pc' \in [Ends -> Places] /\ pc'[e] = "write"
          /\ out'[p] = out[p] /\ pc'[p] = pc[p]
        BY <1>1, <1>4, <1>5, WriteEffect, Zenon
    <1>8. /\ sent' \in [Ends -> Seq(Messages)] /\ sent'[e] = Append(sent[e], m)
          /\ sent'[p] = sent[p]
        BY <1>1, <1>2, <1>5, SentEffect, Zenon
    <1>9. /\ stream' \in [Ends -> Seq(AllBytes)] /\ stream'[e] = << >>
          /\ stream'[p] = stream[p]
        BY <1>1, <1>3, <1>5, StreamEffect, Zenon
    <1>10. StaysLinked(p)
        <2>1. out[e] = << >>
            <3>1. pc[e] # "write"  BY Zenon
            <3>2. QED  BY <1>1, <3>1, Zenon DEF Sender
        <2>2. Queues(e, m)
            BY <1>6, <1>7, <1>8, <1>9, <2>1, Zenon DEF Queues
        <2>3. QED  BY <1>2, <2>2, QueueStays, Zenon
    <1>11. Fits(e)'
        <2>1. Len(<< >>) <= StreamLen  BY ONLY PkgAssumption
        <2>2. QED  BY <1>9, <2>1, Zenon DEF Fits
    <1>12. Len(wire'[e]) <= KernelBuf /\ (broken => wire'[e] = << >>)
        BY <1>1, <1>6, Zenon DEF Sender
    <1>13. pc'[e] # "wait data" /\ pc[e] \notin {"closed", "wait data"}
           /\ (pc'[e] # "write" => out'[e] = << >>)
        <2>1. pc'[e] # "wait data"  BY ONLY <1>7
        <2>2. QED  BY <1>7, <2>1, Zenon
    <1>14. QED
        BY <1>2, <1>5, <1>6, <1>7, <1>8, <1>9, <1>10, <1>11, <1>12, <1>13, PlainStep, Zenon

(* With room for a header left the subtraction of sizes does not wrap.     *)
LEMMA RoomFits ==
    ASSUME NEW e \in Ends, NEW len \in Nat, Len(stream[e]) \in Nat, Room(e, len), ~Wraps(e)
    PROVE  Len(stream[e]) + (HdrLen + len) <= StreamLen
    <1> DEFINE ls == Len(stream[e])
               d == StreamLen - HdrLen - ls
    <1>1. ls \in Nat /\ ~(ls + HdrLen > StreamLen) /\ len <= d % SizeMod
        BY Zenon DEF Room, Wraps
    <1> HIDE DEF ls
    <1>2. d \in Nat /\ d < SizeMod /\ SizeMod \in Nat  BY ONLY <1>1, PkgAssumption
    <1> HIDE DEF d
    <1>3. d % SizeMod = d  BY ONLY <1>2
    <1>4. len <= d  BY <1>1, <1>3, Zenon
    <1>5. ls + (HdrLen + len) <= StreamLen  BY ONLY <1>1, <1>4, PkgAssumption, len \in Nat DEF d
    <1>6. QED  BY <1>5 DEF ls

LEMMA StreamStep ==
    ASSUME IInv, NEW e \in Ends, NEW m, MaySend(e, m), NEW next \in Backs,
           pc[e] \notin {"write", "closed", "wait data"},
           pkg_stream(e, m, next), UNCHANGED <<got, parse, hback, broken, history>>
    PROVE  IInv'
    <1> DEFINE p == Peer(e)
               s == stream[e]
               b == Bytes(Len(sent[e]) + 1, m.len)
               ls == Len(s)
               len == m.len
    <1>1. p \in Ends /\ p # e /\ Peer(p) = e /\ Types /\ Sender(e)
        BY PeerOf, InvAt, Zenon
    <1>2. m \in Messages /\ len \in Lens[e] /\ len \in Nat
        BY Zenon DEF MaySend
    <1>3. /\ sent[e] \in Seq(Messages) /\ s \in Seq(AllBytes) /\ ls \in Nat
          /\ Len(sent[e]) + 1 \in Nat
        <2>1. sent[e] \in Seq(Messages) /\ s \in Seq(AllBytes)
            BY <1>1, TypedAt, Zenon DEF Byte
        <2> DEFINE l == Len(sent[e])
        <2>2. l \in Nat /\ ls \in Nat  BY <2>1, LenIsNat, Zenon
        <2> HIDE DEF l
        <2>3. l + 1 \in Nat  BY ONLY <2>2
        <2>4. QED  BY <2>1, <2>2, <2>3, Zenon DEF l
    <1>4. /\ b \in Seq(AllBytes) /\ Len(b) = HdrLen + len
          /\ s \o b \in Seq(AllBytes) /\ Len(s \o b) = ls + (HdrLen + len)
        <2>1. b \in Seq(Byte) /\ Len(b) = HdrLen + len  BY <1>2, <1>3, BytesAreBytes, Zenon
        <2>2. s \o b \in Seq(Byte) /\ Len(s \o b) = Len(s) + Len(b)
            BY <1>3, <2>1, JoinElements, Zenon DEF Byte
        <2>3. QED  BY <2>1, <2>2, Zenon DEF Byte
    <1>5. CASE m.len > MAXQLEN
        BY <1>5, SendStep, Zenon DEF pkg_stream
    <1>6. CASE ~(m.len > MAXQLEN)
        <2>1. /\ sent' = [sent EXCEPT ![e] = Append(@, m)] /\ UNCHANGED input
              /\ \/ /\ stream' = [stream EXCEPT ![e] = @ \o b]
                    /\ overrun' = [overrun EXCEPT ![e] = @ \/ Wraps(e) \/ ~Room(e, len)]
                    /\ UNCHANGED <<out, wback, pc>>
                 \/ /\ Write(e, s, next)
                    /\ stream' = [stream EXCEPT ![e] = b]
                    /\ UNCHANGED overrun
            BY <1>6, Zenon DEF pkg_stream
        <2>2. inbuf' = inbuf /\ wire' = wire /\ broken' = broken
            BY <2>1, Zenon DEF input
        <2>3. /\ sent' \in [Ends -> Seq(Messages)] /\ sent'[e] = Append(sent[e], m)
              /\ sent'[p] = sent[p]
            BY <1>1, <1>2, <2>1, SentEffect, Zenon
        <2>4. /\ inbuf' \in [Ends -> Seq(AllBytes)] /\ wire' \in [Ends -> Seq(AllBytes)]
              /\ KeepsInput(e) /\ inbuf'[p] = inbuf[p] /\ wire'[e] = wire[e]
              /\ Len(wire'[e]) <= KernelBuf /\ (broken => wire'[e] = << >>)
            BY <1>1, <2>2, Zenon DEF Types, KeepsInput, Sender
        <2>5. out[e] = << >>
            <3>1. pc[e] # "write"  BY Zenon
            <3>2. QED  BY <1>1, <3>1, Zenon DEF Sender
        <2>6. ASSUME stream' = [stream EXCEPT ![e] = @ \o b],
                     overrun' = [overrun EXCEPT ![e] = @ \/ Wraps(e) \/ ~Room(e, len)],
                     UNCHANGED <<out, wback, pc>>
              PROVE  IInv'
            <3>1. /\ stream' \in [Ends -> Seq(AllBytes)] /\ stream'[e] = s \o b
                  /\ stream'[p] = stream[p]
                BY <1>1, <1>4, <2>6, StreamEffect, Zenon
            <3> DEFINE over == overrun[e] \/ Wraps(e) \/ ~Room(e, len)
            <3>2. /\ overrun' \in [Ends -> BOOLEAN] /\ overrun'[e] = over
                  /\ overrun'[p] = overrun[p]
                <4>1. overrun' = [overrun EXCEPT ![e] = over]  BY <2>6, Zenon
                <4>2. overrun \in [Ends -> BOOLEAN]  BY <1>1, Zenon DEF Types
                <4>3. over \in BOOLEAN  OBVIOUS
                <4> HIDE DEF over
                <4>4. QED  BY <1>1, <4>1, <4>2, <4>3, Updated, Zenon
            <3>0. Fits(e)'
                <4>1. CASE Room(e, len) /\ ~Wraps(e)
                    <5>1. ls + (HdrLen + len) <= StreamLen
                        BY <1>2, <1>3, <4>1, RoomFits, Zenon
                    <5>2. QED  BY <1>4, <3>1, <5>1, Zenon DEF Fits
                <4>2. CASE ~(Room(e, len) /\ ~Wraps(e))
                    <5>1. over = TRUE  BY <4>2
                    <5>2. overrun'[e] = TRUE  BY <3>2, <5>1, Zenon
                    <5>3. QED  BY <5>2, Zenon DEF Fits
                <4>3. QED  BY <4>1, <4>2, Zenon
            <3>3. out' = out /\ wback' = wback /\ pc' = pc  BY <2>6, Zenon
            <3>4. /\ out' \in [Ends -> Seq(AllBytes)] /\ wback' \in [Ends -> Backs]
                  /\ pc' \in [Ends -> Places]
                BY <1>1, <3>3, Zenon DEF Types
            <3>5. StaysLinked(p)
                <4>1. Queues(e, m)  BY <2>3, <2>4, <3>1, <3>3, Zenon DEF Queues
                <4>2. QED  BY <1>2, <2>2, <4>1, QueueStays, Zenon
            <3>6. QED
                BY <1>2, <2>3, <2>4, <2>5, <3>0, <3>1, <3>2, <3>3, <3>4, <3>5, PlainStep, Zenon
        <2>7. ASSUME Write(e, s, next), stream' = [stream EXCEPT ![e] = b], UNCHANGED overrun
              PROVE  IInv'
            <3>1. /\ stream' \in [Ends -> Seq(AllBytes)] /\ stream'[e] = b
                  /\ stream'[p] = stream[p]
                BY <1>1, <1>4, <2>7, StreamEffect, Zenon
            <3>0. overrun' \in [Ends -> BOOLEAN] /\ overrun'[p] = overrun[p]
                BY <1>1, <2>7, Zenon DEF Types
            <3>2. Fits(e)'
                <4> HIDE DEF len
                <4>1. HdrLen + len <= StreamLen
                    BY ONLY <1>2, <1>6, PkgAssumption DEF len
                <4>2. QED  BY <1>4, <3>1, <4>1, Zenon DEF Fits
            <3>3. /\ out' \in [Ends -> Seq(AllBytes)] /\ out'[e] = s
                  /\ wback' \in [Ends -> Backs]
                  /\ pc' \in [Ends -> Places] /\ pc'[e] = "write"
                  /\ out'[p] = out[p] /\ pc'[p] = pc[p]
                BY <1>1, <1>3, <2>7, WriteEffect, Zenon
            <3>4. pc'[e] # "wait data" /\ pc[e] \notin {"closed", "wait data"}
                  /\ (pc'[e] # "write" => out'[e] = << >>)
                <4>1. pc'[e] # "wait data"  BY ONLY <3>3
                <4>2. QED  BY <3>3, <4>1, Zenon
            <3>5. StaysLinked(p)
                <4>1. Queues(e, m)  BY <2>3, <2>4, <2>5, <3>1, <3>3, Zenon DEF Queues
                <4>2. QED  BY <1>2, <2>2, <4>1, QueueStays, Zenon
            <3>6. QED
                BY <1>2, <2>3, <2>4, <3>0, <3>1, <3>2, <3>3, <3>4, <3>5, PlainStep, Zenon
        <2>8. QED  BY <2>1, <2>6, <2>7, Zenon
    <1>7. QED  BY <1>5, <1>6, Zenon

LEMMA FlushStep ==
    ASSUME IInv, NEW e \in Ends, pkg_flush(e)
    PROVE  IInv'
    <1> DEFINE p == Peer(e)
    <1>1. p \in Ends /\ p # e /\ Peer(p) = e /\ Types /\ Sender(e)
        BY PeerOf, InvAt, Zenon
    <1>2. /\ pc[e] = "idle" /\ Write(e, stream[e], "idle") /\ overrun' = overrun
          /\ stream' = [stream EXCEPT ![e] = << >>]
          /\ sent' = sent /\ inbuf' = inbuf /\ wire' = wire /\ broken' = broken
          /\ UNCHANGED <<got, parse, hback, broken, history>>
        BY Zenon DEF pkg_flush, input
    <1>3. "idle" \in Backs /\ pc[e] \notin {"closed", "wait data"} /\ pc[e] # "write"
        BY ONLY <1>2 DEF Backs
    <1>4. stream[e] \in Seq(AllBytes) /\ << >> \in Seq(AllBytes)
        BY <1>1, TypedAt, EmptySeq, Zenon DEF Byte
    <1>5. /\ stream' \in [Ends -> Seq(AllBytes)] /\ stream'[e] = << >>
          /\ stream'[p] = stream[p]
        BY <1>1, <1>2, <1>4, StreamEffect, Zenon
    <1>6. /\ out' \in [Ends -> Seq(AllBytes)] /\ out'[e] = stream[e]
          /\ wback' \in [Ends -> Backs]
          /\ pc' \in [Ends -> Places] /\ pc'[e] = "write"
          /\ out'[p] = out[p] /\ pc'[p] = pc[p]
        BY <1>1, <1>2, <1>3, <1>4, WriteEffect, Zenon
    <1>7. pc'[e] # "wait data" /\ (pc'[e] # "write" => out'[e] = << >>)
        <2>1. pc'[e] # "wait data"  BY ONLY <1>6
        <2>2. QED  BY <1>6, <2>1, Zenon
    <1>8. /\ inbuf' \in [Ends -> Seq(AllBytes)] /\ wire' \in [Ends -> Seq(AllBytes)]
          /\ sent' \in [Ends -> Seq(Messages)]
          /\ KeepsInput(e) /\ inbuf'[p] = inbuf[p] /\ wire'[e] = wire[e]
          /\ sent'[e] = sent[e] /\ sent'[p] = sent[p]
          /\ overrun' \in [Ends -> BOOLEAN] /\ overrun'[p] = overrun[p]
          /\ Len(wire'[e]) <= KernelBuf /\ (broken => wire'[e] = << >>)
        BY <1>1, <1>2, Zenon DEF Types, KeepsInput, Sender
    <1>9. Fits(e)'
        <2>1. Len(<< >>) <= StreamLen  BY ONLY PkgAssumption
        <2>2. QED  BY <1>5, <2>1, Zenon DEF Fits
    <1>10. StaysLinked(p)
        <2>1. out[e] = << >>  BY <1>1, <1>3, Zenon DEF Sender
        <2>2. QED  BY <1>2, <1>5, <1>6, <1>8, <2>1, FlushStays, Zenon
    <1>11. QED
        BY <1>2, <1>3, <1>5, <1>6, <1>7, <1>8, <1>9, <1>10, PlainStep, Zenon

LEMMA WentTo ==
    ASSUME Types, NEW e \in Ends, NEW place \in Places, Go(e, place)
    PROVE  pc' \in [Ends -> Places] /\ pc'[e] = place /\ \A y \in Ends : y # e => pc'[y] = pc[y]
    <1>1. pc \in [Ends -> Places] /\ pc' = [pc EXCEPT ![e] = place]
        BY Zenon DEF Types, Go
    <1>2. QED  BY <1>1, Updated, Zenon

LEMMA BacksArePlaces ==
    ASSUME NEW x \in Backs
    PROVE  x \in Places /\ x # "wait data" /\ x # "closed" /\ x # "write"
    BY DEF Backs, Places

LEMMA WriteSomeStep ==
    ASSUME IInv, NEW e \in Ends, WriteSome(e)
    PROVE  IInv'
    <1> DEFINE p == Peer(e)
               w == wire[e]
               o == out[e]
    <1>1. /\ p \in Ends /\ p # e /\ Peer(p) = e /\ Types /\ Sender(e)
          /\ broken \in BOOLEAN /\ wback[e] \in Backs
          /\ w \in Seq(Byte) /\ o \in Seq(Byte)
        BY PeerOf, InvAt, TypedAt, Zenon
    <1>2. /\ pc[e] = "write" /\ ~broken
          /\ sent' = sent /\ stream' = stream /\ inbuf' = inbuf /\ wback' = wback
          /\ overrun' = overrun /\ broken' = broken
          /\ UNCHANGED <<got, parse, hback, broken, history>>
        BY Zenon DEF WriteSome
    <1>3. PICK n \in 1 .. Len(o) :
             /\ Len(w) + n <= KernelBuf
             /\ wire' = [wire EXCEPT ![e] = @ \o SubSeq(o, 1, n)]
             /\ out' = [out EXCEPT ![e] = SubSeq(@, n + 1, Len(@))]
             /\ IF n = Len(o) THEN Go(e, wback[e]) ELSE UNCHANGED pc
        BY Zenon DEF WriteSome
    <1> DEFINE lw == Len(w)
               lo == Len(o)
               f == SubSeq(o, 1, n)
               g == SubSeq(o, n + 1, Len(o))
    <1>4. lw \in Nat /\ lo \in Nat  BY <1>1, LenIsNat, Zenon
    <1>5. n \in 0 .. lo
        <2> HIDE DEF lo
        <2>1. n \in 1 .. lo  BY <1>3, Zenon DEF lo
        <2>2. QED  BY ONLY <1>4, <2>1
    <1>6. f \in Seq(Byte) /\ Len(f) = n /\ g \in Seq(Byte) /\ Len(g) = lo - n
        <2> HIDE DEF o
        <2>1. QED  BY ONLY <1>1, <1>5, CutElements DEF f, g, lo
    <1>7. w \o f \in Seq(Byte) /\ Len(w \o f) = lw + n
        <2> HIDE DEF f
        <2>1. w \o f \in Seq(Byte) /\ Len(w \o f) = Len(w) + Len(f)
            BY <1>1, <1>6, JoinElements, Zenon
        <2>2. QED  BY <1>6, <2>1, Zenon
    <1>8. /\ wire' \in [Ends -> Seq(AllBytes)] /\ wire'[e] = w \o f /\ wire'[p] = wire[p]
        <2>1. wire \in [Ends -> Seq(AllBytes)]  BY <1>1, Zenon DEF Types
        <2>2. QED  BY <1>1, <1>3, <1>7, <2>1, Updated, Zenon DEF Byte
    <1>9. /\ out' \in [Ends -> Seq(AllBytes)] /\ out'[e] = g /\ out'[p] = out[p]
        <2>1. out \in [Ends -> Seq(AllBytes)]  BY <1>1, Zenon DEF Types
        <2>2. QED  BY <1>1, <1>3, <1>6, <2>1, Updated, Zenon DEF Byte
    <1>10. /\ pc' \in [Ends -> Places] /\ pc'[p] = pc[p]
           /\ pc'[e] # "wait data" /\ (pc'[e] # "write" => out'[e] = << >>)
        <2>1. CASE n = Len(o)
            <3>1. wback[e] \in Places /\ wback[e] # "wait data"
                BY <1>1, BacksArePlaces, Zenon
            <3>2. pc' \in [Ends -> Places] /\ pc'[p] = pc[p] /\ pc'[e] = wback[e]
                BY <1>1, <1>3, <2>1, <3>1, WentTo, Zenon
            <3>3. Len(g) = 0
                <4>1. lo - n = 0  BY ONLY <2>1, <1>4 DEF lo
                <4>2. QED  BY <1>6, <4>1, Zenon
            <3> HIDE DEF g
            <3>4. g = << >>
                <4>1. g \in Seq(Byte)  BY <1>6, Zenon
                <4>2. QED  BY ONLY <4>1, <3>3, EmptySeq
            <3>5. QED  BY <1>9, <3>1, <3>2, <3>4, Zenon DEF g
        <2>2. CASE n # Len(o)
            <3>1. pc' = pc  BY <1>3, <2>2, Zenon
            <3>2. pc' \in [Ends -> Places] /\ pc'[p] = pc[p] /\ pc'[e] = "write"
                BY <1>1, <1>2, <3>1, Zenon DEF Types
            <3>3. pc'[e] # "wait data"  BY ONLY <3>2
            <3>4. QED  BY <3>2, <3>3, Zenon
        <2>3. QED  BY <2>1, <2>2, Zenon
    <1>11. /\ inbuf' \in [Ends -> Seq(AllBytes)] /\ stream' \in [Ends -> Seq(AllBytes)]
           /\ sent' \in [Ends -> Seq(Messages)] /\ wback' \in [Ends -> Backs]
           /\ KeepsInput(e) /\ inbuf'[p] = inbuf[p] /\ stream'[e] = stream[e]
           /\ stream'[p] = stream[p] /\ sent'[e] = sent[e] /\ sent'[p] = sent[p]
           /\ overrun' \in [Ends -> BOOLEAN] /\ overrun'[p] = overrun[p] /\ Fits(e)'
        <2>1. Fits(e)'  BY <1>1, <1>2, FitsKept, Zenon DEF Sender
        <2>2. QED  BY <1>1, <1>2, <1>8, <2>1, Zenon DEF Types, KeepsInput
    <1>12. Len(wire'[e]) <= KernelBuf  BY <1>3, <1>7, <1>8, Zenon
    <1>13. broken => wire'[e] = << >>  BY <1>2, Zenon
    <1>14. StaysLinked(p)
        BY <1>2, <1>5, <1>8, <1>9, <1>11, WriteStays, Zenon
    <1>15. pc[e] \notin {"closed", "wait data"}  BY ONLY <1>2
    <1>16. QED
        BY <1>2, <1>8, <1>9, <1>10, <1>11, <1>12, <1>13, <1>14, <1>15, PlainStep, Zenon

LEMMA WriteFailsStep ==
    ASSUME IInv, NEW e \in Ends, WriteFails(e)
    PROVE  IInv'
    <1> DEFINE p == Peer(e)
    <1>1. /\ p \in Ends /\ p # e /\ Peer(p) = e /\ Types /\ Sender(e)
          /\ broken \in BOOLEAN /\ wback[e] \in Backs
        BY PeerOf, InvAt, TypedAt, Zenon
    <1>2. /\ pc[e] = "write" /\ broken
          /\ out' = [out EXCEPT ![e] = << >>] /\ (Go(e, wback[e]) \/ Go(e, "idle"))
          /\ overrun' = overrun /\ sent' = sent /\ stream' = stream /\ inbuf' = inbuf /\ wire' = wire
          /\ wback' = wback /\ broken' = broken
          /\ UNCHANGED <<got, parse, hback, broken, history>>
        BY Zenon DEF WriteFails, input
    <1>3. PICK place \in Places : place # "wait data" /\ Go(e, place)
        <2>1. "idle" \in Backs  BY ONLY TRUE DEF Backs
        <2>2. QED  BY <1>1, <1>2, <2>1, BacksArePlaces, Zenon
    <1>4. pc' \in [Ends -> Places] /\ pc'[p] = pc[p] /\ pc'[e] = place
        BY <1>1, <1>2, <1>3, WentTo, Zenon
    <1>5. out' \in [Ends -> Seq(AllBytes)] /\ out'[e] = << >> /\ out'[p] = out[p]
        <2>1. out \in [Ends -> Seq(AllBytes)]  BY <1>1, Zenon DEF Types
        <2>2. << >> \in Seq(AllBytes)  BY EmptySeq, Zenon
        <2>3. QED  BY <1>1, <1>2, <2>1, <2>2, Updated, Zenon
    <1>6. /\ inbuf' \in [Ends -> Seq(AllBytes)] /\ stream' \in [Ends -> Seq(AllBytes)]
          /\ wire' \in [Ends -> Seq(AllBytes)]
          /\ sent' \in [Ends -> Seq(Messages)] /\ wback' \in [Ends -> Backs]
          /\ KeepsInput(e) /\ inbuf'[p] = inbuf[p] /\ stream'[e] = stream[e]
          /\ stream'[p] = stream[p] /\ sent'[e] = sent[e] /\ sent'[p] = sent[p]
          /\ overrun' \in [Ends -> BOOLEAN] /\ overrun'[p] = overrun[p]
          /\ Fits(e)' /\ Len(wire'[e]) <= KernelBuf
          /\ (broken => wire'[e] = << >>)
        <2>1. Fits(e)'  BY <1>1, <1>2, FitsKept, Zenon DEF Sender
        <2>2. QED  BY <1>1, <1>2, <2>1, Zenon DEF Types, KeepsInput, Sender
    <1>7. StaysLinked(p)
        <2>1. broken = TRUE  BY <1>1, <1>2
        <2>2. broken' = TRUE  BY <1>2, <2>1, Zenon
        <2>3. QED  BY <1>1, <1>6, <2>2, BrokenStays, Zenon
    <1>8. pc[e] \notin {"closed", "wait data"}  BY ONLY <1>2
    <1>9. QED
        BY <1>2, <1>3, <1>4, <1>5, <1>6, <1>7, <1>8, PlainStep, Zenon

(* An end that sends nothing goes on, and reads perhaps.                   *)
LEMMA MoveStep ==
    ASSUME IInv, NEW e \in Ends, UNCHANGED <<output, got, parse, hback, broken, history>>,
           UNCHANGED input \/ \E n \in 0 .. Len(wire[Peer(e)]) : Read(e, n),
           NEW place \in Places, Go(e, place), pc[e] # "write", place # "write",
           \/ pc[e] \notin {"closed", "wait data"} /\ place # "wait data"
           \/ place = pc[e]
           \/ place = "closed"
    PROVE  IInv'
    <1> DEFINE p == Peer(e)
    <1>1. p \in Ends /\ p # e /\ Peer(p) = e /\ Types /\ Sender(e)
        BY PeerOf, InvAt, Zenon
    <1>2. /\ sent' = sent /\ stream' = stream /\ out' = out /\ wback' = wback
          /\ overrun' = overrun /\ broken' = broken /\ UNCHANGED <<got, parse, hback, broken, history>>
        BY Zenon DEF output
    <1>3. /\ inbuf' \in [Ends -> Seq(AllBytes)] /\ wire' \in [Ends -> Seq(AllBytes)]
          /\ inbuf'[p] = inbuf[p] /\ wire'[e] = wire[e]
          /\ (Reads(e) \/ KeepsInput(e)) /\ KeepsInput(p)
        <2>1. CASE UNCHANGED input
            <3>1. inbuf' = inbuf /\ wire' = wire  BY <2>1, Zenon DEF input
            <3>2. QED  BY <1>1, <3>1, Zenon DEF KeepsInput, Types
        <2>2. CASE \E n \in 0 .. Len(wire[Peer(e)]) : Read(e, n)
            <3>1. /\ inbuf' \in [Ends -> Seq(AllBytes)] /\ wire' \in [Ends -> Seq(AllBytes)]
                  /\ Reads(e) /\ inbuf'[p] = inbuf[p] /\ wire'[e] = wire[e]
                BY <2>2, ReadEffect, Zenon
            <3>2. QED  BY <1>1, <3>1, Zenon DEF KeepsInput
        <2>3. QED  BY <2>1, <2>2, Zenon
    <1>4. pc' \in [Ends -> Places] /\ pc'[p] = pc[p] /\ pc'[e] = place
        BY <1>1, WentTo, Zenon
    <1>5. /\ sent' \in [Ends -> Seq(Messages)] /\ stream' \in [Ends -> Seq(AllBytes)]
          /\ out' \in [Ends -> Seq(AllBytes)] /\ wback' \in [Ends -> Backs]
          /\ sent'[e] = sent[e] /\ stream'[e] = stream[e] /\ out'[e] = out[e]
          /\ sent'[p] = sent[p] /\ stream'[p] = stream[p] /\ out'[p] = out[p]
          /\ overrun' \in [Ends -> BOOLEAN] /\ overrun'[p] = overrun[p]
        BY <1>1, <1>2, Zenon DEF Types
    <1>6. /\ Fits(e)' /\ Len(wire'[e]) <= KernelBuf
          /\ (pc'[e] # "write" => out'[e] = << >>) /\ (broken => wire'[e] = << >>)
        <2>1. Fits(e)'  BY <1>1, <1>2, FitsKept, Zenon DEF Sender
        <2>2. QED  BY <1>1, <1>3, <1>5, <2>1, Zenon DEF Sender
    <1>7. StaysLinked(p)
        BY <1>1, <1>2, <1>3, <1>5, ReadStays, Zenon
    <1>8. QED
        BY <1>2, <1>3, <1>4, <1>5, <1>6, <1>7, PlainStep, Zenon

LEMMA SendsStep ==
    ASSUME IInv, NEW e \in Ends, Sends(e)
    PROVE  IInv'
    <1>1. /\ pc[e] = "idle"
          /\ UNCHANGED <<got, parse, hback, broken, history>>
          /\ \E len \in Lens[e] :
                \/ pkg_send(e, [kind |-> "note", len |-> len], "idle")
                \/ pkg_stream(e, [kind |-> "note", len |-> len], "idle")
                \/ pkg_send(e, [kind |-> "query", len |-> len], "wait")
        BY Zenon DEF Sends
    <1>2. /\ pc[e] \notin {"write", "closed", "wait data"}
          /\ "idle" \in Backs /\ "wait" \in Backs /\ "note" \in Kinds /\ "query" \in Kinds
        BY ONLY <1>1 DEF Backs, Kinds
    <1>3. PICK len \in Lens[e] :
             \/ pkg_send(e, [kind |-> "note", len |-> len], "idle")
             \/ pkg_stream(e, [kind |-> "note", len |-> len], "idle")
             \/ pkg_send(e, [kind |-> "query", len |-> len], "wait")
        BY <1>1, Zenon
    <1>4. /\ MaySend(e, [kind |-> "note", len |-> len])
          /\ MaySend(e, [kind |-> "query", len |-> len])
        BY <1>2, SentIsMessage, Zenon
    <1>5. QED  BY <1>1, <1>2, <1>3, <1>4, SendStep, StreamStep, Zenon

LEMMA HandlerStep ==
    ASSUME IInv, NEW e \in Ends, Handler(e)
    PROVE  IInv'
    <1>1. /\ pc[e] = "handler" /\ UNCHANGED <<got, parse, hback, broken, history>>
          /\ \/ \E len \in Lens[e] : pkg_send(e, [kind |-> "reply", len |-> len], hback[e])
             \/ Go(e, hback[e]) /\ UNCHANGED <<output, input>>
        BY Zenon DEF Handler
    <1>2. /\ pc[e] \notin {"write", "closed", "wait data"} /\ pc[e] # "write"
          /\ "reply" \in Kinds
        BY ONLY <1>1 DEF Kinds
    <1>3. hback[e] \in Backs  BY InvAt, TypedAt, Zenon
    <1>4. ASSUME NEW len \in Lens[e], pkg_send(e, [kind |-> "reply", len |-> len], hback[e])
          PROVE  IInv'
        <2>1. MaySend(e, [kind |-> "reply", len |-> len])
            BY <1>2, SentIsMessage, Zenon
        <2>2. QED  BY <1>1, <1>2, <1>3, <1>4, <2>1, SendStep, Zenon
    <1>5. ASSUME Go(e, hback[e]), UNCHANGED <<output, input>>
          PROVE  IInv'
        <2>1. UNCHANGED <<output, got, parse, hback, broken, history>> /\ UNCHANGED input
            BY <1>1, <1>5, Zenon
        <2>2. hback[e] \in Places /\ hback[e] # "wait data" /\ hback[e] # "write"
            BY <1>3, BacksArePlaces, Zenon
        <2>3. pc[e] \notin {"closed", "wait data"}  BY ONLY <1>1
        <2>4. QED  BY <1>2, <1>5, <2>1, <2>2, <2>3, MoveStep, Zenon
    <1>6. QED  BY <1>1, <1>4, <1>5, Zenon

LEMMA PollStep ==
    ASSUME IInv, NEW e \in Ends, Poll(e) \/ Wakeup(e)
    PROVE  IInv'
    <1>1. CASE Poll(e)
        <2>1. /\ pc[e] = "idle" /\ Go(e, "process") /\ UNCHANGED input
              /\ UNCHANGED <<output, got, parse, hback, broken, history>>
            BY <1>1, Zenon DEF Poll
        <2>2. pc[e] \notin {"closed", "wait data"} /\ pc[e] # "write"  BY ONLY <2>1
        <2>3. "process" \in Places /\ "process" # "write" /\ "process" # "wait data"
            BY DEF Places
        <2>4. QED  BY <2>1, <2>2, <2>3, MoveStep, Zenon
    <1>2. CASE Wakeup(e)
        <2>1. /\ pc[e] = "select" /\ Go(e, "idle") /\ UNCHANGED input
              /\ UNCHANGED <<output, got, parse, hback, broken, history>>
            BY <1>2, Zenon DEF Wakeup
        <2>2. pc[e] \notin {"closed", "wait data"} /\ pc[e] # "write"  BY ONLY <2>1
        <2>3. "idle" \in Places /\ "idle" # "write" /\ "idle" # "wait data"
            BY DEF Places
        <2>4. QED  BY <2>1, <2>2, <2>3, MoveStep, Zenon
    <1>3. QED  BY <1>1, <1>2, Zenon

LEMMA ReadsSome ==
    ASSUME IInv, NEW e \in Ends, NEW n \in 1 .. Len(wire[Peer(e)])
    PROVE  n \in 0 .. Len(wire[Peer(e)])
    <1> DEFINE l == Len(wire[Peer(e)])
    <1>1. l \in Nat  BY BytesAt, LenIsNat, Zenon
    <1> HIDE DEF l
    <1>2. n \in 1 .. l  BY Zenon DEF l
    <1>3. n \in 0 .. l  BY ONLY <1>1, <1>2
    <1>4. QED  BY <1>3, Zenon DEF l

LEMMA SuckinStep ==
    ASSUME IInv, NEW e \in Ends, pkg_suckin(e)
    PROVE  IInv'
    <1>1. "closed" \in Places /\ "closed" # "write" /\ "process again" \in Places
          /\ "process again" # "write" /\ "process again" # "wait data"
        BY DEF Places
    <1>2. /\ pc[e] = "select"
          /\ UNCHANGED <<output, got, parse, hback, broken, history>>
          /\ \/ /\ \E n \in 1 .. Len(wire[Peer(e)]) : Read(e, n)
                /\ Go(e, "process again")
             \/ Go(e, "closed") /\ UNCHANGED input
        BY Zenon DEF pkg_suckin
    <1>3. pc[e] \notin {"closed", "wait data"} /\ pc[e] # "write"  BY ONLY <1>2
    <1>4. QED  BY <1>1, <1>2, <1>3, ReadsSome, MoveStep, Zenon

LEMMA IngetReadsStep ==
    ASSUME IInv, NEW e \in Ends, pc[e] \in {"wait", "wait data"},
           NEW n \in 1 .. Len(wire[Peer(e)]), Read(e, n), UNCHANGED pc,
           UNCHANGED <<output, got, parse, hback, broken, history>>
    PROVE  IInv'
    <1>1. pc[e] # "write"  BY ONLY pc[e] \in {"wait", "wait data"}
    <1>2. Go(e, pc[e])
        <2>1. pc \in [Ends -> Places]  BY InvAt, Zenon DEF Types
        <2>2. [pc EXCEPT ![e] = pc[e]] = pc  BY ONLY <2>1, e \in Ends
        <2>3. QED  BY <2>2, Zenon DEF Go
    <1>3. pc[e] \in Places  BY InvAt, TypedAt, Zenon
    <1>4. n \in 0 .. Len(wire[Peer(e)])  BY ReadsSome, Zenon
    <1>5. QED  BY <1>1, <1>2, <1>3, <1>4, MoveStep, Zenon

-----------------------------------------------------------------------------
(* Input, step by step.                                                    *)

LEMMA PlainParse ==
    ASSUME IInv, NEW e \in Ends, UNCHANGED <<output, broken>>, wire' = wire, pc[e] # "write",
           got' \in [Ends -> Seq(Handable)], inbuf' \in [Ends -> Seq(AllBytes)],
           pkc_left' \in [Ends -> Int], pkc_hdr' \in [Ends -> Nat],
           pkc_buf' \in [Ends -> Seq(AllBytes)], pc' \in [Ends -> Places],
           hback' \in [Ends -> Backs], cut' \in [Ends -> BOOLEAN], clash' \in [Ends -> BOOLEAN],
           got'[e] = got[e],
           \A y \in Ends : y # e =>
               /\ inbuf'[y] = inbuf[y] /\ pkc_left'[y] = pkc_left[y]
               /\ pkc_hdr'[y] = pkc_hdr[y] /\ pkc_buf'[y] = pkc_buf[y] /\ pc'[y] = pc[y]
               /\ cut'[y] = cut[y] /\ clash'[y] = clash[y],
           Receiver(e)', Line(e)'
    PROVE  IInv'
    <1> DEFINE p == Peer(e)
    <1>1. p \in Ends /\ p # e /\ Peer(p) = e /\ Types
        BY PeerOf, InvAt, Zenon
    <1>2. /\ sent' = sent /\ stream' = stream /\ out' = out /\ wback' = wback
          /\ overrun' = overrun /\ broken' = broken
        BY Zenon DEF output
    <1>3. Types'  BY <1>1, <1>2, Zenon DEF Types
    <1>4. Untouched(p)
        <2>1. /\ inbuf'[p] = inbuf[p] /\ pkc_left'[p] = pkc_left[p]
              /\ pkc_hdr'[p] = pkc_hdr[p] /\ pkc_buf'[p] = pkc_buf[p] /\ pc'[p] = pc[p]
              /\ cut'[p] = cut[p] /\ clash'[p] = clash[p]
            BY <1>1, Zenon
        <2>2. \/ pc'[p] = "closed"
              \/ pc[p] # "closed" /\ (pc'[p] = "wait data" <=> pc[p] = "wait data")
            BY <2>1, Zenon
        <2>3. got'[Peer(p)] = got[Peer(p)]  BY <1>1, Zenon
        <2> HIDE DEF p
        <2>4. KeepsParse(p)  BY <2>1, <2>2, <2>3, Zenon DEF KeepsParse
        <2>5. QED  BY <1>2, <2>1, <2>4, Zenon DEF Untouched
    <1>5. /\ sent'[e] = sent[e] /\ stream'[e] = stream[e] /\ out'[e] = out[e]
          /\ overrun'[e] = overrun[e]
        BY <1>2, Zenon
    <1>6. QED  BY <1>2, <1>3, <1>4, <1>5, ParseStep, Zenon

(* The connection broke where more was wanted.                             *)
LEMMA IngetFailsStep ==
    ASSUME IInv, NEW e \in Ends, pc[e] \in {"wait", "wait data"}, broken,
           inbuf' = [inbuf EXCEPT ![e] = << >>], pkc_left' = [pkc_left EXCEPT ![e] = -1],
           Go(e, "idle"),
           UNCHANGED <<output, wire, got, pkc_hdr, pkc_buf, hback, broken, history>>
    PROVE  IInv'
    <1> DEFINE p == Peer(e)
    <1>1. /\ p \in Ends /\ p # e /\ Peer(p) = e /\ Types /\ Receiver(e) /\ broken \in BOOLEAN
        BY PeerOf, InvAt, TypedAt, Zenon
    <1>2. pc[e] # "write" /\ pc[e] # "closed"  BY ONLY pc[e] \in {"wait", "wait data"}
    <1>3. /\ sent' = sent /\ got' = got /\ stream' = stream /\ out' = out /\ wire' = wire
          /\ pkc_hdr' = pkc_hdr /\ pkc_buf' = pkc_buf /\ hback' = hback
          /\ cut' = cut /\ clash' = clash /\ UNCHANGED <<output, broken>> /\ broken' = broken
        BY Zenon DEF output, history
    <1>4. broken = TRUE /\ broken' = TRUE
        <2>1. broken = TRUE  BY ONLY <1>1, broken
        <2>2. QED  BY <1>3, <2>1, Zenon
    <1>5. /\ inbuf' \in [Ends -> Seq(AllBytes)] /\ inbuf'[e] = << >>
          /\ \A y \in Ends : y # e => inbuf'[y] = inbuf[y]
        <2>1. inbuf \in [Ends -> Seq(AllBytes)]  BY <1>1, Zenon DEF Types
        <2>2. << >> \in Seq(AllBytes)  BY EmptySeq, Zenon
        <2>3. QED  BY <2>1, <2>2, Updated, Zenon
    <1>6. /\ pkc_left' \in [Ends -> Int] /\ pkc_left'[e] = -1
          /\ \A y \in Ends : y # e => pkc_left'[y] = pkc_left[y]
        <2>1. pkc_left \in [Ends -> Int]  BY <1>1, Zenon DEF Types
        <2>2. -1 \in Int  BY ONLY TRUE
        <2>3. QED  BY <2>1, <2>2, Updated, Zenon
    <1>7. pc' \in [Ends -> Places] /\ pc'[e] = "idle" /\ \A y \in Ends : y # e => pc'[y] = pc[y]
        <2>1. "idle" \in Places  BY ONLY TRUE DEF Places
        <2>2. QED  BY <1>1, <2>1, WentTo, Zenon
    <1>8. /\ got' \in [Ends -> Seq(Handable)] /\ hback' \in [Ends -> Backs]
          /\ pkc_hdr' \in [Ends -> Nat] /\ pkc_buf' \in [Ends -> Seq(AllBytes)]
          /\ cut' \in [Ends -> BOOLEAN] /\ clash' \in [Ends -> BOOLEAN] /\ got'[e] = got[e]
        BY <1>1, <1>3, Zenon DEF Types
    <1>9. pc'[e] # "wait data"  BY ONLY <1>7
    <1>10. NextOf(e)' = NextOf(e)  BY <1>3, Zenon DEF NextOf
    <1> DEFINE left == -1
    <1>11. left >= -1 /\ ~(left >= 0) /\ left < 0  BY ONLY TRUE
    <1> HIDE DEF left
    <1>12. pkc_left'[e] = left  BY <1>6, Zenon DEF left
    <1>13. Receiver(e)'
        <2>1. pkc_hdr[e] <= Len(sent[p])  BY <1>1, Zenon DEF Receiver
        <2>2. broken'  BY ONLY <1>4
        <2>3. QED  BY <1>3, <1>9, <1>11, <1>12, <2>1, <2>2, Zenon DEF Receiver
    <1>14. Line(e)'
        <2>1. Parsed(e)' = 0  BY <1>9, <1>11, <1>12, Zenon DEF Parsed
        <2>2. Linked(TRUE, sent[p], NextOf(e), 0, << >>, wire[p], out[p], stream[p])
            BY <1>1, <1>2, LinkedAt, EmptyLinked, Zenon
        <2>3. QED  BY <1>3, <1>4, <1>5, <1>10, <2>1, <2>2, Zenon DEF Line
    <1>15. \A y \in Ends : y # e =>
               /\ inbuf'[y] = inbuf[y] /\ pkc_left'[y] = pkc_left[y]
               /\ pkc_hdr'[y] = pkc_hdr[y] /\ pkc_buf'[y] = pkc_buf[y] /\ pc'[y] = pc[y]
               /\ cut'[y] = cut[y] /\ clash'[y] = clash[y]
        BY <1>3, <1>5, <1>6, <1>7, Zenon
    <1>16. QED
        BY <1>2, <1>3, <1>5, <1>6, <1>7, <1>8, <1>13, <1>14, <1>15, PlainParse, Zenon

LEMMA IngetStep ==
    ASSUME IInv, NEW e \in Ends, inget(e)
    PROVE  IInv'
    <1>1. pc[e] \in {"wait", "wait data"}
        <2>1. pc[e] = "wait" \/ pc[e] = "wait data"  BY Zenon DEF inget, Starved
        <2>2. QED  BY ONLY <2>1
    <1>2. CASE (\E n \in 1 .. Len(wire[Peer(e)]) : Read(e, n)) /\ UNCHANGED <<pkc_left, pc>>
        <2>1. UNCHANGED <<output, got, parse, hback, broken, history>> /\ UNCHANGED pc
            BY <1>2, Zenon DEF inget, parse
        <2>2. QED  BY <1>1, <1>2, <2>1, IngetReadsStep, Zenon
    <1>3. CASE /\ broken /\ inbuf' = [inbuf EXCEPT ![e] = << >>]
               /\ pkc_left' = [pkc_left EXCEPT ![e] = -1] /\ Go(e, "idle") /\ UNCHANGED wire
        <2>1. UNCHANGED <<output, wire, got, pkc_hdr, pkc_buf, hback, broken, history>>
            BY <1>3, Zenon DEF inget
        <2>2. QED  BY <1>1, <1>3, <2>1, IngetFailsStep, Zenon
    <1>4. QED  BY <1>2, <1>3, Zenon DEF inget

(* A header is in the buffer, and none has been read yet.                  *)
LEMMA HeaderFacts ==
    ASSUME IInv, NEW e \in Ends, pkc_left[e] < 0, pc[e] \notin {"wait data", "closed"},
           Header(e)
    PROVE  LET m == sent[Peer(e)]  i == NextOf(e)
           IN  /\ NextMsg(e) = i /\ i \in 1 .. Len(m) /\ i \in Nat
               /\ m[i].len \in Nat /\ m[i].len \in Lens[Peer(e)]
               /\ Drop(inbuf[e], HdrLen) \in Seq(Byte)
               /\ Linked(broken, m, i, HdrLen, Drop(inbuf[e], HdrLen), wire[Peer(e)],
                         out[Peer(e)], stream[Peer(e)])
    <1> DEFINE p == Peer(e)
               m == sent[p]
               i == NextOf(e)
               in == inbuf[e]
               l == Len(in)
    <1>1. /\ m \in Seq(Messages) /\ i \in Nat /\ in \in Seq(Byte) /\ wire[p] \in Seq(Byte)
          /\ out[p] \in Seq(Byte) /\ stream[p] \in Seq(Byte) /\ broken \in BOOLEAN
        BY BytesAt, Zenon
    <1>2. Parsed(e) = 0
        <2>1. pc[e] # "wait data"  BY Zenon
        <2>2. QED  BY <2>1, Zenon DEF Parsed
    <1>3. Linked(broken, m, i, 0, in, wire[p], out[p], stream[p])
        <2>1. pc[e] # "closed"  BY Zenon
        <2>2. QED  BY <1>2, <2>1, LinkedAt, Zenon
    <1>4. l >= HdrLen  BY Zenon DEF Header
    <1>5. i \in 1 .. Len(m) /\ Head(in)[1] = i
        <2> DEFINE w == wire[p]
                   o == out[p]
                   s == stream[p]
        <2> HIDE DEF m, i, in, w, o, s
        <2>1. Linked(broken, m, i, 0, in, w, o, s)
            BY <1>3, Zenon DEF w, o, s
        <2>2. Len(in) >= HdrLen  BY <1>4, Zenon DEF l
        <2>3. m \in Seq(Messages) /\ i \in Nat /\ in \in Seq(Byte) /\ broken \in BOOLEAN
            BY <1>1, Zenon
        <2>4. QED  BY ONLY <2>1, <2>2, <2>3, HeaderIsNext
    <1>6. HdrLen \in 0 .. l /\ HdrLen \in Nat
        <2>1. l \in Nat  BY <1>1, LenIsNat, Zenon
        <2> HIDE DEF l
        <2>2. QED  BY ONLY <1>4, <2>1, PkgAssumption
    <1>7. Linked(broken, m, i, 0 + HdrLen, Drop(in, HdrLen), wire[p], out[p], stream[p])
        <2>1. 0 \in Nat  OBVIOUS
        <2>2. QED  BY <1>1, <1>3, <1>6, <2>1, TakeLinked, Zenon
    <1>8. 0 + HdrLen = HdrLen  BY ONLY <1>6
    <1>9. Drop(in, HdrLen) \in Seq(Byte)
        <2> HIDE DEF in
        <2>1. QED  BY ONLY <1>1, <1>6, CutElements DEF Drop, l
    <1>10. m[i].len \in Nat  BY <1>1, <1>5, MessagesHaveSizes, Zenon DEF Sizes
    <1>11. m[i].len \in Lens[p]
        <2>1. Sender(p)  BY InvAt, Zenon
        <2>2. QED  BY <1>5, <2>1, Zenon DEF Sender
    <1>12. QED
        BY <1>1, <1>5, <1>7, <1>8, <1>9, <1>10, <1>11, Zenon DEF NextMsg

LEMMA CollectedNone ==
    ASSUME NEW i \in Nat
    PROVE  /\ Collected(i, 0) = << >>
           /\ \A n \in Nat : Collected(i, n) = Payload(i, n) /\ Collected(i, n) \in Seq(Byte)
                             /\ Len(Collected(i, n)) = n
    <1>1. ASSUME NEW n \in Nat
          PROVE  Collected(i, n) \in Seq(Byte) /\ Len(Collected(i, n)) = n
        <2> DEFINE f == [k \in 1 .. n |-> <<i, HdrLen + k>>]
        <2>1. \A k \in 1 .. n : <<i, HdrLen + k>> \in Byte
            BY PkgAssumption DEF Byte, AllBytes
        <2>2. f \in [1 .. n -> Byte]  BY <2>1, Zenon
        <2>3. f \in Seq(Byte)  BY <2>2, SeqDef, Zenon
        <2>4. DOMAIN f = 1 .. n  BY Zenon
        <2> HIDE DEF f
        <2>5. Len(f) = n  BY <2>3, <2>4, LenProperties
        <2>6. QED  BY <2>3, <2>5, Zenon DEF Collected, f
    <1>2. Collected(i, 0) = << >>
        <2> DEFINE q == Collected(i, 0)
        <2>1. q \in Seq(Byte) /\ Len(q) = 0
            <3>1. 0 \in Nat  OBVIOUS
            <3>2. QED  BY <1>1, <3>1, Zenon
        <2> HIDE DEF q
        <2>2. q = << >>  BY <2>1, EmptySeq
        <2>3. QED  BY <2>2, Zenon DEF q
    <1>3. \A n \in Nat : Collected(i, n) = Payload(i, n)
        BY Zenon DEF Collected, Payload
    <1>4. QED  BY <1>1, <1>2, <1>3, Zenon

LEMMA CollectedJoin ==
    ASSUME NEW i \in Nat, NEW c \in Nat, NEW n \in Nat
    PROVE  Collected(i, c) \o [k \in 1 .. n |-> <<i, HdrLen + (c + k)>>] = Collected(i, c + n)
    <1> DEFINE a == Collected(i, c)
               b == [k \in 1 .. n |-> <<i, HdrLen + (c + k)>>]
               d == Collected(i, c + n)
               j == a \o b
    <1>1. a \in Seq(Byte) /\ Len(a) = c  BY CollectedNone, Zenon
    <1>2. c + n \in Nat  OBVIOUS
    <1>3. d \in Seq(Byte) /\ Len(d) = c + n  BY <1>2, CollectedNone, Zenon
    <1>4. b \in Seq(Byte) /\ Len(b) = n
        <2>1. \A k \in 1 .. n : <<i, HdrLen + (c + k)>> \in Byte
            BY PkgAssumption DEF Byte, AllBytes
        <2>2. b \in [1 .. n -> Byte]  BY <2>1, Zenon
        <2>3. b \in Seq(Byte)  BY <2>2, SeqDef, Zenon
        <2>4. DOMAIN b = 1 .. n  BY Zenon
        <2> HIDE DEF b
        <2>5. QED  BY <2>3, <2>4, LenProperties
    <1>5. \A k \in 1 .. c : a[k] = <<i, HdrLen + k>>  BY Zenon DEF Collected
    <1>6. \A k \in 1 .. n : b[k] = <<i, HdrLen + (c + k)>>  BY Zenon
    <1>7. \A k \in 1 .. c + n : d[k] = <<i, HdrLen + k>>  BY Zenon DEF Collected
    <1> HIDE DEF a, b, d
    <1>8. /\ j \in Seq(Byte) /\ Len(j) = Len(a) + Len(b)
          /\ \A k \in 1 .. Len(a) : j[k] = a[k]
          /\ \A k \in 1 .. Len(b) : j[Len(a) + k] = b[k]
        <2>1. a \in Seq(Byte) /\ b \in Seq(Byte)  BY <1>1, <1>4, Zenon
        <2>2. QED  BY ONLY <2>1, JoinElements DEF j
    <1>9. Len(j) = c + n /\ Len(j) = Len(d)
        BY <1>1, <1>3, <1>4, <1>8
    <1> HIDE DEF j
    <1>10. ASSUME NEW k \in 1 .. c + n  PROVE j[k] = d[k]
        <2>1. CASE k \in 1 .. c
            BY <1>1, <1>5, <1>7, <1>8, <1>10, <2>1, Zenon
        <2>2. CASE k \notin 1 .. c
            <3>1. PICK h \in 1 .. n : k = c + h
                <4>1. k - c \in 1 .. n /\ k = c + (k - c)  BY ONLY <1>10, <2>2, c \in Nat, n \in Nat
                <4>2. QED  BY <4>1, Zenon
            <3>2. j[k] = b[h]  BY <1>1, <1>4, <1>8, <3>1, Zenon
            <3>3. QED  BY <1>6, <1>7, <1>10, <3>1, <3>2, Zenon
        <2>3. QED  BY <2>1, <2>2, Zenon
    <1>11. j = d
        <2>1. \A k \in 1 .. Len(j) : j[k] = d[k]  BY <1>9, <1>10, Zenon
        <2>2. j \in Seq(Byte) /\ d \in Seq(Byte) /\ Len(j) = Len(d)  BY <1>3, <1>8, <1>9, Zenon
        <2>3. QED  BY ONLY <2>1, <2>2, SeqEqual
    <1>12. QED  BY <1>11, Zenon DEF a, b, d, j

(* A header has been read, and not all of the data perhaps.                *)
LEMMA PartFacts ==
    ASSUME IInv, NEW e \in Ends, pkc_left[e] >= 0, pc[e] # "closed"
    PROVE  LET m == sent[Peer(e)]  i == NextOf(e)  left == pkc_left[e]
           IN  /\ i \in 1 .. Len(m) /\ i \in Nat /\ pkc_hdr[e] = i
               /\ m[i].len \in Nat /\ m[i].len \in Lens[Peer(e)]
               /\ left \in 0 .. m[i].len /\ m[i].len - left \in 0 .. m[i].len
               /\ pkc_buf[e] = IF m[i].len = 0 THEN NULL ELSE Collected(i, m[i].len - left)
               /\ Linked(broken, m, i, HdrLen + (m[i].len - left), inbuf[e], wire[Peer(e)],
                         out[Peer(e)], stream[Peer(e)])
    <1> DEFINE p == Peer(e)
               m == sent[p]
               i == NextOf(e)
               len == m[i].len
               left == pkc_left[e]
               lm == Len(m)
    <1>1. m \in Seq(Messages) /\ i \in Nat /\ broken \in BOOLEAN /\ lm \in Nat
        BY BytesAt, LenIsNat, Zenon
    <1>2. Receiver(e) /\ Sender(p) /\ i \in Nat \ {0}
        <2>1. Receiver(e) /\ Types /\ Sender(p)  BY InvAt, Zenon
        <2>2. QED  BY <2>1, ParsedIsNat, Zenon
    <1>3. pc[e] # "wait data" /\ Begun(m, i, left, pkc_hdr[e], pkc_buf[e])
        BY <1>2, Zenon DEF Receiver
    <1>4. /\ i <= lm /\ pkc_hdr[e] = i /\ left \in 0 .. len
          /\ pkc_buf[e] = IF len = 0 THEN NULL ELSE Collected(i, len - left)
        BY <1>3, Zenon DEF Begun
    <1>5. i \in 1 .. lm
        <2> HIDE DEF i, lm
        <2>1. QED  BY ONLY <1>1, <1>2, <1>4
    <1>6. len \in Nat /\ len \in Lens[p]
        BY <1>1, <1>2, <1>5, MessagesHaveSizes, Zenon DEF Sizes, Sender
    <1>7. len - left \in 0 .. len /\ (HdrLen + len) - left = HdrLen + (len - left) /\ ~(left < 0)
        <2> HIDE DEF len, left
        <2>1. QED  BY ONLY <1>4, <1>6, PkgAssumption
    <1>8. Parsed(e) = HdrLen + (len - left)
        <2> DEFINE sz == HdrLen + len
        <2>1. Size(m, i) = sz  BY Zenon DEF Size
        <2> HIDE DEF sz
        <2>2. Parsed(e) = sz - left  BY <1>3, <1>7, <2>1, Zenon DEF Parsed
        <2>3. QED  BY <1>7, <2>2, Zenon DEF sz
    <1>9. Linked(broken, m, i, HdrLen + (len - left), inbuf[e], wire[p], out[p], stream[p])
        BY <1>8, LinkedAt, Zenon
    <1>10. QED  BY <1>1, <1>4, <1>5, <1>6, <1>7, <1>9, Zenon

LEMMA TakeEffect ==
    ASSUME IInv, NEW e \in Ends, NEW n \in 0 .. Len(inbuf[e]),
           inbuf' = [inbuf EXCEPT ![e] = Drop(@, n)]
    PROVE  /\ inbuf' \in [Ends -> Seq(AllBytes)] /\ inbuf'[e] = Drop(inbuf[e], n)
           /\ \A y \in Ends : y # e => inbuf'[y] = inbuf[y]
    <1> DEFINE in == inbuf[e]
    <1>1. inbuf \in [Ends -> Seq(AllBytes)] /\ in \in Seq(Byte)
        BY InvAt, BytesAt, Zenon DEF Types
    <1>2. Drop(in, n) \in Seq(AllBytes)
        <2>1. n \in 0 .. Len(in)  BY Zenon
        <2> HIDE DEF in
        <2>2. Drop(in, n) \in Seq(Byte)  BY ONLY <1>1, <2>1, CutElements DEF Drop
        <2>3. QED  BY <2>2, Zenon DEF Byte
    <1>3. QED  BY <1>1, <1>2, Updated, Zenon

(* What is in order after a header was read: nothing is collected yet.     *)
LEMMA BegunNow ==
    ASSUME NEW m \in Seq(Messages), NEW i \in 1 .. Len(m), m[i].len \in Nat
    PROVE  Begun(m, i, m[i].len, i, IF m[i].len = 0 THEN NULL ELSE << >>)
    <1> DEFINE len == m[i].len
               lm == Len(m)
    <1>1. lm \in Nat  BY LenIsNat, Zenon
    <1>2. i <= lm /\ i \in Nat
        <2> HIDE DEF lm
        <2>1. i \in 1 .. lm  BY Zenon DEF lm
        <2>2. QED  BY ONLY <1>1, <2>1
    <1>3. len \in 0 .. len /\ len - len = 0
        <2> HIDE DEF len
        <2>1. len \in Nat  BY Zenon DEF len
        <2>2. QED  BY ONLY <2>1
    <1>4. Collected(i, len - len) = << >>  BY <1>2, <1>3, CollectedNone, Zenon
    <1>5. QED  BY <1>2, <1>3, <1>4, Zenon DEF Begun

LEMMA GethdrStep ==
    ASSUME IInv, NEW e \in Ends, pkc_left[e] < 0,
           pc[e] \notin {"write", "wait data", "closed"}, gethdr(e),
           UNCHANGED <<output, got, wire, pc, hback, broken, history>>
    PROVE  IInv'
    <1> DEFINE p == Peer(e)
               m == sent[p]
               i == NextOf(e)
               len == m[i].len
               buf == IF len = 0 THEN NULL ELSE << >>
    <1>1. Header(e)  BY Zenon DEF gethdr
    <1>2. pc[e] \notin {"wait data", "closed"} /\ pc[e] # "wait data" /\ pc[e] # "write"
        BY Zenon
    <1>3. /\ NextMsg(e) = i /\ i \in 1 .. Len(m) /\ i \in Nat
          /\ len \in Nat /\ len \in Lens[p]
          /\ Linked(broken, m, i, HdrLen, Drop(inbuf[e], HdrLen), wire[p], out[p], stream[p])
        BY <1>1, <1>2, HeaderFacts, Zenon
    <1>4. /\ inbuf' = [inbuf EXCEPT ![e] = Drop(@, HdrLen)]
          /\ pkc_hdr' = [pkc_hdr EXCEPT ![e] = i]
          /\ pkc_left' = [pkc_left EXCEPT ![e] = len]
          /\ pkc_buf' = [pkc_buf EXCEPT ![e] = buf]
        BY <1>3, Zenon DEF gethdr, Message
    <1>5. /\ p \in Ends /\ p # e /\ Peer(p) = e /\ Types /\ Receiver(e)
          /\ m \in Seq(Messages) /\ inbuf[e] \in Seq(Byte)
        BY PeerOf, InvAt, BytesAt, Zenon
    <1>6. HdrLen \in 0 .. Len(inbuf[e])
        <2> DEFINE l == Len(inbuf[e])
        <2>1. l \in Nat  BY <1>5, LenIsNat, Zenon
        <2>2. l >= HdrLen  BY <1>1, Zenon DEF Header
        <2> HIDE DEF l
        <2>3. HdrLen \in 0 .. l  BY ONLY <2>1, <2>2, PkgAssumption
        <2>4. QED  BY <2>3, Zenon DEF l
    <1>7. /\ inbuf' \in [Ends -> Seq(AllBytes)] /\ inbuf'[e] = Drop(inbuf[e], HdrLen)
          /\ \A y \in Ends : y # e => inbuf'[y] = inbuf[y]
        BY <1>4, <1>6, TakeEffect, Zenon
    <1>8. /\ pkc_hdr' \in [Ends -> Nat] /\ pkc_hdr'[e] = i
          /\ \A y \in Ends : y # e => pkc_hdr'[y] = pkc_hdr[y]
        <2>1. pkc_hdr \in [Ends -> Nat]  BY <1>5, Zenon DEF Types
        <2>2. QED  BY <1>3, <1>4, <2>1, Updated, Zenon
    <1>9. /\ pkc_left' \in [Ends -> Int] /\ pkc_left'[e] = len
          /\ \A y \in Ends : y # e => pkc_left'[y] = pkc_left[y]
        <2>1. pkc_left \in [Ends -> Int]  BY <1>5, Zenon DEF Types
        <2>2. len \in Int
            <3> HIDE DEF len
            <3>1. QED  BY ONLY <1>3
        <2>3. QED  BY <1>4, <2>1, <2>2, Updated, Zenon
    <1>10. /\ pkc_buf' \in [Ends -> Seq(AllBytes)] /\ pkc_buf'[e] = buf
           /\ \A y \in Ends : y # e => pkc_buf'[y] = pkc_buf[y]
        <2>1. pkc_buf \in [Ends -> Seq(AllBytes)]  BY <1>5, Zenon DEF Types
        <2>2. buf \in Seq(AllBytes)
            <3>1. NULL \in Seq(AllBytes)  BY ONLY TRUE DEF NULL, AllBytes
            <3>2. << >> \in Seq(AllBytes)  BY EmptySeq, Zenon
            <3>3. QED  BY <3>1, <3>2, Zenon
        <2> HIDE DEF buf
        <2>3. QED  BY <1>4, <2>1, <2>2, Updated, Zenon
    <1>11. /\ sent' = sent /\ got' = got /\ wire' = wire /\ pc' = pc /\ hback' = hback
           /\ broken' = broken /\ cut' = cut /\ clash' = clash /\ out' = out /\ stream' = stream
           /\ UNCHANGED <<output, broken>>
        BY Zenon DEF output, history
    <1>12. /\ got' \in [Ends -> Seq(Handable)] /\ pc' \in [Ends -> Places]
           /\ hback' \in [Ends -> Backs] /\ cut' \in [Ends -> BOOLEAN]
           /\ clash' \in [Ends -> BOOLEAN]
        BY <1>5, <1>11, Zenon DEF Types
    <1>13. NextOf(e)' = i  BY <1>11, Zenon DEF NextOf
    <1>14. Begun(m, i, len, i, buf)  BY <1>3, <1>5, BegunNow, Zenon
    <1>15. len >= -1 /\ len >= 0 /\ ~(len < 0) /\ i <= Len(m)
        <2> DEFINE lm == Len(m)
        <2>1. lm \in Nat  BY <1>5, LenIsNat, Zenon
        <2>2. i \in 1 .. lm  BY <1>3, Zenon
        <2> HIDE DEF len, lm, i
        <2>3. len >= -1 /\ len >= 0 /\ ~(len < 0) /\ i <= lm  BY ONLY <1>3, <2>1, <2>2
        <2>4. QED  BY <2>3, Zenon DEF lm
    <1> HIDE DEF len, buf
    <1>16. Receiver(e)'
        <2>1. clash[e] => cut[e] \/ broken  BY <1>5, Zenon DEF Receiver
        <2>2. clash'[e] => cut'[e] \/ broken'
            BY <1>5, <1>11, <2>1, StillCut, Zenon
        <2>3. QED
            BY <1>2, <1>8, <1>9, <1>10, <1>11, <1>13, <1>14, <1>15, <2>2, Zenon DEF Receiver
    <1>17. Line(e)'
        <2>1. Parsed(e)' = Size(m, i) - len
            BY <1>2, <1>9, <1>11, <1>13, <1>15, Zenon DEF Parsed
        <2>2. Size(m, i) = HdrLen + len  BY Zenon DEF Size, len
        <2>3. (HdrLen + len) - len = HdrLen  BY ONLY <1>3, PkgAssumption
        <2>4. Parsed(e)' = HdrLen  BY <2>1, <2>2, <2>3, Zenon
        <2>5. QED  BY <1>3, <1>7, <1>11, <1>13, <2>4, Zenon DEF Line
    <1>18. QED
        BY <1>2, <1>7, <1>8, <1>9, <1>10, <1>11, <1>12, <1>16, <1>17, PlainParse, Zenon

LEMMA CollectStep ==
    ASSUME IInv, NEW e \in Ends, pkc_left[e] > 0, pc[e] \notin {"write", "closed"},
           NEW n \in 0 .. Len(inbuf[e]), n <= pkc_left[e], Collect(e, n),
           UNCHANGED <<output, got, wire, pkc_hdr, pc, hback, broken, history>>
    PROVE  IInv'
    <1> DEFINE p == Peer(e)
               m == sent[p]
               i == NextOf(e)
               len == m[i].len
               left == pkc_left[e]
               c == len - left
               in == inbuf[e]
               part == SubSeq(in, 1, n)
               buf == pkc_buf[e] \o part
    <1>1. /\ p \in Ends /\ p # e /\ Peer(p) = e /\ Types /\ Receiver(e)
          /\ m \in Seq(Messages) /\ in \in Seq(Byte) /\ left \in Int /\ broken \in BOOLEAN
          /\ wire[p] \in Seq(Byte) /\ out[p] \in Seq(Byte) /\ stream[p] \in Seq(Byte)
        BY PeerOf, InvAt, BytesAt, TypedAt, Zenon
    <1>2. left > 0 /\ left >= 0 /\ n <= left
        <2> HIDE DEF left
        <2>1. left > 0  BY Zenon DEF left
        <2>2. left >= 0  BY ONLY <1>1, <2>1
        <2>3. QED  BY <2>1, <2>2, Zenon DEF left
    <1>3. pc[e] # "closed" /\ pc[e] # "write"  BY Zenon
    <1>4. /\ i \in 1 .. Len(m) /\ i \in Nat /\ pkc_hdr[e] = i /\ len \in Nat
          /\ left \in 0 .. len /\ c \in 0 .. len
          /\ pkc_buf[e] = IF len = 0 THEN NULL ELSE Collected(i, c)
          /\ Linked(broken, m, i, HdrLen + c, in, wire[p], out[p], stream[p])
        BY <1>2, <1>3, PartFacts, Zenon
    <1>5. n \in Nat /\ c \in Nat /\ n <= len - c /\ len # 0 /\ left - n \in 0 .. len
          /\ c + n = len - (left - n) /\ left - n \in Int /\ HdrLen + c \in Nat
          /\ left - n >= -1 /\ left - n >= 0 /\ ~(left - n < 0)
          /\ (HdrLen + len) - (left - n) = (HdrLen + c) + n
        <2> DEFINE l == Len(in)
        <2>1. l \in Nat  BY <1>1, LenIsNat, Zenon
        <2>2. n \in 0 .. l  BY Zenon
        <2> HIDE DEF len, left, l
        <2>3. QED  BY ONLY <1>2, <1>4, <2>1, <2>2, PkgAssumption DEF c
    <1>6. part = [k \in 1 .. n |-> <<i, HdrLen + (c + k)>>]
        <2> DEFINE w == wire[p]
                   o == out[p]
                   s == stream[p]
        <2>0. broken \in BOOLEAN  BY Zenon DEF IInv, Types
        <2>1. n \in 0 .. Len(in) /\ n <= m[i].len - c /\ c \in 0 .. m[i].len  BY <1>4, <1>5, Zenon
        <2>2. Linked(broken, m, i, HdrLen + c, in, w, o, s)  BY <1>4, Zenon
        <2> HIDE DEF m, i, c, in, w, o, s
        <2>3. SubSeq(in, 1, n) = [k \in 1 .. n |-> <<i, HdrLen + (c + k)>>]
            BY ONLY <1>1, <1>4, <2>0, <2>1, <2>2, DataIsNext DEF len
        <2>4. QED  BY <2>3, Zenon
    <1>7. buf = Collected(i, c + n)
        <2>1. pkc_buf[e] = Collected(i, c)  BY <1>4, <1>5, Zenon
        <2>2. i \in Nat /\ c \in Nat /\ n \in Nat  BY <1>4, <1>5, Zenon
        <2> HIDE DEF part, i, c
        <2>3. Collected(i, c) \o part = Collected(i, c + n)
            BY ONLY <1>6, <2>2, CollectedJoin
        <2>4. QED  BY <2>1, <2>3, Zenon
    <1>8. /\ inbuf' = [inbuf EXCEPT ![e] = Drop(@, n)]
          /\ pkc_left' = [pkc_left EXCEPT ![e] = left - n]
          /\ pkc_buf' = [pkc_buf EXCEPT ![e] = buf]
        BY Zenon DEF Collect
    <1>9. /\ inbuf' \in [Ends -> Seq(AllBytes)] /\ inbuf'[e] = Drop(in, n)
          /\ \A y \in Ends : y # e => inbuf'[y] = inbuf[y]
        BY <1>8, TakeEffect, Zenon
    <1>10. /\ pkc_left' \in [Ends -> Int] /\ pkc_left'[e] = left - n
           /\ \A y \in Ends : y # e => pkc_left'[y] = pkc_left[y]
        <2>1. pkc_left \in [Ends -> Int]  BY <1>1, Zenon DEF Types
        <2>2. QED  BY <1>5, <1>8, <2>1, Updated, Zenon
    <1>11. /\ pkc_buf' \in [Ends -> Seq(AllBytes)] /\ pkc_buf'[e] = Collected(i, c + n)
           /\ \A y \in Ends : y # e => pkc_buf'[y] = pkc_buf[y]
        <2>1. pkc_buf \in [Ends -> Seq(AllBytes)]  BY <1>1, Zenon DEF Types
        <2> HIDE DEF i, c, buf
        <2>2. c + n \in Nat  BY ONLY <1>5
        <2>3. Collected(i, c + n) \in Seq(AllBytes)
            BY <1>4, <2>2, CollectedNone, Zenon DEF Byte
        <2>4. QED  BY <1>7, <1>8, <2>1, <2>3, Updated, Zenon
    <1>12. /\ sent' = sent /\ got' = got /\ wire' = wire /\ pc' = pc /\ hback' = hback
           /\ broken' = broken /\ cut' = cut /\ clash' = clash /\ out' = out /\ stream' = stream
           /\ pkc_hdr' = pkc_hdr /\ UNCHANGED <<output, broken>>
        BY Zenon DEF output, history
    <1>13. /\ got' \in [Ends -> Seq(Handable)] /\ pc' \in [Ends -> Places]
           /\ hback' \in [Ends -> Backs] /\ cut' \in [Ends -> BOOLEAN]
           /\ clash' \in [Ends -> BOOLEAN] /\ pkc_hdr' \in [Ends -> Nat]
        BY <1>1, <1>12, Zenon DEF Types
    <1>14. NextOf(e)' = i  BY <1>12, Zenon DEF NextOf
    <1>15. Begun(m, i, left, i, pkc_buf[e]) /\ pc[e] # "wait data" /\ (clash[e] => cut[e] \/ broken)
           /\ pkc_hdr[e] <= Len(m)
        BY <1>1, <1>2, <1>4, Zenon DEF Receiver
    <1>16. Begun(m, i, left - n, i, Collected(i, c + n))
        <2>1. i <= Len(m)  BY <1>15, Zenon DEF Begun
        <2>2. c + n = len - (left - n)  BY <1>5, Zenon
        <2> HIDE DEF c
        <2>3. QED  BY <1>5, <2>1, <2>2, Zenon DEF Begun
    <1>17. Receiver(e)'
        <2> DEFINE rest == left - n
                   all == Collected(i, c + n)
        <2>1. Begun(m, i, rest, i, all) /\ rest >= -1 /\ rest >= 0 /\ ~(rest < 0)
            BY <1>5, <1>16, Zenon
        <2>2. pkc_left'[e] = rest /\ pkc_buf'[e] = all /\ pkc_hdr'[e] = i
            BY <1>4, <1>10, <1>11, <1>12, Zenon
        <2>3. clash'[e] => cut'[e] \/ broken'
            BY <1>1, <1>12, <1>15, StillCut, Zenon
        <2> HIDE DEF rest, all
        <2>4. QED
            BY <1>4, <1>12, <1>14, <1>15, <2>1, <2>2, <2>3, Zenon DEF Receiver
    <1>18. Line(e)'
        <2> DEFINE rest == left - n
        <2>1. pkc_left'[e] = rest /\ ~(rest < 0) /\ (HdrLen + len) - rest = (HdrLen + c) + n
            BY <1>5, <1>10, Zenon
        <2> HIDE DEF rest
        <2>2. Parsed(e)' = Size(m, i) - rest
            BY <1>12, <1>14, <1>15, <2>1, Zenon DEF Parsed
        <2>3. Parsed(e)' = (HdrLen + c) + n  BY <2>1, <2>2, Zenon DEF Size
        <2>4. Linked(broken, m, i, (HdrLen + c) + n, Drop(in, n), wire[p], out[p], stream[p])
            BY <1>1, <1>4, <1>5, TakeLinked, Zenon
        <2>5. QED  BY <1>9, <1>12, <1>14, <2>3, <2>4, Zenon DEF Line
    <1>19. QED
        BY <1>3, <1>9, <1>10, <1>11, <1>12, <1>13, <1>17, <1>18, PlainParse, Zenon

(* What the history of hand-overs is after one more.                       *)
LEMMA HandEffect ==
    ASSUME Types, NEW e \in Ends, NEW x \in Handable,
           got' = [got EXCEPT ![Peer(e)] = Append(@, x)]
    PROVE  /\ got' \in [Ends -> Seq(Handable)] /\ got'[e] = got[e]
           /\ got'[Peer(e)] = Append(got[Peer(e)], x)
           /\ NextOf(e)' = NextOf(e) + 1
    <1> DEFINE p == Peer(e)
    <1>1. /\ p \in Ends /\ p # e /\ got \in [Ends -> Seq(Handable)]
          /\ got[p] \in Seq(Handable)
        BY PeerOf, Zenon DEF Types
    <1>2. /\ Append(got[p], x) \in Seq(Handable)
          /\ Len(Append(got[p], x)) = Len(got[p]) + 1
        BY ONLY <1>1, AppendProperties, x \in Handable
    <1>3. got' \in [Ends -> Seq(Handable)] /\ got'[e] = got[e] /\ got'[p] = Append(got[p], x)
        BY <1>1, <1>2, Updated, Zenon
    <1>4. NextOf(e)' = (Len(got[p]) + 1) + 1
        BY <1>2, <1>3, Zenon DEF NextOf
    <1>5. QED  BY <1>3, <1>4, Zenon DEF NextOf

(* The message the header announced is handed over, and the next one is    *)
(* looked for.                                                             *)
LEMMA HandedOver ==
    ASSUME IInv, NEW e \in Ends, NEW data, Hand(e, data),
           NextOf(e) \in 1 .. Len(sent[Peer(e)]), pkc_hdr[e] = NextOf(e),
           LET m == sent[Peer(e)]  i == NextOf(e)
           IN  data = Payload(i, m[i].len) \/ (m[i].len = 0 /\ data = NULL)
    PROVE  /\ got' \in [Ends -> Seq(Handable)] /\ got'[e] = got[e]
           /\ got' = [got EXCEPT ![Peer(e)] = Append(@, sent[Peer(e)][NextOf(e)])]
           /\ NextOf(e)' = NextOf(e) + 1
    <1> DEFINE x == sent[Peer(e)][NextOf(e)]
    <1>1. x \in Handable  BY BytesAt, LenIsNat, Zenon DEF Handable
    <1>2. Handed(e, data) = x  BY Zenon DEF Handed, Message
    <1>3. got' = [got EXCEPT ![Peer(e)] = Append(@, x)]  BY <1>2, Zenon DEF Hand
    <1>4. Types  BY InvAt, Zenon
    <1>5. QED  BY <1>1, <1>3, <1>4, HandEffect, Zenon

LEMMA DispatchHands ==
    ASSUME IInv, NEW e \in Ends, pc[e] # "closed", NEW back, dispatch(e, back)
    PROVE  /\ NextOf(e) \in 1 .. Len(sent[Peer(e)])
           /\ got' \in [Ends -> Seq(Handable)] /\ got'[e] = got[e]
           /\ got' = [got EXCEPT ![Peer(e)] = Append(@, sent[Peer(e)][NextOf(e)])]
           /\ NextOf(e)' = NextOf(e) + 1
    <1> DEFINE m == sent[Peer(e)]
               i == NextOf(e)
               len == m[i].len
    <1>1. pkc_left[e] = 0 /\ Hand(e, pkc_buf[e])  BY Zenon DEF dispatch
    <1>2. pkc_left[e] >= 0  BY ONLY <1>1
    <1>3. /\ i \in 1 .. Len(m) /\ i \in Nat /\ pkc_hdr[e] = i /\ len \in Nat
          /\ pkc_buf[e] = IF len = 0 THEN NULL ELSE Collected(i, len - pkc_left[e])
        BY <1>2, PartFacts, Zenon
    <1>4. len - 0 = len
        <2> HIDE DEF len
        <2>1. QED  BY ONLY <1>3
    <1>5. pkc_buf[e] = Payload(i, len) \/ (len = 0 /\ pkc_buf[e] = NULL)
        <2>1. CASE len = 0  BY <1>3, <2>1, Zenon
        <2>2. CASE len # 0
            <3>1. pkc_buf[e] = Collected(i, len)  BY <1>1, <1>3, <1>4, <2>2, Zenon
            <3>2. QED  BY <1>3, <3>1, CollectedNone, Zenon
        <2>3. QED  BY <2>1, <2>2, Zenon
    <1>6. QED  BY <1>1, <1>3, <1>5, HandedOver, Zenon

LEMMA DispatchStep ==
    ASSUME IInv, NEW e \in Ends, pc[e] \notin {"write", "wait data", "closed"},
           NEW back \in Backs, dispatch(e, back), UNCHANGED <<output, broken, history>>
    PROVE  IInv'
    <1> DEFINE p == Peer(e)
               m == sent[p]
               i == NextOf(e)
               len == m[i].len
    <1>1. /\ p \in Ends /\ p # e /\ Peer(p) = e /\ Types /\ Receiver(e)
          /\ m \in Seq(Messages) /\ inbuf[e] \in Seq(Byte) /\ broken \in BOOLEAN
          /\ wire[p] \in Seq(Byte) /\ out[p] \in Seq(Byte) /\ stream[p] \in Seq(Byte)
        BY PeerOf, InvAt, BytesAt, Zenon
    <1>2. pc[e] # "closed" /\ pc[e] # "write"  BY Zenon
    <1>3. /\ pkc_left[e] = 0
          /\ pkc_buf' = [pkc_buf EXCEPT ![e] = NULL]
          /\ pkc_left' = [pkc_left EXCEPT ![e] = -1]
          /\ hback' = [hback EXCEPT ![e] = back]
          /\ Go(e, "handler") /\ pkc_hdr' = pkc_hdr /\ inbuf' = inbuf /\ wire' = wire
          /\ sent' = sent /\ out' = out /\ stream' = stream /\ broken' = broken
          /\ cut' = cut /\ clash' = clash /\ UNCHANGED <<output, broken>>
        BY Zenon DEF dispatch, input, output, history
    <1>4. /\ i \in 1 .. Len(m) /\ got' \in [Ends -> Seq(Handable)] /\ got'[e] = got[e]
          /\ NextOf(e)' = i + 1
        BY <1>2, DispatchHands, Zenon
    <1>5. /\ i \in Nat /\ len \in Nat
          /\ Linked(broken, m, i, HdrLen + (len - pkc_left[e]), inbuf[e], wire[p], out[p],
                    stream[p])
        <2>1. pkc_left[e] >= 0  BY ONLY <1>3
        <2>2. QED  BY <1>2, <2>1, PartFacts, Zenon
    <1>6. Linked(broken, m, i + 1, 0, inbuf[e], wire[p], out[p], stream[p])
        <2>1. HdrLen + (len - 0) = HdrLen + len
            <3> HIDE DEF len
            <3>1. QED  BY ONLY <1>5, PkgAssumption
        <2>2. Linked(broken, m, i, Size(m, i), inbuf[e], wire[p], out[p], stream[p])
            BY <1>3, <1>5, <2>1, Zenon DEF Size
        <2>3. QED  BY <1>1, <1>4, <2>2, NextLinked, Zenon
    <1>7. /\ pkc_left' \in [Ends -> Int] /\ pkc_left'[e] = -1
          /\ \A y \in Ends : y # e => pkc_left'[y] = pkc_left[y]
        <2>1. pkc_left \in [Ends -> Int]  BY <1>1, Zenon DEF Types
        <2>2. -1 \in Int  BY ONLY TRUE
        <2>3. QED  BY <1>3, <2>1, <2>2, Updated, Zenon
    <1>8. /\ pkc_buf' \in [Ends -> Seq(AllBytes)] /\ pkc_buf'[e] = NULL
          /\ \A y \in Ends : y # e => pkc_buf'[y] = pkc_buf[y]
        <2>1. pkc_buf \in [Ends -> Seq(AllBytes)]  BY <1>1, Zenon DEF Types
        <2>2. NULL \in Seq(AllBytes)  BY ONLY TRUE DEF NULL, AllBytes
        <2>3. QED  BY <1>3, <2>1, <2>2, Updated, Zenon
    <1>9. pc' \in [Ends -> Places] /\ pc'[e] = "handler" /\ \A y \in Ends : y # e => pc'[y] = pc[y]
        <2>1. "handler" \in Places  BY ONLY TRUE DEF Places
        <2>2. QED  BY <1>1, <1>3, <2>1, WentTo, Zenon
    <1>10. /\ hback' \in [Ends -> Backs] /\ pkc_hdr' \in [Ends -> Nat]
           /\ cut' \in [Ends -> BOOLEAN] /\ clash' \in [Ends -> BOOLEAN]
           /\ inbuf' \in [Ends -> Seq(AllBytes)]
        <2>1. hback \in [Ends -> Backs]  BY <1>1, Zenon DEF Types
        <2>2. hback' \in [Ends -> Backs]  BY <1>3, <2>1, Updated, Zenon
        <2>3. QED  BY <1>1, <1>3, <2>2, Zenon DEF Types
    <1>11. Receiver(e)'
        <2>1. (clash[e] => cut[e] \/ broken) /\ pkc_hdr[e] <= Len(m)  BY <1>1, Zenon DEF Receiver
        <2>2. pc'[e] # "wait data"  BY ONLY <1>9
        <2> DEFINE left == -1
        <2>3. left >= -1 /\ ~(left >= 0)  BY ONLY TRUE
        <2> HIDE DEF left
        <2>4. pkc_left'[e] = left  BY <1>7, Zenon DEF left
        <2>5. clash'[e] => cut'[e] \/ broken'
            BY <1>1, <1>3, <2>1, StillCut, Zenon
        <2>6. QED  BY <1>3, <1>8, <2>1, <2>2, <2>3, <2>4, <2>5, Zenon DEF Receiver
    <1>12. Line(e)'
        <2>1. Parsed(e)' = 0
            <3>1. pc'[e] # "wait data"  BY ONLY <1>9
            <3>2. pkc_left'[e] < 0  BY ONLY <1>7
            <3>3. QED  BY <3>1, <3>2, Zenon DEF Parsed
        <2>2. QED  BY <1>3, <1>4, <1>6, <2>1, Zenon DEF Line
    <1>13. \A y \in Ends : y # e =>
               /\ inbuf'[y] = inbuf[y] /\ pkc_left'[y] = pkc_left[y]
               /\ pkc_hdr'[y] = pkc_hdr[y] /\ pkc_buf'[y] = pkc_buf[y] /\ pc'[y] = pc[y]
               /\ cut'[y] = cut[y] /\ clash'[y] = clash[y]
        BY <1>3, <1>7, <1>8, <1>9, Zenon
    <1>14. QED
        BY <1>2, <1>3, <1>4, <1>7, <1>8, <1>9, <1>10, <1>11, <1>12, <1>13, PlainParse, Zenon

(* pkg_waitfor fails on bytes that are in pkc_buf already.                 *)
LEMMA ClashStep ==
    ASSUME IInv, NEW e \in Ends, pc[e] = "wait", pkc_left[e] < 0, pkc_buf[e] # NULL,
           clash' = [clash EXCEPT ![e] = TRUE], Go(e, "idle"), UNCHANGED <<inbuf, parse>>,
           UNCHANGED <<output, got, wire, hback, broken, cut>>
    PROVE  IInv'
    <1> DEFINE p == Peer(e)
    <1>1. /\ p \in Ends /\ p # e /\ Peer(p) = e /\ Types /\ Receiver(e)
        BY PeerOf, InvAt, Zenon
    <1>2. pc[e] # "write" /\ pc[e] \notin {"wait data", "closed"} /\ pc[e] # "wait data"
          /\ pc[e] # "closed"
        BY Zenon
    <1>3. cut[e] \/ broken  BY <1>1, <1>2, Zenon DEF Receiver
    <1>4. /\ inbuf' = inbuf /\ pkc_left' = pkc_left /\ pkc_hdr' = pkc_hdr
          /\ pkc_buf' = pkc_buf /\ sent' = sent /\ out' = out /\ stream' = stream
          /\ wire' = wire /\ got' = got /\ hback' = hback /\ broken' = broken /\ cut' = cut
          /\ UNCHANGED <<output, broken>>
        BY Zenon DEF parse, output
    <1>5. pc' \in [Ends -> Places] /\ pc'[e] = "idle" /\ \A y \in Ends : y # e => pc'[y] = pc[y]
        <2>1. "idle" \in Places  BY ONLY TRUE DEF Places
        <2>2. QED  BY <1>1, <2>1, WentTo, Zenon
    <1>6. /\ clash' \in [Ends -> BOOLEAN] /\ clash'[e] = TRUE
          /\ \A y \in Ends : y # e => clash'[y] = clash[y]
        <2>1. clash \in [Ends -> BOOLEAN] /\ TRUE \in BOOLEAN  BY <1>1, Zenon DEF Types
        <2>2. QED  BY <2>1, Updated, Zenon
    <1>7. /\ got' \in [Ends -> Seq(Handable)] /\ inbuf' \in [Ends -> Seq(AllBytes)]
          /\ pkc_left' \in [Ends -> Int] /\ pkc_hdr' \in [Ends -> Nat]
          /\ pkc_buf' \in [Ends -> Seq(AllBytes)] /\ hback' \in [Ends -> Backs]
          /\ cut' \in [Ends -> BOOLEAN] /\ got'[e] = got[e]
        BY <1>1, <1>4, Zenon DEF Types
    <1>8. ~(pkc_left[e] >= 0)
        <2>1. pkc_left[e] \in Int  BY <1>1, TypedAt, Zenon
        <2> DEFINE left == pkc_left[e]
        <2>2. left < 0  BY Zenon
        <2> HIDE DEF left
        <2>3. ~(left >= 0)  BY ONLY <2>1, <2>2 DEF left
        <2>4. QED  BY <2>3, Zenon DEF left
    <1>9. cut'[e] \/ broken'
        <2>1. cut'[e] = cut[e] /\ broken' = broken  BY <1>4, Zenon
        <2>2. cut[e] \in BOOLEAN /\ broken \in BOOLEAN  BY <1>1, TypedAt, Zenon
        <2>3. QED  BY ONLY <1>3, <2>1, <2>2
    <1>10. pc'[e] # "wait data"  BY ONLY <1>5
    <1>11. Receiver(e)'
        <2>1. pkc_left[e] >= -1 /\ pkc_hdr[e] <= Len(sent[p])  BY <1>1, Zenon DEF Receiver
        <2>2. QED  BY <1>4, <1>8, <1>9, <1>10, <2>1, Zenon DEF Receiver
    <1>12. Line(e)'
        <2>1. NextOf(e)' = NextOf(e)  BY <1>4, Zenon DEF NextOf
        <2>2. Parsed(e)' = 0 /\ Parsed(e) = 0
            BY <1>2, <1>4, <1>10, Zenon DEF Parsed
        <2>3. Linked(broken, sent[p], NextOf(e), 0, inbuf[e], wire[p], out[p], stream[p])
            BY <1>2, <2>2, LinkedAt, Zenon
        <2>4. QED  BY <1>4, <2>1, <2>2, <2>3, Zenon DEF Line
    <1>13. \A y \in Ends : y # e =>
               /\ inbuf'[y] = inbuf[y] /\ pkc_left'[y] = pkc_left[y]
               /\ pkc_hdr'[y] = pkc_hdr[y] /\ pkc_buf'[y] = pkc_buf[y] /\ pc'[y] = pc[y]
               /\ cut'[y] = cut[y] /\ clash'[y] = clash[y]
        BY <1>4, <1>5, <1>6, Zenon
    <1>14. QED
        BY <1>2, <1>4, <1>5, <1>6, <1>7, <1>11, <1>12, <1>13, PlainParse, Zenon

(* The header of the reply that pkg_waitfor waits for.                     *)
LEMMA ReplyHeaderStep ==
    ASSUME IInv, NEW e \in Ends, pc[e] = "wait", pkc_left[e] < 0, Header(e),
           inbuf' = [inbuf EXCEPT ![e] = Drop(@, HdrLen)],
           pkc_hdr' = [pkc_hdr EXCEPT ![e] = NextMsg(e)],
           pkc_buf' = [pkc_buf EXCEPT ![e] =
                          IF Message(Peer(e), NextMsg(e)).len = 0 THEN NULL ELSE << >>],
           Go(e, "wait data"), UNCHANGED <<pkc_left, clash>>,
           UNCHANGED <<output, got, wire, hback, broken, cut>>
    PROVE  IInv'
    <1> DEFINE p == Peer(e)
               m == sent[p]
               i == NextOf(e)
               len == m[i].len
               buf == IF len = 0 THEN NULL ELSE << >>
    <1>1. pc[e] \notin {"wait data", "closed"} /\ pc[e] # "write"  BY Zenon
    <1>2. /\ NextMsg(e) = i /\ i \in 1 .. Len(m) /\ i \in Nat
          /\ len \in Nat /\ len \in Lens[p]
          /\ Linked(broken, m, i, HdrLen, Drop(inbuf[e], HdrLen), wire[p], out[p], stream[p])
        BY <1>1, HeaderFacts, Zenon
    <1>3. /\ pkc_hdr' = [pkc_hdr EXCEPT ![e] = i] /\ pkc_buf' = [pkc_buf EXCEPT ![e] = buf]
        BY <1>2, Zenon DEF Message
    <1>4. /\ p \in Ends /\ p # e /\ Peer(p) = e /\ Types /\ Receiver(e)
          /\ m \in Seq(Messages) /\ inbuf[e] \in Seq(Byte)
        BY PeerOf, InvAt, BytesAt, Zenon
    <1>5. HdrLen \in 0 .. Len(inbuf[e])
        <2> DEFINE l == Len(inbuf[e])
        <2>1. l \in Nat  BY <1>4, LenIsNat, Zenon
        <2>2. l >= HdrLen  BY Zenon DEF Header
        <2> HIDE DEF l
        <2>3. HdrLen \in 0 .. l  BY ONLY <2>1, <2>2, PkgAssumption
        <2>4. QED  BY <2>3, Zenon DEF l
    <1>6. /\ inbuf' \in [Ends -> Seq(AllBytes)] /\ inbuf'[e] = Drop(inbuf[e], HdrLen)
          /\ \A y \in Ends : y # e => inbuf'[y] = inbuf[y]
        BY <1>5, TakeEffect, Zenon
    <1>7. /\ pkc_hdr' \in [Ends -> Nat] /\ pkc_hdr'[e] = i
          /\ \A y \in Ends : y # e => pkc_hdr'[y] = pkc_hdr[y]
        <2>1. pkc_hdr \in [Ends -> Nat]  BY <1>4, Zenon DEF Types
        <2>2. i \in Nat /\ e \in Ends  BY <1>2, Zenon
        <2> HIDE DEF i
        <2>3. QED  BY ONLY <1>3, <2>1, <2>2, Updated, Zenon
    <1>8. /\ pkc_buf' \in [Ends -> Seq(AllBytes)] /\ pkc_buf'[e] = buf
          /\ \A y \in Ends : y # e => pkc_buf'[y] = pkc_buf[y]
        <2>1. pkc_buf \in [Ends -> Seq(AllBytes)]  BY <1>4, Zenon DEF Types
        <2>2. buf \in Seq(AllBytes)
            <3>1. NULL \in Seq(AllBytes)  BY ONLY TRUE DEF NULL, AllBytes
            <3>2. << >> \in Seq(AllBytes)  BY EmptySeq, Zenon
            <3>3. QED  BY <3>1, <3>2, Zenon
        <2>3. e \in Ends  OBVIOUS
        <2> HIDE DEF buf
        <2>4. QED  BY ONLY <1>3, <2>1, <2>2, <2>3, Updated, Zenon
    <1>9. /\ pc' \in [Ends -> Places] /\ pc'[e] = "wait data"
          /\ \A y \in Ends : y # e => pc'[y] = pc[y]
        <2>1. "wait data" \in Places  BY ONLY TRUE DEF Places
        <2>2. QED  BY <1>4, <2>1, WentTo, Zenon
    <1>10. /\ sent' = sent /\ got' = got /\ wire' = wire /\ hback' = hback
           /\ broken' = broken /\ cut' = cut /\ clash' = clash /\ out' = out /\ stream' = stream
           /\ pkc_left' = pkc_left /\ UNCHANGED <<output, broken>>
        BY Zenon DEF output
    <1>11. /\ got' \in [Ends -> Seq(Handable)] /\ pkc_left' \in [Ends -> Int]
           /\ hback' \in [Ends -> Backs] /\ cut' \in [Ends -> BOOLEAN]
           /\ clash' \in [Ends -> BOOLEAN] /\ got'[e] = got[e]
        BY <1>4, <1>10, Zenon DEF Types
    <1>12. NextOf(e)' = i  BY <1>10, Zenon DEF NextOf
    <1>13. Begun(m, i, len, i, buf)  BY <1>2, <1>4, BegunNow, Zenon
    <1>14. i <= Len(m)  BY <1>13, Zenon DEF Begun
    <1>15. ~(pkc_left[e] >= 0)
        <2>1. pkc_left[e] \in Int  BY <1>4, TypedAt, Zenon
        <2> DEFINE left == pkc_left[e]
        <2>2. left < 0  BY Zenon
        <2> HIDE DEF left
        <2>3. ~(left >= 0)  BY ONLY <2>1, <2>2 DEF left
        <2>4. QED  BY <2>3, Zenon DEF left
    <1>16. Receiver(e)'
        <2>1. (clash[e] => cut[e] \/ broken) /\ pkc_left[e] >= -1  BY <1>4, Zenon DEF Receiver
        <2>2. pkc_left'[e] = pkc_left[e] /\ sent'[p][NextOf(e)'].len = len
            BY <1>10, <1>12, Zenon
        <2>3. clash'[e] => cut'[e] \/ broken'
            BY <1>4, <1>10, <2>1, StillCut, Zenon
        <2> HIDE DEF buf, len
        <2>4. QED
            BY <1>7, <1>8, <1>9, <1>10, <1>12, <1>13, <1>14, <1>15, <2>1, <2>2, <2>3, Zenon DEF Receiver
    <1>17. Line(e)'
        <2>1. Parsed(e)' = HdrLen  BY <1>9, Zenon DEF Parsed
        <2>2. QED  BY <1>2, <1>6, <1>10, <1>12, <2>1, Zenon DEF Line
    <1>18. \A y \in Ends : y # e =>
               /\ inbuf'[y] = inbuf[y] /\ pkc_left'[y] = pkc_left[y]
               /\ pkc_hdr'[y] = pkc_hdr[y] /\ pkc_buf'[y] = pkc_buf[y] /\ pc'[y] = pc[y]
               /\ cut'[y] = cut[y] /\ clash'[y] = clash[y]
        BY <1>6, <1>7, <1>8, <1>9, <1>10, Zenon
    <1>19. QED
        BY <1>1, <1>6, <1>7, <1>8, <1>9, <1>10, <1>11, <1>16, <1>17, <1>18, PlainParse, Zenon

(* pkg_waitfor has the header of the reply, and all of its data is in the  *)
(* buffer.                                                                 *)
LEMMA ReplyFacts ==
    ASSUME IInv, NEW e \in Ends, pc[e] = "wait data",
           Len(inbuf[e]) >= sent[Peer(e)][pkc_hdr[e]].len
    PROVE  LET m == sent[Peer(e)]  i == NextOf(e)  len == m[i].len
           IN  /\ i \in 1 .. Len(m) /\ i \in Nat /\ pkc_hdr[e] = i
               /\ len \in Nat /\ len \in 0 .. Len(inbuf[e])
               /\ SubSeq(inbuf[e], 1, len) = Payload(i, len)
               /\ Linked(broken, m, i + 1, 0, Drop(inbuf[e], len), wire[Peer(e)], out[Peer(e)],
                         stream[Peer(e)])
    <1> DEFINE p == Peer(e)
               m == sent[p]
               i == NextOf(e)
               len == m[i].len
               lm == Len(m)
               in == inbuf[e]
               w == wire[p]
               o == out[p]
               s == stream[p]
    <1>1. /\ m \in Seq(Messages) /\ i \in Nat /\ broken \in BOOLEAN /\ lm \in Nat
          /\ in \in Seq(Byte) /\ Len(in) \in Nat
          /\ w \in Seq(Byte) /\ o \in Seq(Byte) /\ s \in Seq(Byte)
        BY BytesAt, LenIsNat, Zenon
    <1>2. Receiver(e) /\ i \in Nat \ {0}
        <2>1. Receiver(e) /\ Types  BY InvAt, Zenon
        <2>2. QED  BY <2>1, ParsedIsNat, Zenon
    <1>3. i <= lm /\ pkc_hdr[e] = i
        <2>1. Begun(m, i, len, pkc_hdr[e], pkc_buf[e])  BY <1>2, Zenon DEF Receiver
        <2>2. QED  BY <2>1, Zenon DEF Begun
    <1>4. i \in 1 .. lm
        <2> HIDE DEF i, lm
        <2>1. QED  BY ONLY <1>1, <1>2, <1>3
    <1>5. len \in Nat  BY <1>1, <1>4, MessagesHaveSizes, Zenon DEF Sizes
    <1>6. len \in 0 .. Len(in)
        <2> DEFINE l == Len(in)
        <2>1. l >= len  BY <1>3, Zenon
        <2>2. l \in Nat  BY <1>1, Zenon
        <2> HIDE DEF l, len
        <2>3. len \in 0 .. l  BY ONLY <1>5, <2>1, <2>2
        <2>4. QED  BY <2>3, Zenon DEF l
    <1>7. Linked(broken, m, i, HdrLen, in, w, o, s)
        <2>1. pc[e] # "closed"  BY Zenon
        <2>2. Parsed(e) = HdrLen  BY Zenon DEF Parsed
        <2>3. QED  BY <2>1, <2>2, LinkedAt, Zenon
    <1>8. SubSeq(in, 1, len) = Payload(i, len)
        <2>1. Linked(broken, m, i, HdrLen + 0, in, w, o, s)
            <3>1. HdrLen + 0 = HdrLen  BY ONLY PkgAssumption
            <3>2. QED  BY <1>7, <3>1, Zenon
        <2>2. 0 \in 0 .. m[i].len /\ len <= m[i].len - 0
            <3> HIDE DEF len
            <3>1. 0 \in 0 .. len /\ len <= len - 0  BY ONLY <1>5
            <3>2. QED  BY <3>1, Zenon DEF len
        <2>3. /\ m \in Seq(Messages) /\ i \in 1 .. Len(m) /\ in \in Seq(Byte)
              /\ broken \in BOOLEAN
            BY <1>1, <1>4, Zenon
        <2>4. SubSeq(in, 1, len) = [k \in 1 .. len |-> <<i, HdrLen + (0 + k)>>]
            <3> DEFINE n == len
            <3>1. n \in 0 .. Len(in) /\ n <= m[i].len - 0  BY <1>6, <2>2, Zenon
            <3> HIDE DEF n, m, i, in, w, o, s
            <3>2. SubSeq(in, 1, n) = [k \in 1 .. n |-> <<i, HdrLen + (0 + k)>>]
                BY ONLY <2>1, <2>2, <2>3, <3>1, DataIsNext
            <3>3. QED  BY <3>2, Zenon DEF n
        <2>5. \A k \in 1 .. len : 0 + k = k
            <3> HIDE DEF len
            <3>1. QED  BY ONLY <1>5
        <2> HIDE DEF len, i
        <2>6. [k \in 1 .. len |-> <<i, HdrLen + (0 + k)>>] = Payload(i, len)
            BY <2>5, Zenon DEF Payload
        <2>7. QED  BY <2>4, <2>6, Zenon
    <1>9. Linked(broken, m, i + 1, 0, Drop(in, len), w, o, s)
        <2>1. HdrLen \in Nat  BY ONLY PkgAssumption
        <2>2. Linked(broken, m, i, HdrLen + len, Drop(in, len), w, o, s)
            BY <1>1, <1>6, <1>7, <2>1, TakeLinked, Zenon
        <2>3. Linked(broken, m, i, Size(m, i), Drop(in, len), w, o, s)
            BY <2>2, Zenon DEF Size
        <2>4. QED  BY <1>1, <1>4, <2>3, NextLinked, Zenon
    <1>10. QED  BY <1>1, <1>3, <1>4, <1>5, <1>6, <1>8, <1>9, Zenon

LEMMA GetReplyHands ==
    ASSUME IInv, NEW e \in Ends, GetReply(e)
    PROVE  /\ NextOf(e) \in 1 .. Len(sent[Peer(e)])
           /\ got' \in [Ends -> Seq(Handable)] /\ got'[e] = got[e]
           /\ got' = [got EXCEPT ![Peer(e)] = Append(@, sent[Peer(e)][NextOf(e)])]
           /\ NextOf(e)' = NextOf(e) + 1
    <1> DEFINE m == sent[Peer(e)]
               i == NextOf(e)
               len == m[i].len
               h == m[pkc_hdr[e]].len
    <1>1. pc[e] = "wait data" /\ Len(inbuf[e]) >= h /\ Hand(e, SubSeq(inbuf[e], 1, h))
        BY Zenon DEF GetReply, Message
    <1>2. /\ i \in 1 .. Len(m) /\ pkc_hdr[e] = i
          /\ SubSeq(inbuf[e], 1, len) = Payload(i, len)
        BY <1>1, ReplyFacts, Zenon
    <1> DEFINE data == SubSeq(inbuf[e], 1, len)
    <1>3. Hand(e, data)  BY <1>1, <1>2, Zenon
    <1>4. data = Payload(i, len)  BY <1>2, Zenon
    <1> HIDE DEF data
    <1>5. QED  BY <1>2, <1>3, <1>4, HandedOver, Zenon

LEMMA GetReplyStep ==
    ASSUME IInv, NEW e \in Ends, GetReply(e)
    PROVE  IInv'
    <1> DEFINE p == Peer(e)
               m == sent[p]
               i == NextOf(e)
               len == m[i].len
    <1>1. /\ pc[e] = "wait data" /\ Len(inbuf[e]) >= m[pkc_hdr[e]].len
          /\ inbuf' = [inbuf EXCEPT ![e] = Drop(@, m[pkc_hdr[e]].len)]
          /\ \/ pkc_buf' = [pkc_buf EXCEPT ![e] = NULL] /\ UNCHANGED cut
             \/ cut' = [cut EXCEPT ![e] = TRUE] /\ UNCHANGED pkc_buf
          /\ Go(e, "idle")
          /\ UNCHANGED <<output, wire, pkc_left, pkc_hdr, hback, broken, clash>>
        BY Zenon DEF GetReply, Message
    <1>2. /\ i \in 1 .. Len(m) /\ i \in Nat /\ pkc_hdr[e] = i
          /\ len \in Nat /\ len \in 0 .. Len(inbuf[e])
          /\ Linked(broken, m, i + 1, 0, Drop(inbuf[e], len), wire[p], out[p], stream[p])
        BY <1>1, ReplyFacts, Zenon
    <1>3. /\ got' \in [Ends -> Seq(Handable)] /\ got'[e] = got[e] /\ NextOf(e)' = i + 1
        BY GetReplyHands, Zenon
    <1>4. /\ p \in Ends /\ p # e /\ Peer(p) = e /\ Types /\ Receiver(e)
        BY PeerOf, InvAt, Zenon
    <1>5. /\ sent' = sent /\ wire' = wire /\ hback' = hback
          /\ broken' = broken /\ clash' = clash /\ out' = out /\ stream' = stream
          /\ pkc_left' = pkc_left /\ pkc_hdr' = pkc_hdr /\ UNCHANGED <<output, broken>>
        BY <1>1, Zenon DEF output
    <1>6. pc[e] # "write"  BY ONLY <1>1
    <1>7. /\ inbuf' \in [Ends -> Seq(AllBytes)] /\ inbuf'[e] = Drop(inbuf[e], len)
          /\ \A y \in Ends : y # e => inbuf'[y] = inbuf[y]
        BY <1>1, <1>2, TakeEffect, Zenon
    <1>8. pc' \in [Ends -> Places] /\ pc'[e] = "idle" /\ \A y \in Ends : y # e => pc'[y] = pc[y]
        <2>1. "idle" \in Places  BY ONLY TRUE DEF Places
        <2>2. QED  BY <1>1, <1>4, <2>1, WentTo, Zenon
    <1>9. /\ pkc_buf' \in [Ends -> Seq(AllBytes)] /\ cut' \in [Ends -> BOOLEAN]
          /\ \A y \in Ends : y # e => pkc_buf'[y] = pkc_buf[y] /\ cut'[y] = cut[y]
          /\ pkc_buf'[e] = NULL \/ cut'[e] = TRUE
          /\ cut'[e] = cut[e] \/ cut'[e] = TRUE
        <2>1. pkc_buf \in [Ends -> Seq(AllBytes)] /\ cut \in [Ends -> BOOLEAN] /\ TRUE \in BOOLEAN
            BY <1>4, Zenon DEF Types
        <2>2. NULL \in Seq(AllBytes)  BY ONLY TRUE DEF NULL, AllBytes
        <2>3. CASE pkc_buf' = [pkc_buf EXCEPT ![e] = NULL] /\ UNCHANGED cut
            BY <2>1, <2>2, <2>3, Updated, Zenon
        <2>4. CASE cut' = [cut EXCEPT ![e] = TRUE] /\ UNCHANGED pkc_buf
            BY <2>1, <2>4, Updated, Zenon
        <2>5. QED  BY <1>1, <2>3, <2>4, Zenon
    <1>10. /\ pkc_left' \in [Ends -> Int] /\ pkc_hdr' \in [Ends -> Nat]
           /\ hback' \in [Ends -> Backs] /\ clash' \in [Ends -> BOOLEAN]
        BY <1>4, <1>5, Zenon DEF Types
    <1>11. ~(pkc_left[e] >= 0) /\ pkc_left[e] < 0
        <2> DEFINE left == pkc_left[e]
        <2>1. left \in Int  BY <1>4, TypedAt, Zenon
        <2>2. ~(left >= 0)  BY <1>1, <1>4, Zenon DEF Receiver
        <2> HIDE DEF left
        <2>3. left < 0  BY ONLY <2>1, <2>2
        <2>4. QED  BY <2>2, <2>3, Zenon DEF left
    <1>12. pc'[e] # "wait data"  BY ONLY <1>8
    <1>13. Receiver(e)'
        <2>1. (clash[e] => cut[e] \/ broken) /\ pkc_left[e] >= -1 /\ pkc_hdr[e] <= Len(m)
            BY <1>4, Zenon DEF Receiver
        <2>2. clash'[e] => cut'[e] \/ broken'
            <3>1. CASE cut'[e] = TRUE  BY <3>1, Zenon
            <3>2. CASE cut'[e] = cut[e]
                <4>1. /\ clash'[e] = clash[e] /\ cut[e] \in BOOLEAN /\ clash[e] \in BOOLEAN
                      /\ broken' = broken /\ broken \in BOOLEAN
                    BY <1>4, <1>5, TypedAt, Zenon
                <4>2. QED  BY ONLY <2>1, <3>2, <4>1
            <3>3. QED  BY <1>9, <3>1, <3>2, Zenon
        <2>3. pkc_buf'[e] # NULL => cut'[e]  BY <1>9, Zenon
        <2>4. QED  BY <1>5, <1>11, <1>12, <2>1, <2>2, <2>3, Zenon DEF Receiver
    <1>14. Line(e)'
        <2>1. Parsed(e)' = 0  BY <1>5, <1>11, <1>12, Zenon DEF Parsed
        <2>2. QED  BY <1>2, <1>3, <1>5, <1>7, <2>1, Zenon DEF Line
    <1>15. \A y \in Ends : y # e =>
               /\ inbuf'[y] = inbuf[y] /\ pkc_left'[y] = pkc_left[y]
               /\ pkc_hdr'[y] = pkc_hdr[y] /\ pkc_buf'[y] = pkc_buf[y] /\ pc'[y] = pc[y]
               /\ cut'[y] = cut[y] /\ clash'[y] = clash[y]
        BY <1>5, <1>7, <1>8, <1>9, Zenon
    <1>16. QED
        BY <1>3, <1>5, <1>6, <1>7, <1>8, <1>9, <1>10, <1>13, <1>14, <1>15, PlainParse, Zenon

LEMMA ProcessStep ==
    ASSUME IInv, NEW e \in Ends, pkg_process(e)
    PROVE  IInv'
    <1> DEFINE n == Len(inbuf[e])
               left == pkc_left[e]
               place == IF pc[e] = "process" THEN "select" ELSE "idle"
               k == IF n > left THEN left ELSE n
    <1>1. /\ pc[e] \in {"process", "process again"} /\ UNCHANGED <<output, broken, history>>
          /\ \/ Go(e, place) /\ UNCHANGED <<got, input, parse, hback>>
             \/ left < 0 /\ gethdr(e) /\ UNCHANGED <<got, wire, pc, hback>>
             \/ left > 0 /\ n > 0 /\ Collect(e, k) /\ UNCHANGED <<got, wire, pkc_hdr, pc, hback>>
             \/ dispatch(e, pc[e])
        BY Zenon DEF pkg_process
    <1>2. /\ pc[e] \notin {"write", "wait data", "closed"} /\ pc[e] \notin {"write", "closed"}
          /\ pc[e] \notin {"closed", "wait data"} /\ pc[e] # "write" /\ pc[e] \in Backs
        BY ONLY <1>1 DEF Backs
    <1>3. left \in Int /\ n \in Nat
        BY InvAt, TypedAt, LenIsNat, Zenon
    <1>4. CASE Go(e, place) /\ UNCHANGED <<got, input, parse, hback>>
        <2>1. place \in Places /\ place # "write" /\ place # "wait data"
            BY ONLY TRUE DEF Places
        <2>2. UNCHANGED <<output, got, parse, hback, broken, history>> /\ UNCHANGED input
            BY <1>1, <1>4, Zenon
        <2> HIDE DEF place
        <2>3. Go(e, place)  BY <1>4, Zenon DEF place
        <2>4. QED  BY <1>2, <2>1, <2>2, <2>3, MoveStep, Zenon
    <1>5. CASE left < 0 /\ gethdr(e) /\ UNCHANGED <<got, wire, pc, hback>>
        <2>1. UNCHANGED <<output, got, wire, pc, hback, broken, history>>
            BY <1>1, <1>5, Zenon
        <2>2. QED  BY <1>2, <1>5, <2>1, GethdrStep, Zenon
    <1>6. CASE /\ left > 0 /\ n > 0 /\ Collect(e, k)
               /\ UNCHANGED <<got, wire, pkc_hdr, pc, hback>>
        <2>1. UNCHANGED <<output, got, wire, pkc_hdr, pc, hback, broken, history>>
            BY <1>1, <1>6, Zenon
        <2>2. k \in 0 .. n /\ k <= left
            <3>1. left > 0 /\ n > 0  BY <1>6, Zenon
            <3> HIDE DEF n, left
            <3>2. QED  BY ONLY <1>3, <3>1 DEF k
        <2>3. left > 0 /\ Collect(e, k)  BY <1>6, Zenon
        <2> HIDE DEF k
        <2>4. QED  BY <1>2, <2>1, <2>2, <2>3, CollectStep, Zenon
    <1>7. CASE dispatch(e, pc[e])
        BY <1>1, <1>2, <1>7, DispatchStep, Zenon
    <1>8. QED  BY <1>1, <1>4, <1>5, <1>6, <1>7, Zenon

LEMMA BlockStep ==
    ASSUME IInv, NEW e \in Ends, pkg_block(e)
    PROVE  IInv'
    <1> DEFINE n == Len(inbuf[e])
               left == pkc_left[e]
    <1>1. /\ pc[e] = "wait" /\ UNCHANGED <<output, broken, history>>
          /\ \/ left > 0 /\ n >= left /\ Collect(e, left)
                /\ UNCHANGED <<got, wire, pkc_hdr, pc, hback>>
             \/ dispatch(e, "wait")
        BY Zenon DEF pkg_block
    <1>2. /\ pc[e] \notin {"write", "wait data", "closed"} /\ pc[e] \notin {"write", "closed"}
          /\ "wait" \in Backs
        BY ONLY <1>1 DEF Backs
    <1>3. left \in Int /\ n \in Nat
        BY InvAt, TypedAt, LenIsNat, Zenon
    <1>4. CASE left > 0 /\ n >= left /\ Collect(e, left)
               /\ UNCHANGED <<got, wire, pkc_hdr, pc, hback>>
        <2>1. UNCHANGED <<output, got, wire, pkc_hdr, pc, hback, broken, history>>
            BY <1>1, <1>4, Zenon
        <2>2. left \in 0 .. n /\ left <= left
            <3>1. left > 0 /\ n >= left  BY <1>4, Zenon
            <3> HIDE DEF n, left
            <3>2. QED  BY ONLY <1>3, <3>1
        <2>3. QED  BY <1>2, <1>4, <2>1, <2>2, CollectStep, Zenon
    <1>5. CASE dispatch(e, "wait")
        BY <1>1, <1>2, <1>5, DispatchStep, Zenon
    <1>6. QED  BY <1>1, <1>4, <1>5, Zenon

LEMMA WaitforStep ==
    ASSUME IInv, NEW e \in Ends, pkg_waitfor(e)
    PROVE  IInv'
    <1>1. /\ pc[e] = "wait" /\ pkc_left[e] < 0
          /\ UNCHANGED <<output, got, wire, hback, broken, cut>>
        BY Zenon DEF pkg_waitfor
    <1>2. CASE /\ pkc_buf[e] # NULL /\ clash' = [clash EXCEPT ![e] = TRUE]
               /\ Go(e, "idle") /\ UNCHANGED <<inbuf, parse>>
        BY <1>1, <1>2, ClashStep, Zenon
    <1>3. CASE gethdr(e) /\ UNCHANGED <<pc, clash>>
        <2>1. UNCHANGED <<output, got, wire, pc, hback, broken, history>>
            BY <1>1, <1>3, Zenon DEF history
        <2>2. pc[e] \notin {"write", "wait data", "closed"}  BY ONLY <1>1
        <2>3. QED  BY <1>1, <1>3, <2>1, <2>2, GethdrStep, Zenon
    <1>4. CASE /\ Header(e) /\ inbuf' = [inbuf EXCEPT ![e] = Drop(@, HdrLen)]
               /\ pkc_hdr' = [pkc_hdr EXCEPT ![e] = NextMsg(e)]
               /\ pkc_buf' = [pkc_buf EXCEPT ![e] =
                                 IF Message(Peer(e), NextMsg(e)).len = 0 THEN NULL ELSE << >>]
               /\ Go(e, "wait data") /\ UNCHANGED <<pkc_left, clash>>
        BY <1>1, <1>4, ReplyHeaderStep, Zenon
    <1>5. QED  BY <1>2, <1>3, <1>4, Zenon DEF pkg_waitfor

(* The connection breaks, and one end is closed perhaps, in a step that    *)
(* hands nothing over.                                                     *)
LEMMA BreaksStep ==
    ASSUME IInv, broken' = TRUE, wire' = [x \in Ends |-> << >>],
           UNCHANGED <<output, got, inbuf, parse, hback, history>>, pc' \in [Ends -> Places],
           \A x \in Ends : pc'[x] = pc[x] \/ (pc'[x] = "closed" /\ pc[x] # "write")
    PROVE  IInv'
    <1>1. /\ sent' = sent /\ got' = got /\ stream' = stream /\ out' = out /\ inbuf' = inbuf
          /\ overrun' = overrun /\ pkc_left' = pkc_left /\ pkc_hdr' = pkc_hdr
          /\ pkc_buf' = pkc_buf /\ wback' = wback /\ hback' = hback /\ cut' = cut
          /\ clash' = clash
        BY Zenon DEF output, parse, history
    <1>2. << >> \in Seq(AllBytes)  BY EmptySeq, Zenon
    <1>3. Types'
        <2>1. Types  BY Zenon DEF IInv
        <2>2. wire' \in [Ends -> Seq(AllBytes)] /\ broken' \in BOOLEAN
            BY <1>2, Zenon
        <2>3. QED  BY <1>1, <2>1, <2>2, Zenon DEF Types
    <1>4. ASSUME NEW x \in Ends
          PROVE  Sender(x)' /\ Receiver(x)' /\ Line(x)'
        <2> DEFINE q == Peer(x)
        <2>1. q \in Ends /\ Types /\ Sender(x) /\ sent[q] \in Seq(Messages)
            BY PeerOf, InvAt, BytesAt, Zenon
        <2>2. Len(<< >>) <= KernelBuf  BY ONLY PkgAssumption
        <2>3. wire'[x] = << >> /\ Len(wire'[x]) <= KernelBuf
            BY <2>2, Zenon
        <2>4. Sender(x)'
            <3>1. Fits(x)'  BY <1>1, <2>1, FitsKept, Zenon DEF Sender
            <3>2. pc'[x] # "write" => out'[x] = << >>
                <4>1. CASE pc'[x] = pc[x]  BY <1>1, <2>1, <4>1, Zenon DEF Sender
                <4>2. CASE pc'[x] = "closed" /\ pc[x] # "write"
                    BY <1>1, <2>1, <4>2, Zenon DEF Sender
                <4>3. QED  BY <4>1, <4>2, Zenon
            <3>3. \A i \in 1 .. Len(sent'[x]) : sent'[x][i].len \in Lens[x]
                BY <1>1, <2>1, Zenon DEF Sender
            <3>4. QED  BY <2>3, <3>1, <3>2, <3>3, Zenon DEF Sender
        <2>5. KeepsParse(x)
            <3>1. \/ pc'[x] = "closed"
                  \/ pc[x] # "closed" /\ (pc'[x] = "wait data" <=> pc[x] = "wait data")
                <4>1. pc'[x] = pc[x] \/ pc'[x] = "closed"  BY Zenon
                <4>2. QED  BY ONLY <4>1
            <3>2. QED  BY <1>1, <3>1, Zenon DEF KeepsParse
        <2>6. StaysLinked(x)  BY <1>1, BrokenStays, Zenon
        <2>7. Grown(sent[q], sent'[q])  BY <1>1, <2>1, GrownBy, Zenon
        <2>8. QED  BY <2>4, <2>5, <2>6, <2>7, ParseKept, Zenon
    <1>5. QED  BY <1>3, <1>4, Zenon DEF IInv

LEMMA BreakStep ==
    ASSUME IInv, Break
    PROVE  IInv'
    <1>1. /\ broken' = TRUE /\ wire' = [x \in Ends |-> << >>] /\ pc' = pc
          /\ UNCHANGED <<output, got, inbuf, parse, hback, history>>
        BY Zenon DEF Break
    <1>2. pc \in [Ends -> Places]  BY Zenon DEF IInv, Types
    <1>3. pc' \in [Ends -> Places] /\ \A x \in Ends : pc'[x] = pc[x]
        BY <1>1, <1>2, Zenon
    <1>4. QED  BY <1>1, <1>3, BreaksStep, Zenon

LEMMA AbortStep ==
    ASSUME IInv, NEW e \in Ends, PKG_CK(e)
    PROVE  IInv'
    <1>1. /\ broken' = TRUE /\ wire' = [x \in Ends |-> << >>] /\ pc[e] = "idle"
          /\ Go(e, "closed") /\ UNCHANGED <<output, got, inbuf, parse, hback, history>>
        BY Zenon DEF PKG_CK
    <1>2. "closed" \in Places  BY ONLY TRUE DEF Places
    <1>3. pc[e] # "write"  BY ONLY <1>1
    <1>4. pc' \in [Ends -> Places] /\ pc'[e] = "closed" /\ \A y \in Ends : y # e => pc'[y] = pc[y]
        BY <1>1, <1>2, InvAt, WentTo, Zenon
    <1>5. \A x \in Ends : pc'[x] = pc[x] \/ (pc'[x] = "closed" /\ pc[x] # "write")
        BY <1>3, <1>4, Zenon
    <1>6. QED  BY <1>1, <1>4, <1>5, BreaksStep, Zenon

(* Rubbish is handed over in the place of a message, and the connection    *)
(* ends.                                                                   *)
LEMMA GarbledStep ==
    ASSUME IInv, NEW e \in Ends, Garbled(e)
    PROVE  IInv'
    <1> DEFINE p == Peer(e)
    <1>1. /\ p \in Ends /\ p # e /\ Peer(p) = e /\ Types /\ Sender(e) /\ Sender(p)
          /\ Receiver(p) /\ broken \in BOOLEAN /\ sent[e] \in Seq(Messages)
          /\ sent[p] \in Seq(Messages) /\ out[e] \in Seq(Byte) /\ stream[e] \in Seq(Byte)
        BY PeerOf, InvAt, TypedAt, Zenon
    <1>2. /\ ~broken /\ out[e] \o stream[e] # << >> /\ wire[e] = << >> /\ inbuf[p] = << >>
          /\ pkc_left[p] < 0 /\ pkc_buf[p] = NULL
          /\ pc[p] \in {"process", "process again", "wait"}
          /\ got' = [got EXCEPT ![e] = Append(@, Rubbish)]
          /\ out' = [out EXCEPT ![e] = << >>] /\ Go(e, "closed")
          /\ broken' = TRUE /\ wire' = [x \in Ends |-> << >>]
          /\ sent' = sent /\ stream' = stream /\ overrun' = overrun /\ inbuf' = inbuf
          /\ pkc_left' = pkc_left /\ pkc_hdr' = pkc_hdr /\ pkc_buf' = pkc_buf
          /\ wback' = wback /\ hback' = hback /\ cut' = cut /\ clash' = clash
        BY Zenon DEF Garbled, parse, history
    <1>3. << >> \in Seq(AllBytes) /\ Len(<< >>) <= KernelBuf
        BY EmptySeq, PkgAssumption
    <1>4. /\ got' \in [Ends -> Seq(Handable)] /\ got'[p] = got[p]
          /\ NextOf(p)' = NextOf(p) + 1
        <2>1. Rubbish \in Handable  BY DEF Handable
        <2>2. got' = [got EXCEPT ![Peer(p)] = Append(@, Rubbish)]  BY <1>1, <1>2, Zenon
        <2>3. QED  BY <1>1, <2>1, <2>2, HandEffect, Zenon
    <1>5. /\ pc' \in [Ends -> Places] /\ pc'[e] = "closed" /\ pc'[p] = pc[p]
        <2>1. "closed" \in Places  BY ONLY TRUE DEF Places
        <2>2. QED  BY <1>1, <1>2, <2>1, WentTo, Zenon
    <1>6. out' \in [Ends -> Seq(AllBytes)] /\ out'[e] = << >> /\ out'[p] = out[p]
        <2>1. out \in [Ends -> Seq(AllBytes)]  BY <1>1, Zenon DEF Types
        <2>2. QED  BY <1>1, <1>2, <1>3, <2>1, Updated, Zenon
    <1>7. Types'
        <2>1. wire' \in [Ends -> Seq(AllBytes)] /\ broken' \in BOOLEAN
            BY <1>2, <1>3, Zenon
        <2>2. QED  BY <1>1, <1>2, <1>4, <1>5, <1>6, <2>1, Zenon DEF Types
    <1>8. /\ wire'[e] = << >> /\ wire'[p] = << >>
          /\ Len(wire'[e]) <= KernelBuf /\ Len(wire'[p]) <= KernelBuf
        BY <1>1, <1>2, <1>3, Zenon
    <1>9. Fits(e)' /\ Fits(p)'  BY <1>1, <1>2, FitsKept, Zenon DEF Sender
    <1>10. Sender(e)'  BY <1>1, <1>2, <1>6, <1>8, <1>9, Zenon DEF Sender
    <1>11. Sender(p)'
        <2> HIDE DEF p
        <2>1. QED  BY <1>1, <1>2, <1>5, <1>6, <1>8, <1>9, Zenon DEF Sender
    <1>12. Receiver(e)' /\ Line(e)'
        <2>1. KeepsParse(e)  BY <1>2, <1>4, <1>5, Zenon DEF KeepsParse
        <2>2. StaysLinked(e)  BY <1>2, BrokenStays, Zenon
        <2>3. Grown(sent[p], sent'[p])  BY <1>1, <1>2, GrownBy, Zenon
        <2>4. QED  BY <1>2, <2>1, <2>2, <2>3, ParseKept, Zenon
    <1>13. /\ pc[p] # "wait data" /\ pc[p] # "closed" /\ pc'[p] # "wait data"
        BY ONLY <1>2, <1>5
    <1>14. Receiver(p)'
        <2>1. ~(pkc_left[p] >= 0)
            <3> DEFINE left == pkc_left[p]
            <3>1. left \in Int /\ left < 0  BY <1>1, <1>2, TypedAt, Zenon
            <3> HIDE DEF left
            <3>2. ~(left >= 0)  BY ONLY <3>1
            <3>3. QED  BY <3>2 DEF left
        <2>2. pkc_left[p] >= -1 /\ pkc_hdr[p] <= Len(sent[e])
            BY <1>1, Zenon DEF Receiver
        <2>3. broken'  BY ONLY <1>2
        <2> HIDE DEF p
        <2>4. QED  BY <1>1, <1>2, <1>13, <2>1, <2>2, <2>3, Zenon DEF Receiver
    <1>15. Line(p)'
        <2>1. Parsed(p) = 0 /\ Parsed(p)' = 0
            <3>1. pkc_left'[p] < 0  BY <1>2, Zenon
            <3>2. QED  BY <1>2, <1>13, <3>1, Zenon DEF Parsed
        <2>2. broken = FALSE  BY ONLY <1>1, <1>2
        <2>3. Linked(FALSE, sent[e], NextOf(p), 0, << >>, << >>, out[e], stream[e])
            BY <1>1, <1>2, <1>13, <2>1, <2>2, LinkedAt, Zenon
        <2>4. NextOf(p) \in Nat  BY <1>1, BytesAt, Zenon
        <2>5. Linked(TRUE, sent[e], NextOf(p) + 1, 0, << >>, << >>, << >>, stream[e])
            BY <1>1, <1>2, <2>3, <2>4, MoreLinked, Zenon
        <2> HIDE DEF p
        <2>6. QED  BY <1>1, <1>2, <1>4, <1>6, <1>8, <2>1, <2>5, Zenon DEF Line
    <1>16. QED
        BY <1>7, <1>10, <1>11, <1>12, <1>14, <1>15, InvFrom, Zenon

-----------------------------------------------------------------------------
(* The theorems.                                                           *)

LEMMA NextInv == IInv /\ [Next]_vars => IInv'
    <1> SUFFICES ASSUME IInv, [Next]_vars  PROVE IInv'
        OBVIOUS
    <1>1. CASE UNCHANGED vars
        <2>1. /\ sent' = sent /\ got' = got /\ stream' = stream /\ out' = out /\ wire' = wire
              /\ inbuf' = inbuf /\ pkc_left' = pkc_left /\ pkc_hdr' = pkc_hdr
              /\ pkc_buf' = pkc_buf /\ pc' = pc /\ wback' = wback /\ hback' = hback
              /\ overrun' = overrun /\ broken' = broken /\ cut' = cut /\ clash' = clash
            BY <1>1, Zenon DEF vars
        <2>2. Types'  BY <2>1, Zenon DEF IInv, Types
        <2>3. ASSUME NEW x \in Ends  PROVE Sender(x)' /\ Receiver(x)' /\ Line(x)'
            <3>1. Sender(x) /\ Receiver(x) /\ Line(x)  BY InvAt, Zenon
            <3>2. NextOf(x)' = NextOf(x)  BY <2>1, Zenon DEF NextOf
            <3>3. Parsed(x)' = Parsed(x)  BY <2>1, <3>2, Zenon DEF Parsed
            <3>4. Fits(x)'  BY <2>1, <3>1, InvAt, FitsKept, Zenon DEF Sender
            <3>5. QED  BY <2>1, <3>1, <3>2, <3>3, <3>4, Zenon DEF Sender, Receiver, Line
        <2>4. QED  BY <2>2, <2>3, Zenon DEF IInv
    <1>2. ASSUME NEW e \in Ends, \/ Sends(e) \/ pkg_flush(e) \/ Wakeup(e) \/ Progress(e)
                                 \/ PKG_CK(e) \/ Garbled(e)
          PROVE  IInv'
        BY <1>2, SendsStep, FlushStep, PollStep, WriteSomeStep, WriteFailsStep, HandlerStep,
           AbortStep, GarbledStep, ProcessStep, SuckinStep, IngetStep, BlockStep, WaitforStep, GetReplyStep, Zenon DEF Progress
    <1>3. QED  BY <1>1, <1>2, BreakStep, Zenon DEF Next

LEMMA Invariance == Spec => []IInv
    BY InitInv, NextInv, PTL DEF Spec

LEMMA InvTypeOK == IInv => TypeOK
    <1> SUFFICES ASSUME IInv  PROVE TypeOK
        OBVIOUS
    <1>1. Types  BY Zenon DEF IInv
    <1>2. ASSUME NEW e \in Ends
          PROVE  /\ \A i \in DOMAIN sent[e] : Message(e, i) \in [kind : Kinds, len : Lens[e]]
                 /\ stream[e] \in Seq(AllBytes) /\ (overrun[e] \/ Len(stream[e]) <= StreamLen)
                 /\ out[e] \in Seq(AllBytes) /\ wire[e] \in Seq(AllBytes)
                 /\ inbuf[e] \in Seq(AllBytes) /\ Len(wire[e]) <= KernelBuf
                 /\ pkc_left[e] = -1 \/ \E len \in Lens[Peer(e)] : pkc_left[e] \in 0 .. len
                 /\ pkc_hdr[e] \in 0 .. Len(sent[Peer(e)])
                 /\ pkc_buf[e] = NULL \/ pkc_buf[e] \in Seq(AllBytes)
        <2> DEFINE p == Peer(e)
                   m == sent[p]
                   left == pkc_left[e]
                   i == NextOf(e)
        <2>1. /\ Sender(e) /\ Sender(p) /\ Receiver(e) /\ p \in Ends
              /\ sent[e] \in Seq(Messages) /\ m \in Seq(Messages) /\ left \in Int
              /\ pkc_hdr[e] \in Nat /\ stream[e] \in Seq(Byte) /\ out[e] \in Seq(Byte)
              /\ wire[e] \in Seq(Byte) /\ inbuf[e] \in Seq(Byte) /\ pkc_buf[e] \in Seq(Byte)
            BY <1>1, PeerOf, InvAt, TypedAt, Zenon
        <2>2. ASSUME NEW j \in DOMAIN sent[e]
              PROVE  Message(e, j) \in [kind : Kinds, len : Lens[e]]
            <3> DEFINE x == sent[e][j]
            <3>1. j \in 1 .. Len(sent[e]) /\ x \in Messages
                BY <2>1, LenIsNat, Zenon
            <3>2. x.len \in Lens[e]  BY <2>1, <3>1, Zenon DEF Sender
            <3> HIDE DEF x
            <3>3. x \in [kind : Kinds, len : Lens[e]]
                BY ONLY <3>1, <3>2 DEF Messages
            <3>4. QED  BY <3>3, Zenon DEF Message, x
        <2>3. left = -1 \/ \E len \in Lens[p] : left \in 0 .. len
            <3>1. left >= -1  BY <2>1, Zenon DEF Receiver
            <3>2. CASE left >= 0
                <4>1. Begun(m, i, left, pkc_hdr[e], pkc_buf[e])  BY <2>1, <3>2, Zenon DEF Receiver
                <4>2. i <= Len(m) /\ left \in 0 .. m[i].len  BY <4>1, Zenon DEF Begun
                <4> DEFINE lm == Len(m)
                <4>3. i \in Nat \ {0} /\ lm \in Nat
                    BY <1>1, <2>1, ParsedIsNat, LenIsNat, Zenon
                <4>4. i \in 1 .. lm
                    <5> HIDE DEF i, lm
                    <5>1. i <= lm  BY <4>2, Zenon DEF lm
                    <5>2. QED  BY ONLY <4>3, <5>1
                <4>5. m[i].len \in Lens[p]  BY <2>1, <4>4, Zenon DEF Sender
                <4>6. QED  BY <4>2, <4>5, Zenon
            <3>3. CASE ~(left >= 0)
                <4>1. left = -1
                    <5> HIDE DEF left
                    <5>1. QED  BY ONLY <2>1, <3>1, <3>3
                <4>2. QED  BY <4>1, Zenon
            <3>4. QED  BY <3>2, <3>3, Zenon
        <2>4. pkc_hdr[e] \in 0 .. Len(m)
            <3> DEFINE h == pkc_hdr[e]
                       lm == Len(m)
            <3>1. h \in Nat /\ lm \in Nat /\ h <= lm  BY <2>1, LenIsNat, Zenon DEF Receiver
            <3> HIDE DEF h, lm
            <3>2. h \in 0 .. lm  BY ONLY <3>1
            <3>3. QED  BY <3>2, Zenon DEF h, lm
        <2>5. QED  BY <2>1, <2>2, <2>3, <2>4, Zenon DEF Sender, Fits, Byte
    <1>3. QED  BY <1>1, <1>2, Zenon DEF TypeOK, Types, Places, Backs

(* Every variable of a connection keeps to its values: what is queued fits *)
(* pkc_stream or has overrun it, what is written fits the system, and what *)
(* a header announced is a length its sender sends.                        *)
THEOREM TypeCorrect == Spec => []TypeOK
    BY Invariance, InvTypeOK, PTL

(* On a live connection pkg_waitfor fails with a "buffer clash" only where *)
(* a reply was cut to its buffer before: no query, note or read ahead      *)
(* leaves a message half received in pkc_buf for a wait to stumble on.     *)
THEOREM NoOtherClash == Spec => []ClashOnlyAfterCut
    <1>1. IInv => ClashOnlyAfterCut
        BY Zenon DEF IInv, Receiver, ClashOnlyAfterCut
    <1>2. QED  BY Invariance, <1>1, PTL

-----------------------------------------------------------------------------
(* The connection implements the fifo.                                     *)

SendsOne == \E e \in Ends : Fifo!Send(e)
HandsOne == \E e \in Ends : Fifo!Hand(e)

LEMMA SendIsSend ==
    ASSUME NEW e \in Ends, NEW m, NEW next, MaySend(e, m), got' = got,
           pkg_send(e, m, next) \/ pkg_stream(e, m, next)
    PROVE  SendsOne
    <1>1. sent' = [sent EXCEPT ![e] = Append(@, m)]
        BY Zenon DEF pkg_send, pkg_stream
    <1>2. m \in Messages  BY Zenon DEF MaySend
    <1>3. Fifo!Send(e)  BY <1>1, <1>2, Zenon DEF Fifo!Send, Messages
    <1>4. QED  BY <1>3, Zenon DEF SendsOne

LEMMA HandIsHand ==
    ASSUME IInv, NEW e \in Ends, sent' = sent, NextOf(e) \in 1 .. Len(sent[Peer(e)]),
           got' = [got EXCEPT ![Peer(e)] = Append(@, sent[Peer(e)][NextOf(e)])]
    PROVE  HandsOne
    <1> DEFINE p == Peer(e)
               g == Len(got[p])
               l == Len(sent[p])
    <1>1. p \in Ends /\ g \in Nat /\ l \in Nat  BY BytesAt, LenIsNat, Zenon
    <1>2. g < l
        <2>1. g + 1 \in 1 .. l  BY Zenon DEF NextOf
        <2> HIDE DEF g, l
        <2>2. QED  BY ONLY <1>1, <2>1
    <1>3. got' = [got EXCEPT ![p] = Append(@, sent[p][Len(@) + 1])]
        BY Zenon DEF NextOf
    <1>4. Fifo!Hand(p)  BY <1>2, <1>3, Zenon DEF Fifo!Hand
    <1>5. QED  BY <1>1, <1>4, Zenon DEF HandsOne

LEMMA OutputIsSend ==
    ASSUME IInv, NEW e \in Ends, Sends(e) \/ Handler(e)
    PROVE  SendsOne \/ UNCHANGED <<sent, got>>
    <1>1. got' = got  BY Zenon DEF Sends, Handler
    <1>3. "note" \in Kinds /\ "query" \in Kinds /\ "reply" \in Kinds
        BY ONLY TRUE DEF Kinds
    <1>4. CASE Sends(e)
        <2>1. \E len \in Lens[e] :
                 \/ pkg_send(e, [kind |-> "note", len |-> len], "idle")
                 \/ pkg_stream(e, [kind |-> "note", len |-> len], "idle")
                 \/ pkg_send(e, [kind |-> "query", len |-> len], "wait")
            BY <1>4, Zenon DEF Sends
        <2>2. PICK len \in Lens[e] :
                 \/ pkg_send(e, [kind |-> "note", len |-> len], "idle")
                 \/ pkg_stream(e, [kind |-> "note", len |-> len], "idle")
                 \/ pkg_send(e, [kind |-> "query", len |-> len], "wait")
            BY <2>1, Zenon
        <2>3. QED  BY <1>1, <1>3, <2>2, SentIsMessage, SendIsSend, Zenon
    <1>5. CASE Handler(e)
        <2>1. ASSUME NEW len \in Lens[e],
                     pkg_send(e, [kind |-> "reply", len |-> len], hback[e])
              PROVE  SendsOne
            BY <1>1, <1>3, <2>1, SentIsMessage, SendIsSend, Zenon
        <2>2. CASE UNCHANGED output
            BY <1>1, <2>2, Zenon DEF output
        <2>3. QED  BY <1>5, <2>1, <2>2, Zenon DEF Handler
    <1>6. QED  BY <1>4, <1>5, Zenon

LEMMA InputIsHand ==
    ASSUME IInv, NEW e \in Ends, pkg_process(e) \/ pkg_block(e) \/ pkg_waitfor(e) \/ GetReply(e)
    PROVE  HandsOne \/ UNCHANGED <<sent, got>>
    <1>1. sent' = sent
        BY Zenon DEF pkg_process, pkg_block, pkg_waitfor, GetReply, output
    <1>2. CASE GetReply(e)
        BY <1>1, <1>2, GetReplyHands, HandIsHand, Zenon
    <1>3. CASE pkg_waitfor(e)
        <2>1. got' = got  BY <1>3, Zenon DEF pkg_waitfor
        <2>2. QED  BY <1>1, <2>1, Zenon
    <1>4. CASE pkg_process(e) \/ pkg_block(e)
        <2>1. pc[e] \in {"process", "process again", "wait"}
            <3>1. pc[e] \in {"process", "process again"} \/ pc[e] = "wait"
                BY <1>4, Zenon DEF pkg_process, pkg_block
            <3>2. QED  BY ONLY <3>1
        <2>2. pc[e] # "closed"  BY ONLY <2>1
        <2>3. got' = got \/ \E back \in {pc[e], "wait"} : dispatch(e, back)
            BY <1>4, Zenon DEF pkg_process, pkg_block
        <2>4. QED  BY <1>1, <2>2, <2>3, DispatchHands, HandIsHand, Zenon
    <1>5. QED  BY <1>2, <1>3, <1>4, Zenon

(* What an end may have handed over in its name after an overrun.          *)
LEMMA GarbledIsExcused ==
    ASSUME IInv, NEW e \in Ends, Garbled(e)
    PROVE  \E x \in Ends : FromOverrun(x)
    <1>1. /\ overrun[e] /\ sent' = sent /\ got' = [got EXCEPT ![e] = Append(@, Rubbish)]
        BY Zenon DEF Garbled
    <1>2. FromOverrun(e)  BY <1>1, Zenon DEF FromOverrun
    <1>3. QED  BY <1>2, Zenon

(* Whatever is queued, read ahead, half read or lost with the connection,  *)
(* the messages one end is handed are those the other sent: whole, each    *)
(* once, and in the order of sending, but for rubbish after the other has  *)
(* written past the end of its pkc_stream.                                 *)
THEOREM Implements == Spec => KeepsOrder
    <1>1. Init => Fifo!Init
        BY Zenon DEF Init, Fifo!Init
    <1> DEFINE Excused == \E e \in Ends : FromOverrun(e)
    <1>2. IInv /\ [Next]_vars => [Fifo!Next \/ \E e \in Ends : FromOverrun(e)]_<<sent, got>>
        <2> SUFFICES ASSUME IInv, [Next]_vars
                     PROVE  SendsOne \/ HandsOne \/ Excused \/ UNCHANGED <<sent, got>>
            BY Zenon DEF SendsOne, HandsOne, Fifo!Next
        <2> HIDE DEF Excused
        <2>1. CASE UNCHANGED vars  BY <2>1, Zenon DEF vars
        <2>2. CASE Break  BY <2>2, Zenon DEF Break, output
        <2>3. ASSUME NEW e \in Ends, \/ Sends(e) \/ pkg_flush(e) \/ Wakeup(e) \/ Progress(e)
                                     \/ PKG_CK(e) \/ Garbled(e)
              PROVE  SendsOne \/ HandsOne \/ Excused \/ UNCHANGED <<sent, got>>
            <3>1. CASE Sends(e) \/ Handler(e)
                BY <3>1, OutputIsSend, Zenon
            <3>2. CASE pkg_process(e) \/ pkg_block(e) \/ pkg_waitfor(e) \/ GetReply(e)
                BY <3>2, InputIsHand, Zenon
            <3>3. CASE \/ pkg_flush(e) \/ WriteSome(e) \/ WriteFails(e) \/ Poll(e)
                       \/ Wakeup(e) \/ pkg_suckin(e) \/ inget(e) \/ PKG_CK(e)
                BY <3>3, Zenon DEF pkg_flush, WriteSome, WriteFails, Poll, Wakeup, pkg_suckin,
                                  inget, PKG_CK, output
            <3>4. CASE Garbled(e)
                BY <3>4, GarbledIsExcused, Zenon DEF Excused
            <3>5. QED  BY <2>3, <3>1, <3>2, <3>3, <3>4, Zenon DEF Progress
        <2>4. QED  BY <2>1, <2>2, <2>3, Zenon DEF Next
    <1>3. QED  BY Invariance, <1>1, <1>2, PTL DEF Spec, KeepsOrder
=============================================================================
