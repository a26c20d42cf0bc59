----------------------- MODULE RenderFarmTalk_proofs -----------------------
(***************************************************************************)
(* What the dispatcher believes of a server is what the server has in      *)
(* hand: proofs of OwnMatrix, OwnView, AnswersMatch and OneInFlight of     *)
(* module RenderFarm, from an invariant that says of every connection      *)
(* which request or answer is on its way and what state that goes with.    *)
(* Restarting servers by command is excluded: send_restart overwrites the  *)
(* state of a server whatever it is in the middle of.                      *)
(***************************************************************************)
EXTENDS RenderFarm_proofs, FiniteSetTheorems

NoRestarts == Commands \cap {"restart", "restart all", "load"} = {}

-----------------------------------------------------------------------------
(* The requests in a list of messages to a worker, options aside: none,    *)
(* one, or two in this order.                                              *)

None(dn) == \A i \in DOMAIN dn : dn[i].type = "OPTIONS"

One(dn, m) == \E i \in DOMAIN dn : /\ dn[i] = m
                                   /\ \A j \in DOMAIN dn \ {i} : dn[j].type = "OPTIONS"

Two(dn, m, n) == \E i, k \in DOMAIN dn : /\ i < k /\ dn[i] = m /\ dn[k] = n
                                         /\ \A j \in DOMAIN dn \ {i, k} : dn[j].type = "OPTIONS"

LEMMA NoneEmpty == None(<<>>)
    BY DEF None

(* The elements of a list that messages are put at the end of.             *)
LEMMA JoinedElements ==
    ASSUME NEW S, NEW a \in Seq(S), NEW b \in Seq(S)
    PROVE  /\ a \o b \in Seq(S)
           /\ Len(a) \in Nat /\ Len(b) \in Nat
           /\ DOMAIN a = 1 .. Len(a) /\ DOMAIN b = 1 .. Len(b)
           /\ DOMAIN (a \o b) = 1 .. Len(a) + Len(b)
           /\ \A i \in 1 .. Len(a) : (a \o b)[i] = a[i]
           /\ \A i \in Len(a) + 1 .. Len(a) + Len(b) : (a \o b)[i] = b[i - Len(a)]
    <1>1. a \o b \in Seq(S) /\ Len(a \o b) = Len(a) + Len(b)
        BY ConcatProperties
    <1>2. \A i \in 1 .. Len(a) + Len(b) :
            (a \o b)[i] = IF i <= Len(a) THEN a[i] ELSE b[i - Len(a)]
        BY ConcatProperties
    <1>3. Len(a) \in Nat /\ Len(b) \in Nat /\ DOMAIN a = 1 .. Len(a) /\ DOMAIN b = 1 .. Len(b)
        BY LenProperties
    <1>4. DOMAIN (a \o b) = 1 .. Len(a) + Len(b)
        BY <1>1, LenProperties
    <1>5. QED  BY <1>1, <1>2, <1>3, <1>4

LEMMA AddedOne ==
    ASSUME NEW S, NEW dn \in Seq(S), NEW m \in S
    PROVE  /\ dn \o <<m>> \in Seq(S)
           /\ Len(dn) \in Nat /\ DOMAIN dn = 1 .. Len(dn)
           /\ DOMAIN (dn \o <<m>>) = 1 .. Len(dn) + 1
           /\ \A i \in 1 .. Len(dn) : (dn \o <<m>>)[i] = dn[i]
           /\ (dn \o <<m>>)[Len(dn) + 1] = m
    <1>1. <<m>> \in Seq(S) /\ Len(<<m>>) = 1 /\ <<m>>[1] = m
        OBVIOUS
    <1>2. Len(dn) \in Nat  BY LenProperties
    <1>3. Len(dn) + 1 \in Len(dn) + 1 .. Len(dn) + 1 /\ (Len(dn) + 1) - Len(dn) = 1
        BY <1>2
    <1>4. QED  BY <1>1, <1>3, JoinedElements

LEMMA AddedTwo ==
    ASSUME NEW S, NEW dn \in Seq(S), NEW m \in S, NEW n \in S
    PROVE  /\ dn \o <<m, n>> \in Seq(S)
           /\ Len(dn) \in Nat /\ DOMAIN dn = 1 .. Len(dn)
           /\ DOMAIN (dn \o <<m, n>>) = 1 .. Len(dn) + 2
           /\ \A i \in 1 .. Len(dn) : (dn \o <<m, n>>)[i] = dn[i]
           /\ (dn \o <<m, n>>)[Len(dn) + 1] = m
           /\ (dn \o <<m, n>>)[Len(dn) + 2] = n
    <1>1. <<m, n>> \in Seq(S) /\ Len(<<m, n>>) = 2 /\ <<m, n>>[1] = m /\ <<m, n>>[2] = n
        OBVIOUS
    <1>2. Len(dn) \in Nat  BY LenProperties
    <1>3. /\ Len(dn) + 1 \in Len(dn) + 1 .. Len(dn) + 2 /\ (Len(dn) + 1) - Len(dn) = 1
          /\ Len(dn) + 2 \in Len(dn) + 1 .. Len(dn) + 2 /\ (Len(dn) + 2) - Len(dn) = 2
        BY <1>2
    <1>4. QED  BY <1>1, <1>3, JoinedElements

(* What the requests are after one more message, or two.                   *)
LEMMA AskOption ==
    ASSUME NEW dn \in Seq(SrvMessages), NEW o \in SrvMessages, o.type = "OPTIONS"
    PROVE  /\ None(dn) => None(dn \o <<o>>)
           /\ \A m : One(dn, m) => One(dn \o <<o>>, m)
           /\ \A m, n : Two(dn, m, n) => Two(dn \o <<o>>, m, n)
    <1> DEFINE d == dn \o <<o>>
               l == Len(dn)
    <1>1. /\ l \in Nat /\ DOMAIN dn = 1 .. l /\ DOMAIN d = 1 .. l + 1
          /\ \A i \in 1 .. l : d[i] = dn[i]
          /\ d[l + 1] = o
        BY AddedOne
    <1> HIDE DEF d, l
    <1>2. \A i \in DOMAIN dn : i \in DOMAIN d /\ d[i] = dn[i]
        BY <1>1
    <1>3. \A j \in DOMAIN d : j \in DOMAIN dn \/ d[j].type = "OPTIONS"
        BY <1>1
    <1>4. None(dn) => None(d)  BY <1>2, <1>3 DEF None
    <1>5. ASSUME NEW m, One(dn, m) PROVE One(d, m)
        BY <1>2, <1>3, <1>5 DEF One
    <1>6. ASSUME NEW m, NEW n, Two(dn, m, n) PROVE Two(d, m, n)
        BY <1>2, <1>3, <1>6 DEF Two
    <1>7. QED  BY <1>4, <1>5, <1>6 DEF d

LEMMA AskOne ==
    ASSUME NEW dn \in Seq(SrvMessages), NEW m \in SrvMessages, None(dn)
    PROVE  One(dn \o <<m>>, m)
    <1> DEFINE d == dn \o <<m>>
               l == Len(dn)
    <1>1. /\ l \in Nat /\ DOMAIN dn = 1 .. l /\ DOMAIN d = 1 .. l + 1
          /\ \A i \in 1 .. l : d[i] = dn[i]
          /\ d[l + 1] = m
        BY AddedOne
    <1> HIDE DEF d, l
    <1>2. l + 1 \in DOMAIN d /\ \A j \in DOMAIN d \ {l + 1} : j \in DOMAIN dn /\ d[j] = dn[j]
        BY <1>1
    <1>3. One(d, m)  BY <1>1, <1>2 DEF One, None
    <1>4. QED  BY <1>3 DEF d

LEMMA AskTwo ==
    ASSUME NEW dn \in Seq(SrvMessages), NEW m \in SrvMessages, NEW n \in SrvMessages, None(dn)
    PROVE  Two(dn \o <<m, n>>, m, n)
    <1> DEFINE d == dn \o <<m, n>>
               l == Len(dn)
    <1>1. /\ l \in Nat /\ DOMAIN dn = 1 .. l /\ DOMAIN d = 1 .. l + 2
          /\ \A i \in 1 .. l : d[i] = dn[i]
          /\ d[l + 1] = m /\ d[l + 2] = n
        BY AddedTwo
    <1> HIDE DEF d, l
    <1>2. /\ l + 1 \in DOMAIN d /\ l + 2 \in DOMAIN d /\ l + 1 < l + 2
          /\ \A j \in DOMAIN d \ {l + 1, l + 2} : j \in DOMAIN dn /\ d[j] = dn[j]
        BY <1>1
    <1>3. Two(d, m, n)  BY <1>1, <1>2 DEF Two, None
    <1>4. QED  BY <1>3 DEF d

(* ... and what they are when the first message is taken off.              *)
LEMMA TailsElements ==
    ASSUME NEW dn \in Seq(SrvMessages), dn # <<>>
    PROVE  /\ Head(dn) = dn[1] /\ Head(dn) \in SrvMessages /\ Tail(dn) \in Seq(SrvMessages)
           /\ Len(dn) \in Nat \ {0} /\ DOMAIN dn = 1 .. Len(dn)
           /\ DOMAIN Tail(dn) = 1 .. Len(dn) - 1
           /\ \A i \in 1 .. Len(dn) - 1 : Tail(dn)[i] = dn[i + 1]
    <1>1. Len(dn) \in Nat \ {0} /\ DOMAIN dn = 1 .. Len(dn)
        BY LenProperties, EmptySeq
    <1>2. /\ Head(dn) \in SrvMessages /\ Tail(dn) \in Seq(SrvMessages)
          /\ Len(Tail(dn)) = Len(dn) - 1
        BY HeadTailProperties
    <1>3. DOMAIN Tail(dn) = 1 .. Len(dn) - 1  BY <1>1, <1>2, LenProperties
    <1>4. \A i \in 1 .. Len(dn) - 1 : Tail(dn)[i] = dn[i + 1]
        BY <1>1, <1>2, HeadTailProperties
    <1>5. QED  BY <1>1, <1>2, <1>3, <1>4

LEMMA TakeFirst ==
    ASSUME NEW dn \in Seq(SrvMessages), dn # <<>>
    PROVE  /\ None(dn) => Head(dn).type = "OPTIONS" /\ None(Tail(dn))
           /\ \A m : One(dn, m) => \/ Head(dn) = m /\ None(Tail(dn))
                                   \/ Head(dn).type = "OPTIONS" /\ One(Tail(dn), m)
           /\ \A m, n : Two(dn, m, n) => \/ Head(dn) = m /\ One(Tail(dn), n)
                                         \/ Head(dn).type = "OPTIONS" /\ Two(Tail(dn), m, n)
    <1> DEFINE t == Tail(dn)
               l == Len(dn)
    <1>1. /\ Head(dn) = dn[1] /\ l \in Nat \ {0} /\ DOMAIN dn = 1 .. l /\ DOMAIN t = 1 .. l - 1
          /\ \A i \in 1 .. l - 1 : t[i] = dn[i + 1]
        BY TailsElements
    <1> HIDE DEF t, l
    <1>2. \A i \in DOMAIN t : i + 1 \in DOMAIN dn /\ i + 1 # 1 /\ t[i] = dn[i + 1]
        BY <1>1
    <1>3. 1 \in DOMAIN dn  BY <1>1
    <1>4. \A i \in DOMAIN dn : i # 1 => /\ i - 1 \in DOMAIN t /\ t[i - 1] = dn[i]
                                        /\ \A j \in DOMAIN t \ {i - 1} : j + 1 # i
        BY <1>1
    <1>5. None(dn) => Head(dn).type = "OPTIONS" /\ None(t)
        BY <1>1, <1>2, <1>3 DEF None
    <1>6. ASSUME NEW m, One(dn, m)
          PROVE  \/ Head(dn) = m /\ None(t)
                 \/ Head(dn).type = "OPTIONS" /\ One(t, m)
        <2>1. PICK i \in DOMAIN dn : /\ dn[i] = m
                                     /\ \A j \in DOMAIN dn \ {i} : dn[j].type = "OPTIONS"
            BY <1>6 DEF One
        <2>2. CASE i = 1
            BY <1>1, <1>2, <2>1, <2>2 DEF None
        <2>3. CASE i # 1
            <3>1. i - 1 \in DOMAIN t /\ t[i - 1] = m  BY <1>4, <2>1, <2>3
            <3>2. \A j \in DOMAIN t \ {i - 1} : t[j].type = "OPTIONS"
                BY <1>2, <1>4, <2>1, <2>3
            <3>3. One(t, m)  BY <3>1, <3>2 DEF One
            <3>4. QED  BY <1>1, <1>3, <2>1, <2>3, <3>3
        <2>4. QED  BY <2>2, <2>3
    <1>7. ASSUME NEW m, NEW n, Two(dn, m, n)
          PROVE  \/ Head(dn) = m /\ One(t, n)
                 \/ Head(dn).type = "OPTIONS" /\ Two(t, m, n)
        <2>1. PICK i \in DOMAIN dn, k \in DOMAIN dn :
                /\ i < k /\ dn[i] = m /\ dn[k] = n
                /\ \A j \in DOMAIN dn \ {i, k} : dn[j].type = "OPTIONS"
            BY <1>7 DEF Two
        <2>2. k # 1 /\ k - 1 \in DOMAIN t /\ t[k - 1] = n  BY <1>1, <1>4, <2>1
        <2>3. CASE i = 1
            <3>1. \A j \in DOMAIN t \ {k - 1} : t[j].type = "OPTIONS"
                BY <1>2, <1>4, <2>1, <2>2, <2>3
            <3>2. One(t, n)  BY <2>2, <3>1 DEF One
            <3>3. QED  BY <1>1, <2>1, <2>3, <3>2
        <2>4. CASE i # 1
            <3>1. i - 1 \in DOMAIN t /\ t[i - 1] = m  BY <1>4, <2>1, <2>4
            <3>2. i - 1 < k - 1  BY <1>1, <2>1
            <3>3. \A j \in DOMAIN t \ {i - 1, k - 1} : t[j].type = "OPTIONS"
                BY <1>2, <1>4, <2>1, <2>2, <2>4
            <3>4. Two(t, m, n)  BY <2>2, <3>1, <3>2, <3>3 DEF Two
            <3>5. Head(dn).type = "OPTIONS"  BY <1>1, <1>3, <2>1, <2>2, <2>4
            <3>6. QED  BY <3>4, <3>5
        <2>5. QED  BY <2>3, <2>4
    <1>8. QED  BY <1>5, <1>6, <1>7 DEF t

(* A request taken from the middle, options before it.                     *)
LEMMA TakeRequest ==
    ASSUME NEW a \in Seq(SrvMessages), NEW b \in Seq(SrvMessages), b # <<>>, NEW m,
           One(a \o b, m), Head(b).type # "OPTIONS"
    PROVE  None(a \o Tail(b)) /\ Head(b) = m
    <1> DEFINE l == Len(a)
               k == Len(b)
               d == a \o b
               t == a \o Tail(b)
    <1>1. /\ l \in Nat /\ k \in Nat \ {0} /\ DOMAIN d = 1 .. l + k
          /\ \A i \in 1 .. l : d[i] = a[i]
          /\ \A i \in l + 1 .. l + k : d[i] = b[i - l]
        BY JoinedElements, TailsElements
    <1>2. /\ Tail(b) \in Seq(SrvMessages) /\ Len(Tail(b)) = k - 1 /\ Head(b) = b[1]
          /\ \A i \in 1 .. k - 1 : Tail(b)[i] = b[i + 1]
        BY TailsElements, LenProperties, HeadTailProperties
    <1>3. /\ DOMAIN t = 1 .. l + (k - 1)
          /\ \A i \in 1 .. l : t[i] = a[i]
          /\ \A i \in l + 1 .. l + (k - 1) : t[i] = Tail(b)[i - l]
        BY <1>2, JoinedElements
    <1> HIDE DEF l, k, d, t
    <1>4. l + 1 \in DOMAIN d /\ d[l + 1] = Head(b)
        <2>1. l + 1 \in l + 1 .. l + k /\ (l + 1) - l = 1  BY <1>1
        <2>2. QED  BY <1>1, <1>2, <2>1
    <1>5. \A i \in DOMAIN t : \E j \in DOMAIN d : j # l + 1 /\ t[i] = d[j]
        <2>1. SUFFICES ASSUME NEW i \in DOMAIN t
                       PROVE  \E j \in DOMAIN d : j # l + 1 /\ t[i] = d[j]
            OBVIOUS
        <2>2. CASE i <= l
            <3>1. i \in 1 .. l /\ i \in DOMAIN d /\ i # l + 1  BY <1>1, <1>3, <2>2
            <3>2. QED  BY <1>1, <1>3, <3>1
        <2>3. CASE ~(i <= l)
            <3>0. l \in Nat /\ k \in Nat /\ DOMAIN d = 1 .. l + k /\ i \in Nat
                  /\ i \in 1 .. l + (k - 1) /\ i > l
                BY <1>1, <1>3, <2>3
            <3>1. /\ i \in l + 1 .. l + (k - 1) /\ i - l \in 1 .. k - 1
                  /\ i + 1 \in l + 1 .. l + k /\ (i + 1) - l = (i - l) + 1
                  /\ i + 1 \in DOMAIN d /\ i + 1 # l + 1
                BY ONLY <3>0
            <3>2. t[i] = Tail(b)[i - l] /\ Tail(b)[i - l] = b[(i - l) + 1]
                BY <1>2, <1>3, <3>1
            <3>3. d[i + 1] = b[(i + 1) - l]  BY <1>1, <3>1
            <3>4. QED  BY <3>1, <3>2, <3>3
        <2>4. QED  BY <2>2, <2>3
    <1>6. PICK i \in DOMAIN d : /\ d[i] = m
                                /\ \A j \in DOMAIN d \ {i} : d[j].type = "OPTIONS"
        BY DEF One, d
    <1>7. i = l + 1  BY <1>4, <1>6
    <1>8. None(t)  BY <1>5, <1>6, <1>7 DEF None
    <1>9. QED  BY <1>4, <1>6, <1>7, <1>8 DEF t

(* A message of a list with one request, or two, is the request or options.*)
LEMMA RequestsOf ==
    ASSUME NEW dn
    PROVE  /\ None(dn) => \A i \in DOMAIN dn : dn[i].type = "OPTIONS"
           /\ \A m : One(dn, m) => \A i \in DOMAIN dn : dn[i] = m \/ dn[i].type = "OPTIONS"
           /\ \A m, n : Two(dn, m, n) =>
                \A i \in DOMAIN dn : dn[i] = m \/ dn[i] = n \/ dn[i].type = "OPTIONS"
    BY DEF None, One, Two

-----------------------------------------------------------------------------
(* The conversation on a connection.  A slot is described by op (sr_pc),   *)
(* st (sr_state), wk (sr_work), cf (sr_curframe), lk (link), cl (caller),  *)
(* up, the messages on their way to the dispatcher, dn, those on their way *)
(* to the worker's handlers, and gt, vw, gr (the worker's seen_gettrees,   *)
(* view and grid).                                                         *)

DirbuildMsg == [type |-> "DIRBUILD"]
Matrix(f) == [type |-> "MATRIX", frame |-> f]
Lines(w) == [type |-> "LINES", frame |-> w.li_frame, start |-> w.li_start, stop |-> w.li_stop]

(* Every frame has its trees loaded anew.                                  *)
TreesAlways == Frames \subseteq NeedTree

(* The columns of servers[] among themselves.                              *)
Steady(st, wk, cf) ==
    /\ st # "RESTART"
    /\ st \notin {"READY", "DOING_GETTREES"} => cf = NoFrame
    /\ st \notin {"READY", "CLOSING", "UNUSED"} => wk = NoWork

(* The states in which an answer m may be on its way.                      *)
Told(st, wk, m) ==
    \/ m.type = "VERSION" /\ st \in {"NEW", "CLOSING"} /\ wk = NoWork
    \/ m.type = "CMD" /\ st \in {"NEW", "CLOSING"} /\ m.cmd \in Commands
    \/ m.type = "DIRBUILD_REPLY" /\ st \in {"DOING_DIRBUILD", "CLOSING"}
    \/ m.type = "GETTREES_REPLY" /\ st \in {"DOING_GETTREES", "CLOSING"}
    \/ /\ m.type = "PIXELS"
       /\ st = "CLOSING" \/ (st = "READY" /\ wk = Span(m.frame, m.start, m.stop))
       /\ m.view = m.frame
       /\ TreesAlways => m.grid = m.frame

(* A worker that owes no answer has what sr_curframe says.                 *)
Knows(st, cf, gt, vw, gr) ==
    /\ st = "READY" => gt = TRUE
    /\ cf # NoFrame => vw = cf /\ (TreesAlways => gr = cf)

(* What a live worker that has said who it is may have to do: nothing (a   *)
(* second MSG_DIRBUILD would not be answered) ...                          *)
Quiet(st, wk, cf, dn, gt, vw, gr) ==
    /\ None(dn) /\ Knows(st, cf, gt, vw, gr)
    /\ \/ st = "CLOSING"
       \/ st \in {"VERSOK", "DOING_DIRBUILD", "NEED_TREE", "READY"} /\ wk = NoWork

(* ... or what it has been asked: the model, the trees of a frame, a range.*)
AskedDirbuild(st, dn) == One(dn, DirbuildMsg) /\ st \in {"DOING_DIRBUILD", "CLOSING"}

AskedTrees(st, cf, dn, vw) ==
    /\ st \in {"DOING_GETTREES", "CLOSING"}
    /\ \E f \in Frames : /\ cf \in {f, NoFrame}
                         /\ \/ Two(dn, Matrix(f), GettreesMsg)
                            \/ One(dn, GettreesMsg) /\ vw = f

AskedLines(st, wk, cf, dn, gt, vw, gr) ==
    /\ gt = TRUE
    /\ \E w \in Spans :
          /\ st = "CLOSING" \/ (st = "READY" /\ wk = w)
          /\ cf \in {w.li_frame, NoFrame}
          /\ \/ Two(dn, Matrix(w.li_frame), Lines(w)) /\ ~TreesAlways
             \/ One(dn, Lines(w)) /\ vw = w.li_frame /\ (TreesAlways => gr = w.li_frame)

(* One that has not, or is a one-shot client.                              *)
Unheard(st, wk, cl, up, dn) ==
    /\ cl # "none" /\ st \in {"NEW", "CLOSING"} /\ None(dn)
    /\ cl = "leaving" \/ (up = <<>> /\ wk = NoWork)
    /\ up # <<>> => up[1].type = "CMD"

(* One whose answer is on its way.                                         *)
Answered(st, cf, up, dn, gt, vw, gr) ==
    /\ up # <<>> /\ None(dn) /\ up[1].type # "CMD"
    /\ up[1].type = "GETTREES_REPLY" => gt = TRUE
    /\ Knows(st, cf, gt, vw, gr)

Live(st, wk, cf, cl, up, dn, gt, vw, gr) ==
    \/ Unheard(st, wk, cl, up, dn)
    \/ cl = "none" /\ Answered(st, cf, up, dn, gt, vw, gr)
    \/ /\ cl = "none" /\ up = <<>>
       /\ \/ Quiet(st, wk, cf, dn, gt, vw, gr)
          \/ AskedDirbuild(st, dn)
          \/ AskedTrees(st, cf, dn, vw)
          \/ AskedLines(st, wk, cf, dn, gt, vw, gr)

Whoever == {"none", "leaving", "rtsrv", "stale"} \cup Commands

Closed(st, lk, up, dn) == lk = "none" /\ st = "UNUSED" /\ up = <<>> /\ dn = <<>>

SlotOK(op, st, wk, cf, lk, cl, up, dn, gt, vw, gr) ==
    /\ Steady(st, wk, cf) /\ cl \in Whoever
    /\ up = <<>> \/ (Len(up) = 1 /\ Told(st, wk, up[1]))
    /\ op = FALSE => Closed(st, lk, up, dn)
    /\ op = TRUE => /\ lk # "none" /\ st # "UNUSED"
                    /\ lk = "up" => Live(st, wk, cf, cl, up, dn, gt, vw, gr)

(* The requests are messages, and of different types.                      *)
LEMMA RequestTypes ==
    /\ DirbuildMsg \in SrvMessages /\ DirbuildMsg.type = "DIRBUILD"
    /\ GettreesMsg \in SrvMessages /\ GettreesMsg.type = "GETTREES"
    /\ \A f \in Frames : Matrix(f) \in SrvMessages /\ Matrix(f).type = "MATRIX" /\ Matrix(f).frame = f
    /\ \A w \in Spans : /\ Lines(w) \in SrvMessages /\ Lines(w).type = "LINES"
                        /\ Lines(w).frame = w.li_frame
                        /\ Lines(w).start = w.li_start /\ Lines(w).stop = w.li_stop
    BY DEF DirbuildMsg, GettreesMsg, Matrix, Lines, SrvMessages, WorkMessages, Spans

(* Dropping a server leaves the conversation as it is.                     *)
LEMMA DroppedSlot ==
    ASSUME NEW st, NEW wk, NEW cf, NEW lk, NEW cl, NEW up, NEW dn, NEW gt, NEW vw, NEW gr,
           SlotOK(TRUE, st, wk, cf, lk, cl, up, dn, gt, vw, gr), NEW wk2 \in {wk, NoWork}
    PROVE  SlotOK(TRUE, "CLOSING", wk2, NoFrame, lk, cl, up, dn, gt, vw, gr)
    <1>1. Steady("CLOSING", wk2, NoFrame)  BY DEF Steady
    <1>2. up = <<>> \/ (Len(up) = 1 /\ Told("CLOSING", wk2, up[1]))
        BY DEF SlotOK, Told
    <1>3. ASSUME lk = "up" PROVE Live("CLOSING", wk2, NoFrame, cl, up, dn, gt, vw, gr)
        <2>1. Live(st, wk, cf, cl, up, dn, gt, vw, gr)  BY <1>3 DEF SlotOK
        <2>2. CASE Unheard(st, wk, cl, up, dn)
            BY <2>2 DEF Unheard, Live
        <2>3. CASE cl = "none" /\ Answered(st, cf, up, dn, gt, vw, gr)
            BY <2>3 DEF Answered, Live, Knows
        <2>4. CASE cl = "none" /\ up = <<>> /\ Quiet(st, wk, cf, dn, gt, vw, gr)
            BY <2>4 DEF Quiet, Live, Knows
        <2>5. CASE cl = "none" /\ up = <<>> /\ AskedDirbuild(st, dn)
            BY <2>5 DEF AskedDirbuild, Live
        <2>6. CASE cl = "none" /\ up = <<>> /\ AskedTrees(st, cf, dn, vw)
            BY <2>6 DEF AskedTrees, Live
        <2>7. CASE cl = "none" /\ up = <<>> /\ AskedLines(st, wk, cf, dn, gt, vw, gr)
            BY <2>7 DEF AskedLines, Live
        <2>8. QED  BY <2>1, <2>2, <2>3, <2>4, <2>5, <2>6, <2>7 DEF Live
    <1>4. QED  BY <1>1, <1>2, <1>3 DEF SlotOK

(* A frame that is done is forgotten by the servers that had it.           *)
LEMMA FrameForgotten ==
    ASSUME NEW op, NEW st, NEW wk, NEW cf, NEW lk, NEW cl, NEW up, NEW dn, NEW gt, NEW vw, NEW gr,
           SlotOK(op, st, wk, cf, lk, cl, up, dn, gt, vw, gr), op = TRUE
    PROVE  SlotOK(op, st, wk, NoFrame, lk, cl, up, dn, gt, vw, gr)
    <1>1. Steady(st, wk, NoFrame)  BY DEF Steady, SlotOK
    <1>2. ASSUME lk = "up" PROVE Live(st, wk, NoFrame, cl, up, dn, gt, vw, gr)
        <2>1. Live(st, wk, cf, cl, up, dn, gt, vw, gr)  BY <1>2 DEF SlotOK
        <2>2. CASE Unheard(st, wk, cl, up, dn)
            BY <2>2 DEF Live
        <2>3. CASE cl = "none" /\ Answered(st, cf, up, dn, gt, vw, gr)
            BY <2>3 DEF Answered, Live, Knows
        <2>4. CASE cl = "none" /\ up = <<>> /\ Quiet(st, wk, cf, dn, gt, vw, gr)
            BY <2>4 DEF Quiet, Live, Knows
        <2>5. CASE cl = "none" /\ up = <<>> /\ AskedDirbuild(st, dn)
            BY <2>5 DEF Live
        <2>6. CASE cl = "none" /\ up = <<>> /\ AskedTrees(st, cf, dn, vw)
            BY <2>6 DEF AskedTrees, Live
        <2>7. CASE cl = "none" /\ up = <<>> /\ AskedLines(st, wk, cf, dn, gt, vw, gr)
            BY <2>7 DEF AskedLines, Live
        <2>8. QED  BY <2>1, <2>2, <2>3, <2>4, <2>5, <2>6, <2>7 DEF Live
    <1>3. QED  BY <1>1, <1>2 DEF SlotOK


(* A connection that is no longer up: what the worker had in hand, and     *)
(* perhaps what it said, is gone.                                          *)
LEMMA Disconnected ==
    ASSUME NEW st, NEW wk, NEW cf, NEW lk, NEW cl, NEW up, NEW dn, NEW gt, NEW vw, NEW gr,
           SlotOK(TRUE, st, wk, cf, lk, cl, up, dn, gt, vw, gr),
           NEW lk2, lk2 \notin {"up", "none"}, NEW up2 \in {up, <<>>},
           NEW dn2, NEW gt2, NEW vw2, NEW gr2
    PROVE  SlotOK(TRUE, st, wk, cf, lk2, cl, up2, dn2, gt2, vw2, gr2)
    BY DEF SlotOK

-----------------------------------------------------------------------------
(* The dispatcher hears the one message there is.                          *)

LEMMA HeardLive ==
    ASSUME NEW st, NEW wk, NEW cf, NEW lk, NEW cl, NEW up, NEW dn, NEW gt, NEW vw, NEW gr,
           SlotOK(TRUE, st, wk, cf, lk, cl, up, dn, gt, vw, gr), up # <<>>, lk = "up"
    PROVE  /\ up[1].type = "CMD" => Unheard(st, wk, cl, up, dn)
           /\ up[1].type # "CMD" => cl = "none" /\ Answered(st, cf, up, dn, gt, vw, gr)
    <1>1. Live(st, wk, cf, cl, up, dn, gt, vw, gr)  BY DEF SlotOK
    <1>2. CASE Unheard(st, wk, cl, up, dn)
        BY <1>2 DEF Unheard
    <1>3. CASE cl = "none" /\ Answered(st, cf, up, dn, gt, vw, gr)
        BY <1>3 DEF Answered
    <1>4. QED  BY <1>1, <1>2, <1>3 DEF Live

(* ... and drops the server for it, or has dropped it before.              *)
LEMMA HeardDropped ==
    ASSUME NEW st, NEW wk, NEW cf, NEW lk, NEW cl, NEW up, NEW dn, NEW gt, NEW vw, NEW gr,
           SlotOK(TRUE, st, wk, cf, lk, cl, up, dn, gt, vw, gr), up # <<>>,
           NEW wk2
    PROVE  SlotOK(TRUE, "CLOSING", wk2, NoFrame, lk, cl, <<>>, dn, gt, vw, gr)
    <1>1. Steady("CLOSING", wk2, NoFrame)  BY DEF Steady
    <1>2. ASSUME lk = "up" PROVE Live("CLOSING", wk2, NoFrame, cl, <<>>, dn, gt, vw, gr)
        <2>1. CASE up[1].type = "CMD"
            <3>1. Unheard(st, wk, cl, up, dn)  BY <1>2, <2>1, HeardLive
            <3>2. Unheard("CLOSING", wk2, cl, <<>>, dn)  BY <3>1 DEF Unheard
            <3>3. QED  BY <3>2 DEF Live
        <2>2. CASE up[1].type # "CMD"
            <3>1. cl = "none" /\ Answered(st, cf, up, dn, gt, vw, gr)
                BY <1>2, <2>2, HeardLive
            <3>2. Quiet("CLOSING", wk2, NoFrame, dn, gt, vw, gr)
                BY <3>1 DEF Answered, Quiet, Knows
            <3>3. QED  BY <3>1, <3>2 DEF Live
        <2>3. QED  BY <2>1, <2>2
    <1>3. QED  BY <1>1, <1>2 DEF SlotOK

(* ... or takes it for an answer, after which the worker has nothing to do.*)
LEMMA HeardAnswer ==
    ASSUME NEW st, NEW wk, NEW cf, NEW lk, NEW cl, NEW up, NEW dn, NEW gt, NEW vw, NEW gr,
           SlotOK(TRUE, st, wk, cf, lk, cl, up, dn, gt, vw, gr), up # <<>>,
           up[1].type # "CMD",
           NEW st2 \in {"VERSOK", "NEED_TREE", "READY"}, NEW cf2 \in {cf, NoFrame},
           st2 # "READY" => cf2 = NoFrame,
           st2 = "READY" => st = "READY" \/ up[1].type = "GETTREES_REPLY"
    PROVE  SlotOK(TRUE, st2, NoWork, cf2, lk, cl, <<>>, dn, gt, vw, gr)
    <1>1. Steady(st2, NoWork, cf2)  BY DEF Steady
    <1>2. ASSUME lk = "up" PROVE Live(st2, NoWork, cf2, cl, <<>>, dn, gt, vw, gr)
        <2>1. cl = "none" /\ Answered(st, cf, up, dn, gt, vw, gr)
            BY <1>2, HeardLive
        <2>2. Knows(st2, cf2, gt, vw, gr)  BY <2>1 DEF Answered, Knows
        <2>3. Quiet(st2, NoWork, cf2, dn, gt, vw, gr)
            BY <2>1, <2>2 DEF Answered, Quiet
        <2>4. QED  BY <2>1, <2>3 DEF Live
    <1>3. QED  BY <1>1, <1>2 DEF SlotOK

(* ph_version, ph_dirbuild_reply, ph_gettrees_reply and ph_pixels, when    *)
(* they do not drop the server.                                            *)
LEMMA HeardVersion ==
    ASSUME NEW st, NEW wk, NEW cf, NEW lk, NEW cl, NEW up, NEW dn, NEW gt, NEW vw, NEW gr,
           SlotOK(TRUE, st, wk, cf, lk, cl, up, dn, gt, vw, gr), up # <<>>,
           up[1].type = "VERSION"
    PROVE  SlotOK(TRUE, "VERSOK", wk, cf, lk, cl, <<>>, dn, gt, vw, gr)
    <1>1. wk = NoWork /\ cf = NoFrame  BY DEF SlotOK, Told, Steady
    <1>2. QED  BY <1>1, HeardAnswer

LEMMA HeardDirbuildReply ==
    ASSUME NEW st, NEW wk, NEW cf, NEW lk, NEW cl, NEW up, NEW dn, NEW gt, NEW vw, NEW gr,
           SlotOK(TRUE, st, wk, cf, lk, cl, up, dn, gt, vw, gr), up # <<>>,
           up[1].type = "DIRBUILD_REPLY", st = "DOING_DIRBUILD"
    PROVE  SlotOK(TRUE, "NEED_TREE", wk, cf, lk, cl, <<>>, dn, gt, vw, gr)
    <1>1. wk = NoWork /\ cf = NoFrame  BY DEF SlotOK, Steady
    <1>2. QED  BY <1>1, HeardAnswer

LEMMA HeardGettreesReply ==
    ASSUME NEW st, NEW wk, NEW cf, NEW lk, NEW cl, NEW up, NEW dn, NEW gt, NEW vw, NEW gr,
           SlotOK(TRUE, st, wk, cf, lk, cl, up, dn, gt, vw, gr), up # <<>>,
           up[1].type = "GETTREES_REPLY", st = "DOING_GETTREES"
    PROVE  SlotOK(TRUE, "READY", wk, cf, lk, cl, <<>>, dn, gt, vw, gr)
    <1>1. wk = NoWork  BY DEF SlotOK, Steady
    <1>2. QED  BY <1>1, HeardAnswer

LEMMA HeardPixels ==
    ASSUME NEW st, NEW wk, NEW cf, NEW lk, NEW cl, NEW up, NEW dn, NEW gt, NEW vw, NEW gr,
           SlotOK(TRUE, st, wk, cf, lk, cl, up, dn, gt, vw, gr), up # <<>>,
           up[1].type = "PIXELS"
    PROVE  /\ st \in {"CLOSING", "READY"}
           /\ st = "CLOSING" => SlotOK(TRUE, st, wk, cf, lk, cl, <<>>, dn, gt, vw, gr)
           /\ st = "READY" => SlotOK(TRUE, st, NoWork, cf, lk, cl, <<>>, dn, gt, vw, gr)
    <1>1. st = "CLOSING" \/ st = "READY"  BY DEF SlotOK, Told
    <1>2. CASE st = "CLOSING"
        <2>1. cf = NoFrame  BY <1>2 DEF SlotOK, Steady
        <2>2. QED  BY <1>2, <2>1, HeardDropped
    <1>3. CASE st = "READY"
        BY <1>3, HeardAnswer
    <1>4. QED  BY <1>1, <1>2, <1>3

LEMMA HeardCommand ==
    ASSUME NEW st, NEW wk, NEW cf, NEW lk, NEW cl, NEW up, NEW dn, NEW gt, NEW vw, NEW gr,
           SlotOK(TRUE, st, wk, cf, lk, cl, up, dn, gt, vw, gr), up # <<>>,
           up[1].type = "CMD"
    PROVE  SlotOK(TRUE, st, wk, cf, lk, cl, <<>>, dn, gt, vw, gr) /\ up[1].cmd \in Commands
    <1>1. up[1].cmd \in Commands  BY DEF SlotOK, Told
    <1>2. ASSUME lk = "up" PROVE Live(st, wk, cf, cl, <<>>, dn, gt, vw, gr)
        <2>1. Unheard(st, wk, cl, up, dn)  BY <1>2, HeardLive
        <2>2. Unheard(st, wk, cl, <<>>, dn)  BY <2>1 DEF Unheard
        <2>3. QED  BY <2>2 DEF Live
    <1>3. QED  BY <1>1, <1>2 DEF SlotOK


-----------------------------------------------------------------------------
(* The dispatcher asks.                                                    *)

(* A server it may ask has nothing to do and nothing to say.               *)
LEMMA NothingSaid ==
    ASSUME NEW st, NEW wk, NEW cf, NEW lk, NEW cl, NEW up \in Seq(CtlMessages), NEW dn,
           NEW gt, NEW vw, NEW gr,
           SlotOK(TRUE, st, wk, cf, lk, cl, up, dn, gt, vw, gr),
           st \in {"VERSOK", "NEED_TREE", "READY"}, wk = NoWork
    PROVE  up = <<>>
    <1>1. SUFFICES ASSUME up # <<>> PROVE FALSE
        OBVIOUS
    <1>2. up[1] \in CtlMessages  BY <1>1, EmptySeq, LenProperties, ElementOfSeq
    <1>3. Told(st, wk, up[1])  BY <1>1 DEF SlotOK
    <1>4. up[1].type = "PIXELS" /\ wk = Span(up[1].frame, up[1].start, up[1].stop)
        BY <1>3 DEF Told
    <1>5. up[1].frame \in Frames  BY <1>2, <1>4 DEF CtlMessages
    <1>6. up[1].frame # NoFrame  BY <1>5, FrameIsNotNoFrame
    <1>7. wk.li_frame = up[1].frame  BY <1>4 DEF Span
    <1>8. QED  BY <1>6, <1>7 DEF NoWork

LEMMA NothingAsked ==
    ASSUME NEW st, NEW wk, NEW cf, NEW cl, NEW up \in Seq(CtlMessages), NEW dn,
           NEW gt, NEW vw, NEW gr,
           SlotOK(TRUE, st, wk, cf, "up", cl, up, dn, gt, vw, gr),
           st \in {"VERSOK", "NEED_TREE", "READY"}, wk = NoWork
    PROVE  cl = "none" /\ up = <<>> /\ Quiet(st, wk, cf, dn, gt, vw, gr)
    <1>1. up = <<>>  BY NothingSaid
    <1>2. Live(st, wk, cf, cl, up, dn, gt, vw, gr)  BY DEF SlotOK
    <1>3. ~Unheard(st, wk, cl, up, dn)  BY DEF Unheard
    <1>4. ~Answered(st, cf, up, dn, gt, vw, gr)  BY <1>1 DEF Answered
    <1>5. ~AskedDirbuild(st, dn)  BY DEF AskedDirbuild
    <1>6. ~AskedTrees(st, cf, dn, vw)  BY DEF AskedTrees
    <1>7. ~AskedLines(st, wk, cf, dn, gt, vw, gr)
        BY SpanIsNotNoWork DEF AskedLines
    <1>8. QED  BY <1>1, <1>2, <1>3, <1>4, <1>5, <1>6, <1>7 DEF Live

(* A server whose connection is not up is asked in vain, and its state     *)
(* is the one of a server that has been asked.                             *)
LEMMA AskedInVain ==
    ASSUME NEW st, NEW wk, NEW cf, NEW lk, NEW cl, NEW up \in Seq(CtlMessages), NEW dn,
           NEW gt, NEW vw, NEW gr,
           SlotOK(TRUE, st, wk, cf, lk, cl, up, dn, gt, vw, gr),
           st \in {"VERSOK", "NEED_TREE", "READY"}, wk = NoWork,
           NEW lk2, lk2 \notin {"up", "none"}, NEW st2, st2 # "UNUSED", NEW wk2, NEW cf2,
           Steady(st2, wk2, cf2)
    PROVE  SlotOK(TRUE, st2, wk2, cf2, lk2, cl, up, dn, gt, vw, gr)
    <1>1. up = <<>>  BY NothingSaid
    <1>2. QED  BY <1>1 DEF SlotOK

(* SendDirbuild                                                            *)
LEMMA DirbuildSent ==
    ASSUME NEW st, NEW wk, NEW cf, NEW cl, NEW up \in Seq(CtlMessages),
           NEW dn \in Seq(SrvMessages), NEW gt, NEW vw, NEW gr,
           SlotOK(TRUE, st, wk, cf, "up", cl, up, dn, gt, vw, gr), st = "VERSOK"
    PROVE  SlotOK(TRUE, "DOING_DIRBUILD", wk, cf, "up", cl, up, dn \o <<DirbuildMsg>>, gt, vw, gr)
    <1>1. wk = NoWork /\ cf = NoFrame /\ st \in {"VERSOK", "NEED_TREE", "READY"}
        BY DEF SlotOK, Steady
    <1>2. cl = "none" /\ up = <<>> /\ Quiet(st, wk, cf, dn, gt, vw, gr)
        BY ONLY <1>1, SlotOK(TRUE, st, wk, cf, "up", cl, up, dn, gt, vw, gr),
                up \in Seq(CtlMessages), NothingAsked
    <1>3. One(dn \o <<DirbuildMsg>>, DirbuildMsg)
        BY <1>2, AskOne, RequestTypes DEF Quiet
    <1>4. Steady("DOING_DIRBUILD", wk, cf)  BY <1>1 DEF Steady
    <1> HIDE DEF DirbuildMsg
    <1>5. Live("DOING_DIRBUILD", wk, cf, cl, up, dn \o <<DirbuildMsg>>, gt, vw, gr)
        BY <1>2, <1>3 DEF Live, AskedDirbuild
    <1>6. QED  BY <1>2, <1>4, <1>5 DEF SlotOK

(* TaskGettrees                                                            *)
LEMMA TreesSent ==
    ASSUME NEW st, NEW wk, NEW cf, NEW cl, NEW up \in Seq(CtlMessages),
           NEW dn \in Seq(SrvMessages), NEW gt, NEW vw, NEW gr,
           SlotOK(TRUE, st, wk, cf, "up", cl, up, dn, gt, vw, gr),
           st \in {"NEED_TREE", "READY"}, wk = NoWork, NEW f \in Frames
    PROVE  SlotOK(TRUE, "DOING_GETTREES", wk, f, "up", cl, up, dn \o <<Matrix(f), GettreesMsg>>,
                  gt, vw, gr)
    <1> DEFINE d == dn \o <<Matrix(f), GettreesMsg>>
    <1>1. cl = "none" /\ up = <<>> /\ Quiet(st, wk, cf, dn, gt, vw, gr)
        BY NothingAsked
    <1>2. Two(d, Matrix(f), GettreesMsg)
        BY <1>1, AskTwo, RequestTypes DEF Quiet
    <1> HIDE DEF d
    <1>3. Steady("DOING_GETTREES", wk, f)  BY DEF Steady
    <1>4. AskedTrees("DOING_GETTREES", f, d, vw)  BY <1>2 DEF AskedTrees
    <1>5. Live("DOING_GETTREES", wk, f, cl, up, d, gt, vw, gr)
        BY <1>1, <1>4 DEF Live
    <1>6. SlotOK(TRUE, "DOING_GETTREES", wk, f, "up", cl, up, d, gt, vw, gr)
        BY <1>1, <1>3, <1>5 DEF SlotOK
    <1>7. QED  BY <1>6 DEF d

(* TaskLines                                                               *)
LEMMA LinesSent ==
    ASSUME NEW st, NEW wk, NEW cf, NEW cl, NEW up \in Seq(CtlMessages),
           NEW dn \in Seq(SrvMessages), NEW gt, NEW vw, NEW gr,
           SlotOK(TRUE, st, wk, cf, "up", cl, up, dn, gt, vw, gr),
           st \in {"NEED_TREE", "READY"}, wk = NoWork, NEW w \in Spans, cf = w.li_frame
    PROVE  SlotOK(TRUE, st, w, cf, "up", cl, up, dn \o <<Lines(w)>>, gt, vw, gr)
    <1> DEFINE d == dn \o <<Lines(w)>>
    <1>1. cf # NoFrame  BY FrameIsNotNoFrame DEF Spans
    <1>2. st = "READY"  BY <1>1 DEF SlotOK, Steady
    <1>3. cl = "none" /\ up = <<>> /\ Quiet(st, wk, cf, dn, gt, vw, gr)
        BY NothingAsked
    <1>4. One(d, Lines(w))
        BY <1>3, AskOne, RequestTypes DEF Quiet
    <1>5. gt = TRUE /\ vw = cf /\ (TreesAlways => gr = cf)
        BY <1>1, <1>2, <1>3 DEF Quiet, Knows
    <1> HIDE DEF d
    <1>6. Steady(st, w, cf)  BY <1>2 DEF Steady
    <1>7. AskedLines(st, w, cf, d, gt, vw, gr)
        BY <1>2, <1>4, <1>5 DEF AskedLines
    <1>8. Live(st, w, cf, cl, up, d, gt, vw, gr)
        BY <1>3, <1>7 DEF Live
    <1>9. SlotOK(TRUE, st, w, cf, "up", cl, up, d, gt, vw, gr)
        BY <1>2, <1>3, <1>6, <1>8 DEF SlotOK
    <1>10. QED  BY <1>9 DEF d

(* TaskMatrix                                                              *)
LEMMA MatrixSent ==
    ASSUME NEW st, NEW wk, NEW cf, NEW cl, NEW up \in Seq(CtlMessages),
           NEW dn \in Seq(SrvMessages), NEW gt, NEW vw, NEW gr,
           SlotOK(TRUE, st, wk, cf, "up", cl, up, dn, gt, vw, gr),
           st = "READY", wk = NoWork, NEW w \in Spans, w.li_frame \notin NeedTree
    PROVE  SlotOK(TRUE, st, w, w.li_frame, "up", cl, up, dn \o <<Matrix(w.li_frame), Lines(w)>>,
                  gt, vw, gr)
    <1> DEFINE f == w.li_frame
               d == dn \o <<Matrix(f), Lines(w)>>
    <1>1. f \in Frames /\ ~TreesAlways /\ st \in {"VERSOK", "NEED_TREE", "READY"}
        BY DEF Spans, TreesAlways
    <1>2. cl = "none" /\ up = <<>> /\ Quiet(st, wk, cf, dn, gt, vw, gr)
        BY ONLY <1>1, wk = NoWork, SlotOK(TRUE, st, wk, cf, "up", cl, up, dn, gt, vw, gr),
                up \in Seq(CtlMessages), NothingAsked
    <1>3. Two(d, Matrix(f), Lines(w))
        BY <1>1, <1>2, AskTwo, RequestTypes DEF Quiet
    <1>4. gt = TRUE  BY <1>2 DEF Quiet, Knows
    <1> HIDE DEF d
    <1>5. Steady(st, w, f)  BY DEF Steady
    <1>6. AskedLines(st, w, f, d, gt, vw, gr)
        BY <1>1, <1>3, <1>4 DEF AskedLines
    <1>7. Live(st, w, f, cl, up, d, gt, vw, gr)
        BY <1>2, <1>6 DEF Live
    <1>8. SlotOK(TRUE, st, w, f, "up", cl, up, d, gt, vw, gr)
        BY <1>2, <1>5, <1>7 DEF SlotOK
    <1>9. QED  BY <1>8 DEF d

(* rdebug: options come and go whatever the server is in the middle of.    *)
LEMMA LiveOptions ==
    ASSUME NEW st, NEW wk, NEW cf, NEW cl, NEW up, NEW dn, NEW gt, NEW vw, NEW gr,
           Live(st, wk, cf, cl, up, dn, gt, vw, gr), NEW dn2,
           None(dn) => None(dn2), One(dn, DirbuildMsg) => One(dn2, DirbuildMsg),
           One(dn, GettreesMsg) => One(dn2, GettreesMsg),
           \A w \in Spans : One(dn, Lines(w)) => One(dn2, Lines(w)),
           \A f \in Frames : Two(dn, Matrix(f), GettreesMsg) => Two(dn2, Matrix(f), GettreesMsg),
           \A w \in Spans : Two(dn, Matrix(w.li_frame), Lines(w))
                                => Two(dn2, Matrix(w.li_frame), Lines(w))
    PROVE  Live(st, wk, cf, cl, up, dn2, gt, vw, gr)
    <1>1. CASE Unheard(st, wk, cl, up, dn)
        BY <1>1 DEF Unheard, Live
    <1>2. CASE cl = "none" /\ Answered(st, cf, up, dn, gt, vw, gr)
        BY <1>2 DEF Answered, Live
    <1>3. CASE cl = "none" /\ up = <<>> /\ Quiet(st, wk, cf, dn, gt, vw, gr)
        BY <1>3 DEF Quiet, Live
    <1>4. CASE cl = "none" /\ up = <<>> /\ AskedDirbuild(st, dn)
        BY <1>4 DEF AskedDirbuild, Live
    <1>5. CASE cl = "none" /\ up = <<>> /\ AskedTrees(st, cf, dn, vw)
        BY <1>5 DEF AskedTrees, Live
    <1>6. CASE cl = "none" /\ up = <<>> /\ AskedLines(st, wk, cf, dn, gt, vw, gr)
        BY <1>6 DEF AskedLines, Live
    <1>7. QED  BY <1>1, <1>2, <1>3, <1>4, <1>5, <1>6 DEF Live

LEMMA OptionSent ==
    ASSUME NEW st, NEW wk, NEW cf, NEW cl, NEW up, NEW dn \in Seq(SrvMessages),
           NEW gt, NEW vw, NEW gr,
           SlotOK(TRUE, st, wk, cf, "up", cl, up, dn, gt, vw, gr),
           NEW o \in SrvMessages, o.type = "OPTIONS"
    PROVE  SlotOK(TRUE, st, wk, cf, "up", cl, up, dn \o <<o>>, gt, vw, gr)
    <1> DEFINE d == dn \o <<o>>
    <1>1. Live(st, wk, cf, cl, up, dn, gt, vw, gr)  BY DEF SlotOK
    <1>2. /\ None(dn) => None(d)
          /\ \A m : One(dn, m) => One(d, m)
          /\ \A m, n : Two(dn, m, n) => Two(d, m, n)
        BY AskOption
    <1> HIDE DEF d
    <1>3. Live(st, wk, cf, cl, up, d, gt, vw, gr)  BY <1>1, <1>2, LiveOptions
    <1>4. SlotOK(TRUE, st, wk, cf, "up", cl, up, d, gt, vw, gr)  BY <1>3 DEF SlotOK
    <1>5. QED  BY <1>4 DEF d


-----------------------------------------------------------------------------
(* The worker speaks, and does what it is asked.                           *)

(* A caller that is accepted.                                              *)
LEMMA CallerSlot ==
    ASSUME NEW st, NEW wk, NEW cf, NEW lk, NEW cl, NEW up, NEW dn, NEW gt, NEW vw, NEW gr,
           SlotOK(FALSE, st, wk, cf, lk, cl, up, dn, gt, vw, gr),
           NEW cl2 \in {"rtsrv", "stale"} \cup Commands
    PROVE  SlotOK(TRUE, "NEW", NoWork, NoFrame, "up", cl2, up, dn, gt, vw, gr)
    <1>1. up = <<>> /\ dn = <<>>  BY DEF SlotOK, Closed
    <1>2. cl2 # "none" /\ cl2 \in Whoever
        BY RemrtAssumption DEF CommandNames, Whoever
    <1>3. Unheard("NEW", NoWork, cl2, up, dn)
        BY <1>1, <1>2, NoneEmpty DEF Unheard
    <1>4. Steady("NEW", NoWork, NoFrame)  BY DEF Steady
    <1>5. Live("NEW", NoWork, NoFrame, cl2, up, dn, gt, vw, gr)
        BY <1>3 DEF Live
    <1>6. QED  BY <1>1, <1>2, <1>4, <1>5 DEF SlotOK

(* Speak: a worker's version, or a one-shot client's command.              *)
LEMMA VersionSaid ==
    ASSUME NEW st, NEW wk, NEW cf, NEW cl, NEW up, NEW dn, NEW gt, NEW vw, NEW gr,
           SlotOK(TRUE, st, wk, cf, "up", cl, up, dn, gt, vw, gr), cl # "none", cl # "leaving",
           NEW up2, Len(up2) = 1, up2 # <<>>, up2[1].type = "VERSION"
    PROVE  SlotOK(TRUE, st, wk, cf, "up", "none", up2, dn, gt, vw, gr)
    <1>0. Unheard(st, wk, cl, up, dn)
        BY DEF SlotOK, Live
    <1>1. st \in {"NEW", "CLOSING"} /\ None(dn) /\ wk = NoWork /\ cf = NoFrame
        BY <1>0 DEF Unheard, SlotOK, Steady
    <1>2. Told(st, wk, up2[1])  BY <1>1 DEF Told
    <1>3. Knows(st, cf, gt, vw, gr)  BY <1>1 DEF Knows
    <1>4. Answered(st, cf, up2, dn, gt, vw, gr)  BY <1>1, <1>3 DEF Answered
    <1>5. Live(st, wk, cf, "none", up2, dn, gt, vw, gr)  BY <1>4 DEF Live
    <1>6. Steady(st, wk, cf) /\ "none" \in Whoever /\ st # "UNUSED"
        BY <1>1 DEF SlotOK, Whoever
    <1>7. QED  BY <1>2, <1>5, <1>6 DEF SlotOK

LEMMA CommandSaid ==
    ASSUME NEW st, NEW wk, NEW cf, NEW cl, NEW up, NEW dn, NEW gt, NEW vw, NEW gr,
           SlotOK(TRUE, st, wk, cf, "up", cl, up, dn, gt, vw, gr), cl # "none", cl # "leaving",
           NEW up2, Len(up2) = 1, up2 # <<>>, up2[1].type = "CMD", up2[1].cmd \in Commands
    PROVE  SlotOK(TRUE, st, wk, cf, "up", "leaving", up2, dn, gt, vw, gr)
    <1>0. Unheard(st, wk, cl, up, dn)
        BY DEF SlotOK, Live
    <1>1. st \in {"NEW", "CLOSING"} /\ None(dn) /\ wk = NoWork /\ cf = NoFrame
        BY <1>0 DEF Unheard, SlotOK, Steady
    <1>2. Told(st, wk, up2[1])  BY <1>1 DEF Told
    <1>3. Unheard(st, wk, "leaving", up2, dn)  BY <1>1 DEF Unheard
    <1>4. Live(st, wk, cf, "leaving", up2, dn, gt, vw, gr)  BY <1>3 DEF Live
    <1>5. Steady(st, wk, cf) /\ "leaving" \in Whoever /\ st # "UNUSED"
        BY <1>1 DEF SlotOK, Whoever
    <1>6. QED  BY <1>2, <1>4, <1>5 DEF SlotOK

(* The worker reads, and has nothing to say.                               *)
Listens(cl, up) == cl = "none" /\ up = <<>>

(* A worker that has a request among its messages has not answered it, and *)
(* which request it is says what it is to the dispatcher.                  *)
LEMMA RequestOfKind ==
    ASSUME NEW st, NEW wk, NEW cf, NEW cl, NEW up, NEW dn, NEW gt, NEW vw, NEW gr,
           SlotOK(TRUE, st, wk, cf, "up", cl, up, dn, gt, vw, gr),
           NEW i \in DOMAIN dn, dn[i].type # "OPTIONS"
    PROVE  /\ Listens(cl, up)
           /\ \/ AskedDirbuild(st, dn)
              \/ AskedTrees(st, cf, dn, vw)
              \/ AskedLines(st, wk, cf, dn, gt, vw, gr)
           /\ AskedDirbuild(st, dn) => dn[i].type = "DIRBUILD"
           /\ AskedTrees(st, cf, dn, vw) => dn[i].type \in {"MATRIX", "GETTREES"}
           /\ AskedLines(st, wk, cf, dn, gt, vw, gr) => dn[i].type \in {"MATRIX", "LINES"}
    <1>1. Live(st, wk, cf, cl, up, dn, gt, vw, gr)  BY DEF SlotOK
    <1>2. ~None(dn)  BY DEF None
    <1>3. /\ Listens(cl, up)
          /\ \/ AskedDirbuild(st, dn)
             \/ AskedTrees(st, cf, dn, vw)
             \/ AskedLines(st, wk, cf, dn, gt, vw, gr)
        BY <1>1, <1>2 DEF Live, Unheard, Answered, Quiet, Listens
    <1>4. AskedDirbuild(st, dn) => dn[i].type = "DIRBUILD"
        BY RequestsOf, RequestTypes DEF AskedDirbuild
    <1>5. AskedTrees(st, cf, dn, vw) => dn[i].type \in {"MATRIX", "GETTREES"}
        <2>1. SUFFICES ASSUME AskedTrees(st, cf, dn, vw)
                       PROVE  dn[i].type \in {"MATRIX", "GETTREES"}
            OBVIOUS
        <2>2. PICK f \in Frames : Two(dn, Matrix(f), GettreesMsg) \/ One(dn, GettreesMsg)
            BY <2>1 DEF AskedTrees
        <2>3. dn[i] = Matrix(f) \/ dn[i] = GettreesMsg
            BY <2>2, RequestsOf
        <2>4. QED  BY <2>3, RequestTypes
    <1>6. AskedLines(st, wk, cf, dn, gt, vw, gr) => dn[i].type \in {"MATRIX", "LINES"}
        <2>1. SUFFICES ASSUME AskedLines(st, wk, cf, dn, gt, vw, gr)
                       PROVE  dn[i].type \in {"MATRIX", "LINES"}
            OBVIOUS
        <2>2. PICK w \in Spans : Two(dn, Matrix(w.li_frame), Lines(w)) \/ One(dn, Lines(w))
            BY <2>1 DEF AskedLines
        <2>3. dn[i] = Matrix(w.li_frame) \/ dn[i] = Lines(w)
            BY <2>2, RequestsOf
        <2>4. w.li_frame \in Frames  BY DEF Spans
        <2>5. QED  BY <2>3, <2>4, RequestTypes
    <1>7. QED  BY <1>1, <1>3, <1>4, <1>5, <1>6

LEMMA RequestAsked ==
    ASSUME NEW st, NEW wk, NEW cf, NEW cl, NEW up, NEW dn, NEW gt, NEW vw, NEW gr,
           SlotOK(TRUE, st, wk, cf, "up", cl, up, dn, gt, vw, gr),
           NEW i \in DOMAIN dn, dn[i].type # "OPTIONS"
    PROVE  /\ Listens(cl, up)
           /\ dn[i].type = "DIRBUILD" => AskedDirbuild(st, dn)
           /\ dn[i].type = "GETTREES" => AskedTrees(st, cf, dn, vw)
           /\ dn[i].type = "LINES" => AskedLines(st, wk, cf, dn, gt, vw, gr)
           /\ dn[i].type = "MATRIX" => \/ AskedTrees(st, cf, dn, vw)
                                       \/ AskedLines(st, wk, cf, dn, gt, vw, gr)
    BY RequestOfKind

(* A request that the worker has still to read, after those it has queued. *)
LEMMA UnreadRequest ==
    ASSUME NEW st, NEW wk, NEW cf, NEW cl, NEW up, NEW a \in Seq(SrvMessages),
           NEW b \in Seq(SrvMessages), NEW gt, NEW vw, NEW gr,
           SlotOK(TRUE, st, wk, cf, "up", cl, up, a \o b, gt, vw, gr),
           b # <<>>, Head(b).type # "OPTIONS"
    PROVE  Listens(cl, up) /\ Head(b).type \in {"DIRBUILD", "MATRIX", "GETTREES", "LINES"}
    <1> DEFINE dn == a \o b
               l == Len(a)
    <1>1. l + 1 \in DOMAIN dn /\ dn[l + 1] = Head(b)
        <2>1. /\ l \in Nat /\ DOMAIN dn = 1 .. l + Len(b)
              /\ \A i \in l + 1 .. l + Len(b) : dn[i] = b[i - l]
            BY JoinedElements
        <2>2. Len(b) \in Nat \ {0} /\ Head(b) = b[1]  BY TailsElements
        <2> HIDE DEF dn, l
        <2>3. l + 1 \in l + 1 .. l + Len(b) /\ (l + 1) - l = 1 /\ l + 1 \in 1 .. l + Len(b)
            BY <2>1, <2>2
        <2>4. QED  BY <2>1, <2>2, <2>3
    <1>2. SlotOK(TRUE, st, wk, cf, "up", cl, up, dn, gt, vw, gr)  OBVIOUS
    <1> HIDE DEF dn, l
    <1>3. /\ Listens(cl, up)
          /\ \/ AskedDirbuild(st, dn)
             \/ AskedTrees(st, cf, dn, vw)
             \/ AskedLines(st, wk, cf, dn, gt, vw, gr)
          /\ AskedDirbuild(st, dn) => dn[l + 1].type = "DIRBUILD"
          /\ AskedTrees(st, cf, dn, vw) => dn[l + 1].type \in {"MATRIX", "GETTREES"}
          /\ AskedLines(st, wk, cf, dn, gt, vw, gr) => dn[l + 1].type \in {"MATRIX", "LINES"}
        BY <1>1, <1>2, RequestOfKind
    <1>4. QED  BY <1>1, <1>3

(* ph_dirbuild; the model is answered for once.                            *)
LEMMA DirbuildDone ==
    ASSUME NEW st, NEW wk, NEW cf, NEW cl, NEW up, NEW a \in Seq(SrvMessages),
           NEW b \in Seq(SrvMessages), NEW gt, NEW vw, NEW gr,
           SlotOK(TRUE, st, wk, cf, "up", cl, up, a \o b, gt, vw, gr),
           b # <<>>, Head(b).type = "DIRBUILD", NEW up2,
           up2 = up \/ (Len(up2) = 1 /\ up2 # <<>> /\ up2[1].type = "DIRBUILD_REPLY")
    PROVE  SlotOK(TRUE, st, wk, cf, "up", cl, up2, a \o Tail(b), gt, vw, gr)
    <1> DEFINE dn == a \o b
               d == a \o Tail(b)
               l == Len(a)
    <1>1. l + 1 \in DOMAIN dn /\ dn[l + 1] = Head(b)
        <2>1. /\ l \in Nat /\ DOMAIN dn = 1 .. l + Len(b)
              /\ \A i \in l + 1 .. l + Len(b) : dn[i] = b[i - l]
            BY JoinedElements
        <2>2. Len(b) \in Nat \ {0} /\ Head(b) = b[1]  BY TailsElements
        <2> HIDE DEF dn, l
        <2>3. l + 1 \in l + 1 .. l + Len(b) /\ (l + 1) - l = 1 /\ l + 1 \in 1 .. l + Len(b)
            BY <2>1, <2>2
        <2>4. QED  BY <2>1, <2>2, <2>3
    <1>2. dn[l + 1].type = "DIRBUILD" /\ SlotOK(TRUE, st, wk, cf, "up", cl, up, dn, gt, vw, gr)
        BY <1>1
    <1> HIDE DEF dn, l
    <1>3. Listens(cl, up) /\ AskedDirbuild(st, dn)
        <2>1. l + 1 \in DOMAIN dn /\ dn[l + 1].type # "OPTIONS"  BY <1>1, <1>2
        <2>2. QED  BY <1>2, <2>1, RequestAsked
    <1>4. None(d)
        BY <1>3, TakeRequest DEF AskedDirbuild, dn
    <1>5. Steady(st, wk, cf) /\ cl \in Whoever /\ st \in {"DOING_DIRBUILD", "CLOSING"}
        BY <1>3 DEF SlotOK, AskedDirbuild
    <1>6. Knows(st, cf, gt, vw, gr) /\ (st # "CLOSING" => wk = NoWork)
        BY <1>5 DEF Steady, Knows
    <1> HIDE DEF d
    <1>7. CASE up2 = up
        <2>1. Quiet(st, wk, cf, d, gt, vw, gr)  BY <1>4, <1>5, <1>6 DEF Quiet
        <2>2. Live(st, wk, cf, cl, up2, d, gt, vw, gr)  BY <1>3, <1>7, <2>1 DEF Live, Listens
        <2>3. SlotOK(TRUE, st, wk, cf, "up", cl, up2, d, gt, vw, gr)
            BY <1>3, <1>5, <1>7, <2>2 DEF SlotOK, Listens
        <2>4. QED  BY <2>3 DEF d
    <1>8. CASE Len(up2) = 1 /\ up2 # <<>> /\ up2[1].type = "DIRBUILD_REPLY"
        <2>1. Answered(st, cf, up2, d, gt, vw, gr)  BY <1>4, <1>6, <1>8 DEF Answered
        <2>2. Live(st, wk, cf, cl, up2, d, gt, vw, gr)  BY <1>3, <2>1 DEF Live, Listens
        <2>3. Told(st, wk, up2[1])  BY <1>5, <1>8 DEF Told
        <2>4. SlotOK(TRUE, st, wk, cf, "up", cl, up2, d, gt, vw, gr)
            BY <1>5, <1>8, <2>2, <2>3 DEF SlotOK
        <2>5. QED  BY <2>4 DEF d
    <1>9. QED  BY <1>7, <1>8

(* ph_options                                                              *)
LEMMA OptionDone ==
    ASSUME NEW st, NEW wk, NEW cf, NEW cl, NEW up, NEW dn \in Seq(SrvMessages),
           NEW gt, NEW vw, NEW gr,
           SlotOK(TRUE, st, wk, cf, "up", cl, up, dn, gt, vw, gr),
           dn # <<>>, Head(dn).type = "OPTIONS"
    PROVE  SlotOK(TRUE, st, wk, cf, "up", cl, up, Tail(dn), gt, vw, gr)
    <1> DEFINE d == Tail(dn)
    <1>1. Live(st, wk, cf, cl, up, dn, gt, vw, gr)  BY DEF SlotOK
    <1>2. /\ None(dn) => None(d)
          /\ \A m : One(dn, m) /\ m.type # "OPTIONS" => One(d, m)
          /\ \A m, n : Two(dn, m, n) /\ m.type # "OPTIONS" => Two(d, m, n)
        BY TakeFirst
    <1> HIDE DEF d
    <1>3. \A w \in Spans : w.li_frame \in Frames  BY DEF Spans
    <1>4. Live(st, wk, cf, cl, up, d, gt, vw, gr)
        BY <1>1, <1>2, <1>3, LiveOptions, RequestTypes
    <1>5. SlotOK(TRUE, st, wk, cf, "up", cl, up, d, gt, vw, gr)  BY <1>4 DEF SlotOK
    <1>6. QED  BY <1>5 DEF d


(* The first of a list of messages is in the list.                         *)
LEMMA FirstInList ==
    ASSUME NEW dn \in Seq(SrvMessages), dn # <<>>
    PROVE  1 \in DOMAIN dn /\ dn[1] = Head(dn)
    <1>1. Len(dn) \in Nat \ {0} /\ DOMAIN dn = 1 .. Len(dn) /\ dn[1] = Head(dn)
        BY TailsElements
    <1>2. QED  BY <1>1

(* ph_matrix                                                               *)
LEMMA MatrixDone ==
    ASSUME NEW st, NEW wk, NEW cf, NEW cl, NEW up, NEW dn \in Seq(SrvMessages),
           NEW gt, NEW vw, NEW gr,
           SlotOK(TRUE, st, wk, cf, "up", cl, up, dn, gt, vw, gr),
           dn # <<>>, Head(dn).type = "MATRIX"
    PROVE  SlotOK(TRUE, st, wk, cf, "up", cl, up, Tail(dn), gt, Head(dn).frame, gr)
    <1> DEFINE h == Head(dn)
               d == Tail(dn)
    <1>1. 1 \in DOMAIN dn /\ dn[1].type = "MATRIX" /\ dn[1].type # "OPTIONS"
        BY FirstInList
    <1>2. /\ Listens(cl, up)
          /\ AskedTrees(st, cf, dn, vw) \/ AskedLines(st, wk, cf, dn, gt, vw, gr)
        BY <1>1, RequestAsked
    <1>3. /\ \A m : One(dn, m) => h = m \/ h.type = "OPTIONS"
          /\ \A m, n : Two(dn, m, n) => \/ h = m /\ One(d, n)
                                        \/ h.type = "OPTIONS"
        BY TakeFirst
    <1>4. Steady(st, wk, cf) /\ cl \in Whoever /\ st # "UNUSED"  BY DEF SlotOK
    <1> HIDE DEF h, d
    <1>5. CASE AskedTrees(st, cf, dn, vw)
        <2>1. PICK f \in Frames : /\ cf \in {f, NoFrame}
                                  /\ Two(dn, Matrix(f), GettreesMsg) \/ One(dn, GettreesMsg)
            BY <1>5 DEF AskedTrees
        <2>2. h.type = "MATRIX"  BY DEF h
        <2>3. h = Matrix(f) /\ One(d, GettreesMsg)
            BY <1>3, <2>1, <2>2, RequestTypes
        <2>4. h.frame = f  BY <2>3, RequestTypes
        <2>5. AskedTrees(st, cf, d, h.frame)
            BY <1>5, <2>1, <2>3, <2>4 DEF AskedTrees
        <2>6. Live(st, wk, cf, cl, up, d, gt, h.frame, gr)
            BY <1>2, <2>5 DEF Live, Listens
        <2>7. SlotOK(TRUE, st, wk, cf, "up", cl, up, d, gt, h.frame, gr)
            BY <1>2, <1>4, <2>6 DEF SlotOK, Listens
        <2>8. QED  BY <2>7 DEF d, h
    <1>6. CASE AskedLines(st, wk, cf, dn, gt, vw, gr)
        <2>1. PICK w \in Spans :
                /\ st = "CLOSING" \/ (st = "READY" /\ wk = w)
                /\ cf \in {w.li_frame, NoFrame}
                /\ \/ Two(dn, Matrix(w.li_frame), Lines(w)) /\ ~TreesAlways
                   \/ One(dn, Lines(w))
            BY <1>6 DEF AskedLines
        <2>2. h.type = "MATRIX" /\ w.li_frame \in Frames  BY DEF h, Spans
        <2>3. h = Matrix(w.li_frame) /\ One(d, Lines(w)) /\ ~TreesAlways
            BY <1>3, <2>1, <2>2, RequestTypes
        <2>4. h.frame = w.li_frame  BY <2>2, <2>3, RequestTypes
        <2>5. AskedLines(st, wk, cf, d, gt, h.frame, gr)
            BY <1>6, <2>1, <2>3, <2>4 DEF AskedLines
        <2>6. Live(st, wk, cf, cl, up, d, gt, h.frame, gr)
            BY <1>2, <2>5 DEF Live, Listens
        <2>7. SlotOK(TRUE, st, wk, cf, "up", cl, up, d, gt, h.frame, gr)
            BY <1>2, <1>4, <2>6 DEF SlotOK, Listens
        <2>8. QED  BY <2>7 DEF d, h
    <1>7. QED  BY <1>2, <1>5, <1>6

(* ph_gettrees                                                             *)
LEMMA TreesDone ==
    ASSUME NEW st, NEW wk, NEW cf, NEW cl, NEW up, NEW dn \in Seq(SrvMessages),
           NEW gt, NEW vw, NEW gr,
           SlotOK(TRUE, st, wk, cf, "up", cl, up, dn, gt, vw, gr),
           dn # <<>>, Head(dn).type = "GETTREES",
           NEW up2, Len(up2) = 1, up2 # <<>>, up2[1].type = "GETTREES_REPLY"
    PROVE  SlotOK(TRUE, st, wk, cf, "up", cl, up2, Tail(dn), TRUE, vw, vw) /\ up = <<>>
    <1> DEFINE h == Head(dn)
               d == Tail(dn)
    <1>1. 1 \in DOMAIN dn /\ dn[1].type = "GETTREES" /\ dn[1].type # "OPTIONS"
        BY FirstInList
    <1>2. Listens(cl, up) /\ AskedTrees(st, cf, dn, vw)
        BY <1>1, RequestAsked
    <1>3. /\ \A m : One(dn, m) => \/ h = m /\ None(d)
                                  \/ h.type = "OPTIONS"
          /\ \A m, n : Two(dn, m, n) => h = m \/ h.type = "OPTIONS"
        BY TakeFirst
    <1>4. Steady(st, wk, cf) /\ cl \in Whoever /\ st # "UNUSED"  BY DEF SlotOK
    <1> HIDE DEF h, d
    <1>5. PICK f \in Frames : /\ cf \in {f, NoFrame}
                              /\ \/ Two(dn, Matrix(f), GettreesMsg)
                                 \/ One(dn, GettreesMsg) /\ vw = f
        BY <1>2 DEF AskedTrees
    <1>6. h.type = "GETTREES"  BY DEF h
    <1>7. None(d) /\ vw = f  BY <1>3, <1>5, <1>6, RequestTypes
    <1>8. st \in {"DOING_GETTREES", "CLOSING"}  BY <1>2 DEF AskedTrees
    <1>9. Told(st, wk, up2[1])  BY <1>8 DEF Told
    <1>10. Knows(st, cf, TRUE, vw, vw)  BY <1>5, <1>7 DEF Knows
    <1>11. Answered(st, cf, up2, d, TRUE, vw, vw)  BY <1>7, <1>10 DEF Answered
    <1>12. Live(st, wk, cf, cl, up2, d, TRUE, vw, vw)  BY <1>2, <1>11 DEF Live, Listens
    <1>13. SlotOK(TRUE, st, wk, cf, "up", cl, up2, d, TRUE, vw, vw)
        BY <1>2, <1>4, <1>9, <1>12 DEF SlotOK, Listens
    <1>14. QED  BY <1>2, <1>13 DEF d, Listens

(* ph_lines: the worker has trees and a matrix, and answers.               *)
LEMMA LinesDone ==
    ASSUME NEW st, NEW wk, NEW cf, NEW cl, NEW up, NEW dn \in Seq(SrvMessages),
           NEW gt, NEW vw, NEW gr,
           SlotOK(TRUE, st, wk, cf, "up", cl, up, dn, gt, vw, gr),
           dn # <<>>, Head(dn).type = "LINES",
           NEW up2, Len(up2) = 1, up2 # <<>>,
           up2[1] = [type |-> "PIXELS", frame |-> Head(dn).frame, start |-> Head(dn).start,
                     stop |-> Head(dn).stop, view |-> vw, grid |-> gr]
    PROVE  /\ up = <<>> /\ gt = TRUE /\ vw # NoFrame
           /\ SlotOK(TRUE, st, wk, cf, "up", cl, up2, Tail(dn), gt, vw, gr)
    <1> DEFINE h == Head(dn)
               d == Tail(dn)
               m == up2[1]
    <1>1. 1 \in DOMAIN dn /\ dn[1].type = "LINES" /\ dn[1].type # "OPTIONS"
        BY FirstInList
    <1>2. Listens(cl, up) /\ AskedLines(st, wk, cf, dn, gt, vw, gr)
        BY <1>1, RequestAsked
    <1>3. /\ \A q : One(dn, q) => \/ h = q /\ None(d)
                                  \/ h.type = "OPTIONS"
          /\ \A q, n : Two(dn, q, n) => h = q \/ h.type = "OPTIONS"
        BY TakeFirst
    <1>4. /\ m.type = "PIXELS" /\ m.frame = h.frame /\ m.start = h.start /\ m.stop = h.stop
          /\ m.view = vw /\ m.grid = gr
        OBVIOUS
    <1>5. h.type = "LINES"  OBVIOUS
    <1>6. Steady(st, wk, cf) /\ cl \in Whoever  BY DEF SlotOK
    <1> HIDE DEF h, d, m
    <1>7. PICK w \in Spans :
            /\ st = "CLOSING" \/ (st = "READY" /\ wk = w)
            /\ cf \in {w.li_frame, NoFrame}
            /\ \/ Two(dn, Matrix(w.li_frame), Lines(w)) /\ ~TreesAlways
               \/ One(dn, Lines(w)) /\ vw = w.li_frame /\ (TreesAlways => gr = w.li_frame)
        BY <1>2 DEF AskedLines
    <1>8. w.li_frame \in Frames  BY DEF Spans
    <1>9. h = Lines(w) /\ None(d) /\ vw = w.li_frame /\ (TreesAlways => gr = w.li_frame)
        BY <1>3, <1>5, <1>7, <1>8, RequestTypes
    <1>10. vw # NoFrame /\ gt = TRUE
        BY <1>2, <1>8, <1>9, FrameIsNotNoFrame DEF AskedLines
    <1>11. h.frame = w.li_frame /\ h.start = w.li_start /\ h.stop = w.li_stop
        BY <1>9, RequestTypes
    <1>12. w = Span(m.frame, m.start, m.stop)
        BY <1>4, <1>11 DEF Spans, Span
    <1>13. Told(st, wk, m)
        BY <1>4, <1>7, <1>9, <1>11, <1>12 DEF Told
    <1>14. Knows(st, cf, gt, vw, gr)  BY <1>7, <1>9, <1>10 DEF Knows
    <1>15. Answered(st, cf, up2, d, gt, vw, gr)
        BY <1>4, <1>9, <1>14 DEF Answered, m
    <1>16. Live(st, wk, cf, cl, up2, d, gt, vw, gr)
        BY <1>2, <1>15 DEF Live, Listens
    <1>17. SlotOK(TRUE, st, wk, cf, "up", cl, up2, d, gt, vw, gr)
        BY <1>6, <1>7, <1>13, <1>16 DEF SlotOK, m
    <1>18. QED  BY <1>2, <1>10, <1>17 DEF d, Listens

(* FinalClose                                                              *)
LEMMA ClosedSlot ==
    ASSUME NEW wk, NEW cf, NEW lk, NEW cl, NEW up, NEW dn, NEW gt, NEW vw, NEW gr,
           SlotOK(TRUE, "CLOSING", wk, cf, lk, cl, up, dn, gt, vw, gr),
           NEW gt2, NEW vw2, NEW gr2
    PROVE  SlotOK(FALSE, "UNUSED", wk, cf, "none", "none", <<>>, <<>>, gt2, vw2, gr2)
    BY DEF SlotOK, Steady, Closed, Whoever


-----------------------------------------------------------------------------
(* Messages on their way, in two lists of which the second follows.        *)

LEMMA OnlyMessage ==
    ASSUME NEW S, NEW a \in Seq(S), NEW b \in Seq(S), a # <<>>, Len(a \o b) = 1
    PROVE  b = <<>> /\ (a \o b)[1] = Head(a) /\ Tail(a) \o b = <<>>
    <1> DEFINE k == Len(a)
               l == Len(b)
    <1>1. k \in Nat \ {0} /\ l \in Nat /\ k + l = 1
        BY EmptySeq, LenProperties, ConcatProperties
    <1> HIDE DEF k, l
    <1>2. k = 1 /\ l = 0  BY <1>1
    <1> USE DEF k, l
    <1>3. b = <<>>  BY <1>2, EmptySeq
    <1>4. Tail(a) \in Seq(S) /\ Len(Tail(a)) = 0  BY <1>2, HeadTailProperties
    <1>5. Tail(a) = <<>>  BY <1>4, EmptySeq
    <1>6. a \o b = a /\ Tail(a) \o b = <<>>  BY <1>3, <1>5, ConcatEmptySeq
    <1>7. a[1] = Head(a)  OBVIOUS
    <1>8. QED  BY <1>3, <1>6, <1>7

(* The one message a worker sends when nothing is under way from it.       *)
LEMMA FirstAnswer ==
    ASSUME NEW a \in Seq(CtlMessages), NEW b \in Seq(CtlMessages), NEW m \in CtlMessages,
           a \o b = <<>>
    PROVE  /\ a \o Append(b, m) # <<>> /\ Len(a \o Append(b, m)) = 1
           /\ (a \o Append(b, m))[1] = m /\ a \o Append(b, m) = <<m>>
    <1> DEFINE S == CtlMessages
    <1>0. a \in Seq(S) /\ b \in Seq(S) /\ m \in S  OBVIOUS
    <1> HIDE DEF S
    <1>1. a = <<>> /\ b = <<>>  BY <1>0, ConcatEqualIffEmpty
    <1>2. Append(b, m) = <<m>> /\ <<m>> \in Seq(S)  BY <1>0, <1>1
    <1>3. a \o Append(b, m) = <<m>>  BY <1>1, <1>2, ConcatEmptySeq
    <1>4. <<m>> # <<>> /\ Len(<<m>>) = 1 /\ <<m>>[1] = m  OBVIOUS
    <1>5. QED  BY <1>3, <1>4

LEMMA MovedOver ==
    ASSUME NEW S, NEW a \in Seq(S), NEW b \in Seq(S)
    PROVE  (a \o b) \o <<>> = a \o b
    <1>1. a \o b \in Seq(S)  BY ConcatProperties
    <1>2. QED  BY <1>1, ConcatEmptySeq

LEMMA TakenOver ==
    ASSUME NEW S, NEW a \in Seq(S), NEW b \in Seq(S), b # <<>>
    PROVE  Append(a, Head(b)) \o Tail(b) = a \o b
    <1>1. Head(b) \in S /\ Tail(b) \in Seq(S) /\ <<Head(b)>> \in Seq(S)
        BY HeadTailProperties
    <1>2. Append(a, Head(b)) = a \o <<Head(b)>>  BY <1>1, AppendIsConcat
    <1>3. b = <<Head(b)>> \o Tail(b)
        <2>1. <<Head(b)>> \o Tail(b) \in Seq(S) /\ Len(<<Head(b)>> \o Tail(b)) = 1 + Len(Tail(b))
            BY <1>1, ConcatProperties
        <2>2. Len(Tail(b)) = Len(b) - 1 /\ Len(b) \in Nat \ {0}
            BY HeadTailProperties, EmptySeq
        <2>3. \A i \in 1 .. Len(b) : b[i] = (<<Head(b)>> \o Tail(b))[i]
            <3>1. SUFFICES ASSUME NEW i \in 1 .. Len(b)
                           PROVE  b[i] = (<<Head(b)>> \o Tail(b))[i]
                OBVIOUS
            <3>2. Len(<<Head(b)>>) = 1 /\ <<Head(b)>>[1] = b[1]  OBVIOUS
            <3>3. (<<Head(b)>> \o Tail(b))[i] = IF i <= 1 THEN <<Head(b)>>[i] ELSE Tail(b)[i - 1]
                BY <1>1, <2>2, <3>2, ConcatProperties
            <3>4. CASE i = 1  BY <3>2, <3>3, <3>4
            <3>5. CASE i # 1
                <4>1. i - 1 \in 1 .. Len(Tail(b)) /\ (i - 1) + 1 = i /\ ~(i <= 1)
                    BY <2>2, <3>5
                <4>2. Tail(b)[i - 1] = b[(i - 1) + 1]  BY <4>1, HeadTailProperties
                <4>3. QED  BY <3>3, <4>1, <4>2
            <3>6. QED  BY <3>4, <3>5
        <2>4. QED  BY <2>1, <2>2, <2>3, SeqEqual
    <1>4. QED  BY <1>1, <1>2, <1>3, ConcatAssociative

LEMMA TakenFirst ==
    ASSUME NEW S, NEW a \in Seq(S), NEW b \in Seq(S), a # <<>>
    PROVE  a \o b # <<>> /\ Head(a \o b) = Head(a) /\ Tail(a) \o b = Tail(a \o b)
    <1>1. /\ a \o b \in Seq(S) /\ Len(a \o b) = Len(a) + Len(b)
          /\ \A i \in 1 .. Len(a) + Len(b) :
                (a \o b)[i] = IF i <= Len(a) THEN a[i] ELSE b[i - Len(a)]
        BY ConcatProperties
    <1>2. Len(a) \in Nat \ {0} /\ Len(b) \in Nat  BY EmptySeq, LenProperties
    <1>3. a \o b # <<>>  BY <1>1, <1>2, EmptySeq
    <1>4. Head(a \o b) = Head(a)
        <2>1. 1 \in 1 .. Len(a) + Len(b) /\ 1 <= Len(a)  BY <1>2
        <2>2. (a \o b)[1] = a[1]  BY <1>1, <2>1
        <2>3. QED  BY <2>2
    <1>5. Tail(a) \in Seq(S) /\ Len(Tail(a)) = Len(a) - 1
          /\ \A i \in 1 .. Len(a) - 1 : Tail(a)[i] = a[i + 1]
        BY HeadTailProperties
    <1>6. Tail(a \o b) \in Seq(S) /\ Len(Tail(a \o b)) = (Len(a) + Len(b)) - 1
          /\ \A i \in 1 .. (Len(a) + Len(b)) - 1 : Tail(a \o b)[i] = (a \o b)[i + 1]
        BY <1>1, <1>3, HeadTailProperties
    <1>7. /\ Tail(a) \o b \in Seq(S) /\ Len(Tail(a) \o b) = (Len(a) - 1) + Len(b)
          /\ \A i \in 1 .. (Len(a) - 1) + Len(b) :
                (Tail(a) \o b)[i] = IF i <= Len(a) - 1 THEN Tail(a)[i] ELSE b[i - (Len(a) - 1)]
        BY <1>5, ConcatProperties
    <1> DEFINE k == Len(a)
               l == Len(b)
               t == Tail(a) \o b
               u == Tail(a \o b)
               ab == a \o b
               ta == Tail(a)
    <1> HIDE DEF k, l, t, u, ab, ta
    <1>8. ASSUME NEW i \in 1 .. (k - 1) + l PROVE t[i] = u[i]
        <2>1. k \in Nat \ {0} /\ l \in Nat  BY <1>2 DEF k, l
        <2>2. /\ i \in 1 .. (k + l) - 1 /\ i + 1 \in 1 .. k + l
              /\ (i + 1) - k = i - (k - 1)
            BY <2>1
        <2>3. u[i] = ab[i + 1]  BY <1>6, <2>2 DEF k, l, u, ab
        <2>4. ab[i + 1] = IF i + 1 <= k THEN a[i + 1] ELSE b[(i + 1) - k]
            BY <1>1, <2>2 DEF k, l, ab
        <2>5. t[i] = IF i <= k - 1 THEN ta[i] ELSE b[i - (k - 1)]
            BY <1>7 DEF k, l, t, ta
        <2>6. CASE i <= k - 1
            <3>1. i \in 1 .. k - 1 /\ i + 1 <= k  BY <2>1, <2>6
            <3>2. ta[i] = a[i + 1]  BY <1>5, <3>1 DEF k, ta
            <3>3. QED  BY <2>3, <2>4, <2>5, <2>6, <3>1, <3>2
        <2>7. CASE ~(i <= k - 1)
            <3>1. ~(i + 1 <= k)  BY <2>1, <2>7
            <3>2. QED  BY <2>2, <2>3, <2>4, <2>5, <2>7, <3>1
        <2>8. QED  BY <2>6, <2>7
    <1>9. (Len(a) + Len(b)) - 1 = (Len(a) - 1) + Len(b)  BY <1>2
    <1>10. Tail(a) \o b = Tail(a \o b)
        BY <1>6, <1>7, <1>8, <1>9, SeqEqual DEF k, l, t, u
    <1>11. QED  BY <1>3, <1>4, <1>10


-----------------------------------------------------------------------------
(* The invariant.                                                          *)

Conv(s) == SlotOK(sr_pc[s], sr_state[s], sr_work[s], sr_curframe[s], link[s], caller[s],
                  inbuf[s] \o toCtl[s], WorkHead[s] \o toSrv[s],
                  seen_gettrees[s], view[s], grid[s])

(* What the dispatcher's loop keeps of its connections is of open ones,    *)
(* and it only executes commands that somebody sends.                      *)
Loop ==
    /\ clients \subseteq Open
    /\ ifdset \ {0} \subseteq Open
    /\ pc \notin {"accept", "suck"} => ifdset = {}
    /\ pc \in {"cmd", "cmd end"} => cmd.from \in Open /\ cmd.name \in Commands
    /\ calls \in Seq({"rtsrv", "stale"} \cup Commands)

TalkInv == IInv /\ Loop /\ \A s \in Slots : Conv(s)

SameNet(s) == /\ caller'[s] = caller[s] /\ link'[s] = link[s] /\ inbuf'[s] = inbuf[s]
              /\ toCtl'[s] = toCtl[s] /\ toSrv'[s] = toSrv[s]

SameRtsrv(s) == /\ WorkHead'[s] = WorkHead[s] /\ seen_gettrees'[s] = seen_gettrees[s]
                /\ view'[s] = view[s] /\ grid'[s] = grid[s]

SameSrv(s) == /\ sr_pc'[s] = sr_pc[s] /\ sr_state'[s] = sr_state[s]
              /\ sr_work'[s] = sr_work[s] /\ sr_curframe'[s] = sr_curframe[s]

(* A step that leaves a connection and both its ends alone.                *)
LEMMA SameConv ==
    ASSUME NEW s \in Slots, Conv(s), SameNet(s), SameRtsrv(s), SameSrv(s)
    PROVE  Conv(s)'
    BY DEF Conv, SameNet, SameRtsrv, SameSrv

LEMMA SlotTypes ==
    ASSUME IInv, NEW s \in Slots
    PROVE  /\ inbuf[s] \in Seq(CtlMessages) /\ toCtl[s] \in Seq(CtlMessages)
           /\ WorkHead[s] \in Seq(SrvMessages) /\ toSrv[s] \in Seq(SrvMessages)
           /\ inbuf[s] \o toCtl[s] \in Seq(CtlMessages)
           /\ WorkHead[s] \o toSrv[s] \in Seq(SrvMessages)
           /\ sr_pc[s] \in BOOLEAN /\ sr_work[s] \in Works
           /\ sr_curframe[s] \in Frames \cup {NoFrame}
    <1>1. /\ inbuf[s] \in Seq(CtlMessages) /\ toCtl[s] \in Seq(CtlMessages)
          /\ WorkHead[s] \in Seq(WorkMessages) /\ toSrv[s] \in Seq(SrvMessages)
          /\ sr_pc[s] \in BOOLEAN /\ sr_work[s] \in Works
          /\ sr_curframe[s] \in Frames \cup {NoFrame}
        BY DEF IInv, NetTypeOK, RtsrvTypeOK, WorkOK, JobOK
    <1>2. WorkHead[s] \in Seq(SrvMessages)
        BY <1>1, SeqMonotonic DEF SrvMessages
    <1>3. QED  BY <1>1, <1>2, ConcatProperties

(* An open connection has the conversation of its slot, and a connection.  *)
LEMMA OpenConv ==
    ASSUME IInv, NEW s \in Slots, Conv(s), sr_pc[s]
    PROVE  SlotOK(TRUE, sr_state[s], sr_work[s], sr_curframe[s], link[s], caller[s],
                  inbuf[s] \o toCtl[s], WorkHead[s] \o toSrv[s],
                  seen_gettrees[s], view[s], grid[s])
    <1>1. sr_pc[s] = TRUE  BY SlotTypes
    <1>2. QED  BY <1>1 DEF Conv

(* What an EXCEPT leaves alone.                                            *)
LEMMA ColumnTypes ==
    ASSUME IInv
    PROVE  /\ DOMAIN sr_pc = Slots /\ DOMAIN sr_state = Slots /\ DOMAIN sr_work = Slots
           /\ DOMAIN sr_curframe = Slots /\ DOMAIN link = Slots /\ DOMAIN caller = Slots
           /\ DOMAIN inbuf = Slots /\ DOMAIN toCtl = Slots /\ DOMAIN toSrv = Slots
           /\ DOMAIN WorkHead = Slots /\ DOMAIN seen_gettrees = Slots
           /\ DOMAIN view = Slots /\ DOMAIN grid = Slots
    BY DEF IInv, NetTypeOK, RtsrvTypeOK, WorkOK, JobOK


-----------------------------------------------------------------------------
(* The steps.  First, pkg_process hands over a message.                    *)

LEMMA HandledSlot ==
    ASSUME IInv, NEW s \in Slots, Conv(s), NEW type, Handle(s, type), UNCHANGED rtsrvVars
    PROVE  /\ sr_pc[s] = TRUE
           /\ inbuf[s] \o toCtl[s] # <<>>
           /\ (inbuf[s] \o toCtl[s])[1] = Head(inbuf[s]) /\ Head(inbuf[s]).type = type
           /\ inbuf'[s] \o toCtl'[s] = <<>>
           /\ \A t \in Slots \ {s} : SameNet(t) /\ SameRtsrv(t)
           /\ UNCHANGED <<caller, link, toSrv, rtsrvVars>>
    <1>1. sr_pc[s] /\ inbuf[s] # <<>>
        BY DEF Handle, Comes, Waiting, Open
    <1>2. sr_pc[s] = TRUE  BY <1>1, SlotTypes
    <1>3. inbuf[s] \o toCtl[s] # <<>>
        BY <1>1, SlotTypes, ConcatEqualIffEmpty
    <1>4. Len(inbuf[s] \o toCtl[s]) = 1
        BY <1>3 DEF Conv, SlotOK
    <1>5. /\ (inbuf[s] \o toCtl[s])[1] = Head(inbuf[s])
          /\ Tail(inbuf[s]) \o toCtl[s] = <<>>
        <2>1. inbuf[s] \in Seq(CtlMessages) /\ toCtl[s] \in Seq(CtlMessages)
            BY SlotTypes
        <2>2. QED  BY ONLY <1>1, <1>4, <2>1, OnlyMessage
    <1>6. inbuf' = [inbuf EXCEPT ![s] = Tail(@)] /\ UNCHANGED <<caller, link, toSrv, toCtl>>
        BY DEF Handle
    <1>7. inbuf'[s] \o toCtl'[s] = <<>>
        BY <1>5, <1>6, ColumnTypes
    <1>8. \A t \in Slots \ {s} : SameNet(t) /\ SameRtsrv(t)
        BY <1>6, ColumnTypes DEF SameNet, SameRtsrv, rtsrvVars
    <1>9. QED  BY <1>1, <1>2, <1>3, <1>5, <1>6, <1>7, <1>8 DEF Handle

(* What becomes of the slot heard from is a conversation again.            *)
LEMMA HandleKeepsConv ==
    ASSUME IInv, NEW s \in Slots, \A t \in Slots : Conv(t), NEW type, Handle(s, type),
           UNCHANGED rtsrvVars, \A t \in Slots \ {s} : SameSrv(t), UNCHANGED sr_pc,
           SlotOK(TRUE, sr_state'[s], sr_work'[s], sr_curframe'[s], link[s], caller[s],
                  <<>>, WorkHead[s] \o toSrv[s], seen_gettrees[s], view[s], grid[s])
    PROVE  \A t \in Slots : Conv(t)'
    <1>1. /\ sr_pc[s] = TRUE /\ inbuf'[s] \o toCtl'[s] = <<>>
          /\ \A t \in Slots \ {s} : SameNet(t) /\ SameRtsrv(t)
          /\ UNCHANGED <<caller, link, toSrv, rtsrvVars>>
        BY HandledSlot
    <1>2. ASSUME NEW t \in Slots \ {s} PROVE Conv(t)'
        BY <1>1, <1>2, SameConv
    <1>3. Conv(s)'
        BY <1>1 DEF Conv, rtsrvVars
    <1>4. QED  BY <1>2, <1>3

(* drop_server, as the handlers call it.                                   *)
LEMMA DropColumns ==
    ASSUME IInv, NEW s \in Slots, NEW state, NEW todo, NEW work,
           work \in {sr_work, [sr_work EXCEPT ![s] = NoWork]}, DropTo(s, state, todo, work)
    PROVE  /\ sr_state'[s] = state /\ sr_curframe'[s] = NoFrame
           /\ sr_work'[s] \in {sr_work[s], NoWork}
           /\ \A t \in Slots \ {s} : /\ sr_state'[t] = sr_state[t]
                                     /\ sr_curframe'[t] = sr_curframe[t]
                                     /\ sr_work'[t] = sr_work[t]
    <1>1. /\ sr_state'[s] = state /\ sr_curframe'[s] = NoFrame
          /\ \A t \in Slots \ {s} : /\ sr_state'[t] = sr_state[t]
                                    /\ sr_curframe'[t] = sr_curframe[t]
        BY ColumnTypes DEF DropTo
    <1>2. work[s] \in {sr_work[s], NoWork} /\ DOMAIN work = Slots
          /\ \A t \in Slots \ {s} : work[t] = sr_work[t]
        BY ColumnTypes
    <1>3. sr_work' \in {work, [work EXCEPT ![s] = NoWork]}
        BY DEF DropTo
    <1>4. sr_work'[s] \in {sr_work[s], NoWork} /\ \A t \in Slots \ {s} : sr_work'[t] = sr_work[t]
        BY <1>2, <1>3
    <1>5. QED  BY <1>1, <1>4


(* A handler that drops the server.                                        *)
LEMMA HandlerDrops ==
    ASSUME IInv, NEW s \in Slots, \A t \in Slots : Conv(t), NEW type, Handle(s, type),
           UNCHANGED rtsrvVars, UNCHANGED sr_pc, NEW todo, NEW work,
           work \in {sr_work, [sr_work EXCEPT ![s] = NoWork]}, Drop(s, todo, work)
    PROVE  \A t \in Slots : Conv(t)'
    <1>1. /\ sr_state'[s] = "CLOSING" /\ sr_curframe'[s] = NoFrame
          /\ \A t \in Slots \ {s} : SameSrv(t)
        BY DropColumns DEF Drop, SameSrv
    <1> DEFINE dn == WorkHead[s] \o toSrv[s]
               up == inbuf[s] \o toCtl[s]
    <1>2. sr_pc[s] = TRUE /\ up # <<>>
        BY HandledSlot
    <1>3. SlotOK(TRUE, sr_state[s], sr_work[s], sr_curframe[s], link[s], caller[s],
                 up, dn, seen_gettrees[s], view[s], grid[s])
        BY <1>2 DEF Conv
    <1> HIDE DEF up, dn
    <1>4. SlotOK(TRUE, "CLOSING", sr_work'[s], NoFrame, link[s], caller[s],
                 <<>>, dn, seen_gettrees[s], view[s], grid[s])
        BY ONLY <1>2, <1>3, HeardDropped
    <1>5. SlotOK(TRUE, sr_state'[s], sr_work'[s], sr_curframe'[s], link[s], caller[s],
                 <<>>, dn, seen_gettrees[s], view[s], grid[s])
        BY <1>1, <1>4
    <1>6. QED  BY <1>1, <1>5, HandleKeepsConv DEF dn

LEMMA RepliesKeepConv ==
    ASSUME IInv, NEW s \in Slots, \A t \in Slots : Conv(t), UNCHANGED rtsrvVars,
           ph_version(s) \/ ph_dirbuild_reply(s) \/ ph_gettrees_reply(s)
    PROVE  \A t \in Slots : Conv(t)'
    <1> DEFINE dn == WorkHead[s] \o toSrv[s]
               up == inbuf[s] \o toCtl[s]
    <1>1. CASE Dropped(s)
        <2>1. PICK type : Handle(s, type) /\ UNCHANGED sr_pc
            BY DEF ph_version, ph_dirbuild_reply, ph_gettrees_reply
        <2>2. Drop(s, fr_todo, sr_work)  BY <1>1 DEF Dropped
        <2>3. QED  BY <2>1, <2>2, HandlerDrops
    <1>2. ASSUME NEW type, NEW state, Handle(s, type), UNCHANGED sr_pc,
                 statechange(s, state), UNCHANGED <<sr_work, sr_curframe>>,
                 SlotOK(TRUE, state, sr_work[s], sr_curframe[s], link[s], caller[s],
                        <<>>, dn, seen_gettrees[s], view[s], grid[s])
          PROVE  \A t \in Slots : Conv(t)'
        <2>1. /\ sr_state'[s] = state /\ sr_work'[s] = sr_work[s]
              /\ sr_curframe'[s] = sr_curframe[s]
              /\ \A t \in Slots \ {s} : SameSrv(t)
            BY <1>2, ColumnTypes DEF statechange, SameSrv
        <2>2. SlotOK(TRUE, sr_state'[s], sr_work'[s], sr_curframe'[s], link[s], caller[s],
                     <<>>, dn, seen_gettrees[s], view[s], grid[s])
            BY <1>2, <2>1
        <2>3. QED  BY <1>2, <2>1, <2>2, HandleKeepsConv
    <1>3. ASSUME NEW type, Handle(s, type)
          PROVE  /\ up # <<>> /\ up[1].type = type
                 /\ SlotOK(TRUE, sr_state[s], sr_work[s], sr_curframe[s], link[s], caller[s],
                           up, dn, seen_gettrees[s], view[s], grid[s])
        <2>1. sr_pc[s] = TRUE /\ up # <<>> /\ up[1].type = type
            BY <1>3, HandledSlot
        <2>2. QED  BY <2>1 DEF Conv
    <1> HIDE DEF up, dn
    <1>4. CASE ph_version(s) /\ ~Dropped(s)
        <2>1. /\ Handle(s, "VERSION") /\ UNCHANGED sr_pc /\ statechange(s, "VERSOK")
              /\ UNCHANGED <<sr_work, sr_curframe>>
            BY <1>4 DEF ph_version
        <2>2. SlotOK(TRUE, "VERSOK", sr_work[s], sr_curframe[s], link[s], caller[s],
                     <<>>, dn, seen_gettrees[s], view[s], grid[s])
            <3>1. /\ up # <<>> /\ up[1].type = "VERSION"
                  /\ SlotOK(TRUE, sr_state[s], sr_work[s], sr_curframe[s], link[s], caller[s],
                            up, dn, seen_gettrees[s], view[s], grid[s])
                BY <1>3, <2>1
            <3>2. QED  BY ONLY <3>1, HeardVersion
        <2>3. QED  BY <1>2, <2>1, <2>2
    <1>5. CASE ph_dirbuild_reply(s) /\ ~Dropped(s)
        <2>1. /\ Handle(s, "DIRBUILD_REPLY") /\ UNCHANGED sr_pc /\ statechange(s, "NEED_TREE")
              /\ UNCHANGED <<sr_work, sr_curframe>> /\ sr_state[s] = "DOING_DIRBUILD"
            BY <1>5 DEF ph_dirbuild_reply
        <2>2. SlotOK(TRUE, "NEED_TREE", sr_work[s], sr_curframe[s], link[s], caller[s],
                     <<>>, dn, seen_gettrees[s], view[s], grid[s])
            BY <1>3, <2>1, HeardDirbuildReply
        <2>3. QED  BY <1>2, <2>1, <2>2
    <1>6. CASE ph_gettrees_reply(s) /\ ~Dropped(s)
        <2>1. /\ Handle(s, "GETTREES_REPLY") /\ UNCHANGED sr_pc /\ statechange(s, "READY")
              /\ UNCHANGED <<sr_work, sr_curframe>> /\ sr_state[s] = "DOING_GETTREES"
            BY <1>6 DEF ph_gettrees_reply
        <2>2. SlotOK(TRUE, "READY", sr_work[s], sr_curframe[s], link[s], caller[s],
                     <<>>, dn, seen_gettrees[s], view[s], grid[s])
            BY <1>3, <2>1, HeardGettreesReply
        <2>3. QED  BY <1>2, <2>1, <2>2
    <1>7. QED  BY <1>1, <1>4, <1>5, <1>6

LEMMA PixelsKeepConv ==
    ASSUME IInv, NEW s \in Slots, \A t \in Slots : Conv(t), UNCHANGED rtsrvVars,
           ph_pixels(s)
    PROVE  \A t \in Slots : Conv(t)'
    <1> DEFINE dn == WorkHead[s] \o toSrv[s]
               up == inbuf[s] \o toCtl[s]
               work == [sr_work EXCEPT ![s] = NoWork]
    <1>1. Handle(s, "PIXELS") /\ UNCHANGED sr_pc
        BY DEF ph_pixels, IgnorePixels, FilePixels, FileCannotBeOpened, FileWriteFails, srvVars
    <1>2. CASE \E w \in {sr_work, work} : Drop(s, fr_todo, w)
        BY <1>1, <1>2, HandlerDrops
    <1>3. sr_pc[s] = TRUE /\ up # <<>> /\ up[1].type = "PIXELS"
        BY <1>1, HandledSlot
    <1>4. SlotOK(TRUE, sr_state[s], sr_work[s], sr_curframe[s], link[s], caller[s],
                 up, dn, seen_gettrees[s], view[s], grid[s])
        BY <1>3 DEF Conv
    <1>5. /\ sr_state[s] \in {"CLOSING", "READY"}
          /\ sr_state[s] = "CLOSING" =>
                SlotOK(TRUE, sr_state[s], sr_work[s], sr_curframe[s], link[s], caller[s],
                       <<>>, dn, seen_gettrees[s], view[s], grid[s])
          /\ sr_state[s] = "READY" =>
                SlotOK(TRUE, sr_state[s], NoWork, sr_curframe[s], link[s], caller[s],
                       <<>>, dn, seen_gettrees[s], view[s], grid[s])
        BY <1>3, <1>4, HeardPixels
    <1>6. CASE IgnorePixels(s)
        <2>1. sr_state[s] # "READY"  BY <1>6 DEF IgnorePixels, TakesPixels
        <2>2. UNCHANGED <<sr_pc, sr_state, sr_work, sr_curframe>>
            BY <1>6 DEF IgnorePixels, srvVars
        <2>3. \A t \in Slots \ {s} : SameSrv(t)  BY <2>2 DEF SameSrv
        <2>4. SlotOK(TRUE, sr_state'[s], sr_work'[s], sr_curframe'[s], link[s], caller[s],
                     <<>>, dn, seen_gettrees[s], view[s], grid[s])
            BY <1>5, <2>1, <2>2
        <2>5. QED  BY <1>1, <2>3, <2>4, HandleKeepsConv
    <1>7. CASE TakesPixels(s) /\ sr_work' = work /\ UNCHANGED <<sr_state, sr_curframe>>
        <2>1. sr_state[s] # "CLOSING"  BY <1>7 DEF TakesPixels
        <2>2. sr_work'[s] = NoWork /\ \A t \in Slots \ {s} : SameSrv(t)
            BY <1>1, <1>7, ColumnTypes DEF SameSrv
        <2>3. SlotOK(TRUE, sr_state'[s], sr_work'[s], sr_curframe'[s], link[s], caller[s],
                     <<>>, dn, seen_gettrees[s], view[s], grid[s])
            BY <1>5, <1>7, <2>1, <2>2
        <2>4. QED  BY <1>1, <2>2, <2>3, HandleKeepsConv
    <1>8. QED
        BY <1>2, <1>6, <1>7
        DEF ph_pixels, FilePixels, FileCannotBeOpened, FileWriteFails, Dropped


LEMMA CmdKeepsConv ==
    ASSUME IInv, NEW s \in Slots, \A t \in Slots : Conv(t), UNCHANGED rtsrvVars, ph_cmd(s)
    PROVE  (\A t \in Slots : Conv(t)') /\ Head(inbuf[s]).cmd \in Commands
    <1> DEFINE dn == WorkHead[s] \o toSrv[s]
               up == inbuf[s] \o toCtl[s]
    <1>1. Handle(s, "CMD") /\ UNCHANGED <<sr_pc, sr_state, sr_work, sr_curframe>>
        BY DEF ph_cmd, srvVars
    <1>2. sr_pc[s] = TRUE /\ up # <<>> /\ up[1].type = "CMD" /\ up[1] = Head(inbuf[s])
        BY <1>1, HandledSlot
    <1>3. SlotOK(TRUE, sr_state[s], sr_work[s], sr_curframe[s], link[s], caller[s],
                 up, dn, seen_gettrees[s], view[s], grid[s])
        BY <1>2 DEF Conv
    <1>4. \A t \in Slots \ {s} : SameSrv(t)  BY <1>1 DEF SameSrv
    <1> HIDE DEF up, dn
    <1>5. /\ SlotOK(TRUE, sr_state[s], sr_work[s], sr_curframe[s], link[s], caller[s],
                    <<>>, dn, seen_gettrees[s], view[s], grid[s])
          /\ up[1].cmd \in Commands
        BY ONLY <1>2, <1>3, HeardCommand
    <1>6. SlotOK(TRUE, sr_state'[s], sr_work'[s], sr_curframe'[s], link[s], caller[s],
                 <<>>, dn, seen_gettrees[s], view[s], grid[s])
        BY <1>1, <1>5
    <1>7. \A t \in Slots : Conv(t)'
        BY <1>1, <1>4, <1>6, HandleKeepsConv DEF dn
    <1>8. QED  BY <1>2, <1>5, <1>7

(* A server is dropped without a word.                                     *)
LEMMA DropKeepsConv ==
    ASSUME IInv, NEW s \in Slots, \A t \in Slots : Conv(t), UNCHANGED rtsrvVars,
           UNCHANGED <<caller, link, inbuf, toCtl, toSrv>>,
           sr_pc[s], UNCHANGED sr_pc, Dropped(s)
    PROVE  \A t \in Slots : Conv(t)'
    <1> DEFINE dn == WorkHead[s] \o toSrv[s]
               up == inbuf[s] \o toCtl[s]
    <1>1. /\ sr_state'[s] = "CLOSING" /\ sr_curframe'[s] = NoFrame
          /\ sr_work'[s] \in {sr_work[s], NoWork}
          /\ \A t \in Slots \ {s} : SameSrv(t)
        BY DropColumns DEF Dropped, Drop, SameSrv
    <1>2. sr_pc[s] = TRUE  BY SlotTypes
    <1>3. SlotOK(TRUE, sr_state[s], sr_work[s], sr_curframe[s], link[s], caller[s],
                 up, dn, seen_gettrees[s], view[s], grid[s])
        BY <1>2 DEF Conv
    <1> HIDE DEF up, dn
    <1>4. SlotOK(TRUE, "CLOSING", sr_work'[s], NoFrame, link[s], caller[s],
                 up, dn, seen_gettrees[s], view[s], grid[s])
        BY ONLY <1>1, <1>3, DroppedSlot
    <1>5. SlotOK(TRUE, sr_state'[s], sr_work'[s], sr_curframe'[s], link[s], caller[s],
                 up, dn, seen_gettrees[s], view[s], grid[s])
        BY <1>1, <1>4
    <1>6. Conv(s)'
        BY <1>2, <1>5 DEF Conv, up, dn, rtsrvVars
    <1>7. ASSUME NEW t \in Slots \ {s} PROVE Conv(t)'
        <2>1. SameNet(t) /\ SameRtsrv(t)  BY DEF SameNet, SameRtsrv, rtsrvVars
        <2>2. SameSrv(t) /\ Conv(t)  BY <1>1
        <2>3. QED  BY <2>1, <2>2, SameConv
    <1>8. QED  BY <1>6, <1>7

-----------------------------------------------------------------------------
(* pkg_send: what the kernel holds moves to the buffer, and the messages   *)
(* arrive if the connection is up.                                         *)

LEMMA SendColumns ==
    ASSUME IInv, NEW s \in Slots, NEW k, NEW n, NEW msgs \in Seq(SrvMessages),
           Send(s, k, n, msgs), link[s] # "none"
    PROVE  /\ inbuf'[s] \o toCtl'[s] = inbuf[s] \o toCtl[s]
           /\ UNCHANGED caller
           /\ link[s] = "up" => /\ link'[s] = "up"
                                /\ WorkHead[s] \o toSrv'[s] = (WorkHead[s] \o toSrv[s]) \o msgs
           /\ link[s] # "up" => link'[s] \notin {"up", "none"} /\ toSrv'[s] = toSrv[s]
           /\ \A t \in Slots \ {s} : SameNet(t)
    <1>1. /\ inbuf[s] \in Seq(CtlMessages) /\ toCtl[s] \in Seq(CtlMessages)
          /\ WorkHead[s] \in Seq(SrvMessages) /\ toSrv[s] \in Seq(SrvMessages)
        BY SlotTypes
    <1>2. /\ inbuf' = [inbuf EXCEPT ![s] = inbuf[s] \o toCtl[s]]
          /\ toCtl' = [toCtl EXCEPT ![s] = <<>>]
          /\ toSrv' = [toSrv EXCEPT ![s] = IF link[s] = "up" THEN toSrv[s] \o msgs ELSE toSrv[s]]
          /\ UNCHANGED caller
        BY DEF Send
    <1>3. inbuf'[s] = inbuf[s] \o toCtl[s] /\ toCtl'[s] = <<>>
        BY <1>2, ColumnTypes
    <1>4. inbuf'[s] \o toCtl'[s] = inbuf[s] \o toCtl[s]
        BY <1>1, <1>3, MovedOver
    <1>5. CASE link[s] = "up"
        <2>1. UNCHANGED link  BY <1>5 DEF Send
        <2>2. toSrv'[s] = toSrv[s] \o msgs  BY <1>2, <1>5, ColumnTypes
        <2>3. WorkHead[s] \o toSrv'[s] = (WorkHead[s] \o toSrv[s]) \o msgs
            <3> DEFINE a == WorkHead[s]
                       b == toSrv[s]
            <3>1. a \in Seq(SrvMessages) /\ b \in Seq(SrvMessages)  BY <1>1
            <3> HIDE DEF a, b
            <3>2. (a \o b) \o msgs = a \o (b \o msgs)
                BY <3>1, ConcatAssociative
            <3>3. QED  BY <2>2, <3>2 DEF a, b
        <2>4. \A t \in Slots \ {s} : SameNet(t)
            BY <1>2, <2>1, ColumnTypes DEF SameNet
        <2>5. QED  BY <1>2, <1>4, <1>5, <2>1, <2>3, <2>4
    <1>6. CASE link[s] # "up"
        <2>1. \/ UNCHANGED link
              \/ \E l \in {"fin", "rst"} : link' = [link EXCEPT ![s] = l]
            BY DEF Send
        <2>2. link'[s] \notin {"up", "none"} /\ \A t \in Slots \ {s} : link'[t] = link[t]
            BY <1>6, <2>1, ColumnTypes
        <2>3. toSrv'[s] = toSrv[s]  BY <1>2, <1>6, ColumnTypes
        <2>4. \A t \in Slots \ {s} : SameNet(t)
            BY <1>2, <2>2, ColumnTypes DEF SameNet
        <2>5. QED  BY <1>2, <1>4, <1>6, <2>2, <2>3, <2>4
    <1>7. QED  BY <1>5, <1>6

LEMMA SendKeepsConv ==
    ASSUME IInv, NEW s \in Slots, \A t \in Slots : Conv(t), UNCHANGED rtsrvVars,
           NEW k, NEW n, NEW msgs \in Seq(SrvMessages), Send(s, k, n, msgs),
           sr_pc[s], UNCHANGED sr_pc, \A t \in Slots \ {s} : SameSrv(t), link[s] # "none",
           link[s] = "up" =>
              SlotOK(TRUE, sr_state'[s], sr_work'[s], sr_curframe'[s], "up", caller[s],
                     inbuf[s] \o toCtl[s], (WorkHead[s] \o toSrv[s]) \o msgs,
                     seen_gettrees[s], view[s], grid[s]),
           link[s] # "up" /\ link'[s] \notin {"up", "none"} =>
              SlotOK(TRUE, sr_state'[s], sr_work'[s], sr_curframe'[s], link'[s], caller[s],
                     inbuf[s] \o toCtl[s], WorkHead[s] \o toSrv[s],
                     seen_gettrees[s], view[s], grid[s])
    PROVE  \A t \in Slots : Conv(t)'
    <1>1. /\ inbuf'[s] \o toCtl'[s] = inbuf[s] \o toCtl[s]
          /\ UNCHANGED caller
          /\ link[s] = "up" => /\ link'[s] = "up"
                               /\ WorkHead[s] \o toSrv'[s] = (WorkHead[s] \o toSrv[s]) \o msgs
          /\ link[s] # "up" => link'[s] \notin {"up", "none"} /\ toSrv'[s] = toSrv[s]
          /\ \A t \in Slots \ {s} : SameNet(t)
        BY SendColumns
    <1>2. sr_pc[s] = TRUE  BY SlotTypes
    <1>3. Conv(s)'
        <2>1. CASE link[s] = "up"
            BY <1>1, <1>2, <2>1 DEF Conv, rtsrvVars
        <2>2. CASE link[s] # "up"
            BY <1>1, <1>2, <2>2 DEF Conv, rtsrvVars
        <2>3. QED  BY <2>1, <2>2
    <1>4. ASSUME NEW t \in Slots \ {s} PROVE Conv(t)'
        <2>1. SameRtsrv(t)  BY DEF SameRtsrv, rtsrvVars
        <2>2. SameNet(t) /\ SameSrv(t) /\ Conv(t)  BY <1>1
        <2>3. QED  BY <2>1, <2>2, SameConv
    <1>5. QED  BY <1>3, <1>4

(* The send fails, and the server is dropped for it.                       *)
LEMMA SendFailsKeepsConv ==
    ASSUME IInv, NEW s \in Slots, \A t \in Slots : Conv(t), UNCHANGED rtsrvVars,
           NEW k, NEW n, NEW msgs \in Seq(SrvMessages), Send(s, k, n, msgs),
           sr_pc[s], UNCHANGED sr_pc, \A t \in Slots \ {s} : SameSrv(t),
           link[s] # "up", sr_state'[s] = "CLOSING", sr_curframe'[s] = NoFrame,
           \/ sr_state[s] \in {"VERSOK", "NEED_TREE", "READY"} /\ sr_work[s] = NoWork
           \/ sr_work'[s] \in {sr_work[s], NoWork}
    PROVE  \A t \in Slots : Conv(t)'
    <1> DEFINE dn == WorkHead[s] \o toSrv[s]
               up == inbuf[s] \o toCtl[s]
    <1>1. SlotOK(TRUE, sr_state[s], sr_work[s], sr_curframe[s], link[s], caller[s],
                 up, dn, seen_gettrees[s], view[s], grid[s])
        BY OpenConv
    <1>2. link[s] # "none"  BY <1>1 DEF SlotOK
    <1>3. up \in Seq(CtlMessages)  BY SlotTypes
    <1> HIDE DEF up, dn
    <1>4. ASSUME link'[s] \notin {"up", "none"}
          PROVE  SlotOK(TRUE, sr_state'[s], sr_work'[s], sr_curframe'[s], link'[s], caller[s],
                        up, dn, seen_gettrees[s], view[s], grid[s])
        <2>1. Steady("CLOSING", sr_work'[s], NoFrame)  BY DEF Steady
        <2>2. CASE sr_state[s] \in {"VERSOK", "NEED_TREE", "READY"} /\ sr_work[s] = NoWork
            <3>1. SlotOK(TRUE, "CLOSING", sr_work'[s], NoFrame, link'[s], caller[s],
                         up, dn, seen_gettrees[s], view[s], grid[s])
                BY ONLY <1>1, <1>3, <1>4, <2>1, <2>2, AskedInVain
            <3>2. QED  BY <3>1
        <2>3. CASE sr_work'[s] \in {sr_work[s], NoWork}
            <3>1. SlotOK(TRUE, "CLOSING", sr_work'[s], NoFrame, link[s], caller[s],
                         up, dn, seen_gettrees[s], view[s], grid[s])
                BY ONLY <1>1, <2>3, DroppedSlot
            <3>2. SlotOK(TRUE, "CLOSING", sr_work'[s], NoFrame, link'[s], caller[s],
                         up, dn, seen_gettrees[s], view[s], grid[s])
                BY ONLY <1>4, <3>1, Disconnected
            <3>3. QED  BY <3>2
        <2>4. QED  BY <2>2, <2>3
    <1>5. QED  BY <1>2, <1>4, SendKeepsConv DEF up, dn


-----------------------------------------------------------------------------
(* The commands.                                                           *)

LEMMA OptionIsMessage ==
    /\ [type |-> "OPTIONS"] \in SrvMessages /\ <<[type |-> "OPTIONS"]>> \in Seq(SrvMessages)
    /\ [type |-> "OPTIONS"].type = "OPTIONS"
    <1>1. [type |-> "OPTIONS"] \in SrvMessages  BY DEF SrvMessages, WorkMessages
    <1>2. QED  BY <1>1

LEMMA RdebugKeepsConv ==
    ASSUME IInv, NEW s \in Slots, \A t \in Slots : Conv(t), UNCHANGED rtsrvVars, RdebugNext(s)
    PROVE  \A t \in Slots : Conv(t)'
    <1> DEFINE o == [type |-> "OPTIONS"]
               dn == WorkHead[s] \o toSrv[s]
               up == inbuf[s] \o toCtl[s]
    <1>1. o \in SrvMessages /\ <<o>> \in Seq(SrvMessages) /\ o.type = "OPTIONS"
        BY OptionIsMessage
    <1>2. sr_pc[s] /\ UNCHANGED sr_pc  BY DEF RdebugNext, Comes, Open
    <1>3. SlotOK(TRUE, sr_state[s], sr_work[s], sr_curframe[s], link[s], caller[s],
                 up, dn, seen_gettrees[s], view[s], grid[s])
        BY <1>2, OpenConv
    <1>4. link[s] # "none"  BY <1>3 DEF SlotOK
    <1> HIDE DEF o
    <1>5. PICK k \in Sent(s, 1) :
            /\ Send(s, k, 1, <<o>>)
            /\ IF k = 1 THEN UNCHANGED <<sr_state, sr_work, sr_curframe, clients, fr_todo>>
                        ELSE Dropped(s)
        BY DEF RdebugNext, o
    <1>6. CASE k = 1
        <2>1. UNCHANGED <<sr_state, sr_work, sr_curframe>>  BY <1>5, <1>6
        <2>2. \A t \in Slots \ {s} : SameSrv(t)  BY <1>2, <2>1 DEF SameSrv
        <2>3. dn \in Seq(SrvMessages)  BY SlotTypes
        <2> HIDE DEF up, dn
        <2>4. ASSUME link[s] = "up"
              PROVE  SlotOK(TRUE, sr_state'[s], sr_work'[s], sr_curframe'[s], "up", caller[s],
                            up, dn \o <<o>>, seen_gettrees[s], view[s], grid[s])
            <3>1. SlotOK(TRUE, sr_state[s], sr_work[s], sr_curframe[s], "up", caller[s],
                         up, dn, seen_gettrees[s], view[s], grid[s])
                BY <1>3, <2>4
            <3>2. SlotOK(TRUE, sr_state[s], sr_work[s], sr_curframe[s], "up", caller[s],
                         up, dn \o <<o>>, seen_gettrees[s], view[s], grid[s])
                BY ONLY <1>1, <2>3, <3>1, OptionSent
            <3>3. QED  BY <2>1, <3>2
        <2>5. ASSUME link'[s] \notin {"up", "none"}
              PROVE  SlotOK(TRUE, sr_state'[s], sr_work'[s], sr_curframe'[s], link'[s], caller[s],
                            up, dn, seen_gettrees[s], view[s], grid[s])
            <3>1. SlotOK(TRUE, sr_state[s], sr_work[s], sr_curframe[s], link'[s], caller[s],
                         up, dn, seen_gettrees[s], view[s], grid[s])
                BY ONLY <1>3, <2>5, Disconnected
            <3>2. QED  BY <2>1, <3>1
        <2>6. Send(s, k, 1, <<o>>)  BY <1>5
        <2>7. QED  BY <1>1, <1>2, <1>4, <2>2, <2>4, <2>5, <2>6, SendKeepsConv DEF up, dn
    <1>7. CASE k # 1
        <2>1. Dropped(s) /\ Send(s, k, 1, <<o>>)  BY <1>5, <1>7
        <2>2. link[s] # "up"  BY <1>5, <1>7 DEF Sent
        <2>3. /\ sr_state'[s] = "CLOSING" /\ sr_curframe'[s] = NoFrame
              /\ sr_work'[s] \in {sr_work[s], NoWork}
              /\ \A t \in Slots \ {s} : SameSrv(t)
            BY <1>2, <2>1, DropColumns DEF Dropped, Drop, SameSrv
        <2>4. QED  BY <1>1, <1>2, <2>1, <2>2, <2>3, SendFailsKeepsConv
    <1>8. QED  BY <1>6, <1>7

LEMMA QuietStepKeepsConv ==
    ASSUME \A t \in Slots : Conv(t), UNCHANGED rtsrvVars,
           UNCHANGED <<caller, link, inbuf, toCtl, toSrv>>,
           UNCHANGED <<sr_pc, sr_state, sr_work, sr_curframe>>
    PROVE  \A t \in Slots : Conv(t)'
    <1>1. SUFFICES ASSUME NEW t \in Slots PROVE Conv(t)'
        OBVIOUS
    <1>2. SameNet(t) /\ SameRtsrv(t) /\ SameSrv(t)
        BY DEF SameNet, SameRtsrv, SameSrv, rtsrvVars
    <1>3. QED  BY <1>2, SameConv

LEMMA CommandKeepsConv ==
    ASSUME IInv, Loop, NoRestarts, \A t \in Slots : Conv(t), UNCHANGED rtsrvVars, Command
    PROVE  \A t \in Slots : Conv(t)'
    <1>1. cmd.name \notin {"restart", "restart all", "load"} \/ pc \notin {"cmd", "cmd end"}
        BY DEF Loop, NoRestarts
    <1>2. ~(\E t \in Slots : cd_restart(t) \/ RestartNext(t))
        BY <1>1 DEF cd_restart, RestartNext, RestartsAll, Doing
    <1>3. CASE cd_stop \/ cd_go \/ (\E m \in {OPT_FRAME, OPT_LOAD, OPT_MOVIE} : cd_allocate(m))
                 \/ BroadcastEnd
        <2>1. UNCHANGED <<srvVars, netVars>>
            BY <1>3 DEF cd_stop, cd_go, cd_allocate, BroadcastEnd
        <2>2. QED  BY <2>1, QuietStepKeepsConv DEF srvVars, netVars
    <1>4. CASE \E t \in Slots : cd_drop(t)
        <2>1. PICK t \in Slots : cd_drop(t)  BY <1>4
        <2>2. sr_pc[t] /\ Dropped(t) /\ UNCHANGED sr_pc /\ UNCHANGED netVars
            BY <2>1 DEF cd_drop
        <2>3. QED  BY <2>2, DropKeepsConv DEF netVars
    <1>5. CASE \E t \in Slots : RdebugNext(t)
        BY <1>5, RdebugKeepsConv
    <1>6. CASE CmdEnd
        <2>1. cmd.from \in Slots /\ sr_pc[cmd.from]
            BY <1>6 DEF CmdEnd, Loop, Open
        <2>2. Dropped(cmd.from) /\ UNCHANGED sr_pc /\ UNCHANGED netVars
            BY <1>6 DEF CmdEnd
        <2>3. QED  BY <2>1, <2>2, DropKeepsConv DEF netVars
    <1>7. QED  BY <1>2, <1>3, <1>4, <1>5, <1>6 DEF Command


-----------------------------------------------------------------------------
(* check_input and the state transitions of schedule().                    *)

LEMMA AddclientKeepsConv ==
    ASSUME IInv, Loop, NEW s \in Slots, \A t \in Slots : Conv(t), UNCHANGED rtsrvVars,
           addclient(s)
    PROVE  \A t \in Slots : Conv(t)'
    <1> DEFINE dn == WorkHead[s] \o toSrv[s]
               up == inbuf[s] \o toCtl[s]
    <1>1. sr_pc[s] = FALSE
        BY SlotTypes DEF addclient, FreeSlot
    <1>2. SlotOK(FALSE, sr_state[s], sr_work[s], sr_curframe[s], link[s], caller[s],
                 up, dn, seen_gettrees[s], view[s], grid[s])
        BY <1>1 DEF Conv
    <1>3. calls # <<>> /\ calls \in Seq({"rtsrv", "stale"} \cup Commands)
        BY DEF addclient, IInv, LoopTypeOK, Loop
    <1>4. Head(calls) \in {"rtsrv", "stale"} \cup Commands
        BY <1>3, HeadTailProperties
    <1>5. /\ caller'[s] = Head(calls) /\ link'[s] = "up" /\ sr_pc'[s] = TRUE
          /\ sr_work'[s] = NoWork /\ sr_curframe'[s] = NoFrame /\ sr_state'[s] = "NEW"
          /\ UNCHANGED <<toCtl, toSrv, inbuf>>
        BY ColumnTypes DEF addclient, statechange
    <1> HIDE DEF up, dn
    <1>6. SlotOK(TRUE, "NEW", NoWork, NoFrame, "up", Head(calls), up, dn,
                 seen_gettrees[s], view[s], grid[s])
        BY ONLY <1>2, <1>4, CallerSlot
    <1>7. SlotOK(sr_pc'[s], sr_state'[s], sr_work'[s], sr_curframe'[s], link'[s], caller'[s],
                 up, dn, seen_gettrees[s], view[s], grid[s])
        BY <1>5, <1>6
    <1>8. Conv(s)'  BY <1>5, <1>7 DEF Conv, up, dn, rtsrvVars
    <1>9. ASSUME NEW t \in Slots \ {s} PROVE Conv(t)'
        <2>1. SameNet(t) /\ SameSrv(t)
            BY ColumnTypes DEF addclient, statechange, SameNet, SameSrv
        <2>2. SameRtsrv(t)  BY DEF SameRtsrv, rtsrvVars
        <2>3. QED  BY <2>1, <2>2, SameConv
    <1>10. QED  BY <1>8, <1>9

LEMMA SuckKeepsConv ==
    ASSUME IInv, Loop, NEW s \in Slots, \A t \in Slots : Conv(t), UNCHANGED rtsrvVars, Suck(s)
    PROVE  \A t \in Slots : Conv(t)'
    <1>1. sr_pc[s] /\ UNCHANGED <<sr_pc, caller, link, toSrv>>
        BY SlotsAreNumbers DEF Suck, Comes, Loop, Open
    <1>2. CASE toCtl[s] = <<>>
        BY <1>1, <1>2, DropKeepsConv DEF Suck
    <1>3. CASE toCtl[s] # <<>>
        <2>1. /\ inbuf' = [inbuf EXCEPT ![s] = inbuf[s] \o toCtl[s]]
              /\ toCtl' = [toCtl EXCEPT ![s] = <<>>]
              /\ UNCHANGED <<sr_state, sr_work, sr_curframe>>
            BY <1>3 DEF Suck
        <2>2. inbuf'[s] = inbuf[s] \o toCtl[s] /\ toCtl'[s] = <<>>
            BY <2>1, ColumnTypes
        <2>3. inbuf[s] \in Seq(CtlMessages) /\ toCtl[s] \in Seq(CtlMessages)
            BY SlotTypes
        <2>4. inbuf'[s] \o toCtl'[s] = inbuf[s] \o toCtl[s]
            BY <2>2, <2>3, MovedOver
        <2>5. Conv(s)'  BY <1>1, <2>1, <2>4 DEF Conv, rtsrvVars
        <2>6. ASSUME NEW t \in Slots \ {s} PROVE Conv(t)'
            <3>1. SameNet(t) /\ SameSrv(t) /\ SameRtsrv(t)
                BY <1>1, <2>1, ColumnTypes DEF SameNet, SameSrv, SameRtsrv, rtsrvVars
            <3>2. QED  BY <3>1, SameConv
        <2>7. QED  BY <2>5, <2>6
    <1>4. QED  BY <1>2, <1>3

LEMMA SendDirbuildKeepsConv ==
    ASSUME IInv, NEW s \in Slots, \A t \in Slots : Conv(t), UNCHANGED rtsrvVars,
           SendDirbuild(s)
    PROVE  \A t \in Slots : Conv(t)'
    <1> DEFINE dn == WorkHead[s] \o toSrv[s]
               up == inbuf[s] \o toCtl[s]
    <1>1. sr_pc[s] /\ UNCHANGED sr_pc /\ sr_state[s] = "VERSOK"
        BY DEF SendDirbuild, Comes, Transits, Open
    <1>2. DirbuildMsg \in SrvMessages /\ <<DirbuildMsg>> \in Seq(SrvMessages)
        BY RequestTypes
    <1>3. SlotOK(TRUE, sr_state[s], sr_work[s], sr_curframe[s], link[s], caller[s],
                 up, dn, seen_gettrees[s], view[s], grid[s])
        BY <1>1, OpenConv
    <1>4. link[s] # "none" /\ sr_work[s] = NoWork /\ sr_curframe[s] = NoFrame
        BY <1>1, <1>3 DEF SlotOK, Steady
    <1>5. PICK k \in Sent(s, 2) :
            /\ Send(s, k, 2, <<DirbuildMsg>>)
            /\ IF k = 2
               THEN /\ statechange(s, "DOING_DIRBUILD")
                    /\ UNCHANGED <<sr_work, sr_curframe, clients, fr_todo>>
               ELSE Dropped(s)
        BY DEF SendDirbuild, DirbuildMsg
    <1>6. Send(s, k, 2, <<DirbuildMsg>>)  BY <1>5
    <1>7. CASE k = 2
        <2>1. /\ sr_state'[s] = "DOING_DIRBUILD" /\ UNCHANGED <<sr_work, sr_curframe>>
              /\ \A t \in Slots \ {s} : SameSrv(t)
            BY <1>1, <1>5, <1>7, ColumnTypes DEF statechange, SameSrv
        <2>2. dn \in Seq(SrvMessages) /\ up \in Seq(CtlMessages)  BY SlotTypes
        <2> HIDE DEF up, dn
        <2>3. ASSUME link[s] = "up"
              PROVE  SlotOK(TRUE, sr_state'[s], sr_work'[s], sr_curframe'[s], "up", caller[s],
                            up, dn \o <<DirbuildMsg>>, seen_gettrees[s], view[s], grid[s])
            <3>1. SlotOK(TRUE, sr_state[s], sr_work[s], sr_curframe[s], "up", caller[s],
                         up, dn, seen_gettrees[s], view[s], grid[s])
                BY <1>3, <2>3
            <3>2. SlotOK(TRUE, "DOING_DIRBUILD", sr_work[s], sr_curframe[s], "up", caller[s],
                         up, dn \o <<DirbuildMsg>>, seen_gettrees[s], view[s], grid[s])
                BY ONLY <1>1, <2>2, <3>1, DirbuildSent
            <3>3. QED  BY <2>1, <3>2
        <2>4. ASSUME link'[s] \notin {"up", "none"}
              PROVE  SlotOK(TRUE, sr_state'[s], sr_work'[s], sr_curframe'[s], link'[s], caller[s],
                            up, dn, seen_gettrees[s], view[s], grid[s])
            <3>1. Steady("DOING_DIRBUILD", sr_work[s], sr_curframe[s])
                BY <1>4 DEF Steady
            <3>2. sr_state[s] \in {"VERSOK", "NEED_TREE", "READY"}  BY <1>1
            <3>3. SlotOK(TRUE, "DOING_DIRBUILD", sr_work[s], sr_curframe[s], link'[s], caller[s],
                         up, dn, seen_gettrees[s], view[s], grid[s])
                BY ONLY <1>3, <1>4, <2>2, <2>4, <3>1, <3>2, AskedInVain
            <3>4. QED  BY <2>1, <3>3
        <2>5. QED  BY <1>1, <1>2, <1>4, <1>6, <2>1, <2>3, <2>4, SendKeepsConv DEF up, dn
    <1>8. CASE k # 2
        <2>1. Dropped(s)  BY <1>5, <1>8
        <2>2. link[s] # "up"  BY <1>5, <1>8 DEF Sent
        <2>3. /\ sr_state'[s] = "CLOSING" /\ sr_curframe'[s] = NoFrame
              /\ sr_work'[s] \in {sr_work[s], NoWork}
              /\ \A t \in Slots \ {s} : SameSrv(t)
            BY <1>1, <2>1, DropColumns DEF Dropped, Drop, SameSrv
        <2>4. QED  BY <1>1, <1>2, <1>6, <2>2, <2>3, SendFailsKeepsConv
    <1>9. QED  BY <1>7, <1>8


-----------------------------------------------------------------------------
(* Assignments.                                                            *)

(* A server with nothing to do is asked something: if the request arrives, *)
(* it has been asked, and if not its columns may say so all the same.      *)
LEMMA AskKeepsConv ==
    ASSUME IInv, NEW s \in Slots, \A t \in Slots : Conv(t), UNCHANGED rtsrvVars,
           NEW k, NEW n, NEW msgs \in Seq(SrvMessages), Send(s, k, n, msgs),
           sr_pc[s], UNCHANGED sr_pc, \A t \in Slots \ {s} : SameSrv(t),
           sr_state[s] \in {"VERSOK", "NEED_TREE", "READY"}, sr_work[s] = NoWork,
           Steady(sr_state'[s], sr_work'[s], sr_curframe'[s]), sr_state'[s] # "UNUSED",
           SlotOK(TRUE, sr_state[s], sr_work[s], sr_curframe[s], "up", caller[s],
                  inbuf[s] \o toCtl[s], WorkHead[s] \o toSrv[s],
                  seen_gettrees[s], view[s], grid[s])
             => SlotOK(TRUE, sr_state'[s], sr_work'[s], sr_curframe'[s], "up", caller[s],
                       inbuf[s] \o toCtl[s], (WorkHead[s] \o toSrv[s]) \o msgs,
                       seen_gettrees[s], view[s], grid[s])
    PROVE  \A t \in Slots : Conv(t)'
    <1> DEFINE dn == WorkHead[s] \o toSrv[s]
               up == inbuf[s] \o toCtl[s]
    <1>1. SlotOK(TRUE, sr_state[s], sr_work[s], sr_curframe[s], link[s], caller[s],
                 up, dn, seen_gettrees[s], view[s], grid[s])
        BY OpenConv
    <1>2. link[s] # "none"  BY <1>1 DEF SlotOK
    <1>3. up \in Seq(CtlMessages)  BY SlotTypes
    <1>4. ASSUME link[s] = "up"
          PROVE  SlotOK(TRUE, sr_state'[s], sr_work'[s], sr_curframe'[s], "up", caller[s],
                        up, dn \o msgs, seen_gettrees[s], view[s], grid[s])
        BY <1>1, <1>4
    <1> HIDE DEF up, dn
    <1>5. ASSUME link'[s] \notin {"up", "none"}
          PROVE  SlotOK(TRUE, sr_state'[s], sr_work'[s], sr_curframe'[s], link'[s], caller[s],
                        up, dn, seen_gettrees[s], view[s], grid[s])
        <2>1. /\ sr_state[s] \in {"VERSOK", "NEED_TREE", "READY"} /\ sr_work[s] = NoWork
              /\ Steady(sr_state'[s], sr_work'[s], sr_curframe'[s]) /\ sr_state'[s] # "UNUSED"
            OBVIOUS
        <2>2. QED  BY ONLY <1>1, <1>3, <1>5, <2>1, AskedInVain
    <1>6. QED  BY <1>2, <1>4, <1>5, SendKeepsConv DEF up, dn

(* What task_server knows of a server it has something for.                *)
LEMMA HungrySlot ==
    ASSUME IInv, NEW s \in Slots, pc = "task", Hungry(s), NEW ret, Returned(s, ret)
    PROVE  /\ sr_pc[s] /\ UNCHANGED sr_pc
           /\ sr_state[s] \in {"NEED_TREE", "READY"} /\ sr_work[s] = NoWork
           /\ Fr \in Frames /\ MatrixMsg = Matrix(Fr) /\ MatrixMsg \in SrvMessages
           /\ \A lump \in Lumps : /\ Assignment(lump) \in Spans
                                  /\ Assignment(lump).li_frame = Fr
                                  /\ LinesMsg(lump) = Lines(Assignment(lump))
                                  /\ LinesMsg(lump) \in SrvMessages
    <1>1. sr_pc[s] /\ UNCHANGED sr_pc  BY DEF Returned, Comes, Open
    <1>2. sr_state[s] \in {"NEED_TREE", "READY"} /\ sr_work[s] = NoWork
        BY DEF Hungry, AtWork, Idle
    <1>3. ASSUME NEW lump \in Lumps
          PROVE  /\ Fr \in Frames /\ MatrixMsg \in SrvMessages
                 /\ Assignment(lump) \in Spans /\ Assignment(lump).li_frame = Fr
                 /\ LinesMsg(lump) \in SrvMessages
        <2>1. /\ fr_todo \in TodoLists /\ FrameHead \in Seq(Frames) /\ fi \in DOMAIN FrameHead
              /\ fr_todo[Fr] # <<>> /\ lump \in Nat \ {0} /\ Disjoint(fr_todo, sr_work)
            BY HungryFacts
        <2>2. Fr \in Frames /\ LinesMsg(lump) \in SrvMessages /\ MatrixMsg \in SrvMessages
            BY AssignmentFacts
        <2>3. \A i, j \in DOMAIN fr_todo[Fr] :
                 i # j => PixelsOf(fr_todo[Fr][i]) \cap PixelsOf(fr_todo[Fr][j]) = {}
            BY <2>1, <2>2 DEF Disjoint
        <2>4. QED  BY <2>1, <2>2, <2>3, AssignmentTaken
    <1>4. \A lump \in Lumps : LinesMsg(lump) = Lines(Assignment(lump))
        BY DEF LinesMsg, Lines, Assignment, Span
    <1>5. MatrixMsg = Matrix(Fr)  BY DEF MatrixMsg, Matrix
    <1>6. \E lump \in Lumps : TRUE  BY RemrtAssumption
    <1>7. QED  BY <1>1, <1>2, <1>3, <1>4, <1>5, <1>6

(* The server is dropped with the assignment it was not sent.              *)
LEMMA DropAssigned ==
    ASSUME IInv, NEW s \in Slots, UNCHANGED sr_pc, NEW todo, NEW lump,
           Drop(s, todo, WorkAfter(s, lump))
    PROVE  /\ sr_state'[s] = "CLOSING" /\ sr_curframe'[s] = NoFrame
           /\ \A t \in Slots \ {s} : SameSrv(t)
    <1>1. /\ sr_state'[s] = "CLOSING" /\ sr_curframe'[s] = NoFrame
          /\ \A t \in Slots \ {s} : sr_state'[t] = sr_state[t] /\ sr_curframe'[t] = sr_curframe[t]
        BY ColumnTypes DEF Drop, DropTo
    <1>2. sr_work' \in {WorkAfter(s, lump), [WorkAfter(s, lump) EXCEPT ![s] = NoWork]}
        BY DEF Drop, DropTo
    <1>3. \A t \in Slots \ {s} : sr_work'[t] = sr_work[t]
        BY <1>2, ColumnTypes DEF WorkAfter
    <1>4. QED  BY <1>1, <1>3 DEF SameSrv

LEMMA TaskLinesKeepsConv ==
    ASSUME IInv, pc = "task", NEW s \in Slots, NEW lump \in Lumps, TaskLines(s, lump),
           \A t \in Slots : Conv(t), UNCHANGED rtsrvVars
    PROVE  \A t \in Slots : Conv(t)'
    <1> DEFINE w == Assignment(lump)
               dn == WorkHead[s] \o toSrv[s]
               up == inbuf[s] \o toCtl[s]
    <1>1. PICK k \in Sent(s, 1) :
            /\ Send(s, k, 1, <<LinesMsg(lump)>>)
            /\ IF k = 1
               THEN /\ Returned(s, 0)
                    /\ fr_todo' = TodoAfter(lump) /\ sr_work' = WorkAfter(s, lump)
                    /\ UNCHANGED <<sr_state, sr_curframe, clients>>
               ELSE /\ Returned(s, 1)
                    /\ Drop(s, TodoAfter(lump), WorkAfter(s, lump))
        BY DEF TaskLines
    <1>2. Hungry(s) /\ sr_curframe[s] = Fr  BY DEF TaskLines
    <1>3. PICK ret : Returned(s, ret)  BY <1>1
    <1>4. /\ sr_pc[s] /\ UNCHANGED sr_pc
          /\ sr_state[s] \in {"NEED_TREE", "READY"} /\ sr_work[s] = NoWork
          /\ Fr \in Frames /\ w \in Spans /\ w.li_frame = Fr
          /\ LinesMsg(lump) = Lines(w) /\ LinesMsg(lump) \in SrvMessages
        BY <1>2, <1>3, HungrySlot
    <1>5. <<LinesMsg(lump)>> \in Seq(SrvMessages)  BY <1>4
    <1>6. Send(s, k, 1, <<LinesMsg(lump)>>)  BY <1>1
    <1>7. sr_state[s] = "READY"
        <2>1. Steady(sr_state[s], sr_work[s], sr_curframe[s])  BY DEF Conv, SlotOK
        <2>2. QED  BY <1>2, <1>4, <2>1, FrameIsNotNoFrame DEF Steady
    <1>8. CASE k = 1
        <2>1. /\ UNCHANGED <<sr_state, sr_curframe>> /\ sr_work'[s] = w
              /\ \A t \in Slots \ {s} : SameSrv(t)
            BY <1>1, <1>4, <1>8, ColumnTypes DEF WorkAfter, SameSrv
        <2>2. dn \in Seq(SrvMessages) /\ up \in Seq(CtlMessages)  BY SlotTypes
        <2> HIDE DEF up, dn, w
        <2>3. ASSUME SlotOK(TRUE, sr_state[s], sr_work[s], sr_curframe[s], "up", caller[s],
                            up, dn, seen_gettrees[s], view[s], grid[s])
              PROVE  SlotOK(TRUE, sr_state'[s], sr_work'[s], sr_curframe'[s], "up", caller[s],
                            up, dn \o <<LinesMsg(lump)>>, seen_gettrees[s], view[s], grid[s])
            <3>1. sr_curframe[s] = w.li_frame /\ w \in Spans  BY <1>2, <1>4
            <3>2. sr_state[s] \in {"NEED_TREE", "READY"} /\ sr_work[s] = NoWork  BY <1>4
            <3>3. SlotOK(TRUE, sr_state[s], w, sr_curframe[s], "up", caller[s],
                         up, dn \o <<Lines(w)>>, seen_gettrees[s], view[s], grid[s])
                BY ONLY <2>2, <2>3, <3>1, <3>2, LinesSent
            <3>4. QED  BY <1>4, <2>1, <3>3
        <2>4. Steady(sr_state'[s], sr_work'[s], sr_curframe'[s]) /\ sr_state'[s] # "UNUSED"
            BY <1>7, <2>1 DEF Steady
        <2>5. sr_state[s] \in {"VERSOK", "NEED_TREE", "READY"}  BY <1>4
        <2>6. QED  BY <1>4, <1>5, <1>6, <2>1, <2>3, <2>4, <2>5, AskKeepsConv DEF up, dn
    <1>9. CASE k # 1
        <2>1. Drop(s, TodoAfter(lump), WorkAfter(s, lump))  BY <1>1, <1>9
        <2>2. link[s] # "up"  BY <1>1, <1>9 DEF Sent
        <2>3. /\ sr_state'[s] = "CLOSING" /\ sr_curframe'[s] = NoFrame
              /\ \A t \in Slots \ {s} : SameSrv(t)
            BY <1>4, <2>1, DropAssigned
        <2>4. QED  BY <1>4, <1>5, <1>6, <2>2, <2>3, SendFailsKeepsConv
    <1>10. QED  BY <1>8, <1>9


LEMMA TaskGettreesKeepsConv ==
    ASSUME IInv, pc = "task", NEW s \in Slots, TaskGettrees(s),
           \A t \in Slots : Conv(t), UNCHANGED rtsrvVars
    PROVE  \A t \in Slots : Conv(t)'
    <1> DEFINE dn == WorkHead[s] \o toSrv[s]
               up == inbuf[s] \o toCtl[s]
               msgs == <<MatrixMsg, GettreesMsg>>
    <1>1. PICK k \in Sent(s, 2) :
            /\ Send(s, k, 2, msgs)
            /\ IF k = 2
               THEN /\ statechange(s, "DOING_GETTREES")
                    /\ sr_curframe' = [sr_curframe EXCEPT ![s] = Fr]
                    /\ UNCHANGED <<sr_work, clients, fr_todo>>
               ELSE Dropped(s)
        BY DEF TaskGettrees
    <1>2. Hungry(s) /\ Returned(s, 1)  BY DEF TaskGettrees
    <1>3. /\ sr_pc[s] /\ UNCHANGED sr_pc
          /\ sr_state[s] \in {"NEED_TREE", "READY"} /\ sr_work[s] = NoWork
          /\ Fr \in Frames /\ MatrixMsg = Matrix(Fr) /\ MatrixMsg \in SrvMessages
        BY <1>2, HungrySlot
    <1>4. msgs \in Seq(SrvMessages)
        BY <1>3, RequestTypes
    <1>5. Send(s, k, 2, msgs)  BY <1>1
    <1>6. CASE k = 2
        <2>1. /\ sr_state'[s] = "DOING_GETTREES" /\ sr_curframe'[s] = Fr /\ UNCHANGED sr_work
              /\ \A t \in Slots \ {s} : SameSrv(t)
            BY <1>1, <1>3, <1>6, ColumnTypes DEF statechange, SameSrv
        <2>2. dn \in Seq(SrvMessages) /\ up \in Seq(CtlMessages)  BY SlotTypes
        <2>3. msgs = <<Matrix(Fr), GettreesMsg>>  BY <1>3
        <2> HIDE DEF up, dn, msgs
        <2>4. ASSUME SlotOK(TRUE, sr_state[s], sr_work[s], sr_curframe[s], "up", caller[s],
                            up, dn, seen_gettrees[s], view[s], grid[s])
              PROVE  SlotOK(TRUE, sr_state'[s], sr_work'[s], sr_curframe'[s], "up", caller[s],
                            up, dn \o msgs, seen_gettrees[s], view[s], grid[s])
            <3>1. Fr \in Frames /\ sr_state[s] \in {"NEED_TREE", "READY"} /\ sr_work[s] = NoWork
                BY <1>3
            <3>2. SlotOK(TRUE, "DOING_GETTREES", sr_work[s], Fr, "up", caller[s],
                         up, dn \o <<Matrix(Fr), GettreesMsg>>,
                         seen_gettrees[s], view[s], grid[s])
                BY ONLY <2>2, <2>4, <3>1, TreesSent
            <3>3. QED  BY <2>1, <2>3, <3>2
        <2>5. Steady(sr_state'[s], sr_work'[s], sr_curframe'[s]) /\ sr_state'[s] # "UNUSED"
            BY <1>3, <2>1 DEF Steady
        <2>6. sr_state[s] \in {"VERSOK", "NEED_TREE", "READY"}  BY <1>3
        <2>7. QED  BY <1>3, <1>4, <1>5, <2>1, <2>4, <2>5, <2>6, AskKeepsConv DEF up, dn
    <1>7. CASE k # 2
        <2>1. Dropped(s)  BY <1>1, <1>7
        <2>2. link[s] # "up"  BY <1>1, <1>7 DEF Sent
        <2>3. /\ sr_state'[s] = "CLOSING" /\ sr_curframe'[s] = NoFrame
              /\ sr_work'[s] \in {sr_work[s], NoWork}
              /\ \A t \in Slots \ {s} : SameSrv(t)
            BY <1>3, <2>1, DropColumns DEF Dropped, Drop, SameSrv
        <2> HIDE DEF msgs
        <2>4. QED  BY <1>3, <1>4, <1>5, <2>2, <2>3, SendFailsKeepsConv
    <1>8. QED  BY <1>6, <1>7

LEMMA TaskMatrixKeepsConv ==
    ASSUME IInv, pc = "task", NEW s \in Slots, NEW lump \in Lumps, TaskMatrix(s, lump),
           \A t \in Slots : Conv(t), UNCHANGED rtsrvVars
    PROVE  \A t \in Slots : Conv(t)'
    <1> DEFINE w == Assignment(lump)
               dn == WorkHead[s] \o toSrv[s]
               up == inbuf[s] \o toCtl[s]
               msgs == <<MatrixMsg, LinesMsg(lump)>>
    <1>1. PICK k \in Sent(s, 2) :
            /\ Send(s, k, 2, msgs)
            /\ IF k = 2
               THEN /\ Returned(s, 0)
                    /\ fr_todo' = TodoAfter(lump) /\ sr_work' = WorkAfter(s, lump)
                    /\ sr_curframe' = [sr_curframe EXCEPT ![s] = Fr]
                    /\ UNCHANGED <<sr_state, clients>>
               ELSE /\ Returned(s, 1)
                    /\ Drop(s, TodoAfter(lump), WorkAfter(s, lump))
        BY DEF TaskMatrix
    <1>2. Hungry(s) /\ Fr \notin NeedTree /\ sr_state[s] # "NEED_TREE"
        BY DEF TaskMatrix, NeedsTrees
    <1>3. PICK ret : Returned(s, ret)  BY <1>1
    <1>4. /\ sr_pc[s] /\ UNCHANGED sr_pc
          /\ sr_state[s] = "READY" /\ sr_work[s] = NoWork
          /\ Fr \in Frames /\ w \in Spans /\ w.li_frame = Fr
          /\ MatrixMsg = Matrix(w.li_frame) /\ MatrixMsg \in SrvMessages
          /\ LinesMsg(lump) = Lines(w) /\ LinesMsg(lump) \in SrvMessages
        BY <1>2, <1>3, HungrySlot
    <1>5. msgs \in Seq(SrvMessages)  BY <1>4
    <1>6. Send(s, k, 2, msgs)  BY <1>1
    <1>7. CASE k = 2
        <2>1. /\ UNCHANGED sr_state /\ sr_curframe'[s] = w.li_frame /\ sr_work'[s] = w
              /\ \A t \in Slots \ {s} : SameSrv(t)
            BY <1>1, <1>4, <1>7, ColumnTypes DEF WorkAfter, SameSrv
        <2>2. dn \in Seq(SrvMessages) /\ up \in Seq(CtlMessages)  BY SlotTypes
        <2>3. msgs = <<Matrix(w.li_frame), Lines(w)>>  BY <1>4
        <2> HIDE DEF up, dn, w, msgs
        <2>4. ASSUME SlotOK(TRUE, sr_state[s], sr_work[s], sr_curframe[s], "up", caller[s],
                            up, dn, seen_gettrees[s], view[s], grid[s])
              PROVE  SlotOK(TRUE, sr_state'[s], sr_work'[s], sr_curframe'[s], "up", caller[s],
                            up, dn \o msgs, seen_gettrees[s], view[s], grid[s])
            <3>1. /\ sr_state[s] = "READY" /\ sr_work[s] = NoWork
                  /\ w \in Spans /\ w.li_frame \notin NeedTree
                BY <1>2, <1>4
            <3>2. SlotOK(TRUE, sr_state[s], w, w.li_frame, "up", caller[s],
                         up, dn \o <<Matrix(w.li_frame), Lines(w)>>,
                         seen_gettrees[s], view[s], grid[s])
                BY ONLY <2>2, <2>4, <3>1, MatrixSent
            <3>3. QED  BY <2>1, <2>3, <3>2
        <2>5. Steady(sr_state'[s], sr_work'[s], sr_curframe'[s]) /\ sr_state'[s] # "UNUSED"
            BY <1>4, <2>1 DEF Steady
        <2>6. sr_state[s] \in {"VERSOK", "NEED_TREE", "READY"}  BY <1>4
        <2>7. QED  BY <1>4, <1>5, <1>6, <2>1, <2>4, <2>5, <2>6, AskKeepsConv DEF up, dn
    <1>8. CASE k # 2
        <2>1. Drop(s, TodoAfter(lump), WorkAfter(s, lump))  BY <1>1, <1>8
        <2>2. link[s] # "up"  BY <1>1, <1>8 DEF Sent
        <2>3. /\ sr_state'[s] = "CLOSING" /\ sr_curframe'[s] = NoFrame
              /\ \A t \in Slots \ {s} : SameSrv(t)
            BY <1>4, <2>1, DropAssigned
        <2>4. sr_state[s] \in {"VERSOK", "NEED_TREE", "READY"}  BY <1>4
        <2> HIDE DEF msgs
        <2>5. QED  BY <1>4, <1>5, <1>6, <2>2, <2>3, <2>4, SendFailsKeepsConv
    <1>9. QED  BY <1>7, <1>8

LEMMA TaskMatrixFailsKeepsConv ==
    ASSUME IInv, pc = "task", NEW s \in Slots, NEW lump \in Lumps, TaskMatrixFails(s, lump),
           \A t \in Slots : Conv(t), UNCHANGED rtsrvVars
    PROVE  \A t \in Slots : Conv(t)'
    <1>1. Hungry(s) /\ Returned(s, 0) /\ Send(s, 0, 2, <<>>) /\ 0 \in Sent(s, 2)
        BY DEF TaskMatrixFails
    <1>2. /\ sr_pc[s] /\ UNCHANGED sr_pc
          /\ sr_state[s] \in {"NEED_TREE", "READY"} /\ sr_work[s] = NoWork
        BY <1>1, HungrySlot
    <1>3. link[s] # "up"  BY <1>1 DEF Sent
    <1>4. /\ sr_state'[s] = "CLOSING" /\ sr_curframe'[s] = NoFrame
          /\ \A t \in Slots \ {s} : SameSrv(t)
        BY <1>2, ColumnTypes DEF TaskMatrixFails, statechange, WorkAfter, SameSrv
    <1>5. <<>> \in Seq(SrvMessages)  OBVIOUS
    <1>6. sr_state[s] \in {"VERSOK", "NEED_TREE", "READY"}  BY <1>2
    <1>7. QED  BY <1>1, <1>2, <1>3, <1>4, <1>5, <1>6, SendFailsKeepsConv

LEMMA TaskServerKeepsConv ==
    ASSUME IInv, NEW s \in Slots, task_server(s), \A t \in Slots : Conv(t), UNCHANGED rtsrvVars
    PROVE  \A t \in Slots : Conv(t)'
    <1>1. CASE TaskNothing(s)
        <2>1. UNCHANGED sr_pc  BY <1>1 DEF TaskNothing, Returned
        <2>2. UNCHANGED <<sr_state, sr_work, sr_curframe, netVars>>  BY <1>1 DEF TaskNothing
        <2>3. QED  BY <2>1, <2>2, QuietStepKeepsConv DEF netVars
    <1>2. CASE TaskTardy(s)
        <2>1. sr_pc[s] /\ UNCHANGED sr_pc /\ Dropped(s) /\ UNCHANGED netVars
            BY <1>2 DEF TaskTardy, Returned, Comes, Open
        <2>2. QED  BY <2>1, DropKeepsConv DEF netVars
    <1>3. QED
        BY <1>1, <1>2, TaskGettreesKeepsConv, TaskLinesKeepsConv, TaskMatrixKeepsConv,
           TaskMatrixFailsKeepsConv
        DEF task_server

-----------------------------------------------------------------------------
(* The other steps of the dispatcher.                                      *)

LEMMA FinalCloseKeepsConv ==
    ASSUME IInv, NEW s \in Slots, \A t \in Slots : Conv(t), FinalClose(s), Forget(s)
    PROVE  \A t \in Slots : Conv(t)'
    <1> DEFINE dn == WorkHead[s] \o toSrv[s]
               up == inbuf[s] \o toCtl[s]
    <1>1. sr_pc[s] /\ sr_state[s] = "CLOSING"  BY DEF FinalClose, Comes, Transits, Open
    <1>2. SlotOK(TRUE, "CLOSING", sr_work[s], sr_curframe[s], link[s], caller[s],
                 up, dn, seen_gettrees[s], view[s], grid[s])
        BY <1>1, OpenConv
    <1>3. /\ sr_pc'[s] = FALSE /\ sr_state'[s] = "UNUSED"
          /\ UNCHANGED <<sr_work, sr_curframe>>
          /\ link'[s] = "none" /\ caller'[s] = "none"
          /\ inbuf'[s] = <<>> /\ toCtl'[s] = <<>> /\ toSrv'[s] = <<>> /\ WorkHead'[s] = <<>>
        BY ColumnTypes DEF FinalClose, Forget, statechange
    <1>4. \A t \in Slots \ {s} : SameSrv(t)
        BY ColumnTypes DEF FinalClose, statechange, SameSrv
    <1>5. \A t \in Slots \ {s} : SameNet(t) /\ SameRtsrv(t)
        BY ColumnTypes DEF FinalClose, Forget, SameNet, SameRtsrv
    <1>6. <<>> \o <<>> = <<>>  OBVIOUS
    <1> HIDE DEF up, dn
    <1>7. SlotOK(FALSE, "UNUSED", sr_work[s], sr_curframe[s], "none", "none", <<>>, <<>>,
                 seen_gettrees'[s], view'[s], grid'[s])
        BY ONLY <1>2, ClosedSlot
    <1>8. Conv(s)'  BY <1>3, <1>6, <1>7 DEF Conv
    <1>9. ASSUME NEW t \in Slots \ {s} PROVE Conv(t)'
        BY <1>4, <1>5, SameConv
    <1>10. QED  BY <1>8, <1>9

LEMMA FrameIsDoneKeepsConv ==
    ASSUME IInv, NEW i \in DOMAIN FrameHead, FrameIsDone(i), \A t \in Slots : Conv(t),
           UNCHANGED rtsrvVars
    PROVE  \A t \in Slots : Conv(t)'
    <1>1. SUFFICES ASSUME NEW t \in Slots PROVE Conv(t)'
        OBVIOUS
    <1>2. /\ UNCHANGED <<sr_pc, sr_state, sr_work, caller, link, inbuf, toCtl, toSrv>>
          /\ sr_curframe'[t] = sr_curframe[t] \/ (sr_pc[t] /\ sr_curframe'[t] = NoFrame)
        BY DEF FrameIsDone, netVars
    <1>3. CASE sr_curframe'[t] = sr_curframe[t]
        <2>1. SameNet(t) /\ SameRtsrv(t) /\ SameSrv(t)
            BY <1>2, <1>3 DEF SameNet, SameRtsrv, SameSrv, rtsrvVars
        <2>2. QED  BY <2>1, SameConv
    <1>4. CASE sr_pc[t] /\ sr_curframe'[t] = NoFrame
        <2> DEFINE dn == WorkHead[t] \o toSrv[t]
                   up == inbuf[t] \o toCtl[t]
        <2>1. sr_pc[t] = TRUE  BY <1>4, SlotTypes
        <2>2. SlotOK(sr_pc[t], sr_state[t], sr_work[t], sr_curframe[t], link[t], caller[t],
                     up, dn, seen_gettrees[t], view[t], grid[t])
            BY DEF Conv
        <2> HIDE DEF up, dn
        <2>3. SlotOK(sr_pc[t], sr_state[t], sr_work[t], NoFrame, link[t], caller[t],
                     up, dn, seen_gettrees[t], view[t], grid[t])
            BY ONLY <2>1, <2>2, FrameForgotten
        <2>4. QED  BY <1>2, <1>4, <2>3 DEF Conv, up, dn, rtsrvVars
    <1>5. QED  BY <1>2, <1>3, <1>4

LEMMA RemrtStepKeepsConv ==
    ASSUME IInv, Loop, NoRestarts, \A t \in Slots : Conv(t), UNCHANGED rtsrvVars, RemrtStep
    PROVE  \A t \in Slots : Conv(t)'
    <1>1. CASE \/ ProcessEnd \/ Select \/ NoClient \/ SuckEnd \/ TransitionsEnd
               \/ FramesEnd \/ FrameBegin \/ FrameScanEnd \/ PassEnd
        <2>1. UNCHANGED <<srvVars, caller, link, inbuf, toCtl, toSrv>>
            BY <1>1 DEF ProcessEnd, Select, NoClient, SuckEnd, TransitionsEnd, FramesEnd,
                        FrameBegin, FrameScanEnd, PassEnd, netVars
        <2>2. QED  BY <2>1, QuietStepKeepsConv DEF srvVars
    <1>2. CASE \E s \in Slots : \/ ph_version(s)
                                \/ ph_dirbuild_reply(s)
                                \/ ph_gettrees_reply(s)
                                \/ ph_pixels(s)
                                \/ ph_cmd(s)
                                \/ addclient(s)
                                \/ Suck(s)
                                \/ SendDirbuild(s)
                                \/ task_server(s)
        BY <1>2, RepliesKeepConv, PixelsKeepConv, CmdKeepsConv, AddclientKeepsConv,
           SuckKeepsConv, SendDirbuildKeepsConv, TaskServerKeepsConv
    <1>3. QED
        BY <1>1, <1>2, CommandKeepsConv, FrameIsDoneKeepsConv DEF RemrtStep


-----------------------------------------------------------------------------
(* The worker's steps.                                                     *)

(* A connection that is up is one of servers[].                            *)
LEMMA LiveSlot ==
    ASSUME IInv, NEW s \in Slots, Conv(s), link[s] = "up"
    PROVE  /\ sr_pc[s] = TRUE
           /\ SlotOK(TRUE, sr_state[s], sr_work[s], sr_curframe[s], "up", caller[s],
                     inbuf[s] \o toCtl[s], WorkHead[s] \o toSrv[s],
                     seen_gettrees[s], view[s], grid[s])
    <1>1. sr_pc[s] # FALSE  BY DEF Conv, SlotOK, Closed
    <1>2. sr_pc[s] = TRUE  BY <1>1, SlotTypes
    <1>3. QED  BY <1>2 DEF Conv

(* A step of the world of slot s alone.                                    *)
LEMMA OutsideKeepsConv ==
    ASSUME IInv, NEW s \in Slots, \A t \in Slots : Conv(t), UNCHANGED remrtVars,
           \A t \in Slots \ {s} : SameNet(t) /\ SameRtsrv(t), sr_pc[s] = TRUE,
           SlotOK(TRUE, sr_state[s], sr_work[s], sr_curframe[s], link'[s], caller'[s],
                  inbuf'[s] \o toCtl'[s], WorkHead'[s] \o toSrv'[s],
                  seen_gettrees'[s], view'[s], grid'[s])
    PROVE  \A t \in Slots : Conv(t)'
    <1>1. UNCHANGED <<sr_pc, sr_state, sr_work, sr_curframe>>
        BY DEF remrtVars, srvVars
    <1>2. Conv(s)'  BY <1>1 DEF Conv
    <1>3. ASSUME NEW t \in Slots \ {s} PROVE Conv(t)'
        <2>1. SameSrv(t)  BY <1>1 DEF SameSrv
        <2>2. QED  BY <2>1, SameConv
    <1>4. QED  BY <1>2, <1>3

LEMMA SpeakKeepsConv ==
    ASSUME IInv, NEW s \in Slots, \A t \in Slots : Conv(t), UNCHANGED remrtVars, Speak(s)
    PROVE  \A t \in Slots : Conv(t)'
    <1> DEFINE dn == WorkHead[s] \o toSrv[s]
               up == inbuf[s] \o toCtl[s]
               m == IF caller[s] \in CommandNames
                    THEN [type |-> "CMD", cmd |-> caller[s]]
                    ELSE [type |-> "VERSION", ok |-> caller[s] = "rtsrv"]
               up2 == inbuf[s] \o Append(toCtl[s], m)
    <1>1. /\ link[s] = "up" /\ caller[s] \in {"rtsrv", "stale"} \cup CommandNames
          /\ UNCHANGED <<link, inbuf, toSrv, rtsrvVars>>
        BY DEF Speak
    <1>2. /\ sr_pc[s] = TRUE
          /\ SlotOK(TRUE, sr_state[s], sr_work[s], sr_curframe[s], "up", caller[s],
                    up, dn, seen_gettrees[s], view[s], grid[s])
        BY <1>1, LiveSlot
    <1>3. caller[s] # "none" /\ caller[s] # "leaving"
        BY <1>1 DEF CommandNames
    <1>4. up = <<>>
        BY <1>2, <1>3 DEF SlotOK, Live, Unheard
    <1>5. m \in CtlMessages
        <2>1. CASE caller[s] \in CommandNames
            BY <2>1 DEF CtlMessages
        <2>2. CASE caller[s] \notin CommandNames
            <3>1. (caller[s] = "rtsrv") \in BOOLEAN  OBVIOUS
            <3>2. QED  BY <2>2, <3>1 DEF CtlMessages
        <2>3. QED  BY <2>1, <2>2
    <1>6. inbuf[s] \in Seq(CtlMessages) /\ toCtl[s] \in Seq(CtlMessages)  BY SlotTypes
    <1>7. /\ toCtl'[s] = Append(toCtl[s], m)
          /\ caller'[s] = IF caller[s] \in CommandNames THEN "leaving" ELSE "none"
          /\ \A t \in Slots \ {s} : SameNet(t)
        BY ColumnTypes DEF Speak, SameNet
    <1>8. \A t \in Slots \ {s} : SameRtsrv(t)  BY <1>1 DEF SameRtsrv, rtsrvVars
    <1> HIDE DEF m
    <1>9. up2 # <<>> /\ Len(up2) = 1 /\ up2[1] = m
        <2> DEFINE a == inbuf[s]
                   b == toCtl[s]
        <2>1. a \in Seq(CtlMessages) /\ b \in Seq(CtlMessages) /\ a \o b = <<>>
            BY <1>4, <1>6
        <2> HIDE DEF a, b
        <2>2. a \o Append(b, m) # <<>> /\ Len(a \o Append(b, m)) = 1 /\ (a \o Append(b, m))[1] = m
            BY <1>5, <2>1, FirstAnswer
        <2>3. QED  BY <2>2 DEF a, b
    <1>10. CASE caller[s] \in CommandNames
        <2>1. caller[s] \in Commands
            <3>1. caller[s] \in Whoever  BY <1>2 DEF SlotOK
            <3>2. QED  BY <1>10, <3>1 DEF Whoever, CommandNames
        <2>2. m.type = "CMD" /\ m.cmd \in Commands  BY <1>10, <2>1 DEF m
        <2> HIDE DEF up, dn, up2
        <2>3. SlotOK(TRUE, sr_state[s], sr_work[s], sr_curframe[s], "up", "leaving",
                     up2, dn, seen_gettrees[s], view[s], grid[s])
            BY <1>2, <1>3, <1>9, <2>2, CommandSaid
        <2>4. SlotOK(TRUE, sr_state[s], sr_work[s], sr_curframe[s], link'[s], caller'[s],
                     inbuf'[s] \o toCtl'[s], WorkHead'[s] \o toSrv'[s],
                     seen_gettrees'[s], view'[s], grid'[s])
            BY <1>1, <1>7, <1>10, <2>3 DEF dn, up2, rtsrvVars
        <2>5. QED  BY <1>2, <1>7, <1>8, <2>4, OutsideKeepsConv
    <1>11. CASE caller[s] \notin CommandNames
        <2>1. m.type = "VERSION"  BY <1>11 DEF m
        <2> HIDE DEF up, dn, up2
        <2>2. SlotOK(TRUE, sr_state[s], sr_work[s], sr_curframe[s], "up", "none",
                     up2, dn, seen_gettrees[s], view[s], grid[s])
            BY <1>2, <1>3, <1>9, <2>1, VersionSaid
        <2>3. SlotOK(TRUE, sr_state[s], sr_work[s], sr_curframe[s], link'[s], caller'[s],
                     inbuf'[s] \o toCtl'[s], WorkHead'[s] \o toSrv'[s],
                     seen_gettrees'[s], view'[s], grid'[s])
            BY <1>1, <1>7, <1>11, <2>2 DEF dn, up2, rtsrvVars
        <2>4. QED  BY <1>2, <1>7, <1>8, <2>3, OutsideKeepsConv
    <1>12. QED  BY <1>10, <1>11

(* A connection that is lost, with its worker or without.                  *)
LEMMA LostKeepsConv ==
    ASSUME IInv, NEW s \in Slots, \A t \in Slots : Conv(t), UNCHANGED remrtVars,
           \A t \in Slots \ {s} : SameNet(t) /\ SameRtsrv(t),
           link[s] = "up", link'[s] \in {"fin", "rst"}, caller'[s] = caller[s],
           inbuf'[s] = inbuf[s], toCtl'[s] = toCtl[s] \/ toCtl'[s] = <<>>
    PROVE  \A t \in Slots : Conv(t)'
    <1> DEFINE dn == WorkHead[s] \o toSrv[s]
               up == inbuf[s] \o toCtl[s]
               dn2 == WorkHead'[s] \o toSrv'[s]
               up2 == inbuf'[s] \o toCtl'[s]
    <1>1. /\ sr_pc[s] = TRUE
          /\ SlotOK(TRUE, sr_state[s], sr_work[s], sr_curframe[s], "up", caller[s],
                    up, dn, seen_gettrees[s], view[s], grid[s])
        BY LiveSlot
    <1>2. up2 \in {up, <<>>}
        <2>1. CASE toCtl'[s] = toCtl[s]
            BY <2>1
        <2>2. CASE toCtl'[s] = <<>>
            <3>1. inbuf[s] \in Seq(CtlMessages) /\ toCtl[s] \in Seq(CtlMessages)
                BY SlotTypes
            <3>2. up2 = inbuf[s]
                BY <2>2, <3>1, ConcatEmptySeq
            <3>3. CASE inbuf[s] = <<>>
                BY <3>2, <3>3
            <3>4. CASE inbuf[s] # <<>>
                <4>1. up # <<>>  BY <3>1, <3>4, ConcatEqualIffEmpty
                <4>2. Len(up) = 1  BY <1>1, <4>1 DEF SlotOK
                <4>3. toCtl[s] = <<>>  BY <3>1, <3>4, <4>2, OnlyMessage
                <4>4. QED  BY <3>1, <3>2, <4>3, ConcatEmptySeq
            <3>5. QED  BY <3>3, <3>4
        <2>3. QED  BY <2>1, <2>2
    <1> HIDE DEF up, dn, up2, dn2
    <1>3. link'[s] \notin {"up", "none"}  OBVIOUS
    <1>4. SlotOK(TRUE, sr_state[s], sr_work[s], sr_curframe[s], link'[s], caller[s],
                 up2, dn2, seen_gettrees'[s], view'[s], grid'[s])
        BY <1>1, <1>2, <1>3 DEF SlotOK
    <1>5. SlotOK(TRUE, sr_state[s], sr_work[s], sr_curframe[s], link'[s], caller'[s],
                 inbuf'[s] \o toCtl'[s], WorkHead'[s] \o toSrv'[s],
                 seen_gettrees'[s], view'[s], grid'[s])
        BY <1>4 DEF up2, dn2
    <1>6. QED  BY <1>1, <1>5, OutsideKeepsConv

LEMMA HangupIsLost == \A u : Hangup(u) \in {"fin", "rst"}
    BY DEF Hangup

LEMMA OneShotExitKeepsConv ==
    ASSUME IInv, NEW s \in Slots, \A t \in Slots : Conv(t), UNCHANGED remrtVars,
           OneShotExit(s)
    PROVE  \A t \in Slots : Conv(t)'
    <1>1. /\ link[s] = "up" /\ link'[s] \in {"fin", "rst"}
          /\ caller'[s] = caller[s] /\ inbuf'[s] = inbuf[s] /\ toCtl'[s] = toCtl[s]
          /\ \A t \in Slots \ {s} : SameNet(t) /\ SameRtsrv(t)
        BY ColumnTypes, HangupIsLost DEF OneShotExit, SameNet, SameRtsrv, rtsrvVars
    <1>2. QED  BY <1>1, LostKeepsConv

LEMMA EnvironmentKeepsConv ==
    ASSUME IInv, \A t \in Slots : Conv(t), Environment
    PROVE  \A t \in Slots : Conv(t)'
    <1>1. CASE (CallRtsrv \/ CallCommand) /\ UNCHANGED rtsrvVars /\ UNCHANGED remrtVars
        <2>1. UNCHANGED <<caller, link, inbuf, toCtl, toSrv>>
            BY <1>1 DEF CallRtsrv, CallCommand
        <2>2. UNCHANGED <<sr_pc, sr_state, sr_work, sr_curframe>>
            BY <1>1 DEF remrtVars, srvVars
        <2>3. QED  BY <1>1, <2>1, <2>2, QuietStepKeepsConv
    <1>2. CASE \E s \in Slots : (RtsrvExit(s) \/ NetworkReset(s)) /\ UNCHANGED remrtVars
        <2>1. PICK s \in Slots : (RtsrvExit(s) \/ NetworkReset(s)) /\ UNCHANGED remrtVars
            BY <1>2
        <2>2. /\ link[s] = "up" /\ link'[s] \in {"fin", "rst"}
              /\ caller'[s] = caller[s] /\ inbuf'[s] = inbuf[s]
              /\ toCtl'[s] = toCtl[s] \/ toCtl'[s] = <<>>
            BY <2>1, ColumnTypes, HangupIsLost DEF RtsrvExit, NetworkReset
        <2>3. \A t \in Slots \ {s} : SameNet(t) /\ SameRtsrv(t)
            BY <2>1, ColumnTypes DEF RtsrvExit, NetworkReset, Forget, SameNet, SameRtsrv
        <2>4. QED  BY <2>1, <2>2, <2>3, LostKeepsConv
    <1>3. QED  BY <1>1, <1>2 DEF Environment


(* The worker reads a message: handled at once, or queued.                 *)
LEMMA DirbuildKeepsConv ==
    ASSUME IInv, NEW s \in Slots, \A t \in Slots : Conv(t), UNCHANGED remrtVars,
           ph_dirbuild(s)
    PROVE  \A t \in Slots : Conv(t)'
    <1> DEFINE a == WorkHead[s]
               b == toSrv[s]
               in == inbuf[s]
               to == toCtl[s]
               m == [type |-> "DIRBUILD_REPLY"]
               up2 == in \o toCtl'[s]
    <1>1. /\ link[s] = "up" /\ b # <<>> /\ Head(b).type = "DIRBUILD"
          /\ UNCHANGED <<link, caller, inbuf, WorkHead, view, grid, seen_gettrees>>
        BY DEF ph_dirbuild, Reads
    <1>2. /\ sr_pc[s] = TRUE
          /\ SlotOK(TRUE, sr_state[s], sr_work[s], sr_curframe[s], "up", caller[s],
                    in \o to, a \o b, seen_gettrees[s], view[s], grid[s])
        BY <1>1, LiveSlot
    <1>3. /\ a \in Seq(SrvMessages) /\ b \in Seq(SrvMessages)
          /\ in \in Seq(CtlMessages) /\ to \in Seq(CtlMessages)
        BY SlotTypes
    <1>4. toSrv'[s] = Tail(b) /\ \A t \in Slots \ {s} : SameNet(t) /\ SameRtsrv(t)
        BY ColumnTypes DEF ph_dirbuild, Reads, Reply, SameNet, SameRtsrv
    <1>5. m \in CtlMessages /\ m.type = "DIRBUILD_REPLY"  BY DEF CtlMessages
    <1>6. toCtl'[s] = to \/ toCtl'[s] = Append(to, m)
        BY ColumnTypes DEF ph_dirbuild, Reply
    <1> HIDE DEF a, b, in, to, m
    <1>7. Listens(caller[s], in \o to)
        <2>1. Head(b).type # "OPTIONS"  BY <1>1
        <2>2. QED  BY ONLY <1>1, <1>2, <1>3, <2>1, UnreadRequest
    <1>8. up2 = in \o to \/ (Len(up2) = 1 /\ up2 # <<>> /\ up2[1].type = "DIRBUILD_REPLY")
        <2>1. CASE toCtl'[s] = to
            BY <2>1
        <2>2. CASE toCtl'[s] = Append(to, m)
            <3>1. /\ in \o to = <<>> /\ m \in CtlMessages
                  /\ in \in Seq(CtlMessages) /\ to \in Seq(CtlMessages)
                BY <1>3, <1>5, <1>7 DEF Listens
            <3>2. /\ in \o Append(to, m) # <<>> /\ Len(in \o Append(to, m)) = 1
                  /\ (in \o Append(to, m))[1] = m
                BY <3>1, FirstAnswer
            <3>3. QED  BY <1>5, <2>2, <3>2
        <2>3. QED  BY <1>6, <2>1, <2>2
    <1> HIDE DEF up2
    <1>9. SlotOK(TRUE, sr_state[s], sr_work[s], sr_curframe[s], "up", caller[s],
                 up2, a \o Tail(b), seen_gettrees[s], view[s], grid[s])
        BY ONLY <1>1, <1>2, <1>3, <1>8, DirbuildDone
    <1>10. SlotOK(TRUE, sr_state[s], sr_work[s], sr_curframe[s], link'[s], caller'[s],
                  inbuf'[s] \o toCtl'[s], WorkHead'[s] \o toSrv'[s],
                  seen_gettrees'[s], view'[s], grid'[s])
        BY <1>1, <1>4, <1>9 DEF a, in, up2
    <1>11. QED  BY <1>2, <1>4, <1>10, OutsideKeepsConv

(* Nobody is told to restart.                                              *)
LEMMA NoRestartRead ==
    ASSUME IInv, NEW s \in Slots, Conv(s)
    PROVE  ~ph_restart(s)
    <1> DEFINE a == WorkHead[s]
               b == toSrv[s]
               up == inbuf[s] \o toCtl[s]
    <1>1. SUFFICES ASSUME ph_restart(s) PROVE FALSE
        OBVIOUS
    <1>2. link[s] = "up" /\ b # <<>> /\ Head(b).type = "RESTART"
        BY <1>1 DEF ph_restart, Reads
    <1>3. SlotOK(TRUE, sr_state[s], sr_work[s], sr_curframe[s], "up", caller[s],
                 up, a \o b, seen_gettrees[s], view[s], grid[s])
        BY <1>2, LiveSlot
    <1>4. a \in Seq(SrvMessages) /\ b \in Seq(SrvMessages)
        BY SlotTypes
    <1> HIDE DEF a, b, up
    <1>5. Head(b).type # "OPTIONS"  BY <1>2
    <1>6. Head(b).type \in {"DIRBUILD", "MATRIX", "GETTREES", "LINES"}
        BY ONLY <1>2, <1>3, <1>4, <1>5, UnreadRequest
    <1>7. QED  BY <1>2, <1>6

LEMMA EnqueueKeepsConv ==
    ASSUME IInv, NEW s \in Slots, \A t \in Slots : Conv(t), UNCHANGED remrtVars,
           ph_enqueue(s)
    PROVE  \A t \in Slots : Conv(t)'
    <1> DEFINE a == WorkHead[s]
               b == toSrv[s]
    <1>1. /\ link[s] = "up" /\ b # <<>>
          /\ UNCHANGED <<link, caller, inbuf, toCtl, view, grid, seen_gettrees>>
        BY DEF ph_enqueue, Reads
    <1>2. /\ sr_pc[s] = TRUE
          /\ SlotOK(TRUE, sr_state[s], sr_work[s], sr_curframe[s], "up", caller[s],
                    inbuf[s] \o toCtl[s], a \o b, seen_gettrees[s], view[s], grid[s])
        BY <1>1, LiveSlot
    <1>3. a \in Seq(SrvMessages) /\ b \in Seq(SrvMessages)
        BY SlotTypes
    <1>4. /\ toSrv'[s] = Tail(b) /\ WorkHead'[s] = Append(a, Head(b))
          /\ \A t \in Slots \ {s} : SameNet(t) /\ SameRtsrv(t)
        BY ColumnTypes DEF ph_enqueue, Reads, SameNet, SameRtsrv
    <1> HIDE DEF a, b
    <1>5. Append(a, Head(b)) \o Tail(b) = a \o b
        BY <1>1, <1>3, TakenOver
    <1>6. SlotOK(TRUE, sr_state[s], sr_work[s], sr_curframe[s], link'[s], caller'[s],
                 inbuf'[s] \o toCtl'[s], WorkHead'[s] \o toSrv'[s],
                 seen_gettrees'[s], view'[s], grid'[s])
        BY <1>1, <1>2, <1>4, <1>5
    <1>7. QED  BY <1>2, <1>4, <1>6, OutsideKeepsConv

(* The main loop takes the first message of the list.                      *)
LEMMA TakesColumns ==
    ASSUME IInv, NEW s \in Slots, Conv(s), NEW type, Takes(s, type)
    PROVE  /\ link[s] = "up" /\ sr_pc[s] = TRUE
           /\ UNCHANGED <<caller, link, inbuf, toSrv>>
           /\ WorkHead[s] \o toSrv[s] # <<>>
           /\ Head(WorkHead[s] \o toSrv[s]) = Head(WorkHead[s])
           /\ Head(WorkHead[s]).type = type
           /\ WorkHead'[s] \o toSrv'[s] = Tail(WorkHead[s] \o toSrv[s])
           /\ \A t \in Slots \ {s} : WorkHead'[t] = WorkHead[t]
           /\ SlotOK(TRUE, sr_state[s], sr_work[s], sr_curframe[s], "up", caller[s],
                     inbuf[s] \o toCtl[s], WorkHead[s] \o toSrv[s],
                     seen_gettrees[s], view[s], grid[s])
    <1>1. /\ link[s] = "up" /\ WorkHead[s] # <<>> /\ Head(WorkHead[s]).type = type
          /\ UNCHANGED <<caller, link, inbuf, toSrv>>
        BY DEF Takes
    <1>2. /\ WorkHead'[s] = Tail(WorkHead[s])
          /\ \A t \in Slots \ {s} : WorkHead'[t] = WorkHead[t]
        BY ColumnTypes DEF Takes
    <1>3. /\ WorkHead[s] \o toSrv[s] # <<>>
          /\ Head(WorkHead[s] \o toSrv[s]) = Head(WorkHead[s])
          /\ Tail(WorkHead[s]) \o toSrv[s] = Tail(WorkHead[s] \o toSrv[s])
        <2> DEFINE a == WorkHead[s]
                   b == toSrv[s]
        <2>1. a \in Seq(SrvMessages) /\ b \in Seq(SrvMessages) /\ a # <<>>
            BY <1>1, SlotTypes
        <2> HIDE DEF a, b
        <2>2. a \o b # <<>> /\ Head(a \o b) = Head(a) /\ Tail(a) \o b = Tail(a \o b)
            BY <2>1, TakenFirst
        <2>3. QED  BY <2>2 DEF a, b
    <1>4. /\ sr_pc[s] = TRUE
          /\ SlotOK(TRUE, sr_state[s], sr_work[s], sr_curframe[s], "up", caller[s],
                    inbuf[s] \o toCtl[s], WorkHead[s] \o toSrv[s],
                    seen_gettrees[s], view[s], grid[s])
        BY <1>1, LiveSlot
    <1>5. WorkHead'[s] \o toSrv'[s] = Tail(WorkHead[s] \o toSrv[s])
        BY <1>1, <1>2, <1>3
    <1>6. QED  BY <1>1, <1>2, <1>3, <1>4, <1>5

LEMMA MatrixKeepsConv ==
    ASSUME IInv, NEW s \in Slots, \A t \in Slots : Conv(t), UNCHANGED remrtVars,
           ph_matrix(s)
    PROVE  \A t \in Slots : Conv(t)'
    <1> DEFINE dn == WorkHead[s] \o toSrv[s]
               up == inbuf[s] \o toCtl[s]
    <1>1. Takes(s, "MATRIX") /\ UNCHANGED <<toCtl, seen_gettrees, grid>>
        BY DEF ph_matrix
    <1>2. /\ link[s] = "up" /\ sr_pc[s] = TRUE /\ UNCHANGED <<caller, link, inbuf, toSrv>>
          /\ dn # <<>> /\ Head(dn) = Head(WorkHead[s]) /\ Head(dn).type = "MATRIX"
          /\ WorkHead'[s] \o toSrv'[s] = Tail(dn)
          /\ \A t \in Slots \ {s} : WorkHead'[t] = WorkHead[t]
          /\ SlotOK(TRUE, sr_state[s], sr_work[s], sr_curframe[s], "up", caller[s],
                    up, dn, seen_gettrees[s], view[s], grid[s])
        BY <1>1, TakesColumns
    <1>3. view'[s] = Head(dn).frame /\ \A t \in Slots \ {s} : view'[t] = view[t]
        BY <1>2, ColumnTypes DEF ph_matrix
    <1>4. \A t \in Slots \ {s} : SameNet(t) /\ SameRtsrv(t)
        BY <1>1, <1>2, <1>3 DEF SameNet, SameRtsrv
    <1>5. dn \in Seq(SrvMessages)  BY SlotTypes
    <1> HIDE DEF up, dn
    <1>6. SlotOK(TRUE, sr_state[s], sr_work[s], sr_curframe[s], "up", caller[s],
                 up, Tail(dn), seen_gettrees[s], Head(dn).frame, grid[s])
        BY ONLY <1>2, <1>5, MatrixDone
    <1>7. SlotOK(TRUE, sr_state[s], sr_work[s], sr_curframe[s], link'[s], caller'[s],
                 inbuf'[s] \o toCtl'[s], WorkHead'[s] \o toSrv'[s],
                 seen_gettrees'[s], view'[s], grid'[s])
        BY <1>1, <1>2, <1>3, <1>6 DEF up
    <1>8. QED  BY <1>2, <1>4, <1>7, OutsideKeepsConv

LEMMA OptionsKeepConv ==
    ASSUME IInv, NEW s \in Slots, \A t \in Slots : Conv(t), UNCHANGED remrtVars,
           ph_options(s)
    PROVE  \A t \in Slots : Conv(t)'
    <1> DEFINE dn == WorkHead[s] \o toSrv[s]
               up == inbuf[s] \o toCtl[s]
    <1>1. Takes(s, "OPTIONS") /\ UNCHANGED <<toCtl, seen_gettrees, view, grid>>
        BY DEF ph_options
    <1>2. /\ link[s] = "up" /\ sr_pc[s] = TRUE /\ UNCHANGED <<caller, link, inbuf, toSrv>>
          /\ dn # <<>> /\ Head(dn) = Head(WorkHead[s]) /\ Head(dn).type = "OPTIONS"
          /\ WorkHead'[s] \o toSrv'[s] = Tail(dn)
          /\ \A t \in Slots \ {s} : WorkHead'[t] = WorkHead[t]
          /\ SlotOK(TRUE, sr_state[s], sr_work[s], sr_curframe[s], "up", caller[s],
                    up, dn, seen_gettrees[s], view[s], grid[s])
        BY <1>1, TakesColumns
    <1>3. \A t \in Slots \ {s} : SameNet(t) /\ SameRtsrv(t)
        BY <1>1, <1>2 DEF SameNet, SameRtsrv
    <1>4. dn \in Seq(SrvMessages)  BY SlotTypes
    <1> HIDE DEF up, dn
    <1>5. SlotOK(TRUE, sr_state[s], sr_work[s], sr_curframe[s], "up", caller[s],
                 up, Tail(dn), seen_gettrees[s], view[s], grid[s])
        BY ONLY <1>2, <1>4, OptionDone
    <1>6. SlotOK(TRUE, sr_state[s], sr_work[s], sr_curframe[s], link'[s], caller'[s],
                 inbuf'[s] \o toCtl'[s], WorkHead'[s] \o toSrv'[s],
                 seen_gettrees'[s], view'[s], grid'[s])
        BY <1>1, <1>2, <1>5 DEF up
    <1>7. QED  BY <1>2, <1>3, <1>6, OutsideKeepsConv


LEMMA GettreesKeepsConv ==
    ASSUME IInv, NEW s \in Slots, \A t \in Slots : Conv(t), UNCHANGED remrtVars,
           ph_gettrees(s)
    PROVE  \A t \in Slots : Conv(t)'
    <1> DEFINE dn == WorkHead[s] \o toSrv[s]
               in == inbuf[s]
               to == toCtl[s]
               m == [type |-> "GETTREES_REPLY"]
               up2 == <<m>>
    <1>1. Takes(s, "GETTREES")  BY DEF ph_gettrees
    <1>2. /\ link[s] = "up" /\ sr_pc[s] = TRUE /\ UNCHANGED <<caller, link, inbuf, toSrv>>
          /\ dn # <<>> /\ Head(dn) = Head(WorkHead[s]) /\ Head(dn).type = "GETTREES"
          /\ WorkHead'[s] \o toSrv'[s] = Tail(dn)
          /\ \A t \in Slots \ {s} : WorkHead'[t] = WorkHead[t]
          /\ SlotOK(TRUE, sr_state[s], sr_work[s], sr_curframe[s], "up", caller[s],
                    in \o to, dn, seen_gettrees[s], view[s], grid[s])
        BY <1>1, TakesColumns
    <1>3. /\ toCtl'[s] = Append(to, m) /\ UNCHANGED view
          /\ seen_gettrees'[s] = TRUE /\ grid'[s] = view[s]
          /\ \A t \in Slots \ {s} : /\ toCtl'[t] = toCtl[t] /\ grid'[t] = grid[t]
                                    /\ seen_gettrees'[t] = seen_gettrees[t]
        BY ColumnTypes DEF ph_gettrees, Reply
    <1>4. \A t \in Slots \ {s} : SameNet(t) /\ SameRtsrv(t)
        BY <1>2, <1>3 DEF SameNet, SameRtsrv
    <1>5. dn \in Seq(SrvMessages) /\ in \in Seq(CtlMessages) /\ to \in Seq(CtlMessages)
        BY SlotTypes
    <1>6. m \in CtlMessages  BY DEF CtlMessages
    <1>7. Len(up2) = 1 /\ up2 # <<>> /\ up2[1].type = "GETTREES_REPLY"  OBVIOUS
    <1> HIDE DEF in, to, dn, m, up2
    <1>8. /\ SlotOK(TRUE, sr_state[s], sr_work[s], sr_curframe[s], "up", caller[s],
                    up2, Tail(dn), TRUE, view[s], view[s])
          /\ in \o to = <<>>
        <2> DEFINE up == in \o to
        <2>1. SlotOK(TRUE, sr_state[s], sr_work[s], sr_curframe[s], "up", caller[s],
                     up, dn, seen_gettrees[s], view[s], grid[s])
            BY <1>2
        <2>2. dn \in Seq(SrvMessages) /\ dn # <<>> /\ Head(dn).type = "GETTREES"
            BY <1>2, <1>5
        <2> HIDE DEF up
        <2>3. /\ SlotOK(TRUE, sr_state[s], sr_work[s], sr_curframe[s], "up", caller[s],
                        up2, Tail(dn), TRUE, view[s], view[s])
              /\ up = <<>>
            BY ONLY <1>7, <2>1, <2>2, TreesDone
        <2>4. QED  BY <2>3 DEF up
    <1>9. in \o Append(to, m) = up2
        BY <1>5, <1>6, <1>8, FirstAnswer DEF up2
    <1>10. SlotOK(TRUE, sr_state[s], sr_work[s], sr_curframe[s], link'[s], caller'[s],
                  inbuf'[s] \o toCtl'[s], WorkHead'[s] \o toSrv'[s],
                  seen_gettrees'[s], view'[s], grid'[s])
        BY <1>2, <1>3, <1>8, <1>9 DEF in
    <1>11. QED  BY <1>2, <1>4, <1>10, OutsideKeepsConv

LEMMA LinesKeepConv ==
    ASSUME IInv, NEW s \in Slots, \A t \in Slots : Conv(t), UNCHANGED remrtVars,
           ph_lines(s)
    PROVE  \A t \in Slots : Conv(t)'
    <1> DEFINE dn == WorkHead[s] \o toSrv[s]
               in == inbuf[s]
               to == toCtl[s]
               h == Head(dn)
               m == [type |-> "PIXELS", frame |-> h.frame, start |-> h.start,
                     stop |-> h.stop, view |-> view[s], grid |-> grid[s]]
               up2 == <<m>>
    <1>1. Takes(s, "LINES") /\ UNCHANGED <<seen_gettrees, view, grid>>  BY DEF ph_lines
    <1>2. /\ link[s] = "up" /\ sr_pc[s] = TRUE /\ UNCHANGED <<caller, link, inbuf, toSrv>>
          /\ dn # <<>> /\ Head(dn) = Head(WorkHead[s]) /\ Head(dn).type = "LINES"
          /\ WorkHead'[s] \o toSrv'[s] = Tail(dn)
          /\ \A t \in Slots \ {s} : WorkHead'[t] = WorkHead[t]
          /\ SlotOK(TRUE, sr_state[s], sr_work[s], sr_curframe[s], "up", caller[s],
                    in \o to, dn, seen_gettrees[s], view[s], grid[s])
        BY <1>1, TakesColumns
    <1>3. dn \in Seq(SrvMessages) /\ in \in Seq(CtlMessages) /\ to \in Seq(CtlMessages)
        BY SlotTypes
    <1>4. /\ Len(up2) = 1 /\ up2 # <<>>
          /\ up2[1] = [type |-> "PIXELS", frame |-> Head(dn).frame, start |-> Head(dn).start,
                       stop |-> Head(dn).stop, view |-> view[s], grid |-> grid[s]]
        OBVIOUS
    <1>5. /\ in \o to = <<>> /\ seen_gettrees[s] = TRUE /\ view[s] # NoFrame
          /\ SlotOK(TRUE, sr_state[s], sr_work[s], sr_curframe[s], "up", caller[s],
                    up2, Tail(dn), seen_gettrees[s], view[s], grid[s])
        <2> DEFINE up == in \o to
        <2>1. SlotOK(TRUE, sr_state[s], sr_work[s], sr_curframe[s], "up", caller[s],
                     up, dn, seen_gettrees[s], view[s], grid[s])
            BY <1>2
        <2>2. dn \in Seq(SrvMessages) /\ dn # <<>> /\ Head(dn).type = "LINES"
            BY <1>2, <1>3
        <2> HIDE DEF dn, in, to, up2, up
        <2>3. /\ up = <<>> /\ seen_gettrees[s] = TRUE /\ view[s] # NoFrame
              /\ SlotOK(TRUE, sr_state[s], sr_work[s], sr_curframe[s], "up", caller[s],
                        up2, Tail(dn), seen_gettrees[s], view[s], grid[s])
            BY ONLY <1>4, <2>1, <2>2, LinesDone
        <2>4. QED  BY <2>3 DEF up
    <1>6. /\ toCtl'[s] = Append(to, m)
          /\ \A t \in Slots \ {s} : toCtl'[t] = toCtl[t]
        <2>1. toCtl' = [toCtl EXCEPT ![s] = Append(@, m)]
            BY <1>2, <1>5 DEF ph_lines, Reply
        <2>2. QED  BY <2>1, ColumnTypes
    <1>7. \A t \in Slots \ {s} : SameNet(t) /\ SameRtsrv(t)
        BY <1>1, <1>2, <1>6 DEF SameNet, SameRtsrv
    <1>8. m \in CtlMessages
        <2>1. h \in SrvMessages /\ h.type = "LINES"  BY <1>2, <1>3, TailsElements
        <2>2. h.frame \in Frames /\ h.start \in Nat /\ h.stop \in Nat
            BY <2>1 DEF SrvMessages, WorkMessages
        <2>3. view[s] \in Frames /\ grid[s] \in Frames \cup {NoFrame}
            BY <1>5 DEF IInv, RtsrvTypeOK
        <2> HIDE DEF h
        <2>4. QED  BY <2>2, <2>3 DEF CtlMessages
    <1> HIDE DEF in, to, dn, h, m
    <1>9. in \o Append(to, m) = up2
        BY <1>3, <1>5, <1>8, FirstAnswer
    <1> HIDE DEF up2
    <1>10. SlotOK(TRUE, sr_state[s], sr_work[s], sr_curframe[s], link'[s], caller'[s],
                  inbuf'[s] \o toCtl'[s], WorkHead'[s] \o toSrv'[s],
                  seen_gettrees'[s], view'[s], grid'[s])
        BY <1>1, <1>2, <1>5, <1>6, <1>9 DEF in
    <1>11. QED  BY <1>2, <1>7, <1>10, OutsideKeepsConv

LEMMA WorkerKeepsConv ==
    ASSUME IInv, NEW s \in Slots, \A t \in Slots : Conv(t), Worker(s)
    PROVE  (\A t \in Slots : Conv(t)') /\ ~ph_restart(s)
    <1>1. ~ph_restart(s)  BY NoRestartRead
    <1>2. UNCHANGED remrtVars /\ RtsrvStep(s)  BY DEF Worker
    <1>3. QED
        BY <1>1, <1>2, SpeakKeepsConv, OneShotExitKeepsConv, DirbuildKeepsConv, EnqueueKeepsConv,
           MatrixKeepsConv, GettreesKeepsConv, OptionsKeepConv, LinesKeepConv
        DEF RtsrvStep

LEMMA StepKeepsConv ==
    ASSUME IInv, Loop, NoRestarts, \A s \in Slots : Conv(s), [FarmNext]_farmVars
    PROVE  \A s \in Slots : Conv(s)'
    <1>1. CASE RemrtStep /\ UNCHANGED rtsrvVars
        BY <1>1, RemrtStepKeepsConv
    <1>2. CASE \E s \in Slots : FinalClose(s) /\ Forget(s)
        BY <1>2, FinalCloseKeepsConv
    <1>3. CASE \E s \in Slots : Worker(s)
        BY <1>3, WorkerKeepsConv
    <1>4. CASE Environment
        BY <1>4, EnvironmentKeepsConv
    <1>5. CASE (Terminated /\ UNCHANGED rtsrvVars) \/ UNCHANGED farmVars
        <2>1. UNCHANGED <<remrtVars, netVars, rtsrvVars>>
            BY <1>5 DEF Terminated, farmVars
        <2>2. QED  BY <2>1, QuietStepKeepsConv DEF remrtVars, srvVars, netVars
    <1>6. QED
        BY <1>1, <1>2, <1>3, <1>4, <1>5 DEF FarmNext, Dispatcher


-----------------------------------------------------------------------------
(* What the loop keeps.                                                    *)

LEMMA LoopKept ==
    ASSUME Loop, UNCHANGED <<sr_pc, calls>>, clients' \subseteq clients, ifdset' \subseteq ifdset,
           pc' \notin {"accept", "suck"} => ifdset' = {},
           pc' \in {"cmd", "cmd end"} => pc \in {"cmd", "cmd end"} /\ cmd' = cmd
    PROVE  Loop'
    BY DEF Loop, Open

(* The steps that stay where they are in the loop, and drop at most.       *)
LEMMA StayingKeepsLoop ==
    ASSUME Loop, UNCHANGED <<sr_pc, calls, pc, ifdset, cmd>>, clients' \subseteq clients
    PROVE  Loop'
    <1>1. pc' \notin {"accept", "suck"} => ifdset' = {}  BY DEF Loop
    <1>2. QED  BY <1>1, LoopKept

LEMMA DropShrinksClients ==
    ASSUME NEW s, NEW state, NEW todo, NEW work, DropTo(s, state, todo, work)
    PROVE  clients' \subseteq clients
    BY DEF DropTo

LEMMA HandlersKeepLoop ==
    ASSUME Loop, NEW s \in Slots,
           ph_version(s) \/ ph_dirbuild_reply(s) \/ ph_gettrees_reply(s) \/ ph_pixels(s)
    PROVE  Loop'
    <1>1. CASE ph_version(s) \/ ph_dirbuild_reply(s) \/ ph_gettrees_reply(s)
        <2>1. UNCHANGED <<sr_pc, calls, pc, ifdset, cmd>>
            BY <1>1 DEF ph_version, ph_dirbuild_reply, ph_gettrees_reply, Handle
        <2>2. clients' \subseteq clients
            BY <1>1, DropShrinksClients
            DEF ph_version, ph_dirbuild_reply, ph_gettrees_reply, Dropped, Drop
        <2>3. QED  BY <2>1, <2>2, StayingKeepsLoop
    <1>2. CASE ph_pixels(s)
        <2>1. UNCHANGED <<sr_pc, calls, pc, ifdset, cmd>>
            BY <1>2 DEF ph_pixels, IgnorePixels, FilePixels, FileCannotBeOpened, FileWriteFails,
                        Handle, srvVars
        <2>2. clients' \subseteq clients
            BY <1>2, DropShrinksClients
            DEF ph_pixels, IgnorePixels, FilePixels, FileCannotBeOpened, FileWriteFails,
                Dropped, Drop, srvVars
        <2>3. QED  BY <2>1, <2>2, StayingKeepsLoop
    <1>3. QED  BY <1>1, <1>2

LEMMA CmdKeepsLoop ==
    ASSUME Loop, NEW s \in Slots, ph_cmd(s), Head(inbuf[s]).cmd \in Commands
    PROVE  Loop'
    <1>1. /\ UNCHANGED <<sr_pc, calls, ifdset, clients>> /\ pc \in {"process1", "process2"}
          /\ pc' = "cmd" /\ cmd' = [name |-> Head(inbuf[s]).cmd, from |-> s, ret |-> pc]
          /\ s \in Open
        BY DEF ph_cmd, Handle, srvVars, Comes, Waiting
    <1>2. ifdset = {}  BY <1>1 DEF Loop
    <1>3. cmd'.from = s /\ cmd'.name = Head(inbuf[s]).cmd  BY <1>1
    <1>4. QED  BY <1>1, <1>2, <1>3 DEF Loop, Open

LEMMA CommandsKeepLoop ==
    ASSUME IInv, Loop, Command
    PROVE  Loop'
    <1>1. pc \in {"cmd", "cmd end"}
        BY DEF Command, cd_stop, cd_go, cd_allocate, cd_drop, cd_restart, RestartNext, RdebugNext,
               BroadcastEnd, CmdEnd, Doing, RestartsAll
    <1>2. ifdset = {}  BY <1>1 DEF Loop
    <1>3. CASE CmdEnd
        <2>1. pc' \in {"process1", "process2"}
            BY <1>1, <1>3 DEF CmdEnd, IInv, LoopTypeOK, NoCmd
        <2>2. UNCHANGED <<sr_pc, ifdset, calls>>  BY <1>3 DEF CmdEnd, netVars
        <2>3. clients' \subseteq clients  BY <1>3, DropShrinksClients DEF CmdEnd, Dropped, Drop
        <2>4. QED  BY <1>2, <2>1, <2>2, <2>3, LoopKept
    <1>4. CASE ~CmdEnd
        <2>1. UNCHANGED <<sr_pc, ifdset, cmd, calls>>
            BY <1>4 DEF Command, cd_stop, cd_go, cd_allocate, cd_drop, cd_restart, RestartNext,
                        RdebugNext, BroadcastEnd, send_restart, Send, srvVars, netVars
        <2>2. pc' \in {pc, "cmd end"}
            BY <1>4 DEF Command, cd_stop, cd_go, cd_allocate, cd_drop, cd_restart, RestartNext,
                        RdebugNext, BroadcastEnd, Goto
        <2>3. clients' \subseteq clients
            BY <1>4, DropShrinksClients
            DEF Command, cd_stop, cd_go, cd_allocate, cd_drop, cd_restart, RestartNext,
                RdebugNext, BroadcastEnd, send_restart, Dropped, Drop, srvVars
        <2>4. QED  BY <1>1, <1>2, <2>1, <2>2, <2>3, LoopKept
    <1>5. QED  BY <1>3, <1>4

LEMMA CheckInputKeepsLoop ==
    ASSUME IInv, Loop,
           \/ Select \/ NoClient \/ SuckEnd
           \/ \E s \in Slots : addclient(s) \/ Suck(s)
    PROVE  Loop'
    <1>1. CASE Select
        <2>1. /\ UNCHANGED <<sr_pc, calls, clients>> /\ ifdset' = Readable
              /\ pc' = IF Readable = {} THEN "transitions" ELSE "accept"
            BY <1>1 DEF Select, Goto, srvVars, netVars
        <2>2. Readable \ {0} \subseteq clients  BY DEF Readable
        <2>3. QED  BY <2>1, <2>2 DEF Loop, Open
    <1>2. CASE NoClient
        <2>1. /\ UNCHANGED <<sr_pc, clients, cmd>> /\ ifdset' = ifdset \ {0} /\ pc' = "suck"
            BY <1>2 DEF NoClient, Goto, srvVars
        <2>2. calls' \in Seq({"rtsrv", "stale"} \cup Commands)
            <3>1. calls \in Seq({"rtsrv", "stale"} \cup Commands)  BY DEF Loop
            <3>2. CASE UNCHANGED calls  BY <3>1, <3>2
            <3>3. CASE 0 \in ifdset /\ calls' = Tail(calls)
                <4>1. calls # <<>>  BY <3>3 DEF IInv, LoopTypeOK
                <4>2. QED  BY <3>1, <3>3, <4>1, HeadTailProperties
            <3>4. QED  BY <1>2, <3>2, <3>3 DEF NoClient
        <2>3. QED  BY <2>1, <2>2 DEF Loop, Open
    <1>3. CASE SuckEnd
        <2>1. /\ UNCHANGED <<sr_pc, calls, clients>> /\ ifdset' = {} /\ pc' = "process2"
            BY <1>3 DEF SuckEnd, Goto, srvVars, netVars
        <2>2. QED  BY <2>1, LoopKept
    <1>4. ASSUME NEW s \in Slots, addclient(s) PROVE Loop'
        <2>1. /\ clients' = clients \cup {s} /\ sr_pc' = [sr_pc EXCEPT ![s] = TRUE]
              /\ ifdset' = ifdset \ {0} /\ pc' = "suck" /\ calls' = Tail(calls)
            BY <1>4 DEF addclient, Goto
        <2>2. Open' = Open \cup {s}  BY <2>1, ColumnTypes DEF Open
        <2>3. calls # <<>> /\ calls \in Seq({"rtsrv", "stale"} \cup Commands)
            BY <1>4 DEF addclient, IInv, LoopTypeOK, Loop
        <2>4. calls' \in Seq({"rtsrv", "stale"} \cup Commands)
            BY <2>1, <2>3, HeadTailProperties
        <2>5. QED  BY <2>1, <2>2, <2>4 DEF Loop
    <1>5. ASSUME NEW s \in Slots, Suck(s) PROVE Loop'
        <2>1. UNCHANGED <<sr_pc, calls, pc, ifdset, cmd>>  BY <1>5 DEF Suck
        <2>2. clients' \subseteq clients  BY <1>5, DropShrinksClients DEF Suck, Dropped, Drop
        <2>3. QED  BY <2>1, <2>2, StayingKeepsLoop
    <1>6. QED  BY <1>1, <1>2, <1>3, <1>4, <1>5

LEMMA TasksKeepLoop ==
    ASSUME Loop, NEW s \in Slots, SendDirbuild(s) \/ task_server(s)
    PROVE  Loop'
    <1>1. CASE SendDirbuild(s)
        <2>1. UNCHANGED <<sr_pc, calls, pc, ifdset, cmd>>  BY <1>1 DEF SendDirbuild, Send
        <2>2. clients' \subseteq clients
            BY <1>1, DropShrinksClients DEF SendDirbuild, Dropped, Drop
        <2>3. QED  BY <2>1, <2>2, StayingKeepsLoop
    <1>2. CASE task_server(s)
        <2>1. UNCHANGED <<sr_pc, calls, pc, ifdset, cmd>>
            BY <1>2 DEF task_server, TaskNothing, TaskTardy, TaskGettrees, TaskLines, TaskMatrix,
                        TaskMatrixFails, Returned, Send, netVars
        <2>2. clients' \subseteq clients
            BY <1>2, DropShrinksClients
            DEF task_server, TaskNothing, TaskTardy, TaskGettrees, TaskLines, TaskMatrix,
                TaskMatrixFails, Dropped, Drop
        <2>3. QED  BY <2>1, <2>2, StayingKeepsLoop
    <1>3. QED  BY <1>1, <1>2

LEMMA ScheduleKeepsLoop ==
    ASSUME Loop,
           \/ ProcessEnd \/ TransitionsEnd \/ FramesEnd \/ FrameBegin \/ FrameScanEnd \/ PassEnd
           \/ \E i \in DOMAIN FrameHead : FrameIsDone(i)
    PROVE  Loop'
    <1>1. UNCHANGED <<sr_pc, calls, clients, ifdset>>
        BY DEF ProcessEnd, TransitionsEnd, FramesEnd, FrameBegin, FrameScanEnd, PassEnd,
               FrameIsDone, srvVars, netVars
    <1>2. /\ pc \notin {"accept", "suck"}
          /\ pc' \notin {"accept", "suck", "cmd", "cmd end"}
        BY DEF ProcessEnd, TransitionsEnd, FramesEnd, FrameBegin, FrameScanEnd, PassEnd,
               FrameIsDone, Goto, Leave
    <1>3. ifdset = {}  BY <1>2 DEF Loop
    <1>4. QED  BY <1>1, <1>2, <1>3, LoopKept

LEMMA FinalCloseKeepsLoop ==
    ASSUME IInv, Loop, NEW s \in Slots, FinalClose(s)
    PROVE  Loop'
    <1>1. /\ clients' = clients \ {s} /\ sr_pc' = [sr_pc EXCEPT ![s] = FALSE]
          /\ UNCHANGED <<pc, ifdset, calls>> /\ pc = "transitions"
        BY DEF FinalClose
    <1>2. Open' = Open \ {s}  BY <1>1, ColumnTypes DEF Open
    <1>3. ifdset = {}  BY <1>1 DEF Loop
    <1>4. QED  BY <1>1, <1>2, <1>3 DEF Loop

LEMMA StepKeepsLoop ==
    ASSUME IInv, Loop, NoRestarts, \A s \in Slots : Conv(s), [FarmNext]_farmVars
    PROVE  Loop'
    <1>1. CASE RemrtStep /\ UNCHANGED rtsrvVars
        <2>1. ASSUME NEW s \in Slots, ph_cmd(s) PROVE Loop'
            BY <1>1, <2>1, CmdKeepsConv, CmdKeepsLoop
        <2>2. QED
            BY <1>1, <2>1, HandlersKeepLoop, CommandsKeepLoop, CheckInputKeepsLoop,
               TasksKeepLoop, ScheduleKeepsLoop
            DEF RemrtStep
    <1>2. CASE \E s \in Slots : FinalClose(s) /\ Forget(s)
        BY <1>2, FinalCloseKeepsLoop
    <1>3. CASE \E s \in Slots : Worker(s)
        <2>1. PICK s \in Slots : Worker(s)  BY <1>3
        <2>2. ~ph_restart(s)  BY <2>1, WorkerKeepsConv
        <2>3. UNCHANGED calls
            BY <2>1, <2>2 DEF Worker, RtsrvStep, Speak, OneShotExit, ph_dirbuild, ph_enqueue,
                              ph_matrix, ph_gettrees, ph_options, ph_lines, Takes
        <2>4. UNCHANGED <<sr_pc, clients, pc, ifdset, cmd>>
            BY <2>1 DEF Worker, remrtVars, srvVars, loopVars
        <2>5. QED  BY <2>3, <2>4, StayingKeepsLoop
    <1>4. CASE Environment
        <2>1. UNCHANGED <<sr_pc, clients, pc, ifdset, cmd>>
            BY <1>4 DEF Environment, remrtVars, srvVars, loopVars
        <2>2. \/ UNCHANGED calls
              \/ \E who \in {"rtsrv", "stale"} \cup Commands : calls' = Append(calls, who)
            BY <1>4, RemrtAssumption DEF Environment, CallRtsrv, CallCommand, RtsrvExit, NetworkReset
        <2> DEFINE S == {"rtsrv", "stale"} \cup Commands
        <2>3. calls' \in Seq(S)
            <3>1. calls \in Seq(S)  BY DEF Loop
            <3>2. \A who \in S : Append(calls, who) \in Seq(S)
                <4> HIDE DEF S
                <4>1. QED  BY <3>1, AppendProperties
            <3>3. QED  BY <2>2, <3>1, <3>2
        <2>4. QED  BY <2>1, <2>3 DEF Loop, Open
    <1>5. CASE (Terminated /\ UNCHANGED rtsrvVars) \/ UNCHANGED farmVars
        <2>1. UNCHANGED <<sr_pc, clients, pc, ifdset, cmd, calls>>
            BY <1>5 DEF Terminated, farmVars, remrtVars, srvVars, loopVars, netVars
        <2>2. QED  BY <2>1, StayingKeepsLoop
    <1>6. QED
        BY <1>1, <1>2, <1>3, <1>4, <1>5 DEF FarmNext, Dispatcher

(* Nobody has called yet.                                                  *)
LEMMA InitEstablishesTalk == FarmInit => Loop /\ \A s \in Slots : Conv(s)
    <1> SUFFICES ASSUME FarmInit PROVE Loop /\ \A s \in Slots : Conv(s)
        OBVIOUS
    <1>1. Loop
        <2>1. calls = <<>> /\ clients = {} /\ ifdset = {} /\ pc = "process1"
            BY DEF FarmInit, Init, NetInit
        <2>2. calls \in Seq({"rtsrv", "stale"} \cup Commands)  BY <2>1, EmptySeq
        <2>3. QED  BY <2>1, <2>2 DEF Loop
    <1>2. ASSUME NEW s \in Slots PROVE Conv(s)
        <2>1. /\ sr_pc[s] = FALSE /\ sr_state[s] = "UNUSED" /\ sr_work[s] = NoWork
              /\ sr_curframe[s] = NoFrame
            BY DEF FarmInit, Init
        <2>2. link[s] = "none" /\ caller[s] = "none"
            BY DEF FarmInit, Init, NetInit
        <2>3. inbuf[s] \o toCtl[s] = <<>> /\ WorkHead[s] \o toSrv[s] = <<>>
            <3>1. inbuf[s] = <<>> /\ toCtl[s] = <<>> /\ WorkHead[s] = <<>> /\ toSrv[s] = <<>>
                BY DEF FarmInit, Init, NetInit, RtsrvInit
            <3>2. <<>> \o <<>> = <<>>  BY EmptySeq, ConcatEmptySeq
            <3>3. QED  BY <3>1, <3>2
        <2>4. Steady("UNUSED", NoWork, NoFrame) /\ "none" \in Whoever
            BY DEF Steady, Whoever
        <2>5. SlotOK(FALSE, "UNUSED", NoWork, NoFrame, "none", "none", <<>>, <<>>,
                     seen_gettrees[s], view[s], grid[s])
            BY <2>4 DEF SlotOK, Closed
        <2>6. QED  BY <2>1, <2>2, <2>3, <2>5 DEF Conv
    <1>3. QED  BY <1>1, <1>2

LEMMA StepKeepsTalkInv ==
    ASSUME TalkInv, NoRestarts, [FarmNext]_farmVars
    PROVE  TalkInv'
    <1>1. IInv /\ Loop /\ \A s \in Slots : Conv(s)  BY DEF TalkInv
    <1>2. IInv'  BY <1>1, StepKeepsIInv
    <1>3. Loop'  BY <1>1, StepKeepsLoop
    <1>4. \A s \in Slots : Conv(s)'  BY <1>1, StepKeepsConv
    <1>5. QED  BY <1>2, <1>3, <1>4 DEF TalkInv

(* The conversations go on as described in every reachable state.          *)
THEOREM TalkInvariance == ASSUME NoRestarts PROVE Spec => []TalkInv
    <1>1. FarmInit => TalkInv
        BY InitEstablishesIInv, InitEstablishesTalk DEF TalkInv
    <1>2. TalkInv /\ [FarmNext]_farmVars => TalkInv'
        BY StepKeepsTalkInv
    <1>3. QED  BY <1>1, <1>2, PTL DEF Spec

-----------------------------------------------------------------------------
(* What the properties say follows from the conversations.                 *)

(* An answer that is on its way is the only one.                           *)
LEMMA SeenIsTold ==
    ASSUME TalkInv, NEW s \in Slots, NEW m \in Seen(s)
    PROVE  Told(sr_state[s], sr_work[s], m) /\ m \in CtlMessages
    <1> DEFINE S == CtlMessages
               a == inbuf[s]
               b == toCtl[s]
               up == a \o b
    <1>1. IInv /\ Conv(s)  BY DEF TalkInv
    <1>2. a \in Seq(S) /\ b \in Seq(S)  BY <1>1, SlotTypes
    <1>3. up = <<>> \/ (Len(up) = 1 /\ Told(sr_state[s], sr_work[s], up[1]))
        BY <1>1 DEF Conv, SlotOK
    <1>4. m \in {b[i] : i \in DOMAIN b} \cup {a[i] : i \in DOMAIN a}
        BY DEF Seen
    <1> HIDE DEF S, a, b
    <1>5. /\ up \in Seq(S) /\ Len(a) \in Nat /\ Len(b) \in Nat
          /\ DOMAIN a = 1 .. Len(a) /\ DOMAIN b = 1 .. Len(b)
          /\ DOMAIN up = 1 .. Len(a) + Len(b)
          /\ \A i \in 1 .. Len(a) : up[i] = a[i]
          /\ \A i \in Len(a) + 1 .. Len(a) + Len(b) : up[i] = b[i - Len(a)]
        BY <1>2, JoinedElements
    <1>6. \E i \in DOMAIN up : up[i] = m
        <2>1. CASE \E i \in DOMAIN a : m = a[i]
            BY <1>5, <2>1
        <2>2. ASSUME NEW i \in DOMAIN b, m = b[i] PROVE \E j \in DOMAIN up : up[j] = m
            <3>1. /\ Len(a) + i \in DOMAIN up /\ Len(a) + i \in Len(a) + 1 .. Len(a) + Len(b)
                  /\ (Len(a) + i) - Len(a) = i
                BY <1>5, <2>2
            <3>2. up[Len(a) + i] = m  BY <1>5, <2>2, <3>1
            <3>3. QED  BY <3>1, <3>2
        <2>3. QED  BY <1>4, <2>1, <2>2
    <1> HIDE DEF up
    <1>7. PICK i \in DOMAIN up : up[i] = m  BY <1>6
    <1>8. up # <<>>  BY <1>7, EmptySeq
    <1>9. DOMAIN up = 1 .. 1 /\ \A j \in 1 .. 1 : j = 1
        <2>1. DOMAIN up = 1 .. Len(up)  BY <1>5, LenProperties
        <2>2. QED  BY <1>3, <1>8, <2>1
    <1>10. i = 1  BY <1>7, <1>9
    <1>11. up[i] \in S  BY <1>5, ElementOfSeq, <1>7, LenProperties
    <1>12. QED  BY <1>3, <1>7, <1>8, <1>10, <1>11 DEF S

(* Whatever pixels reach a server that takes pixels are the answer to what *)
(* it has been assigned: a worker is never dropped for its answer          *)
(* (ph_pixels, its mismatch branches).                                     *)
THEOREM AnswersAreAsked == ASSUME NoRestarts PROVE Spec => []AnswersMatch
    <1>1. TalkInv => AnswersMatch
        <2> SUFFICES ASSUME TalkInv, NEW s \in Slots, NEW m \in Seen(s),
                            m.type = "PIXELS", TakesPixels(s)
                     PROVE  Answers(m, s)
            BY DEF AnswersMatch
        <2>1. Told(sr_state[s], sr_work[s], m) /\ m \in CtlMessages  BY SeenIsTold
        <2>2. sr_state[s] \in {"READY", "NEED_TREE", "DOING_GETTREES"}
            BY DEF TakesPixels
        <2>3. sr_work[s] = Span(m.frame, m.start, m.stop)
            BY <2>1, <2>2 DEF Told
        <2>4. sr_work[s] \in Spans
            <3>1. m.frame \in Frames /\ m.start \in Nat /\ m.stop \in Nat
                BY <2>1 DEF CtlMessages
            <3>2. QED  BY <2>3, <3>1 DEF Spans, Span
        <2>5. QED  BY <2>3, <2>4, SpanIsNotNoWork DEF Answers, Idle, Span
    <1>2. QED  BY <1>1, TalkInvariance, PTL

(* Whatever a server renders, it renders after the matrix of its own       *)
(* frame: task_server may leave the matrix out for a server whose          *)
(* sr_curframe is that frame.                                              *)
THEOREM RenderedWithItsMatrix == ASSUME NoRestarts PROVE Spec => []OwnMatrix
    <1>1. TalkInv => OwnMatrix
        BY SeenIsTold DEF OwnMatrix, Told
    <1>2. QED  BY <1>1, TalkInvariance, PTL

(* ... and with the viewing grid of its own frame, if every frame has its  *)
(* trees loaded anew: a MSG_GETTREES, which alone sets the grid up, is     *)
(* then sent with every matrix.                                            *)
THEOREM RenderedWithItsView == ASSUME NoRestarts, TreesAlways PROVE Spec => []OwnView
    <1>1. TalkInv => OwnView
        BY SeenIsTold DEF OwnView, Told
    <1>2. QED  BY <1>1, TalkInvariance, PTL


(* The places of a list at which a message of some type is.                *)
Of(q, ty) == {i \in DOMAIN q : q[i].type = ty}

(* D, places in two lists in a row, are the places A in the first and the  *)
(* places B in the second.                                                 *)
InARow(A, B, D) ==
    \E l \in Nat :
       /\ \A i : i \in A <=> i \in D /\ i <= l
       /\ \A i \in B : i \in Nat /\ l + i \in D /\ ~(l + i <= l)
       /\ \A j \in D : j \in Nat /\ (~(j <= l) => j - l \in B)

LEMMA PlacesInTwo ==
    ASSUME NEW S, NEW a \in Seq(S), NEW b \in Seq(S), NEW d, d = a \o b, NEW ty
    PROVE  InARow(Of(a, ty), Of(b, ty), Of(d, ty))
    <1> DEFINE l == Len(a)
               n == Len(b)
    <1>1. /\ l \in Nat /\ n \in Nat /\ DOMAIN a = 1 .. l /\ DOMAIN b = 1 .. n
          /\ DOMAIN d = 1 .. l + n
          /\ \A i \in 1 .. l : d[i] = a[i]
          /\ \A i \in l + 1 .. l + n : d[i] = b[i - l]
        BY JoinedElements
    <1> HIDE DEF l, n
    <1>2. \A i : i \in Of(a, ty) <=> i \in Of(d, ty) /\ i <= l
        <2>1. \A i \in DOMAIN a : i \in DOMAIN d /\ d[i] = a[i] /\ i <= l  BY ONLY <1>1
        <2>2. \A i \in DOMAIN d : i <= l => i \in DOMAIN a  BY ONLY <1>1
        <2>3. QED  BY ONLY <2>1, <2>2 DEF Of
    <1>3. \A i \in DOMAIN b : l + i \in DOMAIN d /\ d[l + i] = b[i] /\ ~(l + i <= l)
        <2>1. SUFFICES ASSUME NEW i \in DOMAIN b
                       PROVE  l + i \in DOMAIN d /\ d[l + i] = b[i] /\ ~(l + i <= l)
            OBVIOUS
        <2>2. /\ l + i \in DOMAIN d /\ l + i \in l + 1 .. l + n /\ (l + i) - l = i
              /\ ~(l + i <= l)
            BY <1>1
        <2>3. QED  BY <1>1, <2>2
    <1>4. \A j \in DOMAIN d : ~(j <= l) => j - l \in DOMAIN b /\ d[j] = b[j - l]
        <2>1. SUFFICES ASSUME NEW j \in DOMAIN d, ~(j <= l)
                       PROVE  j - l \in DOMAIN b /\ d[j] = b[j - l]
            OBVIOUS
        <2>2. j \in l + 1 .. l + n /\ j - l \in DOMAIN b  BY <1>1, <2>1
        <2>3. QED  BY <1>1, <2>2
    <1>5. \A i \in Of(b, ty) : i \in Nat /\ l + i \in Of(d, ty) /\ ~(l + i <= l)
        BY <1>1, <1>3 DEF Of
    <1>6. \A j \in Of(d, ty) : j \in Nat /\ (~(j <= l) => j - l \in Of(b, ty))
        BY <1>1, <1>4 DEF Of
    <1>7. l \in Nat  BY <1>1
    <1>8. QED  BY <1>2, <1>5, <1>6, <1>7 DEF InARow

(* With none in the row there is none in either, with one, one in one.     *)
Parted(A, B, D) ==
    /\ D = {} => A = {} /\ B = {}
    /\ \A k : D = {k} => \/ \E i : A = {i} /\ B = {}
                         \/ \E i : A = {} /\ B = {i}

LEMMA OneOfTwo ==
    ASSUME NEW S, NEW a \in Seq(S), NEW b \in Seq(S), NEW d, d = a \o b, NEW ty
    PROVE  Parted(Of(a, ty), Of(b, ty), Of(d, ty))
    <1> DEFINE A == Of(a, ty)
               B == Of(b, ty)
               D == Of(d, ty)
    <1>0. InARow(A, B, D)  BY PlacesInTwo
    <1> HIDE DEF A, B, D
    <1>1. PICK l \in Nat : /\ \A i : i \in A <=> i \in D /\ i <= l
                           /\ \A i \in B : i \in Nat /\ l + i \in D /\ ~(l + i <= l)
                           /\ \A j \in D : j \in Nat /\ (~(j <= l) => j - l \in B)
        BY <1>0 DEF InARow
    <1>2. D = {} => A = {} /\ B = {}
        BY <1>1
    <1>3. ASSUME NEW k, D = {k}
          PROVE  \/ \E i : A = {i} /\ B = {}
                 \/ \E i : A = {} /\ B = {i}
        <2>1. k \in Nat /\ k \in D  BY <1>1, <1>3
        <2>2. CASE k <= l
            <3>1. A = {k}  BY <1>1, <1>3, <2>1, <2>2
            <3>2. B = {}  BY <1>1, <1>3, <2>2
            <3>3. QED  BY <3>1, <3>2
        <2>3. CASE ~(k <= l)
            <3>1. A = {}  BY <1>1, <1>3, <2>3
            <3>2. k - l \in B  BY <1>1, <2>1, <2>3
            <3>3. \A i \in B : i = k - l
                <4>1. SUFFICES ASSUME NEW i \in B PROVE i = k - l
                    OBVIOUS
                <4>2. i \in Nat /\ l + i = k  BY <1>1, <1>3
                <4>3. QED  BY <2>1, <4>2
            <3>4. B = {k - l}  BY <3>2, <3>3
            <3>5. QED  BY <3>1, <3>4
        <2>4. QED  BY <2>2, <2>3
    <1>4. Parted(A, B, D)  BY <1>2, <1>3 DEF Parted
    <1>5. QED  BY <1>4 DEF A, B, D

LEMMA PartedCounts ==
    ASSUME NEW A, NEW B, NEW D, Parted(A, B, D)
    PROVE  /\ D = {} => Cardinality(A) = 0 /\ Cardinality(B) = 0
           /\ (\E k : D = {k}) => \/ Cardinality(A) = 1 /\ Cardinality(B) = 0
                                  \/ Cardinality(A) = 0 /\ Cardinality(B) = 1
    <1>1. Cardinality({}) = 0 /\ \A x : Cardinality({x}) = 1  BY FS_EmptySet, FS_Singleton
    <1>2. D = {} => A = {} /\ B = {}  BY DEF Parted
    <1>3. ASSUME NEW k, D = {k}
          PROVE  (\E i : A = {i} /\ B = {}) \/ (\E i : A = {} /\ B = {i})
        BY <1>3 DEF Parted
    <1>4. QED  BY <1>1, <1>2, <1>3

(* ... told apart by their list or not.                                    *)
LEMMA TaggedCount ==
    ASSUME NEW A, NEW tag
    PROVE  /\ A = {} => Cardinality({<<tag, i>> : i \in A}) = 0
           /\ \A k : A = {k} => Cardinality({<<tag, i>> : i \in A}) = 1
    <1>1. Cardinality({}) = 0 /\ \A x : Cardinality({x}) = 1  BY FS_EmptySet, FS_Singleton
    <1>2. A = {} => {<<tag, i>> : i \in A} = {}  OBVIOUS
    <1>3. \A k : A = {k} => {<<tag, i>> : i \in A} = {<<tag, k>>}  OBVIOUS
    <1>4. QED  BY <1>1, <1>2, <1>3


(* The requests for pixels among those on their way.                       *)
LEMMA LinesAsked ==
    ASSUME NEW dn
    PROVE  /\ None(dn) => Of(dn, "LINES") = {}
           /\ \A w \in Spans : One(dn, Lines(w)) => \E k : Of(dn, "LINES") = {k}
           /\ \A f \in Frames, w \in Spans :
                Two(dn, Matrix(f), Lines(w)) => \E k : Of(dn, "LINES") = {k}
    <1>1. /\ \A f \in Frames : Matrix(f).type = "MATRIX"
          /\ \A w \in Spans : Lines(w).type = "LINES"
        BY RequestTypes
    <1>2. None(dn) => Of(dn, "LINES") = {}
        BY DEF None, Of
    <1>3. ASSUME NEW w \in Spans, One(dn, Lines(w)) PROVE \E k : Of(dn, "LINES") = {k}
        <2>1. PICK i \in DOMAIN dn : /\ dn[i] = Lines(w)
                                     /\ \A j \in DOMAIN dn \ {i} : dn[j].type = "OPTIONS"
            BY <1>3 DEF One
        <2>2. dn[i].type = "LINES"  BY <1>1, <2>1
        <2>3. Of(dn, "LINES") = {i}  BY <2>1, <2>2 DEF Of
        <2>4. QED  BY <2>3
    <1>4. ASSUME NEW f \in Frames, NEW w \in Spans, Two(dn, Matrix(f), Lines(w))
          PROVE  \E k : Of(dn, "LINES") = {k}
        <2>1. PICK h \in DOMAIN dn, i \in DOMAIN dn :
                 /\ dn[h] = Matrix(f) /\ dn[i] = Lines(w)
                 /\ \A j \in DOMAIN dn \ {h, i} : dn[j].type = "OPTIONS"
            BY <1>4 DEF Two
        <2>2. dn[h].type = "MATRIX" /\ dn[i].type = "LINES"  BY <1>1, <2>1
        <2>3. Of(dn, "LINES") = {i}  BY <2>1, <2>2 DEF Of
        <2>4. QED  BY <2>3
    <1>5. QED  BY <1>2, <1>3, <1>4

(* What is under way for a server at work, its connection being up: no     *)
(* request for pixels and no pixels when it is idle, one or the other once *)
(* when it is not.                                                         *)
LEMMA UnderWay ==
    ASSUME NEW st \in {"READY", "NEED_TREE"}, NEW wk, NEW cf, NEW cl,
           NEW up \in Seq(CtlMessages), NEW dn, NEW gt, NEW vw, NEW gr,
           SlotOK(TRUE, st, wk, cf, "up", cl, up, dn, gt, vw, gr),
           up = <<>> \/ DOMAIN up = {1}
    PROVE  \/ wk = NoWork /\ Of(up, "PIXELS") = {} /\ Of(dn, "LINES") = {}
           \/ wk # NoWork /\ Of(up, "PIXELS") = {} /\ \E k : Of(dn, "LINES") = {k}
           \/ wk # NoWork /\ (\E k : Of(up, "PIXELS") = {k}) /\ Of(dn, "LINES") = {}
    <1>1. Live(st, wk, cf, cl, up, dn, gt, vw, gr)  BY DEF SlotOK
    <1>2. ~Unheard(st, wk, cl, up, dn)  BY DEF Unheard
    <1>3. ~AskedDirbuild(st, dn) /\ ~AskedTrees(st, cf, dn, vw)
        BY DEF AskedDirbuild, AskedTrees
    <1>4. Of(<<>>, "PIXELS") = {}  BY DEF Of
    <1>5. CASE Answered(st, cf, up, dn, gt, vw, gr)
        <2>1. up # <<>> /\ None(dn) /\ up[1].type # "CMD"  BY <1>5 DEF Answered
        <2>2. Told(st, wk, up[1])  BY <2>1 DEF SlotOK
        <2>3. up[1].type = "PIXELS" /\ wk = Span(up[1].frame, up[1].start, up[1].stop)
            BY <2>1, <2>2 DEF Told
        <2>4. Of(up, "PIXELS") = {1}  BY <2>1, <2>3 DEF Of
        <2>5. wk # NoWork
            <3>1. up[1] \in CtlMessages  BY <2>1, ElementOfSeq, LenProperties
            <3>2. up[1].frame \in Frames  BY <2>3, <3>1 DEF CtlMessages
            <3>3. QED  BY <2>3, <3>2, FrameIsNotNoFrame DEF Span, NoWork
        <2>6. Of(dn, "LINES") = {}  BY <2>1, LinesAsked
        <2>7. QED  BY <2>4, <2>5, <2>6
    <1>6. CASE up = <<>> /\ Quiet(st, wk, cf, dn, gt, vw, gr)
        BY <1>4, <1>6, LinesAsked DEF Quiet
    <1>7. CASE up = <<>> /\ AskedLines(st, wk, cf, dn, gt, vw, gr)
        <2>1. PICK w \in Spans :
                /\ st = "CLOSING" \/ (st = "READY" /\ wk = w)
                /\ \/ Two(dn, Matrix(w.li_frame), Lines(w))
                   \/ One(dn, Lines(w))
            BY <1>7 DEF AskedLines
        <2>2. wk # NoWork  BY <2>1, SpanIsNotNoWork
        <2>3. w.li_frame \in Frames  BY DEF Spans
        <2>4. \E k : Of(dn, "LINES") = {k}  BY <2>1, <2>3, LinesAsked
        <2>5. QED  BY <1>4, <1>7, <2>2, <2>4
    <1>8. QED  BY <1>1, <1>2, <1>3, <1>5, <1>6, <1>7 DEF Live


(* The assignment of a server at work is under way once: nothing makes the *)
(* dispatcher ask twice, or the worker answer twice, or either forget.     *)
THEOREM AskedOnce == ASSUME NoRestarts PROVE Spec => []OneInFlight
    <1>1. TalkInv => OneInFlight
        <2> SUFFICES ASSUME TalkInv, NEW s \in Slots, link[s] = "up", AtWork(s)
                     PROVE  InFlight(s) = IF Idle(s) THEN 0 ELSE 1
            BY DEF OneInFlight
        <2> DEFINE C == CtlMessages
                   M == SrvMessages
                   a == inbuf[s]
                   b == toCtl[s]
                   up == a \o b
                   h == WorkHead[s]
                   q == toSrv[s]
                   dn == h \o q
                   wk == sr_work[s]
        <2>1. IInv /\ Conv(s)  BY DEF TalkInv
        <2>2. /\ a \in Seq(C) /\ b \in Seq(C) /\ up \in Seq(C)
              /\ h \in Seq(M) /\ q \in Seq(M)
            BY <2>1, SlotTypes
        <2>4. SlotOK(TRUE, sr_state[s], wk, sr_curframe[s], "up", caller[s], up, dn,
                     seen_gettrees[s], view[s], grid[s])
            BY <2>1, LiveSlot
        <2>5. sr_state[s] \in {"READY", "NEED_TREE"}  BY DEF AtWork
        <2>6. up = <<>> \/ DOMAIN up = {1}
            <3>1. up = <<>> \/ Len(up) = 1  BY <2>4 DEF SlotOK
            <3>2. DOMAIN up = 1 .. Len(up)  BY <2>2, LenProperties
            <3> HIDE DEF up
            <3>3. 1 .. 1 = {1}  OBVIOUS
            <3>4. QED  BY <3>1, <3>2, <3>3
        <2> DEFINE OP == Of(up, "PIXELS")
                   OL == Of(dn, "LINES")
                   A == Of(a, "PIXELS")
                   B == Of(b, "PIXELS")
                   H == Of(h, "LINES")
                   Q == Of(q, "LINES")
        <2>7. \/ wk = NoWork /\ OP = {} /\ OL = {}
              \/ wk # NoWork /\ OP = {} /\ \E k : OL = {k}
              \/ wk # NoWork /\ (\E k : OP = {k}) /\ OL = {}
            <3> HIDE DEF up, dn, wk
            <3>1. QED  BY <2>2, <2>4, <2>5, <2>6, UnderWay
        <2>8. InFlight(s) = Cardinality({<<"toSrv", i>> : i \in Q}) + Cardinality(H)
                              + Cardinality(B) + Cardinality(A)
            BY DEF InFlight, Of
        <2> HIDE DEF C, M, a, b, h, q
        <2>9. Parted(A, B, OP)
            <3>1. up = a \o b  OBVIOUS
            <3> HIDE DEF up
            <3>2. QED  BY <2>2, <3>1, OneOfTwo
        <2>10. Parted(H, Q, OL)
            <3>1. dn = h \o q  OBVIOUS
            <3> HIDE DEF dn
            <3>2. QED  BY <2>2, <3>1, OneOfTwo
        <2> HIDE DEF OP, OL, A, B, H, Q, wk
        <2> DEFINE T == Cardinality({<<"toSrv", i>> : i \in Q})
                   cH == Cardinality(H)
                   cA == Cardinality(A)
                   cB == Cardinality(B)
        <2>11. /\ OP = {} => cA = 0 /\ cB = 0
               /\ (\E k : OP = {k}) => (cA = 1 /\ cB = 0) \/ (cA = 0 /\ cB = 1)
            BY <2>9, PartedCounts
        <2>12. /\ OL = {} => cH = 0 /\ T = 0
               /\ (\E k : OL = {k}) => (cH = 1 /\ T = 0) \/ (cH = 0 /\ T = 1)
            <3>1. Q = {} => T = 0  BY TaggedCount
            <3>2. \A k : Q = {k} => T = 1  BY TaggedCount
            <3> HIDE DEF T
            <3>3. cH = Cardinality(H)  OBVIOUS
            <3> HIDE DEF cH
            <3>4. QED  BY ONLY <2>10, <3>1, <3>2, <3>3, FS_EmptySet, FS_Singleton DEF Parted
        <2> HIDE DEF T, cH, cA, cB
        <2>13. T + cH + cB + cA = IF wk = NoWork THEN 0 ELSE 1
            BY <2>7, <2>11, <2>12
        <2>14. QED  BY <2>8, <2>13 DEF T, cH, cB, cA, Idle, wk
    <1>2. QED  BY <1>1, TalkInvariance, PTL

=============================================================================
