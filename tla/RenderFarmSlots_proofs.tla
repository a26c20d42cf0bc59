----------------------- MODULE RenderFarmSlots_proofs -----------------------
(***************************************************************************)
(* The columns of servers[]: "one per frame" in the movie method           *)
(* (MovieFrameHasOneServer), and what becomes of a server that is dropped  *)
(* (ClosingIsFinal), of module RenderFarm.                                 *)
(***************************************************************************)
EXTENDS RenderFarmTalk_proofs

-----------------------------------------------------------------------------
(* Only what somebody may send is executed.  (For any set of commands;     *)
(* Loop of RenderFarmTalk_proofs is for those that restart no server.)     *)

Names == {"rtsrv", "stale"} \cup Commands
Heard == {m \in CtlMessages : m.type = "CMD" => m.cmd \in Commands}

CommandsAsked ==
    /\ calls \in Seq(Names)
    /\ caller \in [Slots -> {"none", "leaving"} \cup Names]
    /\ toCtl \in [Slots -> Seq(Heard)]
    /\ inbuf \in [Slots -> Seq(Heard)]
    /\ pc \in {"cmd", "cmd end"} => cmd.name \in Commands

(* The sequences that occur, and the empty one, are sequences of Heard.    *)
LEMMA NothingHeard == <<>> \in Seq(Heard)
    <1> DEFINE S == Heard
    <1> HIDE DEF S
    <1>1. <<>> \in Seq(S)  OBVIOUS
    <1>2. QED  BY <1>1 DEF S

LEMMA ListsHeard ==
    ASSUME CommandsAsked, NEW s \in Slots
    PROVE  inbuf[s] \in Seq(Heard) /\ toCtl[s] \in Seq(Heard) /\ inbuf[s] \o toCtl[s] \in Seq(Heard)
    <1>1. inbuf[s] \in Seq(Heard) /\ toCtl[s] \in Seq(Heard)
        BY DEF CommandsAsked
    <1>2. QED  BY <1>1, ConcatProperties

LEMMA HandledAsked ==
    ASSUME CommandsAsked, NEW s \in Slots, NEW type, Handle(s, type),
           \/ UNCHANGED <<pc, cmd>>
           \/ type = "CMD" /\ cmd' = [name |-> Head(inbuf[s]).cmd, from |-> s, ret |-> pc]
    PROVE  CommandsAsked'
    <1>1. inbuf[s] \in Seq(Heard) /\ inbuf[s] # <<>>
        BY DEF CommandsAsked, Handle, Comes, Waiting
    <1>2. Head(inbuf[s]) \in Heard /\ Tail(inbuf[s]) \in Seq(Heard)
        BY <1>1, HeadTailProperties
    <1>3. inbuf' \in [Slots -> Seq(Heard)] /\ UNCHANGED <<calls, caller, toCtl>>
        BY <1>2 DEF CommandsAsked, Handle
    <1>4. pc' \in {"cmd", "cmd end"} => cmd'.name \in Commands
        <2>1. CASE UNCHANGED <<pc, cmd>>
            BY <2>1 DEF CommandsAsked
        <2>2. CASE type = "CMD" /\ cmd' = [name |-> Head(inbuf[s]).cmd, from |-> s, ret |-> pc]
            <3>1. Head(inbuf[s]).type = type  BY DEF Handle
            <3>2. Head(inbuf[s]).cmd \in Commands  BY <1>2, <2>2, <3>1 DEF Heard
            <3>3. cmd'.name = Head(inbuf[s]).cmd  BY <2>2
            <3>4. QED  BY <3>2, <3>3
        <2>3. QED  BY <2>1, <2>2
    <1>5. QED  BY <1>3, <1>4 DEF CommandsAsked

LEMMA SentAsked ==
    ASSUME CommandsAsked, NEW s \in Slots, NEW k, NEW n, NEW msgs, Send(s, k, n, msgs),
           UNCHANGED cmd, pc' \in {"cmd", "cmd end"} => pc \in {"cmd", "cmd end"}
    PROVE  CommandsAsked'
    <1>1. inbuf[s] \o toCtl[s] \in Seq(Heard)
        BY ListsHeard
    <1>2. inbuf' = [inbuf EXCEPT ![s] = inbuf[s] \o toCtl[s]]
          /\ toCtl' = [toCtl EXCEPT ![s] = <<>>] /\ UNCHANGED <<calls, caller>>
        BY DEF Send
    <1>3. <<>> \in Seq(Heard)  BY NothingHeard
    <1>4. inbuf' \in [Slots -> Seq(Heard)] /\ toCtl' \in [Slots -> Seq(Heard)]
        BY <1>1, <1>2, <1>3 DEF CommandsAsked
    <1>5. QED  BY <1>2, <1>4 DEF CommandsAsked

LEMMA SameAsked ==
    ASSUME CommandsAsked, UNCHANGED <<calls, caller, toCtl, inbuf, cmd>>,
           pc' \in {"cmd", "cmd end"} => pc \in {"cmd", "cmd end"}
    PROVE  CommandsAsked'
    BY DEF CommandsAsked

LEMMA CommandAsked ==
    ASSUME IInv, CommandsAsked, Command
    PROVE  CommandsAsked'
    <1>1. CASE \E t \in Slots : cd_restart(t) \/ RestartNext(t) \/ RdebugNext(t)
        <2>1. PICK t \in Slots : cd_restart(t) \/ RestartNext(t) \/ RdebugNext(t)
            BY <1>1
        <2>2. \E k, msgs : Send(t, k, 1, msgs)
            BY <2>1, Zenon DEF cd_restart, RestartNext, RdebugNext, send_restart
        <2>3. UNCHANGED cmd /\ pc \in {"cmd", "cmd end"}
            BY <2>1 DEF cd_restart, RestartNext, RdebugNext, Doing, RestartsAll
        <2>4. QED  BY <2>2, <2>3, SentAsked
    <1>2. CASE CmdEnd
        <2>1. pc' \in {"process1", "process2"} /\ UNCHANGED netVars
            BY <1>2 DEF CmdEnd, IInv, LoopTypeOK, NoCmd
        <2>2. QED  BY <2>1 DEF CommandsAsked, netVars
    <1>3. CASE cd_stop \/ cd_go \/ (\E m \in {OPT_FRAME, OPT_LOAD, OPT_MOVIE} : cd_allocate(m))
                 \/ (\E t \in Slots : cd_drop(t)) \/ BroadcastEnd
        <2>1. UNCHANGED netVars /\ UNCHANGED cmd /\ pc \in {"cmd", "cmd end"}
            BY <1>3 DEF cd_stop, cd_go, cd_allocate, cd_drop, BroadcastEnd, Doing, RestartsAll
        <2>2. QED  BY <2>1, SameAsked DEF netVars
    <1>4. QED  BY <1>1, <1>2, <1>3 DEF Command

LEMMA DispatcherAsked ==
    ASSUME IInv, CommandsAsked, Dispatcher
    PROVE  CommandsAsked'
    <1>1. CASE \E s \in Slots : ph_version(s) \/ ph_dirbuild_reply(s) \/ ph_gettrees_reply(s)
                                  \/ ph_pixels(s) \/ ph_cmd(s)
        BY <1>1, HandledAsked
        DEF ph_version, ph_dirbuild_reply, ph_gettrees_reply, ph_cmd, ph_pixels,
            IgnorePixels, FilePixels, FileCannotBeOpened, FileWriteFails
    <1>2. ASSUME NEW s \in Slots, addclient(s) PROVE CommandsAsked'
        <2>1. calls # <<>>  BY <1>2 DEF addclient, IInv, LoopTypeOK
        <2>2. Head(calls) \in Names /\ Tail(calls) \in Seq(Names)
            BY <2>1, HeadTailProperties DEF CommandsAsked
        <2>3. /\ calls' = Tail(calls) /\ caller' = [caller EXCEPT ![s] = Head(calls)]
              /\ UNCHANGED <<toCtl, inbuf>> /\ pc' = "suck"
            BY <1>2 DEF addclient, Goto
        <2>4. caller' \in [Slots -> {"none", "leaving"} \cup Names]
            BY <2>2, <2>3 DEF CommandsAsked
        <2>5. QED  BY <2>2, <2>3, <2>4 DEF CommandsAsked
    <1>3. ASSUME NEW s \in Slots, Suck(s) PROVE CommandsAsked'
        <2>1. UNCHANGED <<calls, caller, pc, cmd>>  BY <1>3 DEF Suck
        <2>2. CASE toCtl[s] # <<>>
            <3>1. inbuf' = [inbuf EXCEPT ![s] = inbuf[s] \o toCtl[s]]
                  /\ toCtl' = [toCtl EXCEPT ![s] = <<>>]
                BY <1>3, <2>2 DEF Suck
            <3>2. inbuf[s] \o toCtl[s] \in Seq(Heard) /\ <<>> \in Seq(Heard)
                BY ListsHeard, NothingHeard
            <3>3. inbuf' \in [Slots -> Seq(Heard)] /\ toCtl' \in [Slots -> Seq(Heard)]
                BY <3>1, <3>2 DEF CommandsAsked
            <3>4. QED  BY <2>1, <3>3 DEF CommandsAsked
        <2>3. CASE toCtl[s] = <<>>
            BY <1>3, <2>1, <2>3, SameAsked DEF Suck
        <2>4. QED  BY <2>2, <2>3
    <1>4. ASSUME NEW s \in Slots, SendDirbuild(s) PROVE CommandsAsked'
        <2>1. \E k, msgs : Send(s, k, 2, msgs)  BY <1>4, Zenon DEF SendDirbuild
        <2>2. UNCHANGED <<pc, cmd>>  BY <1>4 DEF SendDirbuild
        <2>3. QED  BY <2>1, <2>2, SentAsked
    <1>5. ASSUME NEW s \in Slots, task_server(s) PROVE CommandsAsked'
        <2>1. \E k, n, msgs : Send(s, k, n, msgs) \/ UNCHANGED netVars
            BY <1>5, Zenon
            DEF task_server, TaskNothing, TaskTardy, TaskGettrees, TaskLines, TaskMatrix,
                TaskMatrixFails
        <2>2. \A ret : Returned(s, ret) => UNCHANGED <<pc, cmd>>  BY Zenon DEF Returned
        <2>3. \E ret : Returned(s, ret)
            BY <1>5, Zenon
            DEF task_server, TaskNothing, TaskTardy, TaskGettrees, TaskLines, TaskMatrix,
                TaskMatrixFails
        <2>4. UNCHANGED <<pc, cmd>>  BY <2>2, <2>3, Zenon
        <2>5. QED  BY <2>1, <2>4, SentAsked, SameAsked DEF netVars
    <1>6. ASSUME NEW s \in Slots, FinalClose(s) PROVE CommandsAsked'
        <2>1. /\ caller' = [caller EXCEPT ![s] = "none"] /\ toCtl' = [toCtl EXCEPT ![s] = <<>>]
              /\ inbuf' = [inbuf EXCEPT ![s] = <<>>] /\ UNCHANGED <<calls, pc, cmd>>
            BY <1>6 DEF FinalClose
        <2>2. <<>> \in Seq(Heard)  BY NothingHeard
        <2>3. /\ caller' \in [Slots -> {"none", "leaving"} \cup Names]
              /\ inbuf' \in [Slots -> Seq(Heard)] /\ toCtl' \in [Slots -> Seq(Heard)]
            BY <2>1, <2>2 DEF CommandsAsked
        <2>4. QED  BY <2>1, <2>3 DEF CommandsAsked
    <1>9. CASE NoClient
        <2>1. UNCHANGED <<caller, toCtl, inbuf, cmd>> /\ pc' = "suck"
            BY <1>9 DEF NoClient, Goto
        <2>2. calls' \in Seq(Names)
            <3>1. CASE UNCHANGED calls  BY <3>1 DEF CommandsAsked
            <3>2. CASE 0 \in ifdset /\ calls' = Tail(calls)
                <4>1. calls # <<>>  BY <3>2 DEF IInv, LoopTypeOK
                <4>2. QED  BY <3>2, <4>1, HeadTailProperties DEF CommandsAsked
            <3>3. QED  BY <1>9, <3>1, <3>2 DEF NoClient
        <2>3. QED  BY <2>1, <2>2 DEF CommandsAsked
    <1>7. CASE \/ ProcessEnd \/ Select \/ SuckEnd \/ TransitionsEnd \/ FramesEnd
               \/ FrameBegin \/ FrameScanEnd \/ PassEnd
               \/ \E i \in DOMAIN FrameHead : FrameIsDone(i)
        <2>1. /\ UNCHANGED <<calls, caller, toCtl, inbuf, cmd>>
              /\ pc' \in {"cmd", "cmd end"} => pc \in {"cmd", "cmd end"}
            BY <1>7 DEF ProcessEnd, Select, SuckEnd, TransitionsEnd, FramesEnd,
                        FrameBegin, FrameScanEnd, PassEnd, FrameIsDone, Goto, Leave, netVars
        <2>2. QED  BY <2>1, SameAsked
    <1>8. QED
        BY <1>1, <1>2, <1>3, <1>4, <1>5, <1>6, <1>7, <1>9, CommandAsked
        DEF Dispatcher, RemrtStep


(* One more message on its way, or one caller more.                        *)
LEMMA SpokenAsked ==
    ASSUME CommandsAsked, NEW s \in Slots, NEW m \in Heard, UNCHANGED <<calls, inbuf, pc, cmd>>,
           toCtl' = [toCtl EXCEPT ![s] = Append(toCtl[s], m)],
           NEW c \in {"none", "leaving"} \cup Names,
           caller' = [caller EXCEPT ![s] = c]
    PROVE  CommandsAsked'
    <1>1. toCtl[s] \in Seq(Heard)  BY ListsHeard
    <1>2. Append(toCtl[s], m) \in Seq(Heard)  BY <1>1, AppendProperties
    <1>3. toCtl' \in [Slots -> Seq(Heard)]  BY <1>2 DEF CommandsAsked
    <1>4. caller' \in [Slots -> {"none", "leaving"} \cup Names]  BY DEF CommandsAsked
    <1>5. QED  BY <1>3, <1>4 DEF CommandsAsked

LEMMA CalledAsked ==
    ASSUME CommandsAsked, NEW who \in Names, calls' = Append(calls, who),
           UNCHANGED <<caller, toCtl, inbuf, pc, cmd>>
    PROVE  CommandsAsked'
    <1> DEFINE S == Names
    <1>1. calls \in Seq(S)  BY DEF CommandsAsked
    <1>2. who \in S  OBVIOUS
    <1> HIDE DEF S
    <1>3. Append(calls, who) \in Seq(S)  BY <1>1, <1>2, AppendProperties
    <1>4. calls' \in Seq(Names)  BY <1>3 DEF S
    <1>5. QED  BY <1>4 DEF CommandsAsked

LEMMA WorkerAsked ==
    ASSUME IInv, CommandsAsked, NEW s \in Slots, Worker(s)
    PROVE  CommandsAsked'
    <1>0. UNCHANGED <<pc, cmd>>  BY DEF Worker, remrtVars, loopVars
    <1>1. CASE Speak(s)
        <2> DEFINE m == IF caller[s] \in CommandNames
                        THEN [type |-> "CMD", cmd |-> caller[s]]
                        ELSE [type |-> "VERSION", ok |-> caller[s] = "rtsrv"]
                   c == IF caller[s] \in CommandNames THEN "leaving" ELSE "none"
        <2>1. /\ toCtl' = [toCtl EXCEPT ![s] = Append(toCtl[s], m)]
              /\ caller' = [caller EXCEPT ![s] = c] /\ UNCHANGED <<calls, inbuf>>
              /\ caller[s] \in {"rtsrv", "stale"} \cup CommandNames
            BY <1>1 DEF Speak
        <2>2. c \in {"none", "leaving"} \cup Names  OBVIOUS
        <2>3. m \in Heard
            <3>1. CASE caller[s] \in CommandNames
                <4>1. caller[s] \in Commands
                    BY <3>1 DEF CommandsAsked, Names, CommandNames
                <4>2. m = [type |-> "CMD", cmd |-> caller[s]]  BY <3>1
                <4>3. m \in CtlMessages  BY <3>1, <4>2 DEF CtlMessages
                <4>4. m.cmd = caller[s]  BY <4>2
                <4> HIDE DEF m
                <4>5. QED  BY <4>1, <4>3, <4>4 DEF Heard
            <3>2. CASE caller[s] \notin CommandNames
                <4>1. (caller[s] = "rtsrv") \in BOOLEAN  OBVIOUS
                <4>2. m = [type |-> "VERSION", ok |-> caller[s] = "rtsrv"]  BY <3>2
                <4>3. m \in CtlMessages  BY <4>1, <4>2 DEF CtlMessages
                <4>4. m.type = "VERSION"  BY <4>2
                <4> HIDE DEF m
                <4>5. QED  BY <4>3, <4>4 DEF Heard
            <3>3. QED  BY <3>1, <3>2
        <2> HIDE DEF m, c
        <2>4. QED  BY <1>0, <2>1, <2>2, <2>3, SpokenAsked
    <1>2. ASSUME NEW m \in CtlMessages, m.type # "CMD", Reply(s, m), UNCHANGED <<calls, caller, inbuf>>
          PROVE  CommandsAsked'
        <2>1. m \in Heard  BY <1>2 DEF Heard
        <2>2. toCtl' = [toCtl EXCEPT ![s] = Append(toCtl[s], m)]  BY <1>2 DEF Reply
        <2>3. caller' = [caller EXCEPT ![s] = caller[s]]
              /\ caller[s] \in {"none", "leaving"} \cup Names
            BY <1>2 DEF CommandsAsked
        <2>4. QED  BY <1>0, <1>2, <2>1, <2>2, <2>3, SpokenAsked
    <1>3. CASE ph_dirbuild(s)
        <2>1. UNCHANGED <<calls, caller, inbuf>>  BY <1>3 DEF ph_dirbuild, Reads
        <2>2. UNCHANGED toCtl \/ Reply(s, [type |-> "DIRBUILD_REPLY"])
            BY <1>3 DEF ph_dirbuild
        <2>3. [type |-> "DIRBUILD_REPLY"] \in CtlMessages
              /\ [type |-> "DIRBUILD_REPLY"].type # "CMD"
            BY DEF CtlMessages
        <2>4. QED  BY <1>0, <1>2, <2>1, <2>2, <2>3, SameAsked
    <1>4. CASE ph_gettrees(s)
        <2>1. UNCHANGED <<calls, caller, inbuf>> /\ Reply(s, [type |-> "GETTREES_REPLY"])
            BY <1>4 DEF ph_gettrees, Takes
        <2>2. [type |-> "GETTREES_REPLY"] \in CtlMessages
              /\ [type |-> "GETTREES_REPLY"].type # "CMD"
            BY DEF CtlMessages
        <2>3. QED  BY <1>2, <2>1, <2>2
    <1>5. CASE ph_lines(s)
        <2>1. UNCHANGED <<calls, caller, inbuf, pc, cmd>>  BY <1>0, <1>5 DEF ph_lines, Takes
        <2>2. NetTypeOK'  BY StepKeepsIInv DEF IInv, Worker, FarmNext
        <2>3. CASE UNCHANGED toCtl
            BY <2>1, <2>3, SameAsked
        <2>4. CASE ~UNCHANGED toCtl
            <3> DEFINE w == Head(WorkHead[s])
                       m == [type |-> "PIXELS", frame |-> w.frame, start |-> w.start,
                             stop |-> w.stop, view |-> view[s], grid |-> grid[s]]
            <3>1. Reply(s, m)  BY <1>5, <2>4 DEF ph_lines
            <3>2. toCtl' = [toCtl EXCEPT ![s] = Append(toCtl[s], m)]  BY <3>1 DEF Reply
            <3>3. m.type # "CMD"  OBVIOUS
            <3> HIDE DEF m
            <3>4. m \in CtlMessages
                <4>1. toCtl[s] \in Seq(CtlMessages)  BY SlotTypes
                <4>2. Append(toCtl[s], m) \in Seq(CtlMessages)
                    BY <2>2, <3>2, ColumnTypes DEF NetTypeOK
                <4>3. QED  BY <4>1, <4>2
            <3>5. QED  BY <1>2, <2>1, <3>1, <3>3, <3>4
        <2>5. QED  BY <2>3, <2>4
    <1>6. CASE ph_restart(s)
        <2>1. calls' = Append(calls, "rtsrv") /\ UNCHANGED <<caller, toCtl, inbuf>>
            BY <1>6 DEF ph_restart, Reads
        <2>2. "rtsrv" \in Names  BY DEF Names
        <2>3. QED  BY <1>0, <2>1, <2>2, CalledAsked
    <1>7. CASE OneShotExit(s) \/ ph_enqueue(s) \/ ph_matrix(s) \/ ph_options(s)
        <2>1. UNCHANGED <<calls, caller, toCtl, inbuf>>
            BY <1>7 DEF OneShotExit, ph_enqueue, ph_matrix, ph_options, Reads, Takes
        <2>2. QED  BY <1>0, <2>1, SameAsked
    <1>8. QED
        BY <1>1, <1>3, <1>4, <1>5, <1>6, <1>7 DEF Worker, RtsrvStep

LEMMA EnvironmentAsked ==
    ASSUME CommandsAsked, Environment
    PROVE  CommandsAsked'
    <1>0. UNCHANGED <<pc, cmd>>  BY DEF Environment, remrtVars, loopVars
    <1>1. CASE CallRtsrv \/ CallCommand
        <2>1. \E who \in Names : calls' = Append(calls, who)
            BY <1>1, RemrtAssumption DEF CallRtsrv, CallCommand, Names
        <2>2. UNCHANGED <<caller, toCtl, inbuf>>  BY <1>1 DEF CallRtsrv, CallCommand
        <2>3. QED  BY <1>0, <2>1, <2>2, CalledAsked
    <1>2. ASSUME NEW s \in Slots, RtsrvExit(s) \/ NetworkReset(s) PROVE CommandsAsked'
        <2>1. UNCHANGED <<calls, caller, inbuf>>  BY <1>2 DEF RtsrvExit, NetworkReset
        <2>2. PICK m \in {toCtl[s], <<>>} : toCtl' = [toCtl EXCEPT ![s] = m] \/ UNCHANGED toCtl
            BY <1>2 DEF RtsrvExit, NetworkReset
        <2>3. m \in Seq(Heard)  BY <2>2, ListsHeard, NothingHeard
        <2>4. toCtl' \in [Slots -> Seq(Heard)]  BY <2>2, <2>3 DEF CommandsAsked
        <2>5. QED  BY <1>0, <2>1, <2>4 DEF CommandsAsked
    <1>3. QED  BY <1>1, <1>2 DEF Environment

LEMMA StepAsked ==
    ASSUME IInv, CommandsAsked, [FarmNext]_farmVars
    PROVE  CommandsAsked'
    <1>1. CASE (Terminated /\ UNCHANGED rtsrvVars) \/ UNCHANGED farmVars
        <2>1. UNCHANGED <<remrtVars, netVars>>
            BY <1>1 DEF Terminated, farmVars
        <2>2. QED  BY <2>1, SameAsked DEF remrtVars, loopVars, netVars
    <1>2. QED
        BY <1>1, DispatcherAsked, WorkerAsked, EnvironmentAsked DEF FarmNext

LEMMA InitAsked == FarmInit => CommandsAsked
    <1> SUFFICES ASSUME FarmInit PROVE CommandsAsked
        OBVIOUS
    <1>1. /\ calls = <<>> /\ caller = [s \in Slots |-> "none"] /\ pc = "process1"
          /\ toCtl = [s \in Slots |-> <<>>] /\ inbuf = [s \in Slots |-> <<>>]
        BY DEF FarmInit, Init, NetInit
    <1>2. toCtl \in [Slots -> Seq(Heard)] /\ inbuf \in [Slots -> Seq(Heard)]
        BY <1>1, NothingHeard
    <1>3. calls \in Seq(Names)  BY <1>1
    <1>4. QED  BY <1>1, <1>2, <1>3 DEF CommandsAsked


-----------------------------------------------------------------------------
(* Current frames: taken one at a time, by a server that may start.        *)

FrameTaken ==
    \/ \A t \in Slots : sr_curframe'[t] \in {sr_curframe[t], NoFrame}
    \/ /\ UNCHANGED work_allocate_method
       /\ \E s \in Slots : /\ MayStart(s)
                           /\ sr_curframe' = [sr_curframe EXCEPT ![s] = Fr]

LEMMA DropsForgetFrames ==
    ASSUME IInv, NEW s \in Slots, NEW state, NEW todo, NEW work, DropTo(s, state, todo, work)
    PROVE  FrameTaken
    BY ColumnTypes DEF DropTo, FrameTaken

LEMMA HandlersForgetFrames ==
    ASSUME IInv, NEW s \in Slots,
           \/ ph_version(s) \/ ph_dirbuild_reply(s) \/ ph_gettrees_reply(s) \/ ph_pixels(s)
           \/ ph_cmd(s)
    PROVE  FrameTaken
    <1>1. UNCHANGED sr_curframe
          \/ \E todo, work : DropTo(s, "CLOSING", todo, work)
        BY DEF ph_version, ph_dirbuild_reply, ph_gettrees_reply, ph_pixels, ph_cmd, IgnorePixels,
               FilePixels, FileCannotBeOpened, FileWriteFails, Dropped, Drop, srvVars
    <1>2. QED  BY <1>1, DropsForgetFrames DEF FrameTaken

LEMMA CommandsForgetFrames ==
    ASSUME IInv, Command
    PROVE  FrameTaken
    <1>1. CASE \E t \in Slots : cd_restart(t) \/ RestartNext(t) \/ RdebugNext(t) \/ cd_drop(t)
        <2>1. PICK t \in Slots : cd_restart(t) \/ RestartNext(t) \/ RdebugNext(t) \/ cd_drop(t)
            BY <1>1
        <2>2. UNCHANGED sr_curframe \/ \E state, todo, work : DropTo(t, state, todo, work)
            BY <2>1 DEF cd_restart, RestartNext, RdebugNext, cd_drop, send_restart, Dropped, Drop
        <2>3. QED  BY <2>2, DropsForgetFrames DEF FrameTaken
    <1>2. CASE CmdEnd
        <2>1. cmd.from \in Slots
            BY <1>2 DEF CmdEnd, IInv, LoopTypeOK, NoCmd
        <2>2. QED  BY <1>2, <2>1, DropsForgetFrames DEF CmdEnd, Dropped, Drop
    <1>3. CASE cd_stop \/ cd_go \/ (\E m \in {OPT_FRAME, OPT_LOAD, OPT_MOVIE} : cd_allocate(m))
                 \/ BroadcastEnd
        BY <1>3 DEF cd_stop, cd_go, cd_allocate, BroadcastEnd, srvVars, FrameTaken
    <1>4. QED  BY <1>1, <1>2, <1>3 DEF Command

LEMMA TasksTakeFrames ==
    ASSUME IInv, NEW s \in Slots, task_server(s)
    PROVE  FrameTaken
    <1>0. UNCHANGED work_allocate_method
        <2>1. \A ret : Returned(s, ret) => UNCHANGED modeVars  BY Zenon DEF Returned
        <2>2. \E ret : Returned(s, ret)
            BY Zenon
            DEF task_server, TaskNothing, TaskTardy, TaskGettrees, TaskLines, TaskMatrix,
                TaskMatrixFails
        <2>3. UNCHANGED modeVars  BY <2>1, <2>2, Zenon
        <2>4. QED  BY <2>3 DEF modeVars
    <1>1. \/ UNCHANGED sr_curframe
          \/ \E todo, work : DropTo(s, "CLOSING", todo, work)
          \/ sr_curframe' = [sr_curframe EXCEPT ![s] = NoFrame]
          \/ MayStart(s) /\ sr_curframe' = [sr_curframe EXCEPT ![s] = Fr]
        <2>1. CASE TaskNothing(s)  BY <2>1 DEF TaskNothing
        <2>2. CASE TaskTardy(s)  BY <2>2, Zenon DEF TaskTardy, Dropped, Drop
        <2>3. CASE TaskGettrees(s)  BY <2>3, Zenon DEF TaskGettrees, Dropped, Drop
        <2>4. ASSUME NEW lump, TaskLines(s, lump)
              PROVE  UNCHANGED sr_curframe \/ \E todo, work : DropTo(s, "CLOSING", todo, work)
            BY <2>4, Zenon DEF TaskLines, Drop
        <2>5. ASSUME NEW lump, TaskMatrix(s, lump)
              PROVE  \/ MayStart(s) /\ sr_curframe' = [sr_curframe EXCEPT ![s] = Fr]
                     \/ \E todo, work : DropTo(s, "CLOSING", todo, work)
            BY <2>5, Zenon DEF TaskMatrix, Drop
        <2>6. ASSUME NEW lump, TaskMatrixFails(s, lump)
              PROVE  sr_curframe' = [sr_curframe EXCEPT ![s] = NoFrame]
            BY <2>6 DEF TaskMatrixFails
        <2>7. QED  BY <2>1, <2>2, <2>3, <2>4, <2>5, <2>6, Zenon DEF task_server
    <1>2. CASE \E todo, work : DropTo(s, "CLOSING", todo, work)
        BY <1>2, DropsForgetFrames
    <1>3. CASE UNCHANGED sr_curframe  BY <1>3 DEF FrameTaken
    <1>4. CASE sr_curframe' = [sr_curframe EXCEPT ![s] = NoFrame]
        BY <1>4, ColumnTypes DEF FrameTaken
    <1>5. CASE MayStart(s) /\ sr_curframe' = [sr_curframe EXCEPT ![s] = Fr]
        BY <1>0, <1>5, Zenon DEF FrameTaken
    <1>6. QED  BY <1>1, <1>2, <1>3, <1>4, <1>5, Zenon

LEMMA StepTakesFrames ==
    ASSUME IInv, [FarmNext]_farmVars
    PROVE  FrameTaken
    <1>1. ASSUME NEW s \in Slots, addclient(s) PROVE FrameTaken
        BY <1>1, ColumnTypes DEF addclient, FrameTaken
    <1>2. ASSUME NEW s \in Slots, Suck(s) PROVE FrameTaken
        <2>1. UNCHANGED sr_curframe \/ DropTo(s, "CLOSING", fr_todo, sr_work)
            BY <1>2 DEF Suck, Dropped, Drop
        <2>2. QED  BY <2>1, DropsForgetFrames DEF FrameTaken
    <1>3. ASSUME NEW s \in Slots, SendDirbuild(s) PROVE FrameTaken
        <2>1. UNCHANGED sr_curframe \/ DropTo(s, "CLOSING", fr_todo, sr_work)
            BY <1>3, Zenon DEF SendDirbuild, Dropped, Drop
        <2>2. QED  BY <2>1, DropsForgetFrames DEF FrameTaken
    <1>4. ASSUME NEW i \in DOMAIN FrameHead, FrameIsDone(i) PROVE FrameTaken
        BY <1>4 DEF FrameIsDone, FrameTaken
    <1>5. CASE \/ ProcessEnd \/ Select \/ NoClient \/ SuckEnd \/ TransitionsEnd
               \/ FramesEnd \/ FrameBegin \/ FrameScanEnd \/ PassEnd
        <2>1. UNCHANGED srvVars
            BY <1>5 DEF ProcessEnd, Select, NoClient, SuckEnd, TransitionsEnd, FramesEnd,
                        FrameBegin, FrameScanEnd, PassEnd
        <2>2. QED  BY <2>1 DEF srvVars, FrameTaken
    <1>6. ASSUME NEW s \in Slots, FinalClose(s) PROVE FrameTaken
        BY <1>6 DEF FinalClose, FrameTaken
    <1>7. CASE (\E s \in Slots : Worker(s)) \/ Environment \/ (Terminated /\ UNCHANGED rtsrvVars)
                 \/ UNCHANGED farmVars
        BY <1>7 DEF Worker, Environment, Terminated, farmVars, remrtVars, srvVars, FrameTaken
    <1>8. QED
        BY <1>1, <1>2, <1>3, <1>4, <1>5, <1>6, <1>7, HandlersForgetFrames, CommandsForgetFrames,
           TasksTakeFrames
        DEF FarmNext, Dispatcher, RemrtStep


(* The method is only relaxed, unless somebody sends "allocate".           *)
LEMMA MethodRelaxed ==
    ASSUME IInv, CommandsAsked, "allocate" \notin Commands, [FarmNext]_farmVars
    PROVE  work_allocate_method' = OPT_MOVIE => work_allocate_method = OPT_MOVIE
    <1>1. ASSUME NEW m, cd_allocate(m) PROVE FALSE
        BY <1>1 DEF cd_allocate, Doing, CommandsAsked
    <1>2. CASE FrameScanEnd
        <2>1. work_allocate_method \in {OPT_FRAME, OPT_LOAD, OPT_MOVIE}
            BY DEF IInv, JobOK
        <2>2. work_allocate_method' \in {work_allocate_method, work_allocate_method - 1}
            BY <1>2 DEF FrameScanEnd
        <2>3. QED  BY <2>1, <2>2 DEF OPT_FRAME, OPT_LOAD, OPT_MOVIE
    <1>3. ASSUME NEW s \in Slots, task_server(s) PROVE UNCHANGED work_allocate_method
        <2>1. \A ret : Returned(s, ret) => UNCHANGED modeVars  BY Zenon DEF Returned
        <2>2. \E ret : Returned(s, ret)
            BY <1>3, Zenon
            DEF task_server, TaskNothing, TaskTardy, TaskGettrees, TaskLines, TaskMatrix,
                TaskMatrixFails
        <2>3. UNCHANGED modeVars  BY <2>1, <2>2, Zenon
        <2>4. QED  BY <2>3 DEF modeVars
    <1>4. ASSUME NEW s \in Slots,
                 \/ ph_version(s) \/ ph_dirbuild_reply(s) \/ ph_gettrees_reply(s)
                 \/ ph_pixels(s) \/ ph_cmd(s) \/ addclient(s) \/ Suck(s) \/ SendDirbuild(s)
                 \/ FinalClose(s)
          PROVE  UNCHANGED work_allocate_method
        BY <1>4 DEF ph_version, ph_dirbuild_reply, ph_gettrees_reply, ph_pixels, ph_cmd,
                    IgnorePixels, FilePixels, FileCannotBeOpened, FileWriteFails, addclient, Suck,
                    SendDirbuild, FinalClose, modeVars
    <1>5. CASE Command
        BY <1>1, <1>5 DEF Command, cd_stop, cd_go, cd_drop, cd_restart, RestartNext, RdebugNext,
                    BroadcastEnd, CmdEnd, modeVars
    <1>6. CASE \/ ProcessEnd \/ Select \/ NoClient \/ SuckEnd \/ TransitionsEnd
               \/ FramesEnd \/ FrameBegin \/ PassEnd
               \/ \E i \in DOMAIN FrameHead : FrameIsDone(i)
        BY <1>6 DEF ProcessEnd, Select, NoClient, SuckEnd, TransitionsEnd, FramesEnd, FrameBegin,
                    PassEnd, FrameIsDone, modeVars
    <1>7. CASE (\E s \in Slots : Worker(s)) \/ Environment \/ (Terminated /\ UNCHANGED rtsrvVars)
                 \/ UNCHANGED farmVars
        BY <1>7 DEF Worker, Environment, Terminated, farmVars, remrtVars, modeVars
    <1>8. QED
        BY <1>2, <1>3, <1>4, <1>5, <1>6, <1>7 DEF FarmNext, Dispatcher, RemrtStep

MovieInv == IInv /\ CommandsAsked /\ MovieFrameHasOneServer

LEMMA StepKeepsMovieInv ==
    ASSUME MovieInv, "allocate" \notin Commands, [FarmNext]_farmVars
    PROVE  MovieInv'
    <1>1. IInv' /\ CommandsAsked'
        BY StepKeepsIInv, StepAsked DEF MovieInv
    <1>2. MovieFrameHasOneServer'
        <2>1. SUFFICES ASSUME work_allocate_method' = OPT_MOVIE, NEW s \in Slots, NEW t \in Slots,
                              s # t, sr_curframe'[s] # NoFrame
                       PROVE  sr_curframe'[s] # sr_curframe'[t]
            BY DEF MovieFrameHasOneServer
        <2>2. work_allocate_method = OPT_MOVIE
            BY <2>1, MethodRelaxed DEF MovieInv
        <2>3. \A u, v \in Slots : u # v /\ sr_curframe[u] # NoFrame
                                    => sr_curframe[u] # sr_curframe[v]
            BY <2>2 DEF MovieInv, MovieFrameHasOneServer
        <2>4. FrameTaken  BY StepTakesFrames DEF MovieInv
        <2>5. CASE \A u \in Slots : sr_curframe'[u] \in {sr_curframe[u], NoFrame}
            BY <2>1, <2>3, <2>5
        <2>6. CASE \E u \in Slots : MayStart(u) /\ sr_curframe' = [sr_curframe EXCEPT ![u] = Fr]
            <3>1. PICK u \in Slots : MayStart(u) /\ sr_curframe' = [sr_curframe EXCEPT ![u] = Fr]
                BY <2>6
            <3>2. \A v \in Slots : sr_curframe[v] # Fr
                BY <2>2, <3>1 DEF MayStart
            <3>3. sr_curframe'[u] = Fr /\ \A v \in Slots \ {u} : sr_curframe'[v] = sr_curframe[v]
                BY <3>1, ColumnTypes DEF MovieInv
            <3>4. QED  BY <2>1, <2>3, <3>2, <3>3
        <2>7. QED  BY <2>4, <2>5, <2>6 DEF FrameTaken
    <1>3. QED  BY <1>1, <1>2 DEF MovieInv

(* "One per frame": whatever fails, and whatever the users of remrt send   *)
(* it except another allocation method, two servers have the same current  *)
(* frame only after task_server has found the method too strict and        *)
(* relaxed it.                                                             *)
THEOREM OneServerPerFrame ==
    ASSUME "allocate" \notin Commands PROVE Spec => []MovieFrameHasOneServer
    <1>1. FarmInit => MovieInv
        <2>1. FarmInit => MovieFrameHasOneServer
            BY DEF FarmInit, Init, MovieFrameHasOneServer
        <2>2. QED  BY <2>1, InitEstablishesIInv, InitAsked DEF MovieInv
    <1>2. MovieInv /\ [FarmNext]_farmVars => MovieInv'
        BY StepKeepsMovieInv
    <1>3. MovieInv => MovieFrameHasOneServer
        BY DEF MovieInv
    <1>4. QED  BY <1>1, <1>2, <1>3, PTL DEF Spec


-----------------------------------------------------------------------------
(* A dropped server: it has said its version, if it ever will, before it   *)
(* is dropped.  Users may stop and go and set the method; a drop, or a     *)
(* command that sends to all servers, can take hold of a connection that   *)
(* has not spoken yet.                                                     *)

Calm == Commands \cap {"drop", "rdebug", "restart", "restart all", "load"} = {}

LEMMA CalmRestartsNone == Calm => NoRestarts
    BY DEF Calm, NoRestarts

Spoken(lk, cl, up) ==
    /\ \A i \in DOMAIN up : up[i].type # "VERSION"
    /\ lk = "up" => cl \notin {"rtsrv", "stale"}

Said(s) == Spoken(link[s], caller[s], inbuf[s] \o toCtl[s])

(* A server that is past its version ...                                   *)
LEMMA PastVersion ==
    ASSUME NEW st, NEW wk, NEW cf, NEW lk, NEW cl, NEW up \in Seq(CtlMessages), NEW dn, NEW gt,
           NEW vw, NEW gr, SlotOK(TRUE, st, wk, cf, lk, cl, up, dn, gt, vw, gr),
           st \notin {"NEW", "CLOSING"}
    PROVE  Spoken(lk, cl, up)
    <1>1. \A i \in DOMAIN up : up[i].type # "VERSION"
        <2>1. CASE up = <<>>  BY <2>1
        <2>2. CASE Len(up) = 1 /\ Told(st, wk, up[1])
            <3>1. DOMAIN up = 1 .. 1  BY <2>2, LenProperties
            <3>2. up[1].type # "VERSION"  BY <2>2 DEF Told
            <3>3. QED  BY <3>1, <3>2
        <2>3. QED  BY <2>1, <2>2 DEF SlotOK
    <1>2. lk = "up" => cl = "none"
        BY DEF SlotOK, Live, Unheard
    <1>3. QED  BY <1>1, <1>2 DEF Spoken

(* ... or has been heard saying whatever it is.                            *)
LEMMA HasSpoken ==
    ASSUME NEW st, NEW wk, NEW cf, NEW lk, NEW cl, NEW up, NEW dn, NEW gt,
           NEW vw, NEW gr, SlotOK(TRUE, st, wk, cf, lk, cl, up, dn, gt, vw, gr), up # <<>>
    PROVE  Spoken(lk, cl, <<>>)
    <1>1. ASSUME lk = "up" PROVE cl \in {"none", "leaving"}
        <2>1. CASE up[1].type = "CMD"
            <3>1. Unheard(st, wk, cl, up, dn)  BY <1>1, <2>1, HeardLive
            <3>2. QED  BY <3>1 DEF Unheard
        <2>2. CASE up[1].type # "CMD"
            <3>1. cl = "none" /\ Answered(st, cf, up, dn, gt, vw, gr)
                BY <1>1, <2>2, HeardLive
            <3>2. QED  BY <3>1
        <2>3. QED  BY <2>1, <2>2
    <1>2. QED  BY <1>1 DEF Spoken

LEMMA HandledSaid ==
    ASSUME IInv, NEW s \in Slots, Conv(s), NEW type, Handle(s, type)
    PROVE  Said(s)'
    <1> DEFINE dn == WorkHead[s] \o toSrv[s]
               up == inbuf[s] \o toCtl[s]
    <1>1. sr_pc[s] /\ inbuf[s] # <<>>  BY DEF Handle, Comes, Waiting, Open
    <1>2. SlotOK(TRUE, sr_state[s], sr_work[s], sr_curframe[s], link[s], caller[s],
                 up, dn, seen_gettrees[s], view[s], grid[s])
        BY <1>1, OpenConv
    <1>3. up # <<>>  BY <1>1, SlotTypes, ConcatEqualIffEmpty
    <1>4. inbuf'[s] \o toCtl'[s] = <<>>
        <2>1. Len(up) = 1  BY <1>2, <1>3 DEF SlotOK
        <2>2. inbuf[s] \in Seq(CtlMessages) /\ toCtl[s] \in Seq(CtlMessages)  BY SlotTypes
        <2>3. Tail(inbuf[s]) \o toCtl[s] = <<>>  BY ONLY <1>1, <2>1, <2>2, OnlyMessage
        <2>4. inbuf' = [inbuf EXCEPT ![s] = Tail(inbuf[s])] /\ UNCHANGED toCtl  BY DEF Handle
        <2>5. QED  BY <2>3, <2>4, ColumnTypes
    <1> HIDE DEF up, dn
    <1>5. Spoken(link[s], caller[s], <<>>)  BY ONLY <1>2, <1>3, HasSpoken
    <1>6. UNCHANGED <<link, caller>>  BY DEF Handle
    <1>7. QED  BY <1>4, <1>5, <1>6 DEF Said

(* The lists an end of a connection may have become.                       *)
LEMMA StillSpoken ==
    ASSUME NEW lk, NEW cl, NEW up, Spoken(lk, cl, up), NEW lk2, lk2 = "up" => lk = "up"
    PROVE  Spoken(lk2, cl, up) /\ Spoken(lk2, cl, <<>>)
    BY DEF Spoken

LEMMA LessSpoken ==
    ASSUME NEW a \in Seq(CtlMessages), NEW b \in Seq(CtlMessages), NEW lk, NEW cl,
           Spoken(lk, cl, a \o b)
    PROVE  \A lk2 \in {"fin", "rst"} : Spoken(lk2, cl, a \o b) /\ Spoken(lk2, cl, a \o <<>>)
    <1> DEFINE S == CtlMessages
               d == a \o b
    <1>1. a \in Seq(S) /\ b \in Seq(S)  OBVIOUS
    <1> HIDE DEF S
    <1>2. a \o <<>> = a  BY <1>1, ConcatEmptySeq
    <1>3. /\ Len(a) \in Nat /\ Len(b) \in Nat /\ DOMAIN a = 1 .. Len(a)
          /\ DOMAIN d = 1 .. Len(a) + Len(b)
          /\ \A i \in 1 .. Len(a) : d[i] = a[i]
        BY <1>1, JoinedElements
    <1> HIDE DEF d
    <1>4. \A i \in DOMAIN a : i \in DOMAIN d /\ d[i] = a[i]  BY <1>3
    <1>5. Spoken(lk, cl, d)  BY DEF d
    <1>6. \A i \in DOMAIN a : a[i].type # "VERSION"  BY <1>4, <1>5 DEF Spoken
    <1>7. \A lk2 \in {"fin", "rst"} : Spoken(lk2, cl, a) /\ Spoken(lk2, cl, d)
        BY <1>5, <1>6 DEF Spoken
    <1>8. QED  BY <1>2, <1>7 DEF d

LEMMA MoreSpoken ==
    ASSUME NEW a \in Seq(CtlMessages), NEW b \in Seq(CtlMessages), NEW m \in CtlMessages,
           m.type # "VERSION", NEW lk, NEW cl, Spoken(lk, cl, a \o b),
           NEW cl2 \in {cl, "leaving"}
    PROVE  Spoken(lk, cl2, a \o Append(b, m))
    <1> DEFINE S == CtlMessages
               d == a \o b
               l == Len(d)
               e == d \o <<m>>
    <1>1. a \in Seq(S) /\ b \in Seq(S) /\ m \in S  OBVIOUS
    <1> HIDE DEF S
    <1>2. d \in Seq(S) /\ <<m>> \in Seq(S)  BY <1>1, ConcatProperties
    <1>3. Append(b, m) = b \o <<m>>  BY <1>1, AppendIsConcat
    <1>4. a \o Append(b, m) = e  BY <1>1, <1>2, <1>3, ConcatAssociative
    <1> HIDE DEF d
    <1>5. /\ l \in Nat /\ DOMAIN d = 1 .. l /\ DOMAIN e = 1 .. l + 1
          /\ \A i \in 1 .. l : e[i] = d[i]
          /\ e[l + 1] = m
        BY <1>1, <1>2, AddedOne
    <1> HIDE DEF l, e
    <1>6. \A i \in DOMAIN e : (i \in DOMAIN d /\ e[i] = d[i]) \/ e[i] = m  BY <1>5
    <1>7. Spoken(lk, cl, d)  BY DEF d
    <1>8. \A i \in DOMAIN e : e[i].type # "VERSION"  BY <1>6, <1>7 DEF Spoken
    <1>9. Spoken(lk, cl2, e)  BY <1>7, <1>8 DEF Spoken
    <1>10. QED  BY <1>4, <1>9


(* Whatever happens, a server that has spoken has spoken; a message more   *)
(* from a worker is an answer.                                             *)
LEMMA QuietSaid ==
    ASSUME NEW s \in Slots, Said(s), SameNet(s)
    PROVE  Said(s)'
    BY DEF Said, SameNet

LEMMA SentSaid ==
    ASSUME IInv, NEW s \in Slots, NEW k, NEW n, NEW msgs, Send(s, k, n, msgs),
           NEW t \in Slots, Said(t)
    PROVE  Said(t)'
    <1>1. /\ inbuf' = [inbuf EXCEPT ![s] = inbuf[s] \o toCtl[s]]
          /\ toCtl' = [toCtl EXCEPT ![s] = <<>>]
          /\ UNCHANGED caller
          /\ UNCHANGED link \/ (link[s] = "fin" /\ \E l \in {"fin", "rst"} : link' = [link EXCEPT ![s] = l])
        BY DEF Send
    <1>2. CASE t = s
        <2>1. inbuf[s] \in Seq(CtlMessages) /\ toCtl[s] \in Seq(CtlMessages)  BY SlotTypes
        <2>2. inbuf'[s] = inbuf[s] \o toCtl[s] /\ toCtl'[s] = <<>>  BY <1>1, ColumnTypes
        <2>3. inbuf'[s] \o toCtl'[s] = inbuf[s] \o toCtl[s]  BY <2>1, <2>2, MovedOver
        <2>4. link'[s] = "up" => link[s] = "up"  BY <1>1, ColumnTypes
        <2> DEFINE up == inbuf[s] \o toCtl[s]
        <2>5. Spoken(link[s], caller[s], up)  BY <1>2 DEF Said
        <2> HIDE DEF up
        <2>6. Spoken(link'[s], caller[s], up)  BY <2>4, <2>5, StillSpoken
        <2>7. QED  BY <1>1, <1>2, <2>3, <2>6 DEF Said, up
    <1>3. CASE t # s
        <2>1. inbuf'[t] = inbuf[t] /\ toCtl'[t] = toCtl[t] /\ link'[t] = link[t]
            BY <1>1, <1>3, ColumnTypes
        <2>2. QED  BY <1>1, <2>1 DEF Said
    <1>4. QED  BY <1>2, <1>3

LEMMA SuckedSaid ==
    ASSUME IInv, NEW s \in Slots, Suck(s), NEW t \in Slots, Said(t)
    PROVE  Said(t)'
    <1>1. UNCHANGED <<link, caller>>  BY DEF Suck
    <1>2. CASE UNCHANGED <<inbuf, toCtl>>
        BY <1>1, <1>2 DEF Said
    <1>3. CASE /\ inbuf' = [inbuf EXCEPT ![s] = inbuf[s] \o toCtl[s]]
               /\ toCtl' = [toCtl EXCEPT ![s] = <<>>]
        <2>1. CASE t = s
            <3>1. inbuf[s] \in Seq(CtlMessages) /\ toCtl[s] \in Seq(CtlMessages)  BY SlotTypes
            <3>2. inbuf'[s] = inbuf[s] \o toCtl[s] /\ toCtl'[s] = <<>>  BY <1>3, ColumnTypes
            <3>3. inbuf'[s] \o toCtl'[s] = inbuf[s] \o toCtl[s]  BY <3>1, <3>2, MovedOver
            <3>4. QED  BY <1>1, <2>1, <3>3 DEF Said
        <2>2. CASE t # s
            <3>1. inbuf'[t] = inbuf[t] /\ toCtl'[t] = toCtl[t]  BY <1>3, <2>2, ColumnTypes
            <3>2. QED  BY <1>1, <3>1 DEF Said
        <2>3. QED  BY <2>1, <2>2
    <1>4. QED  BY <1>2, <1>3 DEF Suck

LEMMA WorkerSaid ==
    ASSUME IInv, NEW s \in Slots, Worker(s), NEW t \in Slots, Said(t)
    PROVE  Said(t)'
    <1> DEFINE a == inbuf[s]
               b == toCtl[s]
    <1>1. a \in Seq(CtlMessages) /\ b \in Seq(CtlMessages)  BY SlotTypes
    <1>2. ASSUME NEW m \in CtlMessages, m.type # "VERSION", NEW c \in {caller[s], "leaving"},
                 toCtl' = [toCtl EXCEPT ![s] = Append(toCtl[s], m)], UNCHANGED <<inbuf, link>>,
                 caller' = [caller EXCEPT ![s] = c]
          PROVE  Said(t)'
        <2>1. CASE t = s
            <3>1. Spoken(link[s], caller[s], a \o b)  BY <2>1 DEF Said
            <3>2. inbuf'[s] = a /\ toCtl'[s] = Append(b, m) /\ caller'[s] = c /\ link'[s] = link[s]
                BY <1>2, ColumnTypes
            <3> HIDE DEF a, b
            <3>3. Spoken(link[s], c, a \o Append(b, m))
                BY ONLY <1>1, <1>2, <3>1, MoreSpoken
            <3>4. QED  BY <2>1, <3>2, <3>3 DEF Said
        <2>2. CASE t # s
            <3>1. SameNet(t) \/ (inbuf'[t] = inbuf[t] /\ toCtl'[t] = toCtl[t] /\ link'[t] = link[t]
                                 /\ caller'[t] = caller[t])
                BY <1>2, <2>2, ColumnTypes
            <3>2. QED  BY <3>1, QuietSaid DEF Said
        <2>3. QED  BY <2>1, <2>2
    <1>3. CASE Speak(s)
        <2>1. ASSUME t # s PROVE Said(t)'
            <3>1. inbuf'[t] = inbuf[t] /\ toCtl'[t] = toCtl[t] /\ link'[t] = link[t]
                  /\ caller'[t] = caller[t]
                BY <1>3, <2>1, ColumnTypes DEF Speak
            <3>2. QED  BY <3>1 DEF Said
        <2>2. ASSUME t = s PROVE Said(t)'
            <3>1. caller[s] \in CommandNames
                BY <1>3, <2>2 DEF Speak, Said, Spoken
            <3> DEFINE m == [type |-> "CMD", cmd |-> caller[s]]
            <3>2. m \in CtlMessages /\ m.type # "VERSION"  BY <3>1 DEF CtlMessages
            <3>3. /\ toCtl' = [toCtl EXCEPT ![s] = Append(toCtl[s], m)]
                  /\ caller' = [caller EXCEPT ![s] = "leaving"] /\ UNCHANGED <<inbuf, link>>
                BY <1>3, <3>1 DEF Speak
            <3> HIDE DEF m
            <3>4. QED  BY <1>2, <3>2, <3>3
        <2>3. QED  BY <2>1, <2>2
    <1>4. ASSUME NEW m \in CtlMessages, m.type # "VERSION", Reply(s, m),
                 UNCHANGED <<inbuf, link, caller>>
          PROVE  Said(t)'
        <2>1. toCtl' = [toCtl EXCEPT ![s] = Append(toCtl[s], m)]  BY <1>4 DEF Reply
        <2>2. caller' = [caller EXCEPT ![s] = caller[s]]
            BY <1>4 DEF IInv, NetTypeOK
        <2>3. QED  BY <1>2, <1>4, <2>1, <2>2
    <1>5. CASE ph_dirbuild(s)
        <2>1. UNCHANGED <<link, caller, inbuf>>  BY <1>5 DEF ph_dirbuild, Reads
        <2>2. UNCHANGED toCtl \/ Reply(s, [type |-> "DIRBUILD_REPLY"])
            BY <1>5 DEF ph_dirbuild
        <2>3. [type |-> "DIRBUILD_REPLY"] \in CtlMessages
              /\ [type |-> "DIRBUILD_REPLY"].type # "VERSION"
            BY DEF CtlMessages
        <2>4. CASE UNCHANGED toCtl  BY <2>1, <2>4 DEF Said
        <2>5. QED  BY <1>4, <2>1, <2>2, <2>3, <2>4
    <1>6. CASE ph_gettrees(s)
        <2>1. UNCHANGED <<link, caller, inbuf>> /\ Reply(s, [type |-> "GETTREES_REPLY"])
            BY <1>6 DEF ph_gettrees, Takes
        <2>2. [type |-> "GETTREES_REPLY"] \in CtlMessages
              /\ [type |-> "GETTREES_REPLY"].type # "VERSION"
            BY DEF CtlMessages
        <2>3. QED  BY <1>4, <2>1, <2>2
    <1>7. CASE ph_lines(s)
        <2>1. UNCHANGED <<link, caller, inbuf>>  BY <1>7 DEF ph_lines, Takes
        <2>2. NetTypeOK'  BY StepKeepsIInv DEF IInv, FarmNext
        <2>3. CASE UNCHANGED toCtl  BY <2>1, <2>3 DEF Said
        <2>4. CASE ~UNCHANGED toCtl
            <3> DEFINE w == Head(WorkHead[s])
                       m == [type |-> "PIXELS", frame |-> w.frame, start |-> w.start,
                             stop |-> w.stop, view |-> view[s], grid |-> grid[s]]
            <3>1. Reply(s, m)  BY <1>7, <2>4 DEF ph_lines
            <3>2. toCtl' = [toCtl EXCEPT ![s] = Append(toCtl[s], m)]  BY <3>1 DEF Reply
            <3>3. m.type # "VERSION"  OBVIOUS
            <3> HIDE DEF m
            <3>4. m \in CtlMessages
                <4>1. toCtl[s] \in Seq(CtlMessages)  BY SlotTypes
                <4>2. Append(toCtl[s], m) \in Seq(CtlMessages)
                    BY <2>2, <3>2, ColumnTypes DEF NetTypeOK
                <4>3. QED  BY <4>1, <4>2
            <3>5. QED  BY <1>4, <2>1, <3>1, <3>3, <3>4
        <2>5. QED  BY <2>3, <2>4
    <1>8. CASE ph_restart(s) \/ OneShotExit(s)
        <2>1. /\ UNCHANGED <<inbuf, toCtl, caller>> /\ \A u \in Slots \ {s} : link'[u] = link[u]
              /\ link'[s] \in {"fin", "rst"}
            BY <1>8, ColumnTypes, HangupIsLost DEF ph_restart, OneShotExit, Reads
        <2> DEFINE up == inbuf[t] \o toCtl[t]
        <2>2. Spoken(link[t], caller[t], up)  BY DEF Said
        <2> HIDE DEF up
        <2>3. link'[t] = "up" => link[t] = "up"  BY <2>1
        <2>4. Spoken(link'[t], caller[t], up)  BY <2>2, <2>3, StillSpoken
        <2>5. QED  BY <2>1, <2>4 DEF Said, up
    <1>9. CASE ph_enqueue(s) \/ ph_matrix(s) \/ ph_options(s)
        <2>1. UNCHANGED <<caller, link, toCtl, inbuf>>
            BY <1>9 DEF ph_enqueue, ph_matrix, ph_options, Reads, Takes
        <2>2. QED  BY <2>1 DEF Said
    <1>10. QED
        BY <1>3, <1>5, <1>6, <1>7, <1>8, <1>9 DEF Worker, RtsrvStep

LEMMA EnvironmentSaid ==
    ASSUME IInv, Environment, NEW t \in Slots, Said(t)
    PROVE  Said(t)'
    <1>1. CASE CallRtsrv \/ CallCommand
        BY <1>1 DEF CallRtsrv, CallCommand, Said
    <1>2. ASSUME NEW s \in Slots, RtsrvExit(s) \/ NetworkReset(s) PROVE Said(t)'
        <2>1. /\ UNCHANGED <<inbuf, caller>> /\ link'[s] \in {"fin", "rst"}
              /\ toCtl'[s] \in {toCtl[s], <<>>}
              /\ \A u \in Slots \ {s} : link'[u] = link[u] /\ toCtl'[u] = toCtl[u]
            BY <1>2, ColumnTypes, HangupIsLost DEF RtsrvExit, NetworkReset
        <2>2. CASE t = s
            <3> DEFINE a == inbuf[s]
                       b == toCtl[s]
                       l == link'[s]
            <3>1. a \in Seq(CtlMessages) /\ b \in Seq(CtlMessages)  BY SlotTypes
            <3>2. Spoken(link[s], caller[s], a \o b)  BY <2>2 DEF Said
            <3>3. l \in {"fin", "rst"}  BY <2>1
            <3> HIDE DEF a, b, l
            <3>4. Spoken(l, caller[s], a \o b) /\ Spoken(l, caller[s], a \o <<>>)
                BY ONLY <3>1, <3>2, <3>3, LessSpoken
            <3>5. QED  BY <2>1, <2>2, <3>4 DEF Said, a, b, l
        <2>3. CASE t # s
            BY <2>1, <2>3 DEF Said
        <2>4. QED  BY <2>2, <2>3
    <1>3. QED  BY <1>1, <1>2 DEF Environment


LEMMA StepKeepsSaid ==
    ASSUME IInv, \A s \in Slots : Conv(s), [FarmNext]_farmVars, NEW t \in Slots, sr_pc[t], Said(t)
    PROVE  Said(t)'
    <1>1. ASSUME NEW s \in Slots, NEW type, Handle(s, type) PROVE Said(t)'
        <2>1. CASE t = s  BY <1>1, <2>1, HandledSaid
        <2>2. CASE t # s
            BY <1>1, <2>2, ColumnTypes DEF Handle, Said
        <2>3. QED  BY <2>1, <2>2
    <1>2. ASSUME NEW s \in Slots, addclient(s) PROVE Said(t)'
        <2>1. t # s  BY <1>2 DEF addclient, FreeSlot
        <2>2. QED  BY <1>2, <2>1, ColumnTypes DEF addclient, Said
    <1>3. ASSUME NEW s \in Slots, FinalClose(s) PROVE Said(t)'
        <2>1. CASE t = s
            <3>1. inbuf'[t] = <<>> /\ toCtl'[t] = <<>> /\ link'[t] = "none"
                BY <1>3, <2>1, ColumnTypes DEF FinalClose
            <3>2. inbuf'[t] \o toCtl'[t] = <<>>  BY <3>1, EmptySeq, ConcatEmptySeq
            <3>3. QED  BY <3>1, <3>2 DEF Said, Spoken
        <2>2. CASE t # s
            BY <1>3, <2>2, ColumnTypes DEF FinalClose, Said
        <2>3. QED  BY <2>1, <2>2
    <1>4. ASSUME NEW s \in Slots, SendDirbuild(s) PROVE Said(t)'
        <2>1. \E k, msgs : Send(s, k, 2, msgs)  BY <1>4, Zenon DEF SendDirbuild
        <2>2. QED  BY <2>1, SentSaid
    <1>5. ASSUME NEW s \in Slots, task_server(s) PROVE Said(t)'
        <2>1. \E k, n, msgs : Send(s, k, n, msgs) \/ UNCHANGED netVars
            BY <1>5, Zenon
            DEF task_server, TaskNothing, TaskTardy, TaskGettrees, TaskLines, TaskMatrix,
                TaskMatrixFails
        <2>2. CASE UNCHANGED netVars  BY <2>2 DEF netVars, Said
        <2>3. QED  BY <2>1, <2>2, SentSaid
    <1>6. CASE \E s \in Slots : \/ ph_version(s) \/ ph_dirbuild_reply(s) \/ ph_gettrees_reply(s)
                                \/ ph_pixels(s) \/ ph_cmd(s)
        BY <1>1, <1>6 DEF ph_version, ph_dirbuild_reply, ph_gettrees_reply, ph_pixels, ph_cmd,
                          IgnorePixels, FilePixels, FileCannotBeOpened, FileWriteFails
    <1>7. CASE Command
        <2>1. CASE \E s \in Slots : cd_restart(s) \/ RestartNext(s) \/ RdebugNext(s)
            <3>1. PICK s \in Slots : cd_restart(s) \/ RestartNext(s) \/ RdebugNext(s)
                BY <2>1
            <3>2. \E k, msgs : Send(s, k, 1, msgs)
                BY <3>1, Zenon DEF cd_restart, RestartNext, RdebugNext, send_restart
            <3>3. QED  BY <3>2, SentSaid
        <2>2. CASE cd_stop \/ cd_go \/ (\E m \in {OPT_FRAME, OPT_LOAD, OPT_MOVIE} : cd_allocate(m))
                     \/ (\E s \in Slots : cd_drop(s)) \/ BroadcastEnd \/ CmdEnd
            <3>1. UNCHANGED netVars
                BY <2>2 DEF cd_stop, cd_go, cd_allocate, cd_drop, BroadcastEnd, CmdEnd
            <3>2. QED  BY <3>1 DEF netVars, Said
        <2>3. QED  BY <1>7, <2>1, <2>2 DEF Command
    <1>8. CASE \/ ProcessEnd \/ Select \/ NoClient \/ SuckEnd \/ TransitionsEnd
               \/ FramesEnd \/ FrameBegin \/ FrameScanEnd \/ PassEnd
               \/ \E i \in DOMAIN FrameHead : FrameIsDone(i)
        <2>1. UNCHANGED <<caller, link, toCtl, toSrv, inbuf>>
            BY <1>8 DEF ProcessEnd, Select, NoClient, SuckEnd, TransitionsEnd, FramesEnd, FrameBegin,
                        FrameScanEnd, PassEnd, FrameIsDone, netVars
        <2>2. QED  BY <2>1 DEF Said
    <1>9. CASE (Terminated /\ UNCHANGED rtsrvVars) \/ UNCHANGED farmVars
        BY <1>9 DEF Terminated, farmVars, netVars, Said
    <1>10. QED
        BY <1>2, <1>3, <1>4, <1>5, <1>6, <1>7, <1>8, <1>9, SuckedSaid, WorkerSaid, EnvironmentSaid
        DEF FarmNext, Dispatcher, RemrtStep

-----------------------------------------------------------------------------
(* check_input reads its buffers before it asks select(), and what         *)
(* select() has found is still there when it is read.                      *)

Round ==
    /\ pc = "process1" => \A s \in Open : s < cur => inbuf[s] = <<>>
    /\ pc \in {"cmd", "cmd end"} /\ cmd.ret = "process1" =>
          \A s \in Open : s < cmd.from => inbuf[s] = <<>>
    /\ pc \in {"select", "accept"} => \A s \in Open : inbuf[s] = <<>>
    /\ pc = "suck" => \A s \in Open : s >= cur => inbuf[s] = <<>>

Found ==
    pc \in {"accept", "suck"} =>
        \A s \in ifdset \ {0} : (pc = "suck" => s >= cur) => toCtl[s] # <<>> \/ link[s] # "up"

LEMMA ElsewhereKept ==
    ASSUME pc' \notin {"process1", "cmd", "cmd end", "select", "accept", "suck"}
    PROVE  Round' /\ Found'
    BY DEF Round, Found

(* Workers and the world.                                                  *)
LEMMA OutsideKeepsRound ==
    ASSUME IInv, Loop, Round, Found, (\E s \in Slots : Worker(s)) \/ Environment
    PROVE  Round' /\ Found'
    <1>1. UNCHANGED remrtVars /\ UNCHANGED inbuf
        BY DEF Worker, RtsrvStep, Speak, OneShotExit, ph_dirbuild, ph_restart, ph_enqueue, ph_matrix,
               ph_gettrees, ph_options, ph_lines, Reads, Takes, Environment, CallRtsrv, CallCommand,
               RtsrvExit, NetworkReset
    <1>2. UNCHANGED <<sr_pc, pc, cur, ifdset, cmd>>  BY <1>1 DEF remrtVars, srvVars, loopVars
    <1>3. Round'  BY <1>1, <1>2 DEF Round, Open
    <1>4. \A t \in Slots : toCtl[t] # <<>> \/ link[t] # "up" => toCtl'[t] # <<>> \/ link'[t] # "up"
        <2>1. SUFFICES ASSUME NEW t \in Slots, toCtl[t] # <<>> \/ link[t] # "up"
                       PROVE  toCtl'[t] # <<>> \/ link'[t] # "up"
            OBVIOUS
        <2>2. ASSUME NEW s \in Slots, NEW m, toCtl' = [toCtl EXCEPT ![s] = Append(toCtl[s], m)],
                     UNCHANGED link
              PROVE  toCtl'[t] # <<>> \/ link'[t] # "up"
            <3>1. toCtl[s] \in Seq(CtlMessages)  BY SlotTypes
            <3>2. Append(toCtl[s], m) # <<>>
                <4>1. toCtl[s] \in Seq(CtlMessages \cup {m}) /\ m \in CtlMessages \cup {m}
                    BY <3>1, SeqMonotonic
                <4>2. Len(Append(toCtl[s], m)) = Len(toCtl[s]) + 1 /\ Len(toCtl[s]) \in Nat
                    BY <4>1, AppendProperties, LenProperties
                <4>3. QED  BY <4>2
            <3>3. QED  BY <2>1, <2>2, <3>2, ColumnTypes
        <2>3. ASSUME NEW s \in Slots, Worker(s) PROVE toCtl'[t] # <<>> \/ link'[t] # "up"
            <3>1. CASE Speak(s)  BY <2>2, <3>1 DEF Speak
            <3>2. CASE ph_restart(s) \/ OneShotExit(s)
                BY <2>1, <3>2, ColumnTypes, HangupIsLost DEF ph_restart, OneShotExit
            <3>3. CASE ph_enqueue(s) \/ ph_matrix(s) \/ ph_options(s)
                BY <2>1, <3>3 DEF ph_enqueue, ph_matrix, ph_options, Reads, Takes
            <3>4. CASE ph_dirbuild(s) \/ ph_gettrees(s) \/ ph_lines(s)
                <4>1. UNCHANGED link
                    BY <3>4 DEF ph_dirbuild, ph_gettrees, ph_lines, Takes
                <4>2. UNCHANGED toCtl \/ \E m : Reply(s, m)
                    BY <3>4, Zenon DEF ph_dirbuild, ph_gettrees, ph_lines
                <4>3. QED  BY <2>1, <2>2, <4>1, <4>2 DEF Reply
            <3>5. QED  BY <2>3, <3>1, <3>2, <3>3, <3>4 DEF Worker, RtsrvStep
        <2>4. CASE Environment
            <3>1. CASE CallRtsrv \/ CallCommand
                BY <2>1, <3>1 DEF CallRtsrv, CallCommand
            <3>2. ASSUME NEW s \in Slots, RtsrvExit(s) \/ NetworkReset(s)
                  PROVE  toCtl'[t] # <<>> \/ link'[t] # "up"
                BY <2>1, <3>2, ColumnTypes, HangupIsLost DEF RtsrvExit, NetworkReset
            <3>3. QED  BY <2>4, <3>1, <3>2 DEF Environment
        <2>5. QED  BY <2>3, <2>4
    <1>5. ifdset \ {0} \subseteq Slots  BY DEF Loop, Open
    <1>6. QED  BY <1>2, <1>3, <1>4, <1>5 DEF Found


(* The dispatcher's turns.                                                 *)
LEMMA HandlersKeepRound ==
    ASSUME IInv, Round, NEW s \in Slots, NEW type, Handle(s, type), UNCHANGED sr_pc,
           \/ UNCHANGED <<pc, cmd>> /\ type # "CMD"
           \/ pc' = "cmd" /\ cmd' = [name |-> Head(inbuf[s]).cmd, from |-> s, ret |-> pc]
    PROVE  Round' /\ Found'
    <1>1. pc \in {"process1", "process2"} /\ Comes(s, Waiting)
          /\ inbuf' = [inbuf EXCEPT ![s] = Tail(inbuf[s])]
        BY DEF Handle
    <1>2. \A t \in Slots \ {s} : inbuf'[t] = inbuf[t]  BY <1>1, ColumnTypes
    <1>3. cur \in Nat  BY DEF IInv, LoopTypeOK
    <1>4. ASSUME pc = "process1", NEW t \in Open, t < s PROVE inbuf'[t] = <<>>
        <2>1. t \in Slots \ {s} /\ t \in Nat /\ s \in Nat  BY <1>4, SlotsAreNumbers DEF Open
        <2>2. CASE t < cur
            BY <1>2, <1>4, <2>1, <2>2 DEF Round
        <2>3. CASE ~(t < cur)
            <3>1. t >= cur /\ ~(t >= s)  BY <1>3, <1>4, <2>1, <2>3
            <3>2. t \notin Waiting  BY <1>1, <3>1 DEF Comes
            <3>3. QED  BY <1>2, <1>4, <2>1, <3>2 DEF Waiting
        <2>4. QED  BY <2>2, <2>3
    <1>5. Open' = Open  BY DEF Open
    <1>6. CASE UNCHANGED <<pc, cmd>> /\ type # "CMD"
        <2>1. cur' = s  BY <1>6 DEF Handle
        <2>2. QED  BY <1>1, <1>4, <1>5, <1>6, <2>1 DEF Round, Found
    <1>7. CASE pc' = "cmd" /\ cmd' = [name |-> Head(inbuf[s]).cmd, from |-> s, ret |-> pc]
        <2>1. cmd'.from = s /\ cmd'.ret = pc  BY <1>7
        <2>2. QED  BY <1>4, <1>5, <1>7, <2>1 DEF Round, Found
    <1>8. QED  BY <1>6, <1>7

LEMMA CalmCommands ==
    ASSUME Calm, Loop, Command
    PROVE  /\ UNCHANGED <<sr_pc, inbuf>>
           /\ ~CmdEnd => /\ UNCHANGED <<cmd, srvVars>>
                         /\ pc \in {"cmd", "cmd end"} /\ pc' \in {"cmd", "cmd end"}
    <1>1. ASSUME NEW t, cd_drop(t) \/ cd_restart(t) \/ RestartNext(t) \/ RdebugNext(t) PROVE FALSE
        BY <1>1 DEF cd_drop, cd_restart, RestartNext, RdebugNext, RestartsAll, Doing, Loop, Calm
    <1>2. CASE CmdEnd
        BY <1>2 DEF CmdEnd, netVars
    <1>3. CASE cd_stop \/ cd_go \/ (\E m \in {OPT_FRAME, OPT_LOAD, OPT_MOVIE} : cd_allocate(m))
                 \/ BroadcastEnd
        BY <1>3 DEF cd_stop, cd_go, cd_allocate, BroadcastEnd, Doing, RestartsAll, Goto, srvVars,
                    netVars
    <1>4. QED  BY <1>1, <1>2, <1>3 DEF Command

LEMMA CommandsKeepRound ==
    ASSUME IInv, Calm, Loop, Round, Command
    PROVE  Round' /\ Found'
    <1>1. UNCHANGED <<sr_pc, inbuf>>  BY CalmCommands
    <1>2. Open' = Open  BY <1>1 DEF Open
    <1>3. CASE CmdEnd
        <2>1. pc = "cmd end" /\ pc' = cmd.ret /\ cur' = cmd.from
              /\ pc' \in {"process1", "process2"}
            BY <1>3 DEF CmdEnd, IInv, LoopTypeOK, NoCmd
        <2>2. QED  BY <1>1, <1>2, <2>1 DEF Round, Found
    <1>4. CASE ~CmdEnd
        <2>1. UNCHANGED cmd /\ pc \in {"cmd", "cmd end"} /\ pc' \in {"cmd", "cmd end"}
            BY <1>4, CalmCommands
        <2>2. QED  BY <1>1, <1>2, <2>1 DEF Round, Found
    <1>5. QED  BY <1>3, <1>4

LEMMA CheckInputKeepsRound ==
    ASSUME IInv, Loop, \A s \in Slots : Conv(s), Round, Found,
           \/ ProcessEnd \/ Select \/ NoClient \/ SuckEnd
           \/ \E s \in Slots : addclient(s) \/ Suck(s)
    PROVE  Round' /\ Found'
    <1>1. CASE ProcessEnd
        <2>1. UNCHANGED <<sr_pc, inbuf>> /\ pc \in {"process1", "process2"}
              /\ LoopOver(Waiting) /\ pc' = IF pc = "process1" THEN "select" ELSE "transitions"
            BY <1>1 DEF ProcessEnd, Goto, srvVars, netVars
        <2>2. Open' = Open  BY <2>1 DEF Open
        <2>3. pc = "process1" => \A t \in Open : inbuf[t] = <<>>
            BY <2>1 DEF LoopOver, Round, Waiting
        <2>4. QED  BY <2>1, <2>2, <2>3 DEF Round, Found
    <1>2. CASE Select
        <2>1. /\ UNCHANGED <<sr_pc, inbuf, toCtl, link>> /\ pc = "select" /\ ifdset' = Readable
              /\ pc' \in {"transitions", "accept"}
            BY <1>2 DEF Select, Goto, srvVars, netVars
        <2>2. Open' = Open  BY <2>1 DEF Open
        <2>3. \A s \in Readable \ {0} : toCtl[s] # <<>> \/ link[s] # "up"
            BY DEF Readable
        <2>4. Found'  BY <2>1, <2>3 DEF Found
        <2>5. Round'  BY <2>1, <2>2 DEF Round
        <2>6. QED  BY <2>4, <2>5
    <1>3. CASE NoClient
        <2>1. /\ UNCHANGED <<sr_pc, inbuf, toCtl, link>> /\ pc = "accept"
              /\ ifdset' = ifdset \ {0} /\ pc' = "suck"
            BY <1>3 DEF NoClient, Goto, srvVars, netVars
        <2>2. Open' = Open  BY <2>1 DEF Open
        <2>3. Found'  BY <2>1 DEF Found
        <2>4. Round'  BY <2>1, <2>2 DEF Round
        <2>5. QED  BY <2>3, <2>4
    <1>4. CASE SuckEnd
        <2>1. pc' = "process2"  BY <1>4 DEF SuckEnd, Goto
        <2>2. QED  BY <2>1, ElsewhereKept
    <1>5. ASSUME NEW s \in Slots, addclient(s) PROVE Round' /\ Found'
        <2>1. /\ UNCHANGED <<inbuf, toCtl>> /\ pc = "accept" /\ ifdset' = ifdset \ {0}
              /\ pc' = "suck" /\ sr_pc' = [sr_pc EXCEPT ![s] = TRUE]
              /\ link' = [link EXCEPT ![s] = "up"] /\ ~sr_pc[s]
            BY <1>5 DEF addclient, Goto, FreeSlot
        <2>2. Open' = Open \cup {s}  BY <2>1, ColumnTypes DEF Open
        <2>3. inbuf[s] = <<>>
            <3>1. sr_pc[s] = FALSE  BY <2>1, SlotTypes
            <3>2. inbuf[s] \o toCtl[s] = <<>>  BY <3>1 DEF Conv, SlotOK, Closed
            <3>3. inbuf[s] \in Seq(CtlMessages) /\ toCtl[s] \in Seq(CtlMessages)  BY SlotTypes
            <3>4. QED  BY <3>2, <3>3, ConcatEqualIffEmpty
        <2>4. Round'  BY <2>1, <2>2, <2>3 DEF Round
        <2>5. \A t \in ifdset \ {0} : link'[t] = link[t]
            <3>1. s \notin ifdset \ {0} /\ ifdset \ {0} \subseteq Slots  BY <2>1 DEF Loop, Open
            <3>2. QED  BY <2>1, <3>1, ColumnTypes
        <2>6. Found'  BY <2>1, <2>5 DEF Found
        <2>7. QED  BY <2>4, <2>6
    <1>6. ASSUME NEW s \in Slots, Suck(s) PROVE Round' /\ Found'
        <2>1. /\ UNCHANGED <<sr_pc, link, pc, ifdset>> /\ pc = "suck" /\ cur' = s + 1
              /\ Comes(s, ifdset)
            BY <1>6 DEF Suck
        <2>2. \A t \in Slots \ {s} : inbuf'[t] = inbuf[t] /\ toCtl'[t] = toCtl[t]
            BY <1>6, ColumnTypes DEF Suck
        <2>3. Open' = Open  BY <2>1 DEF Open
        <2>4. \A t \in Slots : t >= cur' => t \in Slots \ {s} /\ t >= cur
            <3>1. s >= cur /\ cur \in Nat  BY <2>1 DEF Comes, IInv, LoopTypeOK
            <3>2. QED  BY <2>1, <3>1, SlotsAreNumbers
        <2>5. Round'  BY <2>1, <2>2, <2>3, <2>4 DEF Round, Open
        <2>6. ifdset \ {0} \subseteq Slots  BY DEF Loop, Open
        <2>7. Found'  BY <2>1, <2>2, <2>4, <2>6 DEF Found
        <2>8. QED  BY <2>5, <2>7
    <1>7. QED  BY <1>1, <1>2, <1>3, <1>4, <1>5, <1>6

LEMMA ScheduleKeepsRound ==
    ASSUME IInv,
           \/ TransitionsEnd \/ FramesEnd \/ FrameBegin \/ FrameScanEnd \/ PassEnd
           \/ \E i \in DOMAIN FrameHead : FrameIsDone(i)
           \/ \E s \in Slots : SendDirbuild(s) \/ task_server(s) \/ FinalClose(s)
    PROVE  Round' /\ Found'
    <1>1. CASE \/ TransitionsEnd \/ FrameBegin \/ PassEnd
               \/ \E i \in DOMAIN FrameHead : FrameIsDone(i)
               \/ \E s \in Slots : SendDirbuild(s) \/ FinalClose(s)
        <2>1. pc' \notin {"process1", "cmd", "cmd end", "select", "accept", "suck"}
            BY <1>1 DEF TransitionsEnd, FrameBegin, PassEnd, FrameIsDone, SendDirbuild, FinalClose,
                        Goto
        <2>2. QED  BY <2>1, ElsewhereKept
    <1>2. ASSUME NEW s \in Slots, task_server(s) PROVE Round' /\ Found'
        <2>1. \A ret : Returned(s, ret) => UNCHANGED pc /\ pc = "task"  BY Zenon DEF Returned
        <2>2. \E ret : Returned(s, ret)
            BY <1>2, Zenon
            DEF task_server, TaskNothing, TaskTardy, TaskGettrees, TaskLines, TaskMatrix,
                TaskMatrixFails
        <2>3. pc' = "task"  BY <2>1, <2>2, Zenon
        <2>4. QED  BY <2>3, ElsewhereKept
    <1>3. CASE FramesEnd \/ FrameScanEnd
        <2>1. pc' \in {"frame", "exit", "process1"} /\ cur' = 1
            BY <1>3 DEF FramesEnd, FrameScanEnd, Leave, Goto
        <2>2. \A s \in Slots : ~(s < 1)  BY DEF Slots
        <2>3. QED  BY <2>1, <2>2 DEF Round, Found, Open
    <1>4. QED  BY <1>1, <1>2, <1>3

LEMMA StepKeepsRound ==
    ASSUME IInv, Calm, Loop, \A s \in Slots : Conv(s), Round, Found, [FarmNext]_farmVars
    PROVE  Round' /\ Found'
    <1>1. CASE \E s \in Slots : ph_version(s) \/ ph_dirbuild_reply(s) \/ ph_gettrees_reply(s)
                                  \/ ph_pixels(s) \/ ph_cmd(s)
        BY <1>1, HandlersKeepRound
        DEF ph_version, ph_dirbuild_reply, ph_gettrees_reply, ph_pixels, ph_cmd, IgnorePixels,
            FilePixels, FileCannotBeOpened, FileWriteFails, srvVars
    <1>2. CASE (Terminated /\ UNCHANGED rtsrvVars) \/ UNCHANGED farmVars
        <2>1. UNCHANGED <<sr_pc, inbuf, toCtl, link, pc, cur, ifdset, cmd>>
            BY <1>2 DEF Terminated, farmVars, remrtVars, srvVars, loopVars, netVars
        <2>2. QED  BY <2>1 DEF Round, Found, Open
    <1>3. QED
        BY <1>1, <1>2, CommandsKeepRound, CheckInputKeepsRound, ScheduleKeepsRound,
           OutsideKeepsRound
        DEF FarmNext, Dispatcher, RemrtStep


-----------------------------------------------------------------------------
(* The invariant.                                                          *)

ClosingInv ==
    /\ TalkInv /\ Round /\ Found
    /\ pc \in {"cmd", "cmd end"} => Said(cmd.from)
    /\ \A s \in Slots : sr_state[s] = "CLOSING" => Said(s)

(* A server that a step is dropping has spoken, or has just been heard.    *)
LEMMA DropsTheSpoken ==
    ASSUME Calm, ClosingInv, [FarmNext]_farmVars, NEW t \in Slots,
           sr_state[t] # "CLOSING", sr_state'[t] = "CLOSING"
    PROVE  (sr_pc[t] /\ Said(t)) \/ Said(t)'
    <1>0. IInv /\ Loop /\ \A s \in Slots : Conv(s)  BY DEF ClosingInv, TalkInv
    <1>1. ASSUME NEW s \in Slots, NEW state, NEW todo, NEW work, DropTo(s, state, todo, work)
          PROVE  t = s
        BY <1>0, <1>1, ColumnTypes DEF DropTo
    <1>2. ASSUME sr_pc[t], sr_state[t] \in {"VERSOK", "NEED_TREE", "READY"} PROVE Said(t)
        <2> DEFINE dn == WorkHead[t] \o toSrv[t]
                   up == inbuf[t] \o toCtl[t]
        <2>1. SlotOK(TRUE, sr_state[t], sr_work[t], sr_curframe[t], link[t], caller[t],
                     up, dn, seen_gettrees[t], view[t], grid[t])
            BY <1>0, <1>2, OpenConv
        <2>2. up \in Seq(CtlMessages)  BY <1>0, SlotTypes
        <2>3. sr_state[t] \notin {"NEW", "CLOSING"}  BY <1>2
        <2> HIDE DEF up, dn
        <2>4. Spoken(link[t], caller[t], up)  BY ONLY <2>1, <2>2, <2>3, PastVersion
        <2>5. QED  BY <2>4 DEF Said, up
    <1>3. ASSUME NEW s \in Slots,
                 \/ ph_version(s) \/ ph_dirbuild_reply(s) \/ ph_gettrees_reply(s)
                 \/ ph_pixels(s) \/ ph_cmd(s)
          PROVE  Said(t)'
        <2>1. \E type : Handle(s, type)
            BY <1>3 DEF ph_version, ph_dirbuild_reply, ph_gettrees_reply, ph_pixels, ph_cmd,
                        IgnorePixels, FilePixels, FileCannotBeOpened, FileWriteFails
        <2>2. \A state : statechange(s, state) => t = s
            BY <1>0, ColumnTypes DEF statechange
        <2>3. t = s
            BY <1>1, <1>3, <2>2 DEF ph_version, ph_dirbuild_reply, ph_gettrees_reply, ph_pixels,
                    ph_cmd, IgnorePixels, FilePixels, FileCannotBeOpened, FileWriteFails, Dropped,
                    Drop, srvVars
        <2>4. QED  BY <1>0, <2>1, <2>3, HandledSaid
    <1>4. CASE Command
        <2>1. CmdEnd  BY <1>0, <1>4, CalmCommands DEF srvVars
        <2>2. cmd.from \in Slots /\ pc \in {"cmd", "cmd end"}
            BY <1>0, <2>1 DEF CmdEnd, IInv, LoopTypeOK, NoCmd
        <2>3. t = cmd.from  BY <1>1, <2>1, <2>2 DEF CmdEnd, Dropped, Drop
        <2>4. QED  BY <1>0, <2>2, <2>3 DEF ClosingInv, Loop, Open
    <1>5. ASSUME NEW s \in Slots, Suck(s) PROVE sr_pc[t] /\ Said(t)
        <2>1. toCtl[s] = <<>> /\ Dropped(s) /\ pc = "suck" /\ Comes(s, ifdset)
            BY <1>5 DEF Suck
        <2>2. t = s  BY <1>1, <2>1 DEF Dropped, Drop
        <2>3. s \in ifdset \ {0} /\ s >= cur /\ s \in Open
            BY <1>0, <2>1, SlotsAreNumbers DEF Comes, Loop
        <2>4. link[s] # "up"  BY <2>1, <2>3 DEF ClosingInv, Found
        <2>5. inbuf[s] = <<>>  BY <2>1, <2>3 DEF ClosingInv, Round
        <2>6. inbuf[s] \o toCtl[s] = <<>>  BY <2>1, <2>5, EmptySeq, ConcatEmptySeq
        <2>7. QED  BY <2>2, <2>3, <2>4, <2>6 DEF Said, Spoken, Open
    <1>6. ASSUME NEW s \in Slots, SendDirbuild(s) PROVE sr_pc[t] /\ Said(t)
        <2>1. sr_pc[s] /\ sr_state[s] = "VERSOK"
            BY <1>6 DEF SendDirbuild, Comes, Transits, Open
        <2>2. \A state : statechange(s, state) => t = s
            BY <1>0, ColumnTypes DEF statechange
        <2>3. statechange(s, "DOING_DIRBUILD") \/ Dropped(s)
            BY <1>6, Zenon DEF SendDirbuild
        <2>4. t = s  BY <1>1, <2>2, <2>3 DEF Dropped, Drop
        <2>5. QED  BY <1>2, <2>1, <2>4
    <1>7. ASSUME NEW s \in Slots, task_server(s) PROVE sr_pc[t] /\ Said(t)
        <2>1. \A ret : Returned(s, ret) => sr_pc[s]  BY Zenon DEF Returned, Comes, Open
        <2>2. \E ret : Returned(s, ret)
            BY <1>7, Zenon
            DEF task_server, TaskNothing, TaskTardy, TaskGettrees, TaskLines, TaskMatrix,
                TaskMatrixFails
        <2>3. sr_pc[s]  BY <2>1, <2>2, Zenon
        <2>4. CASE TaskNothing(s)  BY <2>4 DEF TaskNothing
        <2>5. CASE ~TaskNothing(s)
            <3>1. AtWork(s)
                BY <1>7, <2>5, Zenon
                DEF task_server, TaskTardy, TaskGettrees, TaskLines, TaskMatrix, TaskMatrixFails,
                    Hungry
            <3>2. \/ UNCHANGED sr_state
                  \/ \E state : statechange(s, state)
                  \/ \E todo, work : DropTo(s, "CLOSING", todo, work)
                BY <1>7, <2>5, Zenon
                DEF task_server, TaskTardy, TaskGettrees, TaskLines, TaskMatrix, TaskMatrixFails,
                    Dropped, Drop
            <3>3. \A state : statechange(s, state) => t = s
                BY <1>0, ColumnTypes DEF statechange
            <3>4. t = s  BY <1>1, <3>2, <3>3
            <3>5. sr_state[t] \in {"VERSOK", "NEED_TREE", "READY"}  BY <3>1, <3>4 DEF AtWork
            <3>6. QED  BY <1>2, <2>3, <3>4, <3>5
        <2>6. QED  BY <2>4, <2>5
    <1>8. ASSUME NEW s \in Slots, addclient(s) \/ FinalClose(s) PROVE FALSE
        BY <1>0, <1>8, ColumnTypes DEF addclient, FinalClose, statechange
    <1>9. CASE \/ ProcessEnd \/ Select \/ NoClient \/ SuckEnd \/ TransitionsEnd
               \/ FramesEnd \/ FrameBegin \/ FrameScanEnd \/ PassEnd
               \/ \E i \in DOMAIN FrameHead : FrameIsDone(i)
        BY <1>9 DEF ProcessEnd, Select, NoClient, SuckEnd, TransitionsEnd, FramesEnd, FrameBegin,
                    FrameScanEnd, PassEnd, FrameIsDone, srvVars
    <1>10. CASE (\E s \in Slots : Worker(s)) \/ Environment \/ (Terminated /\ UNCHANGED rtsrvVars)
                  \/ UNCHANGED farmVars
        BY <1>10 DEF Worker, Environment, Terminated, farmVars, remrtVars, srvVars
    <1>11. QED
        BY <1>3, <1>4, <1>5, <1>6, <1>7, <1>8, <1>9, <1>10 DEF FarmNext, Dispatcher, RemrtStep

(* A command is being executed from ph_cmd on.                             *)
LEMMA CommandGoesOn ==
    ASSUME IInv, Calm, Loop, \A s \in Slots : Conv(s), [FarmNext]_farmVars,
           pc' \in {"cmd", "cmd end"}
    PROVE  \/ pc \in {"cmd", "cmd end"} /\ cmd' = cmd
           \/ Said(cmd.from)'
    <1>1. ASSUME NEW s \in Slots, ph_cmd(s) PROVE Said(cmd.from)'
        <2>1. cmd'.from = s  BY <1>1 DEF ph_cmd
        <2>2. Said(s)'  BY <1>1, HandledSaid DEF ph_cmd
        <2>3. QED  BY <2>1, <2>2 DEF Said
    <1>2. CASE Command
        <2>1. CmdEnd => pc' \in {"process1", "process2"}
            BY DEF CmdEnd, IInv, LoopTypeOK, NoCmd
        <2>2. ~CmdEnd  BY <2>1
        <2>3. QED  BY <1>2, <2>2, CalmCommands
    <1>3. ASSUME NEW s \in Slots,
                 \/ ph_version(s) \/ ph_dirbuild_reply(s) \/ ph_gettrees_reply(s) \/ ph_pixels(s)
          PROVE  pc \in {"cmd", "cmd end"} /\ cmd' = cmd
        BY <1>3 DEF ph_version, ph_dirbuild_reply, ph_gettrees_reply, ph_pixels, IgnorePixels,
                    FilePixels, FileCannotBeOpened, FileWriteFails
    <1>4. ASSUME NEW s \in Slots, addclient(s) \/ Suck(s) \/ SendDirbuild(s) \/ FinalClose(s)
          PROVE  FALSE
        BY <1>4 DEF addclient, Suck, SendDirbuild, FinalClose, Goto
    <1>5. ASSUME NEW s \in Slots, task_server(s) PROVE FALSE
        <2>1. \A ret : Returned(s, ret) => UNCHANGED pc /\ pc = "task"  BY Zenon DEF Returned
        <2>2. \E ret : Returned(s, ret)
            BY <1>5, Zenon
            DEF task_server, TaskNothing, TaskTardy, TaskGettrees, TaskLines, TaskMatrix,
                TaskMatrixFails
        <2>3. pc' = "task"  BY <2>1, <2>2, Zenon
        <2>4. QED  BY <2>3
    <1>6. CASE \/ ProcessEnd \/ Select \/ NoClient \/ SuckEnd \/ TransitionsEnd
               \/ FramesEnd \/ FrameBegin \/ FrameScanEnd \/ PassEnd
               \/ \E i \in DOMAIN FrameHead : FrameIsDone(i)
        BY <1>6 DEF ProcessEnd, Select, NoClient, SuckEnd, TransitionsEnd, FramesEnd, FrameBegin,
                    FrameScanEnd, PassEnd, FrameIsDone, Leave, Goto
    <1>7. CASE (\E s \in Slots : Worker(s)) \/ Environment \/ (Terminated /\ UNCHANGED rtsrvVars)
                 \/ UNCHANGED farmVars
        BY <1>7 DEF Worker, Environment, Terminated, farmVars, remrtVars, loopVars
    <1>8. QED
        BY <1>1, <1>2, <1>3, <1>4, <1>5, <1>6, <1>7 DEF FarmNext, Dispatcher, RemrtStep

LEMMA StepKeepsClosingInv ==
    ASSUME Calm, ClosingInv, [FarmNext]_farmVars
    PROVE  ClosingInv'
    <1>0. IInv /\ Loop /\ \A s \in Slots : Conv(s)  BY DEF ClosingInv, TalkInv
    <1>1. TalkInv'  BY CalmRestartsNone, StepKeepsTalkInv DEF ClosingInv
    <1>2. Round' /\ Found'  BY <1>0, StepKeepsRound DEF ClosingInv
    <1>3. ASSUME pc' \in {"cmd", "cmd end"} PROVE Said(cmd.from)'
        <2>2. CASE pc \in {"cmd", "cmd end"} /\ cmd' = cmd
            <3>1. PICK f \in Slots : f = cmd.from /\ sr_pc[f] /\ Said(f)
                BY <1>0, <2>2 DEF Loop, Open, ClosingInv
            <3>2. Said(f)'  BY <1>0, <3>1, StepKeepsSaid
            <3>3. f = cmd'.from  BY <2>2, <3>1
            <3>4. QED  BY <3>2, <3>3 DEF Said
        <2>3. QED  BY <1>0, <1>3, <2>2, CommandGoesOn
    <1>4. ASSUME NEW t \in Slots, sr_state'[t] = "CLOSING" PROVE Said(t)'
        <2>1. (sr_pc[t] /\ Said(t)) \/ Said(t)'
            <3>1. CASE sr_state[t] = "CLOSING"
                <4>1. Said(t)  BY <3>1 DEF ClosingInv
                <4>2. sr_pc[t] # FALSE  BY <1>0, <3>1 DEF Conv, SlotOK, Closed
                <4>3. sr_pc[t] = TRUE  BY <1>0, <4>2, SlotTypes
                <4>4. QED  BY <4>1, <4>3
            <3>2. CASE sr_state[t] # "CLOSING"
                BY <1>4, <3>2, DropsTheSpoken
            <3>3. QED  BY <3>1, <3>2
        <2>2. QED  BY <1>0, <2>1, StepKeepsSaid
    <1>5. QED  BY <1>1, <1>2, <1>3, <1>4, Zenon DEF ClosingInv


(* Dropped is dropped: only the final close is left.                       *)
LEMMA ClosingStep ==
    ASSUME Calm, ClosingInv, [FarmNext]_farmVars, NEW t \in Slots, sr_state[t] = "CLOSING"
    PROVE  sr_state'[t] \in {"CLOSING", "UNUSED"}
    <1>0. IInv /\ Loop /\ (\A s \in Slots : Conv(s)) /\ Said(t)  BY DEF ClosingInv, TalkInv
    <1>1. ASSUME NEW s \in Slots, NEW todo, NEW work, DropTo(s, "CLOSING", todo, work)
          PROVE  sr_state'[t] = "CLOSING"
        BY <1>0, <1>1, ColumnTypes DEF DropTo
    <1>2. ASSUME NEW s \in Slots, NEW state, statechange(s, state), s # t
          PROVE  sr_state'[t] = "CLOSING"
        BY <1>0, <1>2, ColumnTypes DEF statechange
    <1>3. ASSUME NEW s \in Slots, ph_version(s) PROVE sr_state'[t] = "CLOSING"
        <2>1. CASE s = t
            <3> DEFINE a == inbuf[t]
                       b == toCtl[t]
            <3>1. a \in Seq(CtlMessages) /\ b \in Seq(CtlMessages)  BY <1>0, SlotTypes
            <3>2. a # <<>> /\ Head(a).type = "VERSION"
                BY <1>3, <2>1 DEF ph_version, Handle, Comes, Waiting
            <3>3. Spoken(link[t], caller[t], a \o b)  BY <1>0 DEF Said
            <3> HIDE DEF a, b
            <3>4. \A i \in DOMAIN a : i \in DOMAIN (a \o b) /\ (a \o b)[i] = a[i]
                BY <3>1, JoinedElements
            <3>5. 1 \in DOMAIN a /\ Head(a) = a[1]  BY <3>1, <3>2, EmptySeq, LenProperties
            <3>6. QED  BY <3>2, <3>3, <3>4, <3>5 DEF Spoken
        <2>2. CASE s # t
            BY <1>1, <1>2, <1>3, <2>2 DEF ph_version, Dropped, Drop
        <2>3. QED  BY <2>1, <2>2
    <1>4. ASSUME NEW s \in Slots,
                 \/ ph_dirbuild_reply(s) \/ ph_gettrees_reply(s) \/ ph_pixels(s) \/ ph_cmd(s)
          PROVE  sr_state'[t] = "CLOSING"
        <2>1. CASE ph_dirbuild_reply(s) \/ ph_gettrees_reply(s)
            <3>1. \/ sr_state[s] # "CLOSING" /\ \E state : statechange(s, state)
                  \/ Dropped(s)
                BY <2>1 DEF ph_dirbuild_reply, ph_gettrees_reply
            <3>2. QED  BY <1>1, <1>2, <3>1 DEF Dropped, Drop
        <2>2. CASE ph_pixels(s) \/ ph_cmd(s)
            <3>1. UNCHANGED sr_state \/ \E todo, work : DropTo(s, "CLOSING", todo, work)
                BY <2>2 DEF ph_pixels, ph_cmd, IgnorePixels, FilePixels, FileCannotBeOpened,
                            FileWriteFails, Dropped, Drop, srvVars
            <3>2. QED  BY <1>1, <3>1
        <2>3. QED  BY <1>4, <2>1, <2>2
    <1>5. CASE Command
        <2>1. CASE CmdEnd
            <3>1. cmd.from \in Slots  BY <1>0, <2>1 DEF CmdEnd, IInv, LoopTypeOK, NoCmd
            <3>2. QED  BY <1>1, <2>1, <3>1 DEF CmdEnd, Dropped, Drop
        <2>2. CASE ~CmdEnd
            BY <1>0, <1>5, <2>2, CalmCommands DEF srvVars
        <2>3. QED  BY <2>1, <2>2
    <1>6. ASSUME NEW s \in Slots, addclient(s) PROVE sr_state'[t] = "CLOSING"
        <2>1. sr_pc[s] = FALSE  BY <1>0, <1>6, SlotTypes DEF addclient, FreeSlot
        <2>2. sr_state[s] = "UNUSED"  BY <1>0, <2>1 DEF Conv, SlotOK, Closed
        <2>3. QED  BY <1>2, <1>6, <2>2 DEF addclient
    <1>7. ASSUME NEW s \in Slots, Suck(s) PROVE sr_state'[t] = "CLOSING"
        BY <1>1, <1>7 DEF Suck, Dropped, Drop
    <1>8. ASSUME NEW s \in Slots, SendDirbuild(s) PROVE sr_state'[t] = "CLOSING"
        <2>1. s # t  BY <1>8 DEF SendDirbuild
        <2>2. statechange(s, "DOING_DIRBUILD") \/ Dropped(s)
            BY <1>8, Zenon DEF SendDirbuild
        <2>3. QED  BY <1>1, <1>2, <2>1, <2>2 DEF Dropped, Drop
    <1>9. ASSUME NEW s \in Slots, task_server(s) PROVE sr_state'[t] = "CLOSING"
        <2>1. CASE TaskNothing(s)  BY <2>1 DEF TaskNothing
        <2>2. CASE ~TaskNothing(s)
            <3>1. AtWork(s)
                BY <1>9, <2>2, Zenon
                DEF task_server, TaskTardy, TaskGettrees, TaskLines, TaskMatrix, TaskMatrixFails,
                    Hungry
            <3>2. \/ UNCHANGED sr_state
                  \/ \E state : statechange(s, state)
                  \/ \E todo, work : DropTo(s, "CLOSING", todo, work)
                BY <1>9, <2>2, Zenon
                DEF task_server, TaskTardy, TaskGettrees, TaskLines, TaskMatrix, TaskMatrixFails,
                    Dropped, Drop
            <3>3. s # t  BY <3>1 DEF AtWork
            <3>4. QED  BY <1>1, <1>2, <3>2, <3>3
        <2>3. QED  BY <2>1, <2>2
    <1>10. ASSUME NEW s \in Slots, FinalClose(s) PROVE sr_state'[t] \in {"CLOSING", "UNUSED"}
        <2>1. sr_state' = [sr_state EXCEPT ![s] = "UNUSED"]  BY <1>10 DEF FinalClose, statechange
        <2>2. QED  BY <1>0, <2>1, ColumnTypes
    <1>11. CASE \/ ProcessEnd \/ Select \/ NoClient \/ SuckEnd \/ TransitionsEnd
               \/ FramesEnd \/ FrameBegin \/ FrameScanEnd \/ PassEnd
               \/ \E i \in DOMAIN FrameHead : FrameIsDone(i)
        BY <1>11 DEF ProcessEnd, Select, NoClient, SuckEnd, TransitionsEnd, FramesEnd, FrameBegin,
                    FrameScanEnd, PassEnd, FrameIsDone, srvVars
    <1>12. CASE (\E s \in Slots : Worker(s)) \/ Environment \/ (Terminated /\ UNCHANGED rtsrvVars)
                  \/ UNCHANGED farmVars
        BY <1>12 DEF Worker, Environment, Terminated, farmVars, remrtVars, srvVars
    <1>13. QED
        BY <1>3, <1>4, <1>5, <1>6, <1>7, <1>8, <1>9, <1>10, <1>11, <1>12
        DEF FarmNext, Dispatcher, RemrtStep

LEMMA InitEstablishesClosing == FarmInit => ClosingInv
    <1> SUFFICES ASSUME FarmInit PROVE ClosingInv
        OBVIOUS
    <1>1. TalkInv  BY InitEstablishesIInv, InitEstablishesTalk DEF TalkInv
    <1>2. /\ pc = "process1" /\ sr_pc = [s \in Slots |-> FALSE]
          /\ sr_state = [s \in Slots |-> "UNUSED"]
        BY DEF FarmInit, Init
    <1>3. Open = {}  BY <1>2 DEF Open
    <1>4. Round /\ Found  BY <1>2, <1>3 DEF Round, Found
    <1>5. QED  BY <1>1, <1>2, <1>4 DEF ClosingInv

(* "CLOSING  UNUSED  next schedule() pass closes conn": a server that is   *)
(* dropped for an answer nobody asked for, a message of another version, a *)
(* write that failed or a connection that ended is not taken for a live    *)
(* one again, though its connection may still be up and messages still be  *)
(* in its buffers, which ph_version would obey.                            *)
THEOREM DroppedStaysDropped == ASSUME Calm PROVE Spec => ClosingIsFinal
    <1>1. FarmInit => ClosingInv  BY InitEstablishesClosing
    <1>2. ClosingInv /\ [FarmNext]_farmVars => ClosingInv'  BY StepKeepsClosingInv
    <1>3. ClosingInv /\ [FarmNext]_farmVars =>
            [\A s \in Slots : sr_state[s] = "CLOSING" => sr_state'[s] \in {"CLOSING", "UNUSED"}]_farmVars
        BY ClosingStep
    <1>4. QED  BY <1>1, <1>2, <1>3, PTL DEF Spec, ClosingIsFinal

=============================================================================
