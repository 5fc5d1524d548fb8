----------------------------- MODULE Multiplex ------------------------------
(***************************************************************************)
(* One connection with both of its sides: calls that share the client's     *)
(* Connection, and the Server that handles their requests.                  *)
(***************************************************************************)
EXTENDS Connection, Server

CONSTANT MayDisconnect   \* the TCP connection may break

ASSUME MultiplexAssumption == MayDisconnect \in BOOLEAN

vars == <<clientVars, serverVars, c2s, s2c, link>>

Init == WiresInit /\ ClientInit /\ ServerInit

(* The TCP connection breaks and loses what is on its way.                  *)
Disconnect ==
    /\ MayDisconnect
    /\ link = "up"
    /\ link' = "down"
    /\ c2s' = << >>
    /\ s2c' = << >>
    /\ UNCHANGED <<clientVars, serverVars>>

(* The client's FrameSender writes while there is someone to write to.      *)
ClientWrites ==
    /\ \/ Writer!TakeChunk
       \/ link = "up" /\ stream # "failed" /\ Writer!WriteFrame
       \/ (link = "down" \/ stream = "failed") /\ Writer!WriteError
    /\ UNCHANGED <<nextId, callVars, mapVars, s2c, link, serverVars>>

ServerWrites ==
    /\ \/ SrvWriter!TakeChunk
       \/ link = "up" /\ SrvWriter!WriteFrame
       \/ link = "down" /\ SrvWriter!WriteError
    /\ UNCHANGED <<stream, srvSenders, taskVars, srvHeld, c2s, link, clientVars>>

CallStep(c) ==
    /\ \/ TakeId(c)
       \/ Register(c)
       \/ SendFrame(c)
       \/ ReceiveFrame(c)
       \/ ReceiveNone(c)
       \/ Close(c)
    /\ UNCHANGED serverVars

ReceiverStep == (DispatchFollowing \/ DispatchResume) /\ UNCHANGED serverVars

TaskStep(c) ==
    /\ \/ ReadRequest(c)
       \/ Deregister(c)
       \/ Route(c)
       \/ LockHandler(c)
       \/ HandlerReturns(c)
       \/ SendResponse(c)
    /\ UNCHANGED clientVars

StreamStep == (Dispatch \/ SrvDispatchResume \/ StreamEnds) /\ UNCHANGED clientVars

(* What the tasks of the two runtimes do; handlers return.                  *)
Progress ==
    \/ \E c \in Calls : CallStep(c) \/ TaskStep(c)
    \/ ClientWrites
    \/ ServerWrites
    \/ ReceiverStep
    \/ StreamStep

(* What may happen to them.                                                 *)
Fault ==
    \/ \E c \in Calls : Cancel(c) /\ UNCHANGED serverVars
    \/ Disconnect

Next == Progress \/ Fault

Spec == Init /\ [][Next]_vars

(* The runtimes keep polling whatever can go on.  No step can be repeated   *)
(* for ever (every frame only moves forward), so that this is all it takes: *)
(* no fairness of a lock or of a channel is assumed.                        *)
FairSpec == Spec /\ WF_vars(Progress)

----------------------------------------------------------------------------
(* Every frame in a queue, a channel or on a wire is a well-formed frame    *)
(* under a valid message id, and both maps lead from ids to calls.          *)
TypeOK == ClientTypeOK /\ ServerTypeOK /\ WiresTypeOK

(* While a call waits for its response, its message id leads to it:         *)
(* FramesDispatcher holds the "Pending Message Ids mapped to Senders of     *)
(* frames for given message Id", whatever other calls register or close.    *)
PendingMapped == \A c \in Calls : Listening(c) => senders[id[c]] = c

(* A call that returns a response returns its own, the whole of it and in   *)
(* order, however the frames of the responses were interleaved.             *)
ResponseMatches ==
    \A c \in Calls :
        result[c] \in {"ok", "message_error"} => got[c] = Whole(c, ResLen[c])

(* A handler is only given a request that is whole and of one call.         *)
RequestIntact ==
    \A c \in Calls : runs[c] > 0 => taskBody[c] = Whole(c, ReqLen[c])

(* However message ids are reused, and whatever entries of the two maps     *)
(* calls take from each other then, a frame only ever gets to a reader of   *)
(* its own message id.                                                      *)
SameIdOnly ==
    \A c \in Calls :
        /\ \A i \in 1 .. Len(taskBody[c]) : id[taskBody[c][i][1]] = id[c]
        /\ \A i \in 1 .. Len(got[c]) : id[got[c][i][1]] = id[c]

(* No two entries of what the readers have read are the same frame.         *)
AllDistinct(read) ==
    \A c, e \in Calls : \A i \in 1 .. Len(read[c]), j \in 1 .. Len(read[e]) :
        read[c][i] = read[e][j] => c = e /\ i = j

(* No frame is read twice, by one reader or by two that share a message id: *)
(* the channels, the waiting dispatches and the writers hand frames over,   *)
(* they never copy one.                                                     *)
ReadOnce == AllDistinct(taskBody) /\ AllDistinct(got)

(* No message id outlives its call, unless the call's future was dropped:   *)
(* the two close calls of SubChannel::send release exactly what Register    *)
(* took, on every path, and never the id of another call.                   *)
IdsReleased ==
    \A i \in Ids : senders[i] # NoCall =>
        /\ id[senders[i]] = i
        /\ pc[senders[i]] \in {"sending", "receiving", "closing", "closing_again", "cancelled"}

(* Once every call has its response (or could not be sent) nothing of them  *)
(* is left: no frame, no map entry and no running task on either side.      *)
AnsweredMeansQuiet ==
    (\A c \in Calls : pc[c] = "done" /\ (result[c] = "ok" \/ c \in Unsendable)) =>
        /\ Active = {}
        /\ c2s = << >> /\ s2c = << >> /\ held = << >> /\ srvHeld = << >>
        /\ outQueue = << >> /\ outChunk = << >> /\ srvQueue = << >> /\ srvChunk = << >>
        /\ \A i \in Ids : senders[i] = NoCall /\ srvSenders[i] = NoCall

(* The connection implements the abstract service.                          *)
Status(c) ==
    IF pc[c] = "idle" THEN "idle"
    ELSE IF pc[c] = "cancelled" THEN "abandoned"
    ELSE IF pc[c] # "done" THEN "pending"
    ELSE IF result[c] \in {"ok", "message_error"} THEN "answered" ELSE "failed"

Service == INSTANCE RpcService WITH status <- [c \in Calls |-> Status(c)], handled <- runs

(* Every call is handled at most once and answered only after that.         *)
ImplementsService == Service!Spec

(* Every send returns (or its future was dropped), "Multiplexing multiple   *)
(* requests across the same TCP socket".                                    *)
EveryCallReturns == \A c \in Calls : pc[c] # "idle" ~> pc[c] \in {"done", "cancelled"}
=============================================================================
