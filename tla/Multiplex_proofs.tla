-------------------------- MODULE Multiplex_proofs --------------------------
(***************************************************************************)
(* What holds of both sides of a connection for any number of calls: their  *)
(* types and the ids of their frames, for every instance of the constants,  *)
(* id reuse included; and the map of pending message ids, as long as the    *)
(* counter of message ids does not wrap around.                             *)
(***************************************************************************)
EXTENDS Multiplex, FiniteSetTheorems, SequenceTheorems, TLAPS

(* The fragmenters make frames.                                             *)
LEMMA RequestFrameType ==
    ASSUME NEW c \in Calls, NEW i \in Ids, NEW k \in Nat
    PROVE  RequestFrame(c, i, k) \in Frame
  BY DEF RequestFrame, Frame, FrameTypes, Last, NoReply

LEMMA ResponseFrameType ==
    ASSUME NEW c \in Calls, NEW i \in Ids, NEW k \in Nat, NEW r \in Replies \cup {NoReply}
    PROVE  ResponseFrame(c, i, k, r) \in Frame
  BY DEF ResponseFrame, Frame, FrameTypes, Last

LEMMA NoFrames == << >> \in Seq(Frame)
  BY EmptySeq

LEMMA OneFrameSeq == ASSUME NEW f \in Frame PROVE <<f>> \in Seq(Frame)
  OBVIOUS

(* A channel stays a channel when it is emptied, read from or added to.     *)
LEMMA ChannelTypes ==
    ASSUME NEW ch \in [Calls -> Seq(Frame)], NEW c \in Calls
    PROVE  /\ [ch EXCEPT ![c] = << >>] \in [Calls -> Seq(Frame)]
           /\ ch[c] # << >> => [ch EXCEPT ![c] = Tail(@)] \in [Calls -> Seq(Frame)]
<1>1. [ch EXCEPT ![c] = << >>] \in [Calls -> Seq(Frame)]
  BY NoFrames
<1>2. ASSUME ch[c] # << >> PROVE [ch EXCEPT ![c] = Tail(@)] \in [Calls -> Seq(Frame)]
  <2>1. Tail(ch[c]) \in Seq(Frame)
    BY <1>2
  <2> QED
    BY <2>1
<1> QED
  BY <1>1, <1>2

LEMMA ChannelAppend ==
    ASSUME NEW ch \in [Calls -> Seq(Frame)], NEW c, NEW f \in Frame
    PROVE  [ch EXCEPT ![c] = Append(@, f)] \in [Calls -> Seq(Frame)]
<1>1. CASE c \in Calls
  <2>1. Append(ch[c], f) \in Seq(Frame)
    BY <1>1
  <2> QED
    BY <1>1, <2>1
<1>2. CASE c \notin Calls
  BY <1>2
<1> QED
  BY <1>1, <1>2

(* FrameSender moves frames, and nothing else, from the channel to the wire:*)
(* frames of whatever set S they were sent from.                            *)
LEMMA WriterType ==
    ASSUME NEW S, outQueue \in Seq(S), outChunk \in Seq(S), c2s \in Seq(S),
           Writer!TakeChunk \/ Writer!WriteFrame \/ Writer!WriteError
    PROVE  outQueue' \in Seq(S) /\ outChunk' \in Seq(S) /\ c2s' \in Seq(S)
<1>1. CASE Writer!TakeChunk
  <2> DEFINE n == IF Len(outQueue) < BufferSize THEN Len(outQueue) ELSE BufferSize
  <2>1. n \in Nat /\ n <= Len(outQueue)
    BY FramesAssumption
  <2>2. /\ outChunk' = SubSeq(outQueue, 1, n)
        /\ outQueue' = SubSeq(outQueue, n + 1, Len(outQueue))
        /\ c2s' = c2s
    BY <1>1 DEF Writer!TakeChunk
  <2> HIDE DEF n
  <2>3. \A j \in 1 .. Len(outQueue) : outQueue[j] \in S
    OBVIOUS
  <2>4. SubSeq(outQueue, 1, n) \in Seq(S)
    BY <2>1, <2>3, SubSeqProperties
  <2>5. SubSeq(outQueue, n + 1, Len(outQueue)) \in Seq(S)
    BY <2>1, <2>3, SubSeqProperties
  <2> QED
    BY <2>2, <2>4, <2>5
<1>2. CASE Writer!WriteFrame
  BY <1>2 DEF Writer!WriteFrame
<1>3. CASE Writer!WriteError
  BY <1>3 DEF Writer!WriteError
<1> QED
  BY <1>1, <1>2, <1>3

LEMMA SrvWriterType ==
    ASSUME NEW S, srvQueue \in Seq(S), srvChunk \in Seq(S), s2c \in Seq(S),
           SrvWriter!TakeChunk \/ SrvWriter!WriteFrame \/ SrvWriter!WriteError
    PROVE  srvQueue' \in Seq(S) /\ srvChunk' \in Seq(S) /\ s2c' \in Seq(S)
<1>1. CASE SrvWriter!TakeChunk
  <2> DEFINE n == IF Len(srvQueue) < BufferSize THEN Len(srvQueue) ELSE BufferSize
  <2>1. n \in Nat /\ n <= Len(srvQueue)
    BY FramesAssumption
  <2>2. /\ srvChunk' = SubSeq(srvQueue, 1, n)
        /\ srvQueue' = SubSeq(srvQueue, n + 1, Len(srvQueue))
        /\ s2c' = s2c
    BY <1>1 DEF SrvWriter!TakeChunk
  <2> HIDE DEF n
  <2>3. \A j \in 1 .. Len(srvQueue) : srvQueue[j] \in S
    OBVIOUS
  <2>4. SubSeq(srvQueue, 1, n) \in Seq(S)
    BY <2>1, <2>3, SubSeqProperties
  <2>5. SubSeq(srvQueue, n + 1, Len(srvQueue)) \in Seq(S)
    BY <2>1, <2>3, SubSeqProperties
  <2> QED
    BY <2>2, <2>4, <2>5
<1>2. CASE SrvWriter!WriteFrame
  BY <1>2 DEF SrvWriter!WriteFrame
<1>3. CASE SrvWriter!WriteError
  BY <1>3 DEF SrvWriter!WriteError
<1> QED
  BY <1>1, <1>2, <1>3

LEMMA TypeInit == Init => TypeOK
  BY FramesAssumption DEF Init, WiresInit, ClientInit, ServerInit, TypeOK, ClientTypeOK,
     ServerTypeOK, WiresTypeOK, PCs, Results, TaskStates, Ids, NoReply

(* One step of a call.                                                      *)
LEMMA CallStepType ==
    ASSUME TypeOK, NEW c \in Calls, CallStep(c)
    PROVE  TypeOK'
<1> USE DEF TypeOK, ClientTypeOK, WiresTypeOK
<1>1. UNCHANGED serverVars /\ ServerTypeOK'
  BY DEF CallStep, serverVars, taskVars, ServerTypeOK
<1>2. CASE TakeId(c)
  <2>1. (nextId + 1) % IdSpace \in Ids
    BY FramesAssumption DEF Ids
  <2> QED
    BY <1>1, <1>2, <2>1 DEF TakeId, mapVars, PCs
<1>3. CASE Register(c)
  BY <1>1, <1>3 DEF Register, PCs, Results
<1>4. CASE SendFrame(c)
  <2>1. RequestFrame(c, id[c], sent[c] + 1) \in Frame
    BY RequestFrameType
  <2> QED
    BY <1>1, <1>4, <2>1 DEF SendFrame, mapVars, PCs
<1>5. CASE ReceiveFrame(c)
  <2>1. /\ chan[c] \in Seq(Frame) /\ chan[c] # << >>
        /\ UNCHANGED <<nextId, id, sent, senders, held, outQueue, outChunk, c2s, s2c, link>>
    BY <1>5 DEF ReceiveFrame
  <2>2. Head(chan[c]) \in Frame /\ Tail(chan[c]) \in Seq(Frame)
    BY <2>1
  <2>3. <<Head(chan[c]).from, Head(chan[c]).seq>> \in Calls \X Nat
    BY <2>2 DEF Frame
  <2> DEFINE pair == <<Head(chan[c]).from, Head(chan[c]).seq>>
  <2>4. got' = got \/ got' = [got EXCEPT ![c] = Append(@, pair)]
    BY <1>5 DEF ReceiveFrame
  <2>5. got' \in [Calls -> Seq(Calls \X Nat)]
    <3>1. Append(got[c], pair) \in Seq(Calls \X Nat)
      <4> HIDE DEF pair
      <4> QED BY <2>3 DEF pair
    <3> HIDE DEF pair
    <3> QED BY <2>4, <3>1
  <2>6. \/ /\ pc' = [pc EXCEPT ![c] = "closing"]
           /\ \E r \in Results : result' = [result EXCEPT ![c] = r]
           /\ chan' = [chan EXCEPT ![c] = << >>]
        \/ UNCHANGED <<pc, result>> /\ chan' = [chan EXCEPT ![c] = Tail(@)]
    BY <1>5 DEF ReceiveFrame, StopReading, ResultOf, Results
  <2>7. /\ pc' \in [Calls -> PCs] /\ result' \in [Calls -> Results]
        /\ chan' \in [Calls -> Seq(Frame)]
    <3>1. chan' \in [Calls -> Seq(Frame)]
      <4>1. CASE chan' = [chan EXCEPT ![c] = << >>]
        BY <4>1, ChannelTypes
      <4>2. CASE chan' = [chan EXCEPT ![c] = Tail(@)]
        BY <4>2, <2>1, ChannelTypes
      <4> QED
        BY <2>6, <4>1, <4>2
    <3>2. pc' \in [Calls -> PCs]
      <4>1. pc' = pc \/ pc' = [pc EXCEPT ![c] = "closing"]
        BY <2>6
      <4> QED
        BY <4>1 DEF PCs
    <3>3. result' \in [Calls -> Results]
      <4>1. result' = result \/ \E r \in Results : result' = [result EXCEPT ![c] = r]
        BY <2>6
      <4> QED
        BY <4>1
    <3> QED
      BY <3>1, <3>2, <3>3
  <2> QED
    BY <1>1, <2>1, <2>5, <2>7
<1>6. CASE ReceiveNone(c)
  BY <1>1, <1>6 DEF ReceiveNone, StopReading, PCs, Results
<1>7. CASE Close(c)
  BY <1>1, <1>7 DEF Close, PCs
<1> QED
  BY <1>2, <1>3, <1>4, <1>5, <1>6, <1>7 DEF CallStep

LEMMA CancelType ==
    ASSUME TypeOK, NEW c \in Calls, Cancel(c), UNCHANGED serverVars
    PROVE  TypeOK'
<1>1. ServerTypeOK'
  BY DEF TypeOK, ServerTypeOK, serverVars, taskVars
<1>2. WiresTypeOK'
  BY DEF Cancel, TypeOK, WiresTypeOK
<1>3. chan' \in [Calls -> Seq(Frame)]
  BY ChannelTypes DEF Cancel, TypeOK, ClientTypeOK
<1>4. ClientTypeOK'
  BY <1>3 DEF Cancel, TypeOK, ClientTypeOK, PCs
<1> QED
  BY <1>1, <1>2, <1>4 DEF TypeOK

(* A frame is added to the channel of whatever call its id leads to.        *)
LEMMA ReceiverStepType ==
    ASSUME TypeOK, ReceiverStep
    PROVE  TypeOK'
<1> USE DEF TypeOK, ClientTypeOK, WiresTypeOK
<1>1. ServerTypeOK'
  BY DEF ReceiverStep, serverVars, taskVars, ServerTypeOK
<1>3. CASE DispatchFollowing
  <2>1. s2c \in Seq(Frame) /\ s2c # << >>
    BY <1>3 DEF DispatchFollowing
  <2>2. Head(s2c) \in Frame /\ Tail(s2c) \in Seq(Frame)
    BY <2>1
  <2>3. UNCHANGED <<nextId, callVars, senders, outQueue, outChunk, c2s, link>> /\ s2c' = Tail(s2c)
    BY <1>3, SMTT(30) DEF DispatchFollowing
  <2>4. \/ UNCHANGED <<chan, held>>
        \/ /\ chan' = [chan EXCEPT ![senders[Head(s2c).id]] = Append(@, Head(s2c))]
           /\ UNCHANGED held
        \/ held' = <<Head(s2c)>> /\ UNCHANGED chan
    BY <1>3, SMTT(30) DEF DispatchFollowing
  <2>5. chan' \in [Calls -> Seq(Frame)]
    <3>1. CASE UNCHANGED chan
      BY <3>1
    <3>2. CASE chan' = [chan EXCEPT ![senders[Head(s2c).id]] = Append(@, Head(s2c))]
      BY <3>2, <2>2, ChannelAppend
    <3> QED
      BY <2>4, <3>1, <3>2
  <2>6. held' \in Seq(Frame)
    <3>1. <<Head(s2c)>> \in Seq(Frame)
      BY <2>2, OneFrameSeq
    <3> QED
      BY <2>4, <3>1
  <2> QED
    BY <1>1, <2>2, <2>3, <2>5, <2>6 DEF callVars
<1>4. CASE DispatchResume
  <2>1. Head(held) \in Frame
    BY <1>4 DEF DispatchResume
  <2>2. /\ UNCHANGED <<nextId, callVars, senders, outQueue, outChunk, c2s, s2c, link>>
        /\ held' = << >>
    BY <1>4, SMTT(30) DEF DispatchResume
  <2>3. \/ chan' = [chan EXCEPT ![senders[Head(held).id]] = Append(@, Head(held))]
        \/ UNCHANGED chan
    BY <1>4, SMTT(30) DEF DispatchResume
  <2>4. chan' \in [Calls -> Seq(Frame)]
    <3>1. CASE UNCHANGED chan
      BY <3>1
    <3>2. CASE chan' = [chan EXCEPT ![senders[Head(held).id]] = Append(@, Head(held))]
      BY <3>2, <2>1, ChannelAppend
    <3> QED
      BY <2>3, <3>1, <3>2
  <2>5. held' \in Seq(Frame)
    BY <2>2, NoFrames
  <2> QED
    BY <1>1, <2>2, <2>4, <2>5 DEF callVars
<1> QED
  BY <1>3, <1>4 DEF ReceiverStep

LEMMA WritesType ==
    ASSUME TypeOK, ClientWrites \/ ServerWrites
    PROVE  TypeOK'
<1>1. CASE ClientWrites
  <2>1. outQueue' \in Seq(Frame) /\ outChunk' \in Seq(Frame) /\ c2s' \in Seq(Frame)
    BY <1>1, WriterType DEF ClientWrites, TypeOK, ClientTypeOK, WiresTypeOK
  <2> QED
    BY <1>1, <2>1 DEF ClientWrites, TypeOK, ClientTypeOK, WiresTypeOK, ServerTypeOK,
       callVars, mapVars, serverVars, taskVars
<1>2. CASE ServerWrites
  <2>1. srvQueue' \in Seq(Frame) /\ srvChunk' \in Seq(Frame) /\ s2c' \in Seq(Frame)
    BY <1>2, SrvWriterType DEF ServerWrites, TypeOK, ServerTypeOK, WiresTypeOK
  <2> QED
    BY <1>2, <2>1 DEF ServerWrites, TypeOK, ClientTypeOK, WiresTypeOK, ServerTypeOK,
       callVars, mapVars, clientVars, taskVars
<1> QED
  BY <1>1, <1>2

LEMMA FailConnectionType ==
    ASSUME TypeOK, FailConnection
    PROVE  ServerTypeOK' /\ WiresTypeOK'
  BY DEF FailConnection, TypeOK, ServerTypeOK, WiresTypeOK, Active, TaskStates

LEMMA ClientKeepsType == ASSUME TypeOK, UNCHANGED clientVars PROVE ClientTypeOK'
  BY DEF TypeOK, ClientTypeOK, clientVars, callVars, mapVars

(* One step of a FrameHandler task.                                         *)
LEMMA TaskStepType ==
    ASSUME TypeOK, NEW c \in Calls, TaskStep(c)
    PROVE  TypeOK'
<1> SUFFICES ServerTypeOK' /\ WiresTypeOK'
  BY ClientKeepsType DEF TaskStep, TypeOK
<1> USE DEF TypeOK, ServerTypeOK, WiresTypeOK
<1>1. CASE FailConnection
  BY <1>1, FailConnectionType
<1>2. CASE ReadRequest(c) /\ ~FailConnection
  <2>1. /\ taskChan[c] \in Seq(Frame) /\ taskChan[c] # << >>
        /\ UNCHANGED <<stream, srvSenders, taskId, runs, reply, taskSent, srvHeld,
                       srvQueue, srvChunk, c2s, s2c, link>>
    BY <1>2 DEF ReadRequest
  <2>2. Head(taskChan[c]) \in Frame /\ Tail(taskChan[c]) \in Seq(Frame)
    BY <2>1
  <2> DEFINE pair == <<Head(taskChan[c]).from, Head(taskChan[c]).seq>>
  <2>3. pair \in Calls \X Nat
    BY <2>2 DEF Frame
  <2>4. taskBody' = [taskBody EXCEPT ![c] = Append(@, pair)]
    BY <1>2 DEF ReadRequest
  <2>5. \/ task' = [task EXCEPT ![c] = "deregistering"] /\ taskChan' = [taskChan EXCEPT ![c] = << >>]
        \/ UNCHANGED task /\ taskChan' = [taskChan EXCEPT ![c] = Tail(@)]
    BY <1>2 DEF ReadRequest
  <2> HIDE DEF pair
  <2>6. taskBody' \in [Calls -> Seq(Calls \X Nat)]
    BY <2>3, <2>4
  <2>7. task' \in [Calls -> TaskStates]
    <3>1. UNCHANGED task \/ task' = [task EXCEPT ![c] = "deregistering"]
      BY <2>5
    <3> QED
      BY <3>1 DEF TaskStates
  <2>8. taskChan' \in [Calls -> Seq(Frame)]
    <3>1. CASE taskChan' = [taskChan EXCEPT ![c] = << >>]
      BY <3>1, ChannelTypes
    <3>2. CASE taskChan' = [taskChan EXCEPT ![c] = Tail(@)]
      BY <3>2, <2>1, ChannelTypes
    <3> QED
      BY <2>5, <3>1, <3>2
  <2> QED
    BY <2>1, <2>6, <2>7, <2>8
<1>3. CASE Deregister(c)
  BY <1>3 DEF Deregister, TaskStates
<1>4. CASE Route(c) /\ ~FailConnection
  BY <1>4 DEF Route, TaskStates
<1>5. CASE LockHandler(c)
  BY <1>5 DEF LockHandler, TaskStates
<1>6. CASE HandlerReturns(c) /\ ~FailConnection
  BY <1>6, ServerAssumption DEF HandlerReturns, TaskStates
<1>7. CASE SendResponse(c)
  <2>1. ResponseFrame(c, taskId[c], taskSent[c] + 1, reply[c]) \in Frame
    BY ResponseFrameType
  <2> QED
    BY <1>7, <2>1 DEF SendResponse, TaskStates
<1> QED
  BY <1>1, <1>2, <1>3, <1>4, <1>5, <1>6, <1>7 DEF TaskStep

(* One step of the loop that reads the stream.                              *)
LEMMA StreamStepType ==
    ASSUME TypeOK, StreamStep
    PROVE  TypeOK'
<1> SUFFICES ServerTypeOK' /\ WiresTypeOK'
  BY ClientKeepsType DEF StreamStep, TypeOK
<1> USE DEF TypeOK, ServerTypeOK, WiresTypeOK
<1>1. CASE FailConnection
  BY <1>1, FailConnectionType
<1>3. CASE Dispatch /\ ~FailConnection
  <2> DEFINE f == Head(c2s)
             t == srvSenders[f.id]
  <2>1. c2s # << >>
    BY <1>3 DEF Dispatch
  <2>2. f \in Frame /\ Tail(c2s) \in Seq(Frame)
    BY <2>1
  <2>3. f.id \in Ids /\ f.from \in Calls
    BY <2>2 DEF Frame
  <2>4. /\ c2s' = Tail(c2s)
        /\ UNCHANGED <<stream, taskBody, runs, reply, taskSent, srvQueue, srvChunk, s2c, link>>
    BY <1>3, SMTT(30) DEF Dispatch, taskVars
  <2>5. \/ /\ srvSenders' = [srvSenders EXCEPT ![f.id] = f.from]
           /\ task' = [task EXCEPT ![f.from] = "reading"]
           /\ taskId' = [taskId EXCEPT ![f.from] = f.id]
           /\ taskChan' = [taskChan EXCEPT ![f.from] = <<f>>]
           /\ UNCHANGED srvHeld
        \/ /\ taskChan' = [taskChan EXCEPT ![t] = Append(@, f)]
           /\ UNCHANGED <<srvSenders, task, taskId, srvHeld>>
        \/ /\ srvHeld' = <<f>>
           /\ UNCHANGED <<srvSenders, task, taskId, taskChan>>
    BY <1>3 DEF Dispatch, taskVars
  <2> HIDE DEF f, t
  <2>6. /\ srvSenders' \in [Ids -> Calls \cup {NoCall}] /\ task' \in [Calls -> TaskStates]
        /\ taskId' \in [Calls -> Ids]
    BY <2>3, <2>5 DEF TaskStates
  <2>9. <<f>> \in Seq(Frame)
    BY <2>2, OneFrameSeq
  <2>7. taskChan' \in [Calls -> Seq(Frame)]
    <3>1. CASE taskChan' = [taskChan EXCEPT ![f.from] = <<f>>]
      BY <3>1, <2>3, <2>9
    <3>2. CASE taskChan' = [taskChan EXCEPT ![t] = Append(@, f)]
      BY <3>2, <2>2, ChannelAppend
    <3>3. CASE UNCHANGED taskChan
      BY <3>3
    <3> QED
      BY <2>5, <3>1, <3>2, <3>3
  <2>8. srvHeld' \in Seq(Frame)
    BY <2>5, <2>9
  <2> QED
    BY <2>2, <2>4, <2>6, <2>7, <2>8, SMTT(30)
<1>4. CASE SrvDispatchResume /\ ~FailConnection
  <2>1. Head(srvHeld) \in Frame
    BY <1>4 DEF SrvDispatchResume
  <2>2. /\ taskChan' = [taskChan EXCEPT ![srvSenders[Head(srvHeld).id]] = Append(@, Head(srvHeld))]
        /\ srvHeld' = << >>
        /\ UNCHANGED <<stream, srvSenders, task, taskId, taskBody, runs, reply,
                       taskSent, srvQueue, srvChunk, c2s, s2c, link>>
    BY <1>4 DEF SrvDispatchResume
  <2>3. taskChan' \in [Calls -> Seq(Frame)]
    BY <2>1, <2>2, ChannelAppend
  <2> QED
    BY <2>2, <2>3, SMTT(30)
<1>5. CASE StreamEnds /\ ~FailConnection
  BY <1>5 DEF StreamEnds, taskVars
<1> QED
  BY <1>1, <1>3, <1>4, <1>5 DEF StreamStep

LEMMA DisconnectType == ASSUME TypeOK, Disconnect PROVE TypeOK'
<1>1. ClientTypeOK'
  BY ClientKeepsType DEF Disconnect
<1>2. ServerTypeOK'
  BY DEF Disconnect, TypeOK, ServerTypeOK, serverVars, taskVars
<1>3. WiresTypeOK'
  BY NoFrames DEF Disconnect, WiresTypeOK
<1> QED
  BY <1>1, <1>2, <1>3 DEF TypeOK

LEMMA StutterType == ASSUME TypeOK, UNCHANGED vars PROVE TypeOK'
  BY DEF vars, TypeOK, ClientTypeOK, ServerTypeOK, WiresTypeOK, clientVars, serverVars,
     callVars, mapVars, taskVars

(* Both sides of a connection are type correct: every frame on a wire or in *)
(* a channel is a well-formed frame of some call, and the maps of both      *)
(* sides lead to calls.                                                     *)
THEOREM MultiplexTypeCorrect == Spec => []TypeOK
<1>1. TypeOK /\ [Next]_vars => TypeOK'
  <2> SUFFICES ASSUME TypeOK, [Next]_vars PROVE TypeOK'
    OBVIOUS
  <2>1. CASE Progress
    BY <2>1, CallStepType, TaskStepType, WritesType, ReceiverStepType, StreamStepType
       DEF Progress
  <2>2. CASE Fault
    BY <2>2, CancelType, DisconnectType DEF Fault
  <2>3. CASE UNCHANGED vars
    BY <2>3, StutterType
  <2> QED
    BY <2>1, <2>2, <2>3 DEF Next
<1> QED
  BY <1>1, TypeInit, PTL DEF Spec

----------------------------------------------------------------------------
(* Message ids under reuse.  The frames that carry the id of the call they  *)
(* are from, those of them for readers of c's id, and what such a reader    *)
(* keeps of them.                                                           *)
Stamped == {f \in Frame : pc[f.from] # "idle" /\ f.id = id[f.from]}

StampedFor(c) == {f \in Stamped : f.id = id[c]}

ReadBy(c) == {p \in Calls \X Nat : pc[p[1]] # "idle" /\ id[p[1]] = id[c]}

WiresStamped ==
    /\ outQueue \in Seq(Stamped) /\ outChunk \in Seq(Stamped) /\ c2s \in Seq(Stamped)
    /\ srvHeld \in Seq(Stamped) /\ srvQueue \in Seq(Stamped) /\ srvChunk \in Seq(Stamped)
    /\ s2c \in Seq(Stamped) /\ held \in Seq(Stamped)

(* A call that has no id yet has been given nothing.                        *)
CallHolds(c) ==
    /\ pc[c] = "idle" => chan[c] = << >> /\ got[c] = << >>
    /\ chan[c] \in Seq(StampedFor(c)) /\ got[c] \in Seq(ReadBy(c))

TaskHolds(c) ==
    /\ task[c] = "none" => taskChan[c] = << >> /\ taskBody[c] = << >>
    /\ task[c] # "none" => pc[c] # "idle" /\ taskId[c] = id[c]
    /\ taskChan[c] \in Seq(StampedFor(c)) /\ taskBody[c] \in Seq(ReadBy(c))

(* Whatever the maps lose, an id in them leads to a reader of that id.      *)
MapsLead ==
    \A i \in Ids :
        /\ senders[i] # NoCall => pc[senders[i]] # "idle" /\ id[senders[i]] = i
        /\ srvSenders[i] # NoCall =>
              task[srvSenders[i]] # "none" /\ taskId[srvSenders[i]] = i

IdInv == WiresStamped /\ (\A c \in Calls : CallHolds(c) /\ TaskHolds(c)) /\ MapsLead

(* A call keeps the id it has taken.                                        *)
IdsStay == \A c \in Calls : pc[c] # "idle" => pc'[c] # "idle" /\ id'[c] = id[c]

LEMMA SeqMonotone == ASSUME NEW S, NEW T, S \subseteq T, NEW s \in Seq(S) PROVE s \in Seq(T)
  OBVIOUS

LEMMA SeqParts ==
    ASSUME NEW S, NEW s \in Seq(S), NEW f \in S
    PROVE  << >> \in Seq(S) /\ <<f>> \in Seq(S) /\ (s # << >> => Tail(s) \in Seq(S))
  BY EmptySeq

LEMMA IdsStayInStep == ASSUME TypeOK, [Next]_vars PROVE IdsStay
<1>1. pc \in [Calls -> PCs] /\ id \in [Calls -> Ids]
  BY DEF TypeOK, ClientTypeOK
<1>2. ASSUME NEW c \in Calls, CallStep(c) PROVE IdsStay
  <2>1. CASE TakeId(c)
    BY <1>1, <2>1 DEF TakeId, IdsStay
  <2>2. CASE ~TakeId(c)
    <3>1. id' = id /\ (pc' = pc \/ \E p \in PCs \ {"idle"} : pc' = [pc EXCEPT ![c] = p])
      BY <1>2, <2>2 DEF CallStep, Register, SendFrame, ReceiveFrame, ReceiveNone, StopReading,
         Close, PCs
    <3> QED
      BY <1>1, <3>1 DEF IdsStay
  <2> QED
    BY <2>1, <2>2
<1>3. ASSUME NEW c \in Calls, Cancel(c) PROVE IdsStay
  BY <1>1, <1>3 DEF Cancel, IdsStay
<1>4. CASE UNCHANGED <<pc, id>>
  BY <1>4 DEF IdsStay
<1>5. CASE \/ UNCHANGED vars \/ ClientWrites \/ ServerWrites \/ ReceiverStep \/ StreamStep
           \/ Disconnect \/ \E c \in Calls : TaskStep(c)
  <2>1. UNCHANGED <<pc, id>>
    BY <1>5 DEF vars, ClientWrites, ServerWrites, ReceiverStep, DispatchFollowing,
       DispatchResume, StreamStep, Disconnect, TaskStep, clientVars, callVars
  <2> QED
    BY <1>4, <2>1, SMTT(30)
<1> QED
  BY <1>2, <1>3, <1>5 DEF Next, Progress, Fault

LEMMA StampedStay ==
    ASSUME IdsStay
    PROVE  /\ Stamped \subseteq Stamped'
           /\ \A c \in Calls : pc[c] # "idle" =>
                 StampedFor(c) \subseteq StampedFor(c)' /\ ReadBy(c) \subseteq ReadBy(c)'
<1>1. Stamped \subseteq Stamped'
  BY DEF IdsStay, Stamped, Frame
<1>2. ASSUME NEW c \in Calls, pc[c] # "idle"
      PROVE  StampedFor(c) \subseteq StampedFor(c)' /\ ReadBy(c) \subseteq ReadBy(c)'
  BY <1>1, <1>2 DEF IdsStay, StampedFor, ReadBy
<1> QED
  BY <1>1, <1>2

(* What has not moved is still held by its reader.                          *)
LEMMA CallHoldsStill ==
    ASSUME IdsStay, NEW c \in Calls, CallHolds(c), UNCHANGED <<chan[c], got[c]>>
    PROVE  CallHolds(c)'
<1>1. CASE pc[c] = "idle"
  BY <1>1, EmptySeq DEF CallHolds
<1>2. CASE pc[c] # "idle"
  <2>1. pc'[c] # "idle"
    BY <1>2 DEF IdsStay
  <2>2. StampedFor(c) \subseteq StampedFor(c)' /\ ReadBy(c) \subseteq ReadBy(c)'
    BY <1>2, StampedStay
  <2>3. chan[c] \in Seq(StampedFor(c)') /\ got[c] \in Seq(ReadBy(c)')
    BY <2>2, SeqMonotone DEF CallHolds
  <2> QED
    BY <2>1, <2>3 DEF CallHolds
<1> QED
  BY <1>1, <1>2

LEMMA TaskHoldsStill ==
    ASSUME IdsStay, NEW c \in Calls, TaskHolds(c),
           UNCHANGED <<taskChan[c], taskBody[c], taskId[c]>>,
           task[c] = "none" <=> task'[c] = "none"
    PROVE  TaskHolds(c)'
<1>1. CASE task[c] = "none"
  BY <1>1, EmptySeq DEF TaskHolds
<1>2. CASE task[c] # "none"
  <2>1. pc[c] # "idle" /\ pc'[c] # "idle" /\ id'[c] = id[c] /\ taskId[c] = id[c]
    BY <1>2 DEF IdsStay, TaskHolds
  <2>2. StampedFor(c) \subseteq StampedFor(c)' /\ ReadBy(c) \subseteq ReadBy(c)'
    BY <2>1, StampedStay
  <2>3. taskChan[c] \in Seq(StampedFor(c)') /\ taskBody[c] \in Seq(ReadBy(c)')
    BY <2>2, SeqMonotone DEF TaskHolds
  <2> QED
    BY <1>2, <2>1, <2>3 DEF TaskHolds
<1> QED
  BY <1>1, <1>2

LEMMA CallsHoldStill ==
    ASSUME IdInv, IdsStay, UNCHANGED <<chan, got>> PROVE \A c \in Calls : CallHolds(c)'
  BY CallHoldsStill DEF IdInv

LEMMA TasksHoldStill ==
    ASSUME IdInv, IdsStay, UNCHANGED <<task, taskId, taskChan, taskBody>>
    PROVE  \A c \in Calls : TaskHolds(c)'
  BY TaskHoldsStill DEF IdInv

LEMMA WiresStay ==
    ASSUME IdInv, IdsStay
    PROVE  /\ outQueue \in Seq(Stamped') /\ outChunk \in Seq(Stamped') /\ c2s \in Seq(Stamped')
           /\ srvHeld \in Seq(Stamped') /\ srvQueue \in Seq(Stamped') /\ srvChunk \in Seq(Stamped')
           /\ s2c \in Seq(Stamped') /\ held \in Seq(Stamped')
  BY StampedStay, SeqMonotone DEF IdInv, WiresStamped

LEMMA MapsStay ==
    ASSUME TypeOK, IdInv, IdsStay
    PROVE  /\ \A i \in Ids : senders[i] # NoCall =>
                 pc'[senders[i]] # "idle" /\ id'[senders[i]] = i
           /\ UNCHANGED <<srvSenders, task, taskId>> =>
                 \A i \in Ids : srvSenders'[i] # NoCall =>
                    task'[srvSenders'[i]] # "none" /\ taskId'[srvSenders'[i]] = i
<1>1. senders \in [Ids -> Calls \cup {NoCall}]
  BY DEF TypeOK, ClientTypeOK
<1> QED
  BY <1>1 DEF IdInv, MapsLead, IdsStay

LEMMA IdInit == Init => IdInv
<1> SUFFICES ASSUME Init PROVE IdInv
  OBVIOUS
<1>1. WiresStamped
  BY EmptySeq DEF Init, WiresInit, ClientInit, ServerInit, WiresStamped
<1>2. ASSUME NEW c \in Calls PROVE CallHolds(c) /\ TaskHolds(c)
  BY EmptySeq DEF Init, ClientInit, ServerInit, CallHolds, TaskHolds
<1>3. MapsLead
  BY DEF Init, ClientInit, ServerInit, MapsLead
<1> QED
  BY <1>1, <1>2, <1>3 DEF IdInv

(* A frame read off a channel, as its reader keeps it.                      *)
LEMMA FrameRead ==
    ASSUME NEW c \in Calls, NEW f \in StampedFor(c)
    PROVE  <<f.from, f.seq>> \in ReadBy(c)
<1>1. f \in Frame /\ pc[f.from] # "idle" /\ f.id = id[f.from] /\ f.id = id[c]
  BY DEF StampedFor, Stamped
<1>2. <<f.from, f.seq>> \in Calls \X Nat
  BY <1>1 DEF Frame
<1>3. <<f.from, f.seq>>[1] = f.from
  OBVIOUS
<1> QED
  BY <1>1, <1>2, <1>3 DEF ReadBy

LEMMA CallStepIds ==
    ASSUME TypeOK, TypeOK', IdInv, IdsStay, NEW c \in Calls, CallStep(c)
    PROVE  IdInv'
<1>1. /\ pc \in [Calls -> PCs] /\ id \in [Calls -> Ids] /\ senders \in [Ids -> Calls \cup {NoCall}]
      /\ chan \in [Calls -> Seq(Frame)] /\ got \in [Calls -> Seq(Calls \X Nat)]
      /\ outQueue \in Seq(Frame) /\ sent \in [Calls -> Nat]
  BY DEF TypeOK, ClientTypeOK
<1>2. /\ UNCHANGED <<srvSenders, task, taskId, taskChan, taskBody, srvHeld, srvQueue, srvChunk>>
      /\ UNCHANGED <<outChunk, c2s, s2c, held>>
  BY DEF CallStep, serverVars, taskVars, TakeId, Register, SendFrame, ReceiveFrame, ReceiveNone,
     Close, mapVars
<1>3. \A d \in Calls : TaskHolds(d)'
  BY <1>2, TasksHoldStill
<1>4. outQueue' \in Seq(Stamped')
  <2>1. CASE SendFrame(c)
    <3>1. /\ outQueue' = Append(outQueue, RequestFrame(c, id[c], sent[c] + 1))
          /\ pc[c] # "idle"
      BY <2>1 DEF SendFrame
    <3>2. RequestFrame(c, id[c], sent[c] + 1) \in Stamped
      <4>1. RequestFrame(c, id[c], sent[c] + 1) \in Frame
        BY <1>1, RequestFrameType
      <4> QED
        BY <3>1, <4>1 DEF Stamped, RequestFrame
    <3>3. RequestFrame(c, id[c], sent[c] + 1) \in Stamped'
      BY <3>2, StampedStay
    <3>4. outQueue \in Seq(Stamped')
      BY WiresStay
    <3> QED
      BY <3>1, <3>3, <3>4
  <2>2. CASE ~SendFrame(c)
    <3>1. outQueue' = outQueue
      BY <2>2 DEF CallStep, TakeId, Register, ReceiveFrame, ReceiveNone, Close
    <3> QED
      BY <3>1, WiresStay
  <2> QED
    BY <2>1, <2>2
<1>5. WiresStamped'
  BY <1>2, <1>4, WiresStay DEF WiresStamped
<1>6. \A d \in Calls : CallHolds(d)'
  <2>1. CASE UNCHANGED <<chan, got>>
    BY <2>1, CallsHoldStill
  <2>2. CASE ReceiveFrame(c) \/ ReceiveNone(c)
    <3>1. /\ pc[c] = "receiving" /\ pc[c] # "idle"
          /\ chan' = [chan EXCEPT ![c] = << >>]
                \/ (chan[c] # << >> /\ chan' = [chan EXCEPT ![c] = Tail(@)])
          /\ got' = got \/ (chan[c] # << >> /\
                got' = [got EXCEPT ![c] = Append(@, <<Head(chan[c]).from, Head(chan[c]).seq>>)])
      BY <2>2 DEF ReceiveFrame, ReceiveNone, StopReading
    <3>2. \A d \in Calls \ {c} : UNCHANGED <<chan[d], got[d]>>
      BY <1>1, <3>1
    <3>3. StampedFor(c) \subseteq StampedFor(c)' /\ ReadBy(c) \subseteq ReadBy(c)'
      BY <3>1, StampedStay
    <3>4. chan[c] \in Seq(StampedFor(c)) /\ got[c] \in Seq(ReadBy(c))
      BY DEF IdInv, CallHolds
    <3>5. chan'[c] \in Seq(StampedFor(c))
      <4>1. CASE chan' = [chan EXCEPT ![c] = << >>]
        BY <1>1, <4>1, EmptySeq
      <4>2. CASE chan[c] # << >> /\ chan' = [chan EXCEPT ![c] = Tail(@)]
        <5>1. Tail(chan[c]) \in Seq(StampedFor(c))
          BY <3>4, <4>2
        <5> QED
          BY <1>1, <4>2, <5>1
      <4> QED
        BY <3>1, <4>1, <4>2
    <3>6. got'[c] \in Seq(ReadBy(c))
      <4>1. CASE got' = got
        BY <3>4, <4>1
      <4>2. CASE chan[c] # << >> /\
                 got' = [got EXCEPT ![c] = Append(@, <<Head(chan[c]).from, Head(chan[c]).seq>>)]
        <5>1. PICK f : f = Head(chan[c])
          OBVIOUS
        <5>2. f \in StampedFor(c)
          BY <3>4, <4>2, <5>1
        <5>3. PICK p : p = <<f.from, f.seq>>
          OBVIOUS
        <5>4. p \in ReadBy(c) /\ got' = [got EXCEPT ![c] = Append(@, p)]
          BY <4>2, <5>1, <5>2, <5>3, FrameRead
        <5>5. Append(got[c], p) \in Seq(ReadBy(c))
          BY <3>4, <5>4
        <5> QED
          BY <1>1, <5>4, <5>5
      <4> QED
        BY <3>1, <4>1, <4>2
    <3>7. chan'[c] \in Seq(StampedFor(c)') /\ got'[c] \in Seq(ReadBy(c)')
      BY <3>3, <3>5, <3>6, SeqMonotone
    <3>8. pc'[c] # "idle"
      BY <3>1 DEF IdsStay
    <3>9. CallHolds(c)'
      BY <3>7, <3>8 DEF CallHolds
    <3>10. ASSUME NEW d \in Calls, d # c PROVE CallHolds(d)'
      BY <3>2, <3>10, CallHoldsStill DEF IdInv
    <3> QED
      BY <3>9, <3>10
  <2> QED
    BY <2>1, <2>2 DEF CallStep, TakeId, Register, SendFrame, Close, mapVars
<1>7. MapsLead'
  <2>1. CASE Register(c)
    <3>1. /\ senders' = [senders EXCEPT ![id[c]] = c] /\ pc[c] # "idle" /\ id' = id
      BY <2>1 DEF Register
    <3>2. pc'[c] # "idle"
      BY <3>1 DEF IdsStay
    <3> QED
      BY <1>1, <1>2, <3>1, <3>2, MapsStay DEF MapsLead
  <2>2. CASE Close(c)
    <3>1. senders' = [senders EXCEPT ![id[c]] = NoCall]
      BY <2>2 DEF Close
    <3> QED
      BY <1>1, <1>2, <3>1, MapsStay DEF MapsLead
  <2>3. CASE UNCHANGED senders
    BY <1>2, <2>3, MapsStay DEF MapsLead
  <2> QED
    BY <2>1, <2>2, <2>3 DEF CallStep, TakeId, SendFrame, ReceiveFrame, ReceiveNone, mapVars
<1> QED
  BY <1>3, <1>5, <1>6, <1>7 DEF IdInv

LEMMA CancelIds ==
    ASSUME TypeOK, IdInv, IdsStay, NEW c \in Calls, Cancel(c), UNCHANGED serverVars
    PROVE  IdInv'
<1>1. /\ chan' = [chan EXCEPT ![c] = << >>]
      /\ UNCHANGED <<got, senders, held, outQueue, outChunk, c2s, s2c>>
      /\ UNCHANGED <<srvSenders, task, taskId, taskChan, taskBody, srvHeld, srvQueue, srvChunk>>
      /\ pc[c] # "idle"
  BY DEF Cancel, serverVars, taskVars
<1>2. WiresStamped'
  BY <1>1, WiresStay DEF WiresStamped
<1>3. \A d \in Calls : TaskHolds(d)'
  BY <1>1, TasksHoldStill
<1>4. MapsLead'
  BY <1>1, MapsStay DEF MapsLead
<1>5. ASSUME NEW d \in Calls PROVE CallHolds(d)'
  <2>1. chan \in [Calls -> Seq(Frame)]
    BY DEF TypeOK, ClientTypeOK
  <2>2. CASE d # c
    BY <1>1, <2>1, <2>2, CallHoldsStill DEF IdInv
  <2>3. CASE d = c
    <3>1. chan'[c] = << >> /\ got'[c] = got[c] /\ pc'[c] # "idle"
      BY <1>1, <2>1 DEF IdsStay
    <3>2. got[c] \in Seq(ReadBy(c)')
      BY <1>1, StampedStay, SeqMonotone DEF IdInv, CallHolds
    <3> QED
      BY <2>3, <3>1, <3>2, EmptySeq DEF CallHolds
  <2> QED
    BY <2>2, <2>3
<1> QED
  BY <1>2, <1>3, <1>4, <1>5 DEF IdInv

(* Frames go from the wire to readers of their id.                          *)
LEMMA StampedReach ==
    ASSUME TypeOK, IdInv, NEW f \in Stamped
    PROVE  /\ f \in Frame /\ f.id \in Ids /\ f.from \in Calls
           /\ senders[f.id] \in Calls => f \in StampedFor(senders[f.id])
           /\ srvSenders[f.id] \in Calls => f \in StampedFor(srvSenders[f.id])
           /\ f \in StampedFor(f.from)
<1>1. f \in Frame /\ f.id \in Ids /\ f.from \in Calls /\ f.id = id[f.from]
  BY DEF Stamped, Frame
<1>2. ASSUME senders[f.id] \in Calls PROVE f \in StampedFor(senders[f.id])
  BY <1>1, <1>2, FramesAssumption DEF IdInv, MapsLead, StampedFor
<1>3. ASSUME srvSenders[f.id] \in Calls PROVE f \in StampedFor(srvSenders[f.id])
  <2>1. taskId[srvSenders[f.id]] = f.id /\ task[srvSenders[f.id]] # "none"
    BY <1>1, <1>3, FramesAssumption DEF IdInv, MapsLead
  <2>2. taskId[srvSenders[f.id]] = id[srvSenders[f.id]]
    BY <1>3, <2>1 DEF IdInv, TaskHolds
  <2> QED
    BY <1>1, <2>1, <2>2 DEF StampedFor
<1>4. f \in StampedFor(f.from)
  BY <1>1 DEF StampedFor
<1> QED
  BY <1>1, <1>2, <1>3, <1>4

LEMMA ReceiverStepIds ==
    ASSUME TypeOK, IdInv, IdsStay, ReceiverStep
    PROVE  IdInv'
<1>1. /\ UNCHANGED <<pc, id, got, senders, outQueue, outChunk, c2s>>
      /\ UNCHANGED <<srvSenders, task, taskId, taskChan, taskBody, srvHeld, srvQueue, srvChunk>>
  BY DEF ReceiverStep, DispatchFollowing, DispatchResume, serverVars, taskVars, callVars
<1>2. chan \in [Calls -> Seq(Frame)] /\ senders \in [Ids -> Calls \cup {NoCall}]
  BY DEF TypeOK, ClientTypeOK
<1>3. \A d \in Calls : TaskHolds(d)'
  BY <1>1, TasksHoldStill
<1>4. MapsLead'
  BY <1>1, MapsStay DEF MapsLead
<1>5. Stamped' = Stamped /\ \A d \in Calls : StampedFor(d)' = StampedFor(d) /\ ReadBy(d)' = ReadBy(d)
  BY <1>1 DEF Stamped, StampedFor, ReadBy
<1>6. PICK f \in Stamped :
         /\ chan' = chan \/ chan' = [chan EXCEPT ![senders[f.id]] = Append(@, f)]
         /\ held' = held \/ held' = << >> \/ held' = <<f>>
         /\ s2c' = s2c \/ (s2c # << >> /\ s2c' = Tail(s2c))
  <2>1. s2c \in Seq(Stamped) /\ held \in Seq(Stamped)
    BY DEF IdInv, WiresStamped
  <2>2. CASE DispatchFollowing
    <3>1. Head(s2c) \in Stamped
      BY <2>1, <2>2, SMTT(30) DEF DispatchFollowing
    <3>2. /\ UNCHANGED chan \/ chan' = [chan EXCEPT ![senders[Head(s2c).id]] = Append(@, Head(s2c))]
          /\ UNCHANGED held \/ held' = <<Head(s2c)>>
          /\ s2c # << >> /\ s2c' = Tail(s2c)
      BY <2>2 DEF DispatchFollowing
    <3> QED
      BY <3>1, <3>2
  <2>3. CASE DispatchResume
    <3>1. Head(held) \in Stamped
      BY <2>1, <2>3 DEF DispatchResume
    <3>2. /\ UNCHANGED chan \/ chan' = [chan EXCEPT ![senders[Head(held).id]] = Append(@, Head(held))]
          /\ held' = << >> /\ s2c' = s2c
      BY <2>3 DEF DispatchResume
    <3> QED
      BY <3>1, <3>2
  <2> QED
    BY <2>2, <2>3 DEF ReceiverStep
<1>7. WiresStamped'
  <2>1. s2c \in Seq(Stamped) /\ held \in Seq(Stamped)
    BY DEF IdInv, WiresStamped
  <2>2. s2c' \in Seq(Stamped) /\ held' \in Seq(Stamped)
    BY <1>6, <2>1, SeqParts
  <2> QED
    BY <1>1, <1>5, <2>1, <2>2 DEF IdInv, WiresStamped
<1>8. f.id \in Ids /\ (senders[f.id] \in Calls => f \in StampedFor(senders[f.id]))
  BY StampedReach
<1>9. ASSUME NEW d \in Calls PROVE CallHolds(d)'
  <2>1. CallHolds(d)
    BY DEF IdInv
  <2>2. CASE chan'[d] = chan[d]
    BY <1>1, <2>1, <2>2, CallHoldsStill
  <2>3. CASE chan'[d] # chan[d]
    <3>1. d = senders[f.id] /\ chan'[d] = Append(chan[d], f)
      BY <1>2, <1>6, <2>3
    <3>2. f \in StampedFor(d) /\ pc[d] # "idle"
      BY <1>8, <3>1, FramesAssumption DEF IdInv, MapsLead
    <3>3. Append(chan[d], f) \in Seq(StampedFor(d))
      BY <2>1, <3>2 DEF CallHolds
    <3> QED
      BY <1>1, <1>5, <2>1, <3>1, <3>2, <3>3 DEF CallHolds
  <2> QED
    BY <2>2, <2>3
<1> QED
  BY <1>3, <1>4, <1>7, <1>9, SMTT(30) DEF IdInv

LEMMA WritesIds ==
    ASSUME TypeOK, IdInv, IdsStay, ClientWrites \/ ServerWrites
    PROVE  IdInv'
<1>1. /\ UNCHANGED <<pc, id, got, chan, senders, held>>
      /\ UNCHANGED <<srvSenders, task, taskId, taskChan, taskBody, srvHeld>>
  BY DEF ClientWrites, ServerWrites, serverVars, taskVars, clientVars, callVars, mapVars
<1>2. Stamped' = Stamped
  BY <1>1 DEF Stamped
<1>3. /\ outQueue \in Seq(Stamped) /\ outChunk \in Seq(Stamped) /\ c2s \in Seq(Stamped)
      /\ srvHeld \in Seq(Stamped) /\ srvQueue \in Seq(Stamped) /\ srvChunk \in Seq(Stamped)
      /\ s2c \in Seq(Stamped) /\ held \in Seq(Stamped)
  BY DEF IdInv, WiresStamped
<1>4. WiresStamped'
  <2>1. CASE ClientWrites
    <3>1. outQueue' \in Seq(Stamped) /\ outChunk' \in Seq(Stamped) /\ c2s' \in Seq(Stamped)
      BY <1>3, <2>1, WriterType DEF ClientWrites
    <3>2. UNCHANGED <<srvQueue, srvChunk, s2c>>
      BY <2>1 DEF ClientWrites, serverVars
    <3> QED
      BY <1>1, <1>2, <1>3, <3>1, <3>2 DEF WiresStamped
  <2>2. CASE ServerWrites
    <3>1. srvQueue' \in Seq(Stamped) /\ srvChunk' \in Seq(Stamped) /\ s2c' \in Seq(Stamped)
      BY <1>3, <2>2, SrvWriterType DEF ServerWrites
    <3>2. UNCHANGED <<outQueue, outChunk, c2s>>
      BY <2>2 DEF ServerWrites, clientVars
    <3> QED
      BY <1>1, <1>2, <1>3, <3>1, <3>2 DEF WiresStamped
  <2> QED
    BY <2>1, <2>2
<1>5. \A d \in Calls : TaskHolds(d)' /\ CallHolds(d)'
  BY <1>1, TasksHoldStill, CallsHoldStill
<1>6. MapsLead'
  BY <1>1, MapsStay DEF MapsLead
<1> QED
  BY <1>4, <1>5, <1>6 DEF IdInv

LEMMA FailConnectionIds ==
    ASSUME TypeOK, IdInv, IdsStay, FailConnection, UNCHANGED clientVars
    PROVE  IdInv'
<1>1. /\ UNCHANGED <<pc, id, got, chan, senders, held, outQueue, outChunk>>
      /\ UNCHANGED <<taskId, taskBody, srvQueue, srvChunk, s2c>>
      /\ task' = [c \in Calls |-> IF c \in Active THEN "dropped" ELSE task[c]]
      /\ taskChan' = [c \in Calls |-> << >>] /\ srvSenders' = [i \in Ids |-> NoCall]
      /\ srvHeld' = << >> /\ c2s' = << >>
  BY DEF FailConnection, clientVars, callVars, mapVars
<1>2. WiresStamped'
  BY <1>1, WiresStay, EmptySeq DEF WiresStamped
<1>3. MapsLead'
  BY <1>1, MapsStay DEF MapsLead
<1>4. ASSUME NEW d \in Calls PROVE TaskHolds(d)'
  <2>1. TaskHolds(d) /\ taskChan'[d] = << >> /\ UNCHANGED <<pc[d], id[d], taskBody[d], taskId[d]>>
    BY <1>1 DEF IdInv
  <2>2. task[d] = "none" <=> task'[d] = "none"
    BY <1>1 DEF Active
  <2>3. ReadBy(d)' = ReadBy(d)
    BY <1>1 DEF ReadBy
  <2> QED
    BY <2>1, <2>2, <2>3, EmptySeq DEF TaskHolds
<1>5. \A d \in Calls : CallHolds(d)'
  BY <1>1, CallsHoldStill
<1> QED
  BY <1>2, <1>3, <1>4, <1>5 DEF IdInv

LEMMA StreamStepIds ==
    ASSUME TypeOK, IdInv, IdsStay, StreamStep
    PROVE  IdInv'
<1>1. UNCHANGED clientVars /\ UNCHANGED <<pc, id, got, chan, senders, held, outQueue, outChunk>>
  BY DEF StreamStep, clientVars, callVars, mapVars
<1>2. CASE FailConnection
  BY <1>1, <1>2, FailConnectionIds
<1>3. CASE ~FailConnection
  <2>1. /\ taskChan \in [Calls -> Seq(Frame)] /\ srvSenders \in [Ids -> Calls \cup {NoCall}]
        /\ task \in [Calls -> TaskStates] /\ taskId \in [Calls -> Ids]
    BY DEF TypeOK, ServerTypeOK
  <2>2. c2s \in Seq(Stamped) /\ srvHeld \in Seq(Stamped)
    BY DEF IdInv, WiresStamped
  <2>3. Stamped' = Stamped /\ \A d \in Calls : StampedFor(d)' = StampedFor(d) /\ ReadBy(d)' = ReadBy(d)
    BY <1>1 DEF Stamped, StampedFor, ReadBy
  <2>4. \A d \in Calls : CallHolds(d)'
    BY <1>1, CallsHoldStill
  <2>5. CASE StreamEnds
    <3>1. UNCHANGED <<srvSenders, task, taskId, taskChan, taskBody, srvHeld, srvQueue, srvChunk, c2s, s2c>>
      BY <1>3, <2>5 DEF StreamEnds, taskVars
    <3>2. WiresStamped' /\ MapsLead'
      BY <1>1, <3>1, WiresStay, MapsStay DEF WiresStamped, MapsLead
    <3> QED
      BY <2>4, <3>1, <3>2, TasksHoldStill DEF IdInv
  <2>6. CASE Dispatch \/ SrvDispatchResume
    <3>1. PICK f \in Stamped :
             /\ \/ /\ srvSenders' = [srvSenders EXCEPT ![f.id] = f.from]
                   /\ task' = [task EXCEPT ![f.from] = "reading"]
                   /\ taskId' = [taskId EXCEPT ![f.from] = f.id]
                   /\ taskChan' = [taskChan EXCEPT ![f.from] = <<f>>]
                   /\ task[f.from] = "none"
                \/ /\ UNCHANGED <<srvSenders, task, taskId>>
                   /\ \/ taskChan' = taskChan
                      \/ taskChan' = [taskChan EXCEPT ![srvSenders[f.id]] = Append(@, f)]
             /\ srvHeld' = srvHeld \/ srvHeld' = << >> \/ srvHeld' = <<f>>
             /\ c2s' = c2s \/ (c2s # << >> /\ c2s' = Tail(c2s))
      <4>1. CASE Dispatch
        <5>1. Head(c2s) \in Stamped
          BY <2>2, <4>1 DEF Dispatch
        <5> QED
          BY <1>3, <4>1, <5>1 DEF Dispatch, taskVars
      <4>2. CASE SrvDispatchResume
        <5>1. Head(srvHeld) \in Stamped
          BY <2>2, <4>2, SMTT(30) DEF SrvDispatchResume
        <5> QED
          BY <1>3, <4>2, <5>1 DEF SrvDispatchResume
      <4> QED
        BY <2>6, <4>1, <4>2, SMTT(30)
    <3>2. UNCHANGED <<taskBody, srvQueue, srvChunk, s2c>>
      BY <1>3, <2>6 DEF Dispatch, SrvDispatchResume, taskVars
    <3>3. WiresStamped'
      <4>1. c2s' \in Seq(Stamped) /\ srvHeld' \in Seq(Stamped)
        BY <2>2, <3>1, SeqParts
      <4> QED
        BY <1>1, <2>3, <3>2, <4>1 DEF IdInv, WiresStamped
    <3>4. /\ f.id \in Ids /\ f.from \in Calls /\ f \in StampedFor(f.from)
          /\ (srvSenders[f.id] \in Calls => f \in StampedFor(srvSenders[f.id]))
      BY StampedReach
    <3>5. f.id = id[f.from] /\ pc[f.from] # "idle"
      BY DEF Stamped
    <3>6. CASE UNCHANGED <<srvSenders, task, taskId>>
      <4>1. MapsLead'
        BY <1>1, <3>6, MapsStay DEF MapsLead
      <4>2. ASSUME NEW d \in Calls PROVE TaskHolds(d)'
        <5>1. TaskHolds(d)
          BY DEF IdInv
        <5>2. CASE taskChan'[d] = taskChan[d]
          BY <3>2, <3>6, <5>1, <5>2, TaskHoldsStill
        <5>3. CASE taskChan'[d] # taskChan[d]
          <6>1. CASE task[d] # "none"
            <7>1. d = srvSenders[f.id] /\ taskChan'[d] = Append(taskChan[d], f)
              <8>1. task'[f.from] # "reading" \/ taskChan'[f.from] # <<f>> \/ task[f.from] # "none"
                BY <3>4, <3>6
              <8> QED
                BY <2>1, <3>1, <3>4, <3>6, <5>3, <8>1
            <7>2. Append(taskChan[d], f) \in Seq(StampedFor(d))
              BY <3>4, <5>1, <7>1 DEF TaskHolds
            <7> QED
              BY <1>1, <2>3, <3>2, <3>6, <5>1, <6>1, <7>1, <7>2 DEF TaskHolds
          <6>2. CASE task[d] = "none"
            <7>1. d = srvSenders[f.id]
              <8>1. task'[f.from] # "reading" \/ taskChan'[f.from] # <<f>> \/ task[f.from] # "none"
                BY <3>4, <3>6
              <8> QED
                BY <2>1, <3>1, <3>4, <3>6, <5>3, <8>1
            <7> QED
              BY <3>4, <6>2, <7>1, FramesAssumption DEF IdInv, MapsLead
          <6> QED
            BY <6>1, <6>2
        <5> QED
          BY <5>2, <5>3
      <4> QED
        BY <2>4, <3>3, <4>1, <4>2 DEF IdInv
    <3>7. CASE ~UNCHANGED <<srvSenders, task, taskId>>
      <4>1. /\ srvSenders' = [srvSenders EXCEPT ![f.id] = f.from]
            /\ task' = [task EXCEPT ![f.from] = "reading"]
            /\ taskId' = [taskId EXCEPT ![f.from] = f.id]
            /\ taskChan' = [taskChan EXCEPT ![f.from] = <<f>>]
            /\ task[f.from] = "none"
        BY <3>1, <3>7
      <4>2. MapsLead'
        <5>1. ASSUME NEW i \in Ids, srvSenders'[i] # NoCall
              PROVE  task'[srvSenders'[i]] # "none" /\ taskId'[srvSenders'[i]] = i
          <6>1. CASE i = f.id
            BY <2>1, <3>4, <4>1, <6>1
          <6>2. CASE i # f.id
            <7>1. srvSenders'[i] = srvSenders[i] /\ srvSenders[i] \in Calls
              BY <2>1, <3>4, <4>1, <5>1, <6>2
            <7>2. task[srvSenders[i]] # "none" /\ taskId[srvSenders[i]] = i
              BY <5>1, <7>1 DEF IdInv, MapsLead
            <7>3. srvSenders[i] # f.from
              BY <4>1, <7>2
            <7> QED
              BY <2>1, <3>4, <4>1, <7>1, <7>2, <7>3
          <6> QED
            BY <6>1, <6>2
        <5> QED
          BY <1>1, <5>1, MapsStay DEF MapsLead
      <4>3. ASSUME NEW d \in Calls PROVE TaskHolds(d)'
        <5>1. TaskHolds(d)
          BY DEF IdInv
        <5>2. CASE d # f.from
          <6>1. UNCHANGED <<taskChan[d], taskBody[d], taskId[d], task[d]>>
            BY <2>1, <3>2, <3>4, <4>1, <5>2
          <6> QED
            BY <5>1, <6>1, TaskHoldsStill
        <5>3. CASE d = f.from
          <6>1. task'[d] = "reading" /\ taskId'[d] = f.id /\ taskChan'[d] = <<f>> /\ taskBody'[d] = taskBody[d]
            BY <2>1, <3>2, <3>4, <4>1, <5>3
          <6>2. <<f>> \in Seq(StampedFor(d))
            BY <3>4, <5>3
          <6> QED
            BY <1>1, <2>3, <3>5, <5>1, <5>3, <6>1, <6>2 DEF TaskHolds
        <5> QED
          BY <5>2, <5>3
      <4> QED
        BY <2>4, <3>3, <4>2, <4>3 DEF IdInv
    <3> QED
      BY <3>6, <3>7
  <2> QED
    BY <2>5, <2>6 DEF StreamStep
<1> QED
  BY <1>2, <1>3

LEMMA TaskStepIds ==
    ASSUME TypeOK, IdInv, IdsStay, NEW c \in Calls, TaskStep(c)
    PROVE  IdInv'
<1>1. UNCHANGED clientVars /\ UNCHANGED <<pc, id, got, chan, senders, held, outQueue, outChunk>>
  BY DEF TaskStep, clientVars, callVars, mapVars
<1>2. CASE FailConnection
  BY <1>1, <1>2, FailConnectionIds
<1>3. CASE ~FailConnection
  <2>1. /\ taskChan \in [Calls -> Seq(Frame)] /\ srvSenders \in [Ids -> Calls \cup {NoCall}]
        /\ task \in [Calls -> TaskStates] /\ taskBody \in [Calls -> Seq(Calls \X Nat)]
        /\ taskId \in [Calls -> Ids] /\ taskSent \in [Calls -> Nat]
        /\ reply \in [Calls -> Replies \cup {NoReply}]
    BY DEF TypeOK, ServerTypeOK
  <2>2. Stamped' = Stamped /\ \A d \in Calls : StampedFor(d)' = StampedFor(d) /\ ReadBy(d)' = ReadBy(d)
    BY <1>1 DEF Stamped, StampedFor, ReadBy
  <2>3. \A d \in Calls : CallHolds(d)'
    BY <1>1, CallsHoldStill
  <2>4. UNCHANGED <<taskId, c2s, s2c, srvHeld, srvChunk>>
    BY <1>3 DEF TaskStep, ReadRequest, Deregister, Route, LockHandler, HandlerReturns, SendResponse
  <2>5. /\ task[c] # "none"
        /\ UNCHANGED task \/ \E t \in TaskStates \ {"none"} : task' = [task EXCEPT ![c] = t]
    BY <1>3 DEF TaskStep, ReadRequest, Deregister, Route, LockHandler, HandlerReturns,
       SendResponse, TaskStates
  <2>6. \A d \in Calls : task[d] = "none" <=> task'[d] = "none"
    BY <2>1, <2>5
  <2>7. MapsLead'
    <3>1. \A i \in Ids : srvSenders'[i] \in {srvSenders[i], NoCall}
      BY <1>3, <2>1 DEF TaskStep, ReadRequest, Deregister, Route, LockHandler, HandlerReturns,
         SendResponse
    <3>2. ASSUME NEW i \in Ids, srvSenders'[i] # NoCall
          PROVE  task'[srvSenders'[i]] # "none" /\ taskId'[srvSenders'[i]] = i
      <4>1. srvSenders'[i] = srvSenders[i] /\ srvSenders[i] \in Calls
        BY <2>1, <3>1, <3>2
      <4>2. task[srvSenders[i]] # "none" /\ taskId[srvSenders[i]] = i
        BY <3>2, <4>1 DEF IdInv, MapsLead
      <4> QED
        BY <2>4, <2>6, <4>1, <4>2
    <3> QED
      BY <1>1, <3>2, MapsStay DEF MapsLead
  <2>8. WiresStamped'
    <3>1. srvQueue' \in Seq(Stamped)
      <4>1. srvQueue \in Seq(Stamped)
        BY DEF IdInv, WiresStamped
      <4>2. CASE SendResponse(c)
        <5>1. PICK f : f = ResponseFrame(c, taskId[c], taskSent[c] + 1, reply[c])
          OBVIOUS
        <5>2. f \in Frame
          BY <2>1, <5>1, ResponseFrameType
        <5>3. f.from = c /\ f.id = taskId[c]
          BY <5>1 DEF ResponseFrame
        <5>4. f \in Stamped
          BY <2>5, <5>2, <5>3 DEF IdInv, TaskHolds, Stamped
        <5>5. srvQueue' = Append(srvQueue, f)
          BY <4>2, <5>1 DEF SendResponse
        <5> QED
          BY <4>1, <5>4, <5>5
      <4>3. CASE ~SendResponse(c)
        <5>1. srvQueue' = srvQueue
          BY <1>3, <4>3 DEF TaskStep, ReadRequest, Deregister, Route, LockHandler, HandlerReturns
        <5> QED
          BY <4>1, <5>1
      <4> QED
        BY <4>2, <4>3
    <3> QED
      BY <1>1, <2>2, <2>4, <3>1 DEF IdInv, WiresStamped
  <2>9. ASSUME NEW d \in Calls PROVE TaskHolds(d)'
    <3>1. TaskHolds(d) /\ taskChan[d] \in Seq(StampedFor(d)) /\ taskBody[d] \in Seq(ReadBy(d))
      BY DEF IdInv, TaskHolds
    <3>2. CASE UNCHANGED <<taskChan[d], taskBody[d]>>
      BY <2>4, <2>6, <3>1, <3>2, TaskHoldsStill
    <3>3. CASE ~UNCHANGED <<taskChan[d], taskBody[d]>>
      <4>1. /\ d = c /\ taskChan[c] # << >>
            /\ taskChan' = [taskChan EXCEPT ![c] = << >>] \/ taskChan' = [taskChan EXCEPT ![c] = Tail(@)]
            /\ taskBody' = [taskBody EXCEPT ![c] = Append(@, <<Head(taskChan[c]).from, Head(taskChan[c]).seq>>)]
        <5>1. ReadRequest(c)
          BY <1>3, <3>3 DEF TaskStep, Deregister, Route, LockHandler, HandlerReturns, SendResponse
        <5>2. /\ taskChan[c] # << >>
              /\ taskChan' = [taskChan EXCEPT ![c] = << >>] \/ taskChan' = [taskChan EXCEPT ![c] = Tail(@)]
              /\ taskBody' = [taskBody EXCEPT ![c] = Append(@, <<Head(taskChan[c]).from, Head(taskChan[c]).seq>>)]
          BY <1>3, <5>1 DEF ReadRequest
        <5>3. d = c
          BY <2>1, <3>3, <5>2
        <5> QED
          BY <5>2, <5>3
      <4>2. PICK f : f = Head(taskChan[c])
        OBVIOUS
      <4>3. f \in StampedFor(c)
        BY <3>1, <4>1, <4>2
      <4>4. PICK p : p = <<f.from, f.seq>>
        OBVIOUS
      <4>5. p \in ReadBy(c) /\ taskBody'[c] = Append(taskBody[c], p)
        BY <2>1, <4>1, <4>2, <4>3, <4>4, FrameRead
      <4>6. taskBody'[c] \in Seq(ReadBy(c))
        <5>1. taskBody[c] \in Seq(ReadBy(c))
          BY <3>1, <4>1
        <5>2. Append(taskBody[c], p) \in Seq(ReadBy(c))
          BY <4>5, <5>1
        <5> QED
          BY <4>5, <5>2
      <4>7. taskChan'[c] = << >> \/ taskChan'[c] = Tail(taskChan[c])
        BY <2>1, <4>1
      <4>8. taskChan'[c] \in Seq(StampedFor(c))
        BY <3>1, <4>1, <4>3, <4>7, SeqParts
      <4> QED
        BY <1>1, <2>2, <2>4, <2>5, <2>6, <3>1, <4>1, <4>6, <4>8 DEF TaskHolds
    <3> QED
      BY <3>2, <3>3
  <2> QED
    BY <2>3, <2>7, <2>8, <2>9 DEF IdInv
<1> QED
  BY <1>2, <1>3

LEMMA IdStep == ASSUME TypeOK, TypeOK', IdInv, [Next]_vars PROVE IdInv'
<1>1. IdsStay
  BY IdsStayInStep
<1>2. ASSUME NEW c \in Calls, CallStep(c) \/ TaskStep(c) PROVE IdInv'
  BY <1>1, <1>2, CallStepIds, TaskStepIds
<1>3. ASSUME NEW c \in Calls, Cancel(c) /\ UNCHANGED serverVars PROVE IdInv'
  BY <1>1, <1>3, CancelIds
<1>4. CASE ClientWrites \/ ServerWrites
  BY <1>1, <1>4, WritesIds
<1>5. CASE ReceiverStep
  BY <1>1, <1>5, ReceiverStepIds
<1>6. CASE StreamStep
  BY <1>1, <1>6, StreamStepIds
<1>7. CASE Disconnect \/ UNCHANGED vars
  <2>1. /\ UNCHANGED <<pc, id, got, chan, senders, held, outQueue, outChunk>>
        /\ UNCHANGED <<srvSenders, task, taskId, taskChan, taskBody, srvHeld, srvQueue, srvChunk>>
        /\ c2s' \in {c2s, << >>} /\ s2c' \in {s2c, << >>}
    BY <1>7 DEF Disconnect, vars, clientVars, serverVars, callVars, mapVars, taskVars
  <2>2. WiresStamped'
    BY <1>1, <2>1, WiresStay, EmptySeq DEF WiresStamped
  <2>3. MapsLead'
    BY <1>1, <2>1, MapsStay DEF MapsLead
  <2> QED
    BY <1>1, <2>1, <2>2, <2>3, TasksHoldStill, CallsHoldStill DEF IdInv
<1> QED
  BY <1>2, <1>3, <1>4, <1>5, <1>6, <1>7 DEF Next, Progress, Fault

(* However message ids are reused, a frame only gets to readers of its id:  *)
(* what the second close of SubChannel::send or the insert of a refused     *)
(* register take from a waiting call, the two maps lead from an id to       *)
(* somebody who has taken that id, and a call's id never changes.           *)
THEOREM FramesKeepTheirId == Spec => []SameIdOnly
<1>1. TypeOK /\ IdInv => SameIdOnly
  <2> SUFFICES ASSUME IdInv, NEW c \in Calls
               PROVE  /\ \A i \in 1 .. Len(taskBody[c]) : id[taskBody[c][i][1]] = id[c]
                      /\ \A i \in 1 .. Len(got[c]) : id[got[c][i][1]] = id[c]
    BY DEF SameIdOnly
  <2>1. taskBody[c] \in Seq(ReadBy(c)) /\ got[c] \in Seq(ReadBy(c))
    BY DEF IdInv, TaskHolds, CallHolds
  <2>2. ASSUME NEW s \in Seq(ReadBy(c)), NEW i \in 1 .. Len(s) PROVE id[s[i][1]] = id[c]
    <3>1. s[i] \in ReadBy(c)
      OBVIOUS
    <3> QED
      BY <3>1 DEF ReadBy
  <2> QED
    BY <2>1, <2>2
<1>2. TypeOK /\ TypeOK' /\ IdInv /\ [Next]_vars => IdInv'
  BY IdStep
<1> QED
  BY <1>1, <1>2, IdInit, MultiplexTypeCorrect, PTL DEF Spec

----------------------------------------------------------------------------
(* There are more message ids than calls (id 0 was the handshake's).        *)
NoWrap == Cardinality(Calls) + 1 < IdSpace

Started == {c \in Calls : pc[c] # "idle"}

Mapped == {"sending", "receiving", "closing", "closing_again", "cancelled"}

(* The part of TypeOK the argument needs.                                   *)
MapTypeOK ==
    /\ nextId \in Nat
    /\ pc \in [Calls -> PCs]
    /\ id \in [Calls -> Nat]
    /\ senders \in [Ids -> Calls \cup {NoCall}]

(* The counter counts the calls that took an id: it never wrapped around.   *)
CounterInv == nextId = 1 + Cardinality(Started)

(* Ids were handed out below the counter, each of them once.                *)
IdsUnique ==
    /\ \A c \in Started : id[c] < nextId
    /\ \A c, d \in Started : id[c] = id[d] => c = d

(* The inductive invariant: IdsReleased says whom the map leads to,         *)
(* PendingMapped that it leads to everyone who waits.                       *)
MapInv ==
    /\ MapTypeOK
    /\ CounterInv
    /\ IdsUnique
    /\ PendingMapped
    /\ IdsReleased

mapInvVars == <<nextId, pc, id, senders>>

LEMMA MapInvStutter == MapInv /\ UNCHANGED mapInvVars => MapInv'
  BY DEF MapInv, mapInvVars, MapTypeOK, CounterInv, Started, IdsUnique,
     PendingMapped, IdsReleased, Listening

LEMMA MapInvInit == Init => MapInv
<1> SUFFICES ASSUME Init PROVE MapInv
  OBVIOUS
<1> USE DEF Init, ClientInit
<1>1. MapTypeOK
  BY DEF MapTypeOK, PCs
<1>2. Started = {}
  BY DEF Started
<1>3. CounterInv /\ IdsUnique
  BY <1>2, FS_EmptySet DEF CounterInv, IdsUnique
<1>4. PendingMapped /\ IdsReleased
  BY DEF PendingMapped, IdsReleased, Listening
<1> QED
  BY <1>1, <1>3, <1>4 DEF MapInv

(* While some call has not started the counter is below the last id.        *)
LEMMA StartedBound ==
    ASSUME NoWrap, MapInv
    PROVE  /\ IsFiniteSet(Started) /\ Cardinality(Started) \in Nat
           /\ nextId < IdSpace
           /\ \A c \in Calls : pc[c] = "idle" => nextId + 1 < IdSpace
<1>1. IsFiniteSet(Started) /\ Cardinality(Started) <= Cardinality(Calls)
  BY FramesAssumption, FS_Subset DEF Started
<1>2. Cardinality(Started) \in Nat /\ Cardinality(Calls) \in Nat
  BY <1>1, FramesAssumption, FS_CardinalityType
<1>3. nextId = 1 + Cardinality(Started)
  BY DEF MapInv, CounterInv
<1>4. ASSUME NEW c \in Calls, pc[c] = "idle" PROVE Cardinality(Started) + 1 <= Cardinality(Calls)
  <2>1. c \notin Started
    BY <1>4 DEF Started
  <2>2. IsFiniteSet(Started \cup {c}) /\ Cardinality(Started \cup {c}) = Cardinality(Started) + 1
    BY <1>1, <2>1, FS_AddElement
  <2>3. Started \cup {c} \subseteq Calls
    BY DEF Started
  <2> QED
    BY <2>2, <2>3, FramesAssumption, FS_Subset
<1>5. IdSpace \in Nat
  BY FramesAssumption
<1> QED
  BY <1>1, <1>2, <1>3, <1>4, <1>5 DEF NoWrap

LEMMA TakeIdInv == ASSUME NoWrap, MapInv, NEW c \in Calls, TakeId(c) PROVE MapInv'
<1>1. /\ pc[c] = "idle" /\ pc' = [pc EXCEPT ![c] = "registering"]
      /\ id' = [id EXCEPT ![c] = nextId] /\ nextId' = (nextId + 1) % IdSpace
      /\ UNCHANGED senders
  BY DEF TakeId, mapVars
<1>2. /\ nextId \in Nat /\ pc \in [Calls -> PCs] /\ id \in [Calls -> Nat]
      /\ senders \in [Ids -> Calls \cup {NoCall}]
  BY DEF MapInv, MapTypeOK
<1>3. nextId' = nextId + 1
  <2>1. nextId + 1 < IdSpace /\ nextId + 1 \in Nat /\ IdSpace \in Nat
    BY <1>1, <1>2, StartedBound, FramesAssumption
  <2> QED
    BY <1>1, <2>1
<1>4. Started' = Started \cup {c} /\ c \notin Started
  BY <1>1, <1>2 DEF Started
<1>5. CounterInv'
  <2>1. IsFiniteSet(Started) /\ Cardinality(Started) \in Nat
    BY StartedBound
  <2>2. Cardinality(Started \cup {c}) = Cardinality(Started) + 1
    BY <2>1, <1>4, FS_AddElement
  <2>3. nextId = 1 + Cardinality(Started)
    BY DEF MapInv, CounterInv
  <2> QED
    BY <1>3, <1>4, <2>1, <2>2, <2>3 DEF CounterInv
<1>6. MapTypeOK'
  BY <1>1, <1>2, <1>3 DEF MapTypeOK, PCs
<1>7. IdsUnique'
  <2>1. \A x \in Started : id'[x] = id[x] /\ id[x] < nextId /\ id[x] \in Nat
    BY <1>1, <1>2, <1>4 DEF MapInv, IdsUnique, Started
  <2>2. id'[c] = nextId
    BY <1>1, <1>2
  <2>3. \A x \in Started' : id'[x] < nextId'
    BY <1>2, <1>3, <1>4, <2>1, <2>2
  <2>4. \A x, y \in Started' : id'[x] = id'[y] => x = y
    BY <1>2, <1>4, <2>1, <2>2 DEF MapInv, IdsUnique
  <2> QED
    BY <2>3, <2>4 DEF IdsUnique
<1>8. PendingMapped'
  BY <1>1, <1>2 DEF MapInv, PendingMapped, Listening
<1>9. IdsReleased'
  BY <1>1, <1>2 DEF MapInv, IdsReleased
<1> QED
  BY <1>5, <1>6, <1>7, <1>8, <1>9 DEF MapInv

(* An id that is about to be registered is free: Register never overwrites. *)
LEMMA RegisterFree ==
    ASSUME NoWrap, MapInv, NEW c \in Calls, pc[c] = "registering"
    PROVE  id[c] \in Ids /\ senders[id[c]] = NoCall
<1>1. c \in Started /\ id[c] \in Nat /\ id[c] < nextId /\ nextId \in Nat
  BY DEF Started, MapInv, MapTypeOK, IdsUnique
<1>2. id[c] \in Ids
  BY <1>1, StartedBound, FramesAssumption DEF Ids
<1>3. ASSUME senders[id[c]] # NoCall PROVE FALSE
  <2>1. /\ senders[id[c]] \in Calls
        /\ id[senders[id[c]]] = id[c]
        /\ pc[senders[id[c]]] # "registering" /\ pc[senders[id[c]]] # "idle"
    BY <1>2, <1>3 DEF MapInv, MapTypeOK, IdsReleased
  <2>2. senders[id[c]] = c
    BY <1>1, <2>1 DEF MapInv, IdsUnique, Started
  <2> QED
    BY <2>1, <2>2
<1> QED
  BY <1>2, <1>3

LEMMA RegisterInv == ASSUME NoWrap, MapInv, NEW c \in Calls, Register(c) PROVE MapInv'
<1>1. pc[c] = "registering"
  BY DEF Register, AlreadyRegistered
<1>2. id[c] \in Ids /\ senders[id[c]] = NoCall
  BY <1>1, RegisterFree
<1>3. PICK p \in {"sending", "closing_again"} : pc' = [pc EXCEPT ![c] = p]
  BY <1>2 DEF Register, AlreadyRegistered
<1>4. senders' = [senders EXCEPT ![id[c]] = c] /\ UNCHANGED <<nextId, id>>
  BY DEF Register, AlreadyRegistered
<1>5. /\ nextId \in Nat /\ pc \in [Calls -> PCs] /\ id \in [Calls -> Nat]
      /\ senders \in [Ids -> Calls \cup {NoCall}]
  BY DEF MapInv, MapTypeOK
<1>6. Started' = Started /\ c \in Started
  BY <1>1, <1>3, <1>5 DEF Started
<1>7. MapTypeOK'
  BY <1>2, <1>3, <1>4, <1>5 DEF MapTypeOK, PCs
<1>8. CounterInv' /\ IdsUnique'
  BY <1>4, <1>6 DEF MapInv, CounterInv, IdsUnique
<1>9. PendingMapped'
  <2> SUFFICES ASSUME NEW x \in Calls, Listening(x)' PROVE senders'[id[x]] = x
    BY <1>4 DEF PendingMapped
  <2>1. CASE x = c
    BY <2>1, <1>2, <1>4, <1>5
  <2>2. CASE x # c
    <3>1. Listening(x)
      BY <2>2, <1>3, <1>5 DEF Listening
    <3>2. senders[id[x]] = x
      BY <3>1 DEF MapInv, PendingMapped
    <3>3. id[x] # id[c]
      BY <3>2, <1>2, FramesAssumption
    <3> QED
      BY <3>2, <3>3, <1>2, <1>4, <1>5
  <2> QED
    BY <2>1, <2>2
<1>10. IdsReleased'
  <2> SUFFICES ASSUME NEW i \in Ids, senders'[i] # NoCall
               PROVE  id[senders'[i]] = i /\ pc'[senders'[i]] \in Mapped
    BY <1>4 DEF IdsReleased, Mapped
  <2>1. CASE i = id[c]
    BY <2>1, <1>2, <1>3, <1>4, <1>5 DEF Mapped
  <2>2. CASE i # id[c]
    <3>1. senders'[i] = senders[i]
      BY <2>2, <1>2, <1>4, <1>5
    <3>2. id[senders[i]] = i /\ pc[senders[i]] \in Mapped /\ senders[i] \in Calls
      BY <3>1, <1>5 DEF MapInv, IdsReleased, Mapped
    <3>3. senders[i] # c
      BY <3>2, <2>2
    <3> QED
      BY <3>1, <3>2, <3>3, <1>3, <1>5
  <2> QED
    BY <2>1, <2>2
<1> QED
  BY <1>7, <1>8, <1>9, <1>10 DEF MapInv

(* A call moves on without touching the map: it may stop listening, but     *)
(* not start, and an id that is mapped stays accounted for.                 *)
LEMMA PcMove ==
    ASSUME MapInv, NEW c \in Calls, NEW q \in PCs,
           pc' = [pc EXCEPT ![c] = q],
           UNCHANGED <<nextId, id, senders>>,
           pc[c] # "idle", q # "idle",
           pc[c] \in Mapped => q \in Mapped,
           q \in {"sending", "receiving"} => Listening(c)
    PROVE  MapInv'
<1>1. /\ nextId \in Nat /\ pc \in [Calls -> PCs] /\ id \in [Calls -> Nat]
      /\ senders \in [Ids -> Calls \cup {NoCall}]
  BY DEF MapInv, MapTypeOK
<1>2. Started' = Started
  BY <1>1 DEF Started
<1>3. MapTypeOK'
  BY <1>1 DEF MapTypeOK
<1>4. CounterInv' /\ IdsUnique'
  BY <1>2 DEF MapInv, CounterInv, IdsUnique
<1>5. PendingMapped'
  <2>1. \A x \in Calls : Listening(x)' => Listening(x)
    BY <1>1 DEF Listening
  <2> QED
    BY <2>1 DEF MapInv, PendingMapped
<1>6. IdsReleased'
  <2>1. \A x \in Calls : pc[x] \in Mapped => pc'[x] \in Mapped
    BY <1>1
  <2>2. \A i \in Ids : senders[i] # NoCall =>
            senders[i] \in Calls /\ id[senders[i]] = i /\ pc[senders[i]] \in Mapped
    BY <1>1 DEF MapInv, IdsReleased, Mapped
  <2> QED
    BY <2>1, <2>2 DEF IdsReleased, Mapped
<1> QED
  BY <1>3, <1>4, <1>5, <1>6 DEF MapInv

(* The steps of a call between registering and closing.                     *)
LEMMA SendFrameInv == ASSUME MapInv, NEW c \in Calls, SendFrame(c) PROVE MapInv'
<1>1. /\ pc[c] = "sending" /\ UNCHANGED <<nextId, id, senders>>
      /\ pc' = [pc EXCEPT ![c] = IF sent[c] + 1 = ReqLen[c] THEN "receiving" ELSE "sending"]
  BY DEF SendFrame, mapVars
<1>2. PICK q \in {"sending", "receiving"} : pc' = [pc EXCEPT ![c] = q]
  BY <1>1
<1> QED
  BY <1>1, <1>2, PcMove DEF PCs, Mapped, Listening

LEMMA ReceiveInv ==
    ASSUME MapInv, NEW c \in Calls, ReceiveFrame(c) \/ ReceiveNone(c) PROVE MapInv'
<1>1. pc[c] = "receiving" /\ UNCHANGED <<nextId, id, senders>>
  BY DEF ReceiveFrame, ReceiveNone
<1>2. pc' = [pc EXCEPT ![c] = "closing"] \/ UNCHANGED pc
  BY DEF ReceiveFrame, ReceiveNone, StopReading
<1>3. CASE pc' = [pc EXCEPT ![c] = "closing"]
  BY <1>1, <1>3, PcMove DEF PCs, Mapped
<1>4. CASE UNCHANGED pc
  BY <1>1, <1>4, MapInvStutter DEF mapInvVars
<1> QED
  BY <1>2, <1>3, <1>4

LEMMA CancelInv == ASSUME MapInv, NEW c \in Calls, Cancel(c) PROVE MapInv'
<1>1. /\ pc[c] # "idle" /\ UNCHANGED <<nextId, id, senders>>
      /\ pc' = [pc EXCEPT ![c] = "cancelled"]
  BY DEF Cancel
<1> QED
  BY <1>1, PcMove DEF PCs, Mapped

(* Closing twice is harmless: the id is the call's own or free.             *)
LEMMA CloseInv == ASSUME NoWrap, MapInv, NEW c \in Calls, Close(c) PROVE MapInv'
<1>1. /\ pc[c] \in {"closing", "closing_again"} /\ UNCHANGED <<nextId, id>>
      /\ senders' = [senders EXCEPT ![id[c]] = NoCall]
  BY DEF Close
<1>2. PICK q \in {"closing_again", "done"} : pc' = [pc EXCEPT ![c] = q]
  BY DEF Close
<1>3. /\ nextId \in Nat /\ pc \in [Calls -> PCs] /\ id \in [Calls -> Nat]
      /\ senders \in [Ids -> Calls \cup {NoCall}]
  BY DEF MapInv, MapTypeOK
<1>4. Started' = Started /\ c \in Started
  BY <1>1, <1>2, <1>3 DEF Started
<1>5. id[c] \in Ids
  BY <1>3, <1>4, StartedBound, FramesAssumption DEF MapInv, IdsUnique, Ids
<1>6. MapTypeOK'
  BY <1>1, <1>2, <1>3 DEF MapTypeOK, PCs
<1>7. CounterInv' /\ IdsUnique'
  BY <1>1, <1>4 DEF MapInv, CounterInv, IdsUnique
<1>8. PendingMapped'
  <2> SUFFICES ASSUME NEW x \in Calls, Listening(x)' PROVE senders'[id[x]] = x
    BY <1>1 DEF PendingMapped
  <2>1. x # c /\ Listening(x)
    BY <1>1, <1>2, <1>3 DEF Listening
  <2>2. id[x] # id[c]
    BY <2>1, <1>4 DEF MapInv, IdsUnique, Started, Listening
  <2>3. senders[id[x]] = x
    BY <2>1 DEF MapInv, PendingMapped
  <2> QED
    BY <2>2, <2>3, <1>1, <1>3, <1>5
<1>9. IdsReleased'
  <2> SUFFICES ASSUME NEW i \in Ids, senders'[i] # NoCall
               PROVE  id[senders'[i]] = i /\ pc'[senders'[i]] \in Mapped
    BY <1>1 DEF IdsReleased, Mapped
  <2>1. i # id[c] /\ senders'[i] = senders[i]
    BY <1>1, <1>3, <1>5
  <2>2. senders[i] \in Calls /\ id[senders[i]] = i /\ pc[senders[i]] \in Mapped
    BY <2>1, <1>3 DEF MapInv, IdsReleased, Mapped
  <2>3. senders[i] # c
    BY <2>1, <2>2, SMTT(30)
  <2> QED
    BY <2>1, <2>2, <2>3, <1>2, <1>3
<1> QED
  BY <1>6, <1>7, <1>8, <1>9 DEF MapInv

(* Everything else, on both sides of the connection, leaves the map and the *)
(* progress of the calls alone.                                             *)
LEMMA OtherSteps ==
    ASSUME ClientWrites \/ ServerWrites \/ ReceiverStep \/ StreamStep \/ Disconnect
           \/ (\E c \in Calls : TaskStep(c))
    PROVE  UNCHANGED mapInvVars
  BY DEF ClientWrites, ServerWrites, ReceiverStep, StreamStep, Disconnect, TaskStep,
     DispatchFollowing, DispatchResume, clientVars, callVars, mapVars, mapInvVars

(* The map of pending ids is exact: every step of every call keeps it so.   *)
THEOREM MapInvariant == ASSUME NoWrap PROVE Spec => []MapInv
<1>1. Init => MapInv
  BY MapInvInit
<1>2. MapInv /\ [Next]_vars => MapInv'
  <2> SUFFICES ASSUME MapInv, [Next]_vars PROVE MapInv'
    OBVIOUS
  <2>1. CASE UNCHANGED vars
    BY <2>1, MapInvStutter DEF vars, clientVars, callVars, mapVars, mapInvVars
  <2>2. ASSUME NEW c \in Calls, CallStep(c) PROVE MapInv'
    BY <2>2, TakeIdInv, RegisterInv, SendFrameInv, ReceiveInv, CloseInv DEF CallStep
  <2>3. ASSUME NEW c \in Calls, Cancel(c) PROVE MapInv'
    BY <2>3, CancelInv
  <2>4. CASE ClientWrites \/ ServerWrites \/ ReceiverStep \/ StreamStep \/ Disconnect
             \/ (\E c \in Calls : TaskStep(c))
    BY <2>4, OtherSteps, MapInvStutter
  <2> QED
    BY <2>1, <2>2, <2>3, <2>4 DEF Next, Progress, Fault
<1> QED
  BY <1>1, <1>2, PTL DEF Spec

(* While a call waits its id leads to it, for any number of calls and       *)
(* whatever the peer, the handlers, cancellations and the network do.       *)
THEOREM PendingCallsStayMapped == ASSUME NoWrap PROVE Spec => []PendingMapped
  BY MapInvariant, PTL DEF MapInv

(* An id that is in the map belongs to a call that is under way or was      *)
(* cancelled: every path through send releases the id it took.              *)
THEOREM FinishedCallsAreReleased == ASSUME NoWrap PROVE Spec => []IdsReleased
  BY MapInvariant, PTL DEF MapInv
=============================================================================
