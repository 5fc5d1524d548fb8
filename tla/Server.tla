------------------------------- MODULE Server -------------------------------
(***************************************************************************)
(* The server side of one connection after the handshake: the dispatching   *)
(* loop of Server::handle_connection, the FrameHandler tasks it runs at     *)
(* most ServerTasks of at a time (try_for_each_concurrent), the handlers    *)
(* behind their mutexes, and the FrameSender task that writes.              *)
(*                                                                         *)
(* A task is named by the call whose frame created it.                      *)
(***************************************************************************)
EXTENDS Frames

CONSTANTS
    ServerTasks,  \* Config::server_tasks; 0 means no limit
    EndpointOf,   \* the endpoint a call names in arg1
    Endpoints,    \* the endpoints with a registered handler
    Outcomes      \* what the handlers may return, a subset of Replies

ASSUME ServerAssumption ==
    /\ ServerTasks \in Nat
    /\ DOMAIN EndpointOf = Calls
    /\ Outcomes \subseteq Replies

VARIABLES
    stream,      \* "open", "ended" by the peer, or "failed": handle_connection
                 \* has returned an error and everything in it is dropped
    srvSenders,  \* Server::frame_dispatchers: the task an id's Sender leads to
    task,        \* where each FrameHandler::handle is
    taskId,      \* its message id
    taskChan,    \* its frame_input
    taskBody,    \* what its RequestDefragmenter has read, as <<call, seq>> pairs
    runs,        \* how often the handler has been run for the task
    reply,       \* what the handler returned
    taskSent,    \* how many frames of the response are sent
    srvHeld,     \* the frame dispatch is waiting to hand over, or << >>
    srvQueue,    \* FrameHandler::sender, the channel to FrameSender
    srvChunk     \* the frames FrameSender has taken from it

taskVars == <<task, taskId, taskChan, taskBody, runs, reply, taskSent>>
serverVars == <<stream, srvSenders, taskVars, srvHeld, srvQueue, srvChunk>>

TaskStates == {"none", "reading", "deregistering", "routing", "locking",
               "handling", "responding", "done", "dropped"}

ServerTypeOK ==
    /\ stream \in {"open", "ended", "failed"}
    /\ srvSenders \in [Ids -> Calls \cup {NoCall}]
    /\ task \in [Calls -> TaskStates]
    /\ taskId \in [Calls -> Ids]
    /\ taskChan \in [Calls -> Seq(Frame)]
    /\ taskBody \in [Calls -> Seq(Calls \X Nat)]
    /\ runs \in [Calls -> Nat]
    /\ reply \in [Calls -> Replies \cup {NoReply}]
    /\ taskSent \in [Calls -> Nat]
    /\ srvHeld \in Seq(Frame)
    /\ srvQueue \in Seq(Frame)
    /\ srvChunk \in Seq(Frame)

ServerInit ==
    /\ stream = "open"
    /\ srvSenders = [i \in Ids |-> NoCall]
    /\ task = [c \in Calls |-> "none"]
    /\ taskId = [c \in Calls |-> 0]
    /\ taskChan = [c \in Calls |-> << >>]
    /\ taskBody = [c \in Calls |-> << >>]
    /\ runs = [c \in Calls |-> 0]
    /\ reply = [c \in Calls |-> NoReply]
    /\ taskSent = [c \in Calls |-> 0]
    /\ srvHeld = << >>
    /\ srvQueue = << >>
    /\ srvChunk = << >>

(* The futures try_for_each_concurrent holds.                               *)
Active == {c \in Calls : task[c] \notin {"none", "done", "dropped"}}

(* try_for_each_concurrent polls the stream, and with it a dispatch that is *)
(* waiting, only while it holds fewer futures than its limit.               *)
StreamPolled ==
    /\ stream # "failed"
    /\ ServerTasks = 0 \/ Cardinality(Active) < ServerTasks

(* An error of one task, or of dispatch, is the result of the whole         *)
(* handle_connection: its tasks, its map and the read half of the socket    *)
(* are dropped; FrameSender still writes what is in its channel.            *)
FailConnection ==
    /\ stream' = "failed"
    /\ task' = [c \in Calls |-> IF c \in Active THEN "dropped" ELSE task[c]]
    /\ taskChan' = [c \in Calls |-> << >>]
    /\ srvSenders' = [i \in Ids |-> NoCall]
    /\ srvHeld' = << >>
    /\ c2s' = << >>
    /\ UNCHANGED <<taskId, taskBody, runs, reply, taskSent, srvQueue, srvChunk, s2c, link>>

(* FramesDispatcher::dispatch of the next frame of the stream.  An unknown  *)
(* id creates a channel and a task (dispatch_first); a frame for a task     *)
(* that has dropped its frame_input is an error.  So is the end of a task   *)
(* created for a later frame of a call that has had its task, which only    *)
(* the reuse of ids can bring about: read_beginning refuses the frame in    *)
(* the poll that creates the task.                                          *)
Dispatch ==
    /\ stream = "open"
    /\ StreamPolled
    /\ srvHeld = << >>
    /\ c2s # << >>
    /\ LET f == Head(c2s)
           t == srvSenders[f.id]
       IN  \/ /\ t = NoCall /\ task[f.from] = "none"
              /\ srvSenders' = [srvSenders EXCEPT ![f.id] = f.from]
              /\ task' = [task EXCEPT ![f.from] = "reading"]
              /\ taskId' = [taskId EXCEPT ![f.from] = f.id]
              /\ taskChan' = [taskChan EXCEPT ![f.from] = <<f>>]
              /\ c2s' = Tail(c2s)
              /\ UNCHANGED <<stream, taskBody, runs, reply, taskSent, srvHeld,
                             srvQueue, srvChunk, s2c, link>>
           \/ /\ t # NoCall /\ task[t] = "reading"
              /\ Len(taskChan[t]) < BufferSize
              /\ taskChan' = [taskChan EXCEPT ![t] = Append(@, f)]
              /\ c2s' = Tail(c2s)
              /\ UNCHANGED <<stream, srvSenders, task, taskId, taskBody, runs, reply,
                             taskSent, srvHeld, srvQueue, srvChunk, s2c, link>>
           \/ /\ t # NoCall /\ task[t] = "reading"
              /\ Len(taskChan[t]) >= BufferSize
              /\ srvHeld' = <<f>>
              /\ c2s' = Tail(c2s)
              /\ UNCHANGED <<stream, srvSenders, taskVars, srvQueue, srvChunk, s2c, link>>
           \/ /\ IF t = NoCall THEN task[f.from] # "none" ELSE task[t] # "reading"
              /\ FailConnection

(* The waiting dispatch finds room, or the task's frame_input gone.         *)
SrvDispatchResume ==
    /\ StreamPolled
    /\ srvHeld # << >>
    /\ LET f == Head(srvHeld)
           t == srvSenders[f.id]
       IN  \/ /\ task[t] = "reading"
              /\ Len(taskChan[t]) < BufferSize
              /\ taskChan' = [taskChan EXCEPT ![t] = Append(@, f)]
              /\ srvHeld' = << >>
              /\ UNCHANGED <<stream, srvSenders, task, taskId, taskBody, runs, reply,
                             taskSent, srvQueue, srvChunk, c2s, s2c, link>>
           \/ /\ task[t] # "reading"
              /\ FailConnection

(* The connection broke: after a clean end of the stream                    *)
(* try_for_each_concurrent goes on with the futures it holds, an I/O error  *)
(* of the stream is an error of handle_connection.                          *)
StreamEnds ==
    /\ stream = "open"
    /\ StreamPolled
    /\ srvHeld = << >>
    /\ link = "down"
    /\ \/ /\ stream' = "ended"
          /\ UNCHANGED <<srvSenders, taskVars, srvHeld, srvQueue, srvChunk, c2s, s2c, link>>
       \/ FailConnection

(* RequestDefragmenter::read_request gets a frame; a wrong type is an error.*)
ReadRequest(c) ==
    /\ task[c] = "reading"
    /\ taskChan[c] # << >>
    /\ LET f == Head(taskChan[c])
       IN  \/ /\ ~Readable(taskBody[c], f, "CallRequest")
              /\ FailConnection
           \/ /\ Readable(taskBody[c], f, "CallRequest")
              /\ taskBody' = [taskBody EXCEPT ![c] = Append(@, <<f.from, f.seq>>)]
              /\ \/ /\ IsLast(f)
                    /\ task' = [task EXCEPT ![c] = "deregistering"]
                    /\ taskChan' = [taskChan EXCEPT ![c] = << >>]
                 \/ /\ ~IsLast(f)
                    /\ taskChan' = [taskChan EXCEPT ![c] = Tail(@)]
                    /\ UNCHANGED task
              /\ UNCHANGED <<stream, srvSenders, taskId, runs, reply, taskSent, srvHeld,
                             srvQueue, srvChunk, c2s, s2c, link>>

(* Seeded fault: the Sender stays in the map.                               *)
DeregisterForgotten(c) ==
    /\ task[c] = "deregistering"
    /\ task' = [task EXCEPT ![c] = "routing"]
    /\ UNCHANGED <<stream, srvSenders, taskId, taskChan, taskBody, runs, reply, taskSent,
                   srvHeld, srvQueue, srvChunk, c2s, s2c, link>>

(* frame_dispatchers.deregister(&id), under the write lock.                 *)
Deregister(c) ==
    /\ task[c] = "deregistering"
    /\ srvHeld = << >>
    /\ srvSenders' = [srvSenders EXCEPT ![taskId[c]] = NoCall]
    /\ task' = [task EXCEPT ![c] = "routing"]
    /\ UNCHANGED <<stream, taskId, taskChan, taskBody, runs, reply, taskSent, srvHeld,
                   srvQueue, srvChunk, c2s, s2c, link>>

(* get_subchannel, read_endpoint_name and get_handler: a request for which  *)
(* there is no handler is an error of the connection.                       *)
Route(c) ==
    /\ task[c] = "routing"
    /\ \/ /\ EndpointOf[c] \in Endpoints
          /\ task' = [task EXCEPT ![c] = "locking"]
          /\ UNCHANGED <<stream, srvSenders, taskId, taskChan, taskBody, runs, reply, taskSent,
                         srvHeld, srvQueue, srvChunk, c2s, s2c, link>>
       \/ /\ EndpointOf[c] \notin Endpoints
          /\ FailConnection

(* SubChannel::handle takes the handler's mutex and runs it.                *)
LockHandler(c) ==
    /\ task[c] = "locking"
    /\ \A d \in Calls : task[d] = "handling" => EndpointOf[d] # EndpointOf[c]
    /\ task' = [task EXCEPT ![c] = "handling"]
    /\ runs' = [runs EXCEPT ![c] = @ + 1]
    /\ UNCHANGED <<stream, srvSenders, taskId, taskChan, taskBody, reply, taskSent, srvHeld,
                   srvQueue, srvChunk, c2s, s2c, link>>

(* Seeded fault: a handler that returns MessageError is run once more.      *)
HandlerRetried(c) ==
    /\ task[c] = "handling"
    /\ \E r \in Outcomes \ {"GeneralError"} :
         /\ reply' = [reply EXCEPT ![c] = r]
         /\ task' = [task EXCEPT ![c] = IF r = "MessageError" THEN "locking" ELSE "responding"]
    /\ UNCHANGED <<stream, srvSenders, taskId, taskChan, taskBody, runs, taskSent,
                   srvHeld, srvQueue, srvChunk, c2s, s2c, link>>

(* The handler returns and convert makes the response: MessageError becomes *)
(* a response with ResponseCode::Ok, GeneralError an error of the           *)
(* connection.  A response that cannot be fragmented is replaced by an      *)
(* error frame.                                                             *)
HandlerReturns(c) ==
    /\ task[c] = "handling"
    /\ \E r \in Outcomes :
         \/ /\ r = "GeneralError"
            /\ FailConnection
         \/ /\ r # "GeneralError"
            /\ reply' = [reply EXCEPT ![c] = r]
            /\ task' = [task EXCEPT ![c] = "responding"]
            /\ UNCHANGED <<stream, srvSenders, taskId, taskChan, taskBody, runs, taskSent,
                           srvHeld, srvQueue, srvChunk, c2s, s2c, link>>

ResponseLen(c) == IF reply[c] = "Unfragmentable" THEN 1 ELSE ResLen[c]

(* FrameHandler::send_frames, one frame; the task ends with the last.       *)
SendResponse(c) ==
    /\ task[c] = "responding"
    /\ Len(srvQueue) < BufferSize
    /\ srvQueue' = Append(srvQueue, ResponseFrame(c, taskId[c], taskSent[c] + 1, reply[c]))
    /\ taskSent' = [taskSent EXCEPT ![c] = @ + 1]
    /\ task' = [task EXCEPT ![c] = IF taskSent[c] + 1 = ResponseLen(c) THEN "done"
                                   ELSE "responding"]
    /\ UNCHANGED <<stream, srvSenders, taskId, taskChan, taskBody, runs, reply, srvHeld,
                   srvChunk, c2s, s2c, link>>

SrvWriter == INSTANCE FrameSender WITH queue <- srvQueue, chunk <- srvChunk, wire <- s2c
=============================================================================
