----------------------------- MODULE Connection -----------------------------
(***************************************************************************)
(* The client side of one pooled connection: the calls of SubChannel::send  *)
(* that share it, the map of pending message ids (FramesDispatcher), the    *)
(* FrameSender task that writes and the FrameReceiver task that dispatches. *)
(*                                                                         *)
(* Steps are what runs between two awaits.  The RwLock of the map is        *)
(* modelled by held: FrameReceiver keeps its read lock while it waits for   *)
(* room in a call's channel, and no call can take the write lock then.      *)
(***************************************************************************)
EXTENDS Frames

CONSTANTS
    Unsendable,   \* calls whose request create_frames refuses
    Cancellable   \* calls whose future may be dropped by its owner

ASSUME ConnectionAssumption == Unsendable \subseteq Calls /\ Cancellable \subseteq Calls

VARIABLES
    nextId,    \* Connection::next_message_id
    pc,        \* where each call is in SubChannel::send
    id,        \* its message id
    sent,      \* how many frames of its request it has sent
    got,       \* what its ResponseDefragmenter has read, as <<call, seq>> pairs
    result,    \* what send returned, or will return after closing
    senders,   \* FramesDispatcher::senders: the call whose Sender an id maps to
    chan,      \* the channel of frames dispatched to each call (frames_in)
    held,      \* the frame FrameReceiver is waiting to hand over, or << >>
    outQueue,  \* Connection::sender, the channel to FrameSender
    outChunk   \* the frames FrameSender has taken from it

callVars == <<pc, id, sent, got, result>>
mapVars == <<senders, chan, held>>
clientVars == <<nextId, callVars, mapVars, outQueue, outChunk>>

Results == {"none", "ok", "message_error", "internal_error", "rejected"}

PCs == {"idle", "registering", "sending", "receiving", "closing", "closing_again",
        "done", "cancelled"}

ClientTypeOK ==
    /\ nextId \in Ids
    /\ pc \in [Calls -> PCs]
    /\ id \in [Calls -> Ids]
    /\ sent \in [Calls -> Nat]
    /\ got \in [Calls -> Seq(Calls \X Nat)]
    /\ result \in [Calls -> Results]
    /\ senders \in [Ids -> Calls \cup {NoCall}]
    /\ chan \in [Calls -> Seq(Frame)]
    /\ held \in Seq(Frame)
    /\ outQueue \in Seq(Frame)
    /\ outChunk \in Seq(Frame)

(* The handshake of ConnectionManager::connect has used message id 0.       *)
ClientInit ==
    /\ nextId = 1
    /\ pc = [c \in Calls |-> "idle"]
    /\ id = [c \in Calls |-> 0]
    /\ sent = [c \in Calls |-> 0]
    /\ got = [c \in Calls |-> << >>]
    /\ result = [c \in Calls |-> "none"]
    /\ senders = [i \in Ids |-> NoCall]
    /\ chan = [c \in Calls |-> << >>]
    /\ held = << >>
    /\ outQueue = << >>
    /\ outChunk = << >>

(* frames_in of the call exists: frames can be sent to its channel.         *)
Listening(c) == pc[c] \in {"sending", "receiving"}

(* No read lock is held across an await, a writer can take the lock.        *)
Unlocked == held = << >>

(* Seeded fault: the counter is read but not advanced.                      *)
TakeSameId(c) ==
    /\ pc[c] = "idle"
    /\ id' = [id EXCEPT ![c] = nextId]
    /\ pc' = [pc EXCEPT ![c] = "registering"]
    /\ UNCHANGED <<nextId, sent, got, result, mapVars, outQueue, outChunk, c2s, s2c, link>>

(* Seeded fault: the counter does not wrap around.                          *)
TakeIdUnbounded(c) ==
    /\ pc[c] = "idle"
    /\ id' = [id EXCEPT ![c] = nextId]
    /\ nextId' = nextId + 1
    /\ pc' = [pc EXCEPT ![c] = "registering"]
    /\ UNCHANGED <<sent, got, result, mapVars, outQueue, outChunk, c2s, s2c, link>>

(* Connection::next_message_id, an atomic fetch_add that wraps around.      *)
TakeId(c) ==
    /\ pc[c] = "idle"
    /\ id' = [id EXCEPT ![c] = nextId]
    /\ nextId' = (nextId + 1) % IdSpace
    /\ pc' = [pc EXCEPT ![c] = "registering"]
    /\ UNCHANGED <<sent, got, result, mapVars, outQueue, outChunk, c2s, s2c, link>>

(* channels.insert found a Sender under the id of the call.                 *)
AlreadyRegistered(c) == senders[id[c]] # NoCall

(* Seeded fault: the Sender is inserted under the next id.                  *)
RegisterNextId(c) ==
    /\ pc[c] = "registering"
    /\ Unlocked
    /\ senders' = [senders EXCEPT ![nextId] = c]
    /\ pc' = [pc EXCEPT ![c] = "sending"]
    /\ UNCHANGED <<nextId, id, sent, got, result, chan, held, outQueue, outChunk, c2s, s2c, link>>

(* FramesDispatcher::register: the Sender is inserted first, then the call  *)
(* is refused if the id was taken.  A refused call never closes.  An        *)
(* accepted one goes on to create_frames, whose failure skips to the outer  *)
(* close of SubChannel::send.                                               *)
Register(c) ==
    /\ pc[c] = "registering"
    /\ Unlocked
    /\ senders' = [senders EXCEPT ![id[c]] = c]
    /\ \/ /\ AlreadyRegistered(c)
          /\ pc' = [pc EXCEPT ![c] = "done"]
          /\ result' = [result EXCEPT ![c] = "rejected"]
       \/ /\ ~AlreadyRegistered(c)
          /\ c \in Unsendable
          /\ pc' = [pc EXCEPT ![c] = "closing_again"]
          /\ result' = [result EXCEPT ![c] = "internal_error"]
       \/ /\ ~AlreadyRegistered(c)
          /\ c \notin Unsendable
          /\ pc' = [pc EXCEPT ![c] = "sending"]
          /\ UNCHANGED result
    /\ UNCHANGED <<nextId, id, sent, got, chan, held, outQueue, outChunk, c2s, s2c, link>>

(* One frame of send_frames, which waits while the channel is full.         *)
SendFrame(c) ==
    /\ pc[c] = "sending"
    /\ Len(outQueue) < BufferSize
    /\ outQueue' = Append(outQueue, RequestFrame(c, id[c], sent[c] + 1))
    /\ sent' = [sent EXCEPT ![c] = @ + 1]
    /\ pc' = [pc EXCEPT ![c] = IF sent[c] + 1 = ReqLen[c] THEN "receiving" ELSE "sending"]
    /\ UNCHANGED <<nextId, id, got, result, mapVars, outChunk, c2s, s2c, link>>

(* The call stops reading: frames_in is dropped, close comes next.          *)
StopReading(c, r) ==
    /\ pc' = [pc EXCEPT ![c] = "closing"]
    /\ result' = [result EXCEPT ![c] = r]
    /\ chan' = [chan EXCEPT ![c] = << >>]

(* ArgSchemeChecker::check: the scheme is in the fields, which only the     *)
(* first frame of a response has.                                           *)
SchemeRefused(body, f) == body = << >> /\ f.reply = "WrongScheme"

(* What send makes of a response, by its code.  The code is in the fields   *)
(* too; convert gives every response the same, so that any frame will do.   *)
ResultOf(code) == IF code = "Ok" THEN "ok" ELSE "message_error"

(* recv() of read_beginning or read_continuation returns a frame.           *)
ReceiveFrame(c) ==
    /\ pc[c] = "receiving"
    /\ chan[c] # << >>
    /\ LET f == Head(chan[c])
       IN  \/ /\ ~Readable(got[c], f, "CallResponse") \/ SchemeRefused(got[c], f)
              /\ StopReading(c, "internal_error")
              /\ UNCHANGED got
           \/ /\ Readable(got[c], f, "CallResponse") /\ ~SchemeRefused(got[c], f)
              /\ got' = [got EXCEPT ![c] = Append(@, <<f.from, f.seq>>)]
              /\ \/ IsLast(f) /\ StopReading(c, ResultOf(convert[f.reply]))
                 \/ /\ ~IsLast(f)
                    /\ chan' = [chan EXCEPT ![c] = Tail(@)]
                    /\ UNCHANGED <<pc, result>>
    /\ UNCHANGED <<nextId, id, sent, senders, held, outQueue, outChunk, c2s, s2c, link>>

(* recv() returns None because the call's Sender was dropped from the map.  *)
(* In the middle of a response this ends the loop of read_continuation and  *)
(* what was read so far is the response.                                    *)
ReceiveNone(c) ==
    /\ pc[c] = "receiving"
    /\ chan[c] = << >>
    /\ senders[id[c]] # c
    /\ StopReading(c, IF got[c] = << >> THEN "internal_error" ELSE "ok")
    /\ UNCHANGED <<nextId, id, sent, got, senders, held, outQueue, outChunk, c2s, s2c, link>>

(* Seeded fault: the error paths do not deregister.                         *)
CloseOnlyOnSuccess(c) ==
    /\ pc[c] \in {"closing", "closing_again"}
    /\ Unlocked
    /\ senders' = IF result[c] = "ok" THEN [senders EXCEPT ![id[c]] = NoCall] ELSE senders
    /\ pc' = [pc EXCEPT ![c] = IF pc[c] = "closing" THEN "closing_again" ELSE "done"]
    /\ UNCHANGED <<nextId, id, sent, got, result, chan, held, outQueue, outChunk, c2s, s2c, link>>

(* FrameOutput::close, called by send_internal and then once more by send.  *)
Close(c) ==
    /\ pc[c] \in {"closing", "closing_again"}
    /\ Unlocked
    /\ senders' = [senders EXCEPT ![id[c]] = NoCall]
    /\ pc' = [pc EXCEPT ![c] = IF pc[c] = "closing" THEN "closing_again" ELSE "done"]
    /\ UNCHANGED <<nextId, id, sent, got, result, chan, held, outQueue, outChunk, c2s, s2c, link>>

(* The owner of the call drops its future (a timeout, a select): frames_in  *)
(* goes, but nothing closes frames_out, whose message id stays registered.  *)
Cancel(c) ==
    /\ c \in Cancellable
    /\ pc[c] \notin {"idle", "done", "cancelled"}
    /\ pc' = [pc EXCEPT ![c] = "cancelled"]
    /\ chan' = [chan EXCEPT ![c] = << >>]
    /\ UNCHANGED <<nextId, id, sent, got, result, senders, held, outQueue, outChunk, c2s, s2c, link>>

(* Seeded fault: a frame is dropped when the channel is full (try_send).    *)
DispatchOrDrop ==
    /\ s2c # << >>
    /\ Unlocked
    /\ s2c' = Tail(s2c)
    /\ LET f == Head(s2c)
           c == senders[f.id]
       IN  chan' = IF c # NoCall /\ Listening(c) /\ Len(chan[c]) < BufferSize
                   THEN [chan EXCEPT ![c] = Append(@, f)] ELSE chan
    /\ UNCHANGED <<nextId, callVars, senders, held, outQueue, outChunk, c2s, link>>

(* Seeded fault: a frame that is handed over stays on the stream.           *)
DispatchAndKeep ==
    /\ s2c # << >>
    /\ Unlocked
    /\ LET f == Head(s2c)
           c == senders[f.id]
       IN  /\ c # NoCall /\ Listening(c)
           /\ Len(chan[c]) < BufferSize
           /\ chan' = [chan EXCEPT ![c] = Append(@, f)]
    /\ UNCHANGED <<nextId, callVars, senders, held, outQueue, outChunk, c2s, s2c, link>>

(* FrameReceiver takes a frame off the stream and FramesDispatcher::        *)
(* dispatch_following looks its id up: an unknown id, or a channel nobody   *)
(* reads any more, is logged and the frame is gone.                         *)
DispatchFollowing ==
    /\ s2c # << >>
    /\ Unlocked
    /\ s2c' = Tail(s2c)
    /\ LET f == Head(s2c)
           c == senders[f.id]
       IN  \/ /\ c = NoCall \/ (c # NoCall /\ ~Listening(c))
              /\ UNCHANGED <<chan, held>>
           \/ /\ c # NoCall /\ Listening(c)
              /\ Len(chan[c]) < BufferSize
              /\ chan' = [chan EXCEPT ![c] = Append(@, f)]
              /\ UNCHANGED held
           \/ /\ c # NoCall /\ Listening(c)
              /\ Len(chan[c]) >= BufferSize
              /\ held' = <<f>>
              /\ UNCHANGED chan
    /\ UNCHANGED <<nextId, callVars, senders, outQueue, outChunk, c2s, link>>

(* The send that was waiting for room gets it, or fails because the         *)
(* receiver is gone.  The read lock is released.                            *)
DispatchResume ==
    /\ held # << >>
    /\ LET f == Head(held)
           c == senders[f.id]
       IN  \/ /\ Listening(c) /\ Len(chan[c]) < BufferSize
              /\ chan' = [chan EXCEPT ![c] = Append(@, f)]
           \/ /\ ~Listening(c)
              /\ UNCHANGED chan
    /\ held' = << >>
    /\ UNCHANGED <<nextId, callVars, senders, outQueue, outChunk, c2s, s2c, link>>

Writer == INSTANCE FrameSender WITH queue <- outQueue, chunk <- outChunk, wire <- c2s
=============================================================================
