------------------------------- MODULE Frames -------------------------------
(***************************************************************************)
(* The frames of a connection and the two directions of its TCP stream,     *)
(* shared by the client side (Connection) and the server side (Server).     *)
(*                                                                         *)
(* A frame keeps its message id, its type and whether MORE_FRAGMENTS_FOLLOW *)
(* is missing (last).  The payload is abstracted to where it comes from:    *)
(* the call (from) and the position in the call's request or response       *)
(* (seq), which lets the properties tell one call's bytes from another's.   *)
(* What the handler answered (reply) stands for the response code, the      *)
(* argument scheme and the arguments of a response.                         *)
(***************************************************************************)
EXTENDS Integers, Sequences, FiniteSets

CONSTANTS
    Calls,         \* invocations of SubChannel::send that share the connection
    NoCall,        \* not a call
    IdSpace,       \* number of message ids, 2^32 in the code (AtomicU32)
    BufferSize,    \* Config::frame_buffer_size, capacity of every channel
    WireCapacity,  \* frames the TCP buffers of one direction hold
    ReqLen,        \* number of frames of each call's request
    ResLen         \* number of frames of each call's response

(* mpsc::channel panics on capacity 0; a message has at least one frame.    *)
ASSUME FramesAssumption ==
    /\ NoCall \notin Calls
    /\ IsFiniteSet(Calls)
    /\ IdSpace \in Nat /\ IdSpace > 1
    /\ BufferSize \in Nat /\ BufferSize > 0
    /\ WireCapacity \in Nat /\ WireCapacity > 0
    /\ ReqLen \in [Calls -> Nat] /\ ResLen \in [Calls -> Nat]
    /\ \A c \in Calls : ReqLen[c] > 0 /\ ResLen[c] > 0

Ids == 0 .. IdSpace - 1

(* What a handler can answer, see Server.                                   *)
Replies == {"Ok", "MessageError", "WrongScheme", "Unfragmentable", "GeneralError"}
NoReply == "NoReply"

(* The response code convert in handler.rs gives each answer that becomes a *)
(* response: a message error is sent as ResponseCode::Ok too.               *)
convert == [Ok |-> "Ok", MessageError |-> "Ok", WrongScheme |-> "Ok"]

FrameTypes == {"CallRequest", "CallRequestContinue",
               "CallResponse", "CallResponseContinue", "Error"}

Frame == [id : Ids, type : FrameTypes, from : Calls, seq : Nat,
          last : {"yes", "no"}, reply : Replies \cup {NoReply}]

Last(k, n) == IF k = n THEN "yes" ELSE "no"

(* RequestFragmenter: the k-th frame of the request of call c.              *)
RequestFrame(c, i, k) ==
    [id |-> i, type |-> IF k = 1 THEN "CallRequest" ELSE "CallRequestContinue",
     from |-> c, seq |-> k, last |-> Last(k, ReqLen[c]), reply |-> NoReply]

(* ResponseFragmenter: the k-th frame of the response to call c, or the     *)
(* error frame sent instead of a response that cannot be fragmented.        *)
ResponseFrame(c, i, k, r) ==
    IF r = "Unfragmentable"
    THEN [id |-> i, type |-> "Error", from |-> c, seq |-> 1, last |-> "yes", reply |-> r]
    ELSE [id |-> i, type |-> IF k = 1 THEN "CallResponse" ELSE "CallResponseContinue",
          from |-> c, seq |-> k, last |-> Last(k, ResLen[c]), reply |-> r]

(* The frames of a whole message of call c.                                 *)
Whole(c, n) == [k \in 1 .. n |-> <<c, k>>]

(* Seeded fault: every frame is taken for the last.                         *)
FirstIsLast(f) == TRUE

(* MORE_FRAGMENTS_FOLLOW is not set: the message ends with frame f.         *)
IsLast(f) == f.last = "yes"

(* Defragmenter::read_and_check, up to the argument scheme: a first frame   *)
(* must have the expected type, any other the type of a continuation.       *)
Readable(body, f, first) ==
    IF body = << >> THEN f.type = first
    ELSE f.type \in {"CallRequestContinue", "CallResponseContinue"}

VARIABLES
    c2s,  \* frames on their way from client to server
    s2c,  \* frames on their way from server to client
    link  \* "up" until the TCP connection breaks

WiresInit == c2s = << >> /\ s2c = << >> /\ link = "up"

WiresTypeOK ==
    /\ c2s \in Seq(Frame)
    /\ s2c \in Seq(Frame)
    /\ link \in {"up", "down"}
=============================================================================
