----------------------------- MODULE FrameSender ----------------------------
(***************************************************************************)
(* The task that writes the frames of a connection: FrameSender::run over   *)
(* the channel queue.  Each side of a connection has one.                   *)
(***************************************************************************)
EXTENDS Integers, Sequences

CONSTANTS BufferSize, WireCapacity

VARIABLES
    queue,  \* the mpsc channel the frames are sent to
    chunk,  \* the frames ready_chunks returned that are not written yet
    wire    \* the outgoing direction of the TCP stream

(* ready_chunks(buffer_size): all frames that are ready, up to buffer_size. *)
TakeChunk ==
    /\ chunk = << >>
    /\ queue # << >>
    /\ LET n == IF Len(queue) < BufferSize THEN Len(queue) ELSE BufferSize
       IN  /\ chunk' = SubSeq(queue, 1, n)
           /\ queue' = SubSeq(queue, n + 1, Len(queue))
    /\ UNCHANGED wire

(* framed_write.send(frame), which waits while the TCP buffers are full.    *)
WriteFrame ==
    /\ chunk # << >>
    /\ Len(wire) < WireCapacity
    /\ wire' = Append(wire, Head(chunk))
    /\ chunk' = Tail(chunk)
    /\ UNCHANGED queue

(* framed_write.send(frame) fails: send_frames logs the error and goes on.  *)
WriteError ==
    /\ chunk # << >>
    /\ chunk' = Tail(chunk)
    /\ UNCHANGED <<queue, wire>>
=============================================================================
