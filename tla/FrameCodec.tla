----------------------------- MODULE FrameCodec -----------------------------
(***************************************************************************)
(* Frames over one direction of a TCP stream: TFrameIdCodec::encode on the  *)
(* writer's side; on the reader's a FramedRead that appends whatever bytes  *)
(* a read returns to its buffer and calls TFrameIdCodec::decode until that  *)
(* asks for more.  TCP keeps the order of the bytes and nothing else: a     *)
(* read may end anywhere, and so may a connection that breaks.              *)
(***************************************************************************)
EXTENDS Payloads

CONSTANT Batches   \* the sequences of frames [id, type, body] that are sent

(* The byte of each frame type.                                             *)
TypeByte == [InitRequest |-> 1, InitResponse |-> 2, CallRequest |-> 3, CallResponse |-> 4,
             CallRequestContinue |-> 19, CallResponseContinue |-> 20,
             Cancel |-> 192, Claim |-> 193, PingRequest |-> 208, PingResponse |-> 209,
             Error |-> 255]

VARIABLES
    toSend,    \* the frames still to be encoded
    sent,      \* the frames that were encoded
    wire,      \* the bytes written and not read
    link,      \* "open", "closed" by the writer, or "broken"
    buf,       \* the buffer of FramedRead
    reader,    \* "reading", "decoding", "ended", or "failed": a frame was misread
    received   \* the frames decoded, [id, type, payload]

vars == <<toSend, sent, wire, link, buf, reader, received>>

Init ==
    /\ toSend \in Batches
    /\ sent = << >>
    /\ wire = << >>
    /\ link = "open"
    /\ buf = << >>
    /\ reader = "reading"
    /\ received = << >>

(* TFrameIdCodec::encode: frame.size() as u16 + FRAME_HEADER_LENGTH, the    *)
(* type, a zero, the id, eight zeros and the payload.                       *)
encode(f) ==
    LET payload == encode_bytes(f.type, f.body)
    IN  put((Len(payload) % U16) + FRAME_HEADER_LENGTH, 2) \o <<TypeByte[f.type], 0>>
        \o put(f.id, 4) \o [i \in 1 .. 8 |-> 0] \o payload

(* The frames the program makes.  The length of a payload without arguments *)
(* is not checked when it is encoded; it consists of the program's own      *)
(* texts (the headers of the handshake, the message of an error), which are *)
(* far shorter than a frame.                                                *)
Sendable(f) ==
    /\ f.id \in 0 .. U32 - 1
    /\ f.type \in DOMAIN Written
    /\ PayloadOK(f.type, f.body)
    /\ "args" \notin DOMAIN f.body =>
          Len(encode_bytes(f.type, f.body)) < U16 - FRAME_HEADER_LENGTH

ASSUME FrameCodecAssumption ==
    \A b \in Batches : b \in Seq(Range(b)) /\ \A f \in Range(b) : Sendable(f)

(* A frame whose payload cannot be encoded is an error of its sender and is *)
(* never written.                                                           *)
Write ==
    /\ link = "open"
    /\ toSend # << >>
    /\ LET f == Head(toSend)
       IN  \/ /\ Encodable(f.type, f.body)
              /\ wire' = wire \o encode(f)
              /\ sent' = Append(sent, f)
           \/ /\ ~Encodable(f.type, f.body)
              /\ UNCHANGED <<wire, sent>>
    /\ toSend' = Tail(toSend)
    /\ UNCHANGED <<link, buf, reader, received>>

(* The writer is dropped once it has nothing left to write.                 *)
CloseStream ==
    /\ link = "open"
    /\ toSend = << >>
    /\ link' = "closed"
    /\ UNCHANGED <<toSend, sent, wire, buf, reader, received>>

(* The connection breaks: what has not been read is lost.                   *)
Break ==
    /\ link = "open"
    /\ link' = "broken"
    /\ wire' = << >>
    /\ UNCHANGED <<toSend, sent, buf, reader, received>>

(* A read returns some of the bytes that have arrived.                      *)
ReadBytes(n) ==
    /\ reader = "reading"
    /\ n <= Len(wire)
    /\ buf' = buf \o SubSeq(wire, 1, n)
    /\ wire' = Rest(wire, n)
    /\ reader' = "decoding"
    /\ UNCHANGED <<toSend, sent, link, received>>

(* A read returns no bytes: decode_eof; a rest in the buffer is an error.   *)
ReadEof ==
    /\ reader = "reading"
    /\ link # "open"
    /\ wire = << >>
    /\ reader' = "ended"
    /\ UNCHANGED <<toSend, sent, wire, link, buf, received>>

(* Seeded fault: the two bytes reserved for the next length are waited for. *)
BufferingTwoMore(src) == Len(src) >= 2 => get(src, 2).val + 2 > Len(src)

(* Seeded fault: only the header is waited for.                             *)
BufferingHeader(src) == Len(src) < FRAME_HEADER_LENGTH

(* TFrameIdCodec::is_buffering: the length, then the whole frame.           *)
is_buffering(src) == Len(src) >= 2 => get(src, 2).val > Len(src)

(* TFrameIdCodec::decode of a frame that is not buffering any more.  Of a   *)
(* frame that is refused the code has taken some bytes off the buffer, here *)
(* all are gone: FramedRead never decodes again after an error.             *)
decode_frame(src) ==
    LET size == get(src, 2).val
        types == {t \in DOMAIN TypeByte : TypeByte[t] = src[3]}
    IN  IF size < FRAME_HEADER_LENGTH \/ size > Len(src) \/ types = {} THEN Failed
        ELSE Got([id      |-> get(Rest(src, 4), 4).val,
                  type    |-> CHOOSE t \in types : TRUE,
                  payload |-> SubSeq(src, FRAME_HEADER_LENGTH + 1, size)],
                 Rest(src, size))

(* FramedRead calls decode, which asks for more bytes or takes a frame off  *)
(* the buffer.                                                              *)
Decode ==
    /\ reader = "decoding"
    /\ \/ /\ is_buffering(buf)
          /\ reader' = "reading"
          /\ UNCHANGED <<buf, received>>
       \/ /\ ~is_buffering(buf)
          /\ LET r == decode_frame(buf)
             IN  /\ received' = IF r.ok THEN Append(received, r.val) ELSE received
                 /\ buf' = r.src
                 /\ reader' = IF r.ok THEN "decoding" ELSE "failed"
    /\ UNCHANGED <<toSend, sent, wire, link>>

Read == \/ \E n \in 1 .. Len(wire) : ReadBytes(n)
        \/ ReadEof
        \/ Decode

Next == Write \/ CloseStream \/ Break \/ Read

Spec == Init /\ [][Next]_vars

(* The writer goes on, and the reader is polled when there is something to  *)
(* read.  A connection need not break.                                      *)
FairSpec == Spec /\ WF_vars(Write \/ CloseStream) /\ WF_vars(Read)

----------------------------------------------------------------------------
(* What comes out of the stream is what went in: the frames that were read  *)
(* are the first of those sent, each with its type, its id and every field  *)
(* of its payload, wherever the reads ended and wherever the stream broke.  *)
FramesIntact ==
    /\ reader # "failed"
    /\ Len(received) <= Len(sent)
    /\ \A i \in DOMAIN received :
          LET payload == decode(received[i].type, received[i].payload)
          IN  /\ received[i].id = sent[i].id
              /\ received[i].type = sent[i].type
              /\ payload.ok /\ payload.val = AsRead(sent[i].body)

(* Whenever FramedRead goes back to the socket, and when the stream has     *)
(* ended, no whole frame is left in the buffer: what waits there is the     *)
(* beginning of the frame that comes next.                                  *)
BufferIsPartial ==
    reader \in {"reading", "ended"} /\ buf # << >> =>
        /\ Len(received) < Len(sent)
        /\ IsStrictPrefix(buf, encode(sent[Len(received) + 1]))

(* Unless the connection breaks, every frame that could be encoded is read  *)
(* and the reader sees the end of the stream.                               *)
AllFramesArrive ==
    [](link # "broken") =>
        <>(toSend = << >> /\ Len(received) = Len(sent) /\ reader = "ended")
=============================================================================
