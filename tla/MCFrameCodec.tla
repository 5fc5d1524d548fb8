---------------------------- MODULE MCFrameCodec ----------------------------
(***************************************************************************)
(* Instances of FrameCodec for TLC.  With Radix = 8 a small string has at   *)
(* most 7 bytes, a frame at most 62 and its payload 46.                     *)
(***************************************************************************)
EXTENDS FrameCodec

Bytes(n) == [i \in 1 .. n |-> i % Radix]

ZeroTracing == [span_id |-> 0, parent_id |-> 0, trace_id |-> 0, trace_flags |-> 0]
SomeTracing == [span_id |-> 1, parent_id |-> 20, trace_id |-> 300, trace_flags |-> 1]
NoChecksum == [type |-> 0, value |-> 0]

Scheme == <<Bytes(2), Bytes(3)>>
Language == <<Bytes(4), Bytes(4)>>

Inits == {[type |-> "InitRequest", body |-> [version |-> 2, headers |-> << >>]]} \cup
    [type : {"InitResponse"},
     body : [version : {2}, headers : {<<Language>>, <<Language, Scheme>>, <<Scheme, Language>>}]]

(* With a service of one byte the arguments have 12 bytes of a frame.       *)
Requests == [type : {"CallRequest"},
    body : [flags : {0}, ttl : {60}, tracing : {ZeroTracing}, service : {Bytes(1)},
            headers : {<< >>}, checksum : {NoChecksum},
            args : {<<Bytes(10)>>, <<Bytes(11)>>, <<Bytes(3), << >>, Bytes(3)>>,
                    <<Bytes(3), Bytes(4), << >>>>, <<<< >>, << >>, << >>>>}]
           \cup
           [flags : {1}, ttl : {4000}, tracing : {SomeTracing},
            service : {Bytes(1), Bytes(7), Bytes(8)},
            headers : {<<Scheme>>}, checksum : {NoChecksum}, args : {<<<< >>>>}]]

Responses == [type : {"CallResponse"},
    body : [flags : {0}, code : {0, 1}, tracing : {SomeTracing}, headers : {<<Scheme>>},
            checksum : {NoChecksum}, args : {<<Bytes(2)>>, <<Bytes(1), Bytes(2)>>}]]

Continues == [type : {"CallRequestContinue", "CallResponseContinue"},
    body : [flags : {0, 1}, checksum : {NoChecksum},
            args : {<<Bytes(42)>>, <<Bytes(43)>>, <<Bytes(45)>>, <<<< >>, Bytes(30), Bytes(8)>>}]]

Others == {[type |-> "PingRequest", body |-> << >>], [type |-> "PingResponse", body |-> << >>]}
    \cup [type : {"Error"},
          body : [code : {5, 7}, tracing : {ZeroTracing}, message : {<< >>, Bytes(9)}]]

AllPayloads == Inits \cup Requests \cup Responses \cup Continues \cup Others

WithId(p, i) == [id |-> i, type |-> p.type, body |-> p.body]

(* Every payload between two short ones, the first and the last id.         *)
Ping == [type |-> "PingResponse", body |-> << >>]
ThreeFrames == {<<WithId(Ping, 0), WithId(p, U32 - 1), WithId(Ping, 9)>> : p \in AllPayloads}
=============================================================================
